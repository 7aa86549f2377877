------------------------ MODULE SchemaFetcherProofs ------------------------
(***************************************************************************)
(* Theorems of SchemaFetcher, for any sets of threads, URIs and            *)
(* configurations and any TTL, window and cache size; at the end, that it  *)
(* implements SchemaSource, and what its cache may undo.                   *)
(***************************************************************************)
EXTENDS SchemaFetcher, FiniteSetTheorems, TLAPS

(* What the proofs use of the assumptions, gathered.                       *)
LEMMA Constants ==
  /\ MaxVersion \in Nat \ {0} /\ CacheTtl \in Nat \ {0} /\ MaxSize \in Nat
  /\ StalenessWindow \in Nat /\ Horizon \in Nat
  /\ CacheTtl <= Horizon /\ StalenessWindow < Horizon
  /\ None \notin FetchedSchema /\ None \notin Entry /\ None \notin ContentTypes
  /\ None \notin Configs
  /\ \A c \in Configs : c.uri \in Uris /\ c.override \in ContentTypes \cup {None}
BY BoundsAssumption, ParametersAssumption, NoneAssumption, ConfigsAssumption,
   NoneIsNoConfig

(* An entry is made of a schema and its two ages.                          *)
LEMMA EntryFields ==
  /\ \A e \in Entry : /\ e.schema \in FetchedSchema /\ e.age \in 0 .. Horizon
                      /\ e.written \in 0 .. CacheTtl - 1
  /\ \A s \in FetchedSchema : s.version \in Versions /\ s.contentType \in ContentTypes
  /\ \A s \in FetchedSchema, a \in 0 .. Horizon :
       [schema |-> s, age |-> a, written |-> 0] \in Entry
  /\ \A v \in Versions, k \in ContentTypes :
       [version |-> v, contentType |-> k] \in FetchedSchema
BY Constants DEF Entry, FetchedSchema

(* A timer stays in its range and below the second that passes.            *)
LEMMA OlderType ==
  \A a \in 0 .. Horizon : Older(a) \in 0 .. Horizon /\ a <= Older(a)
BY Constants DEF Older

(* The entry of u a second later.                                          *)
LEMMA AgedEntry ==
  ASSUME cache \in [Uris -> Entry \cup {None}], NEW u \in Uris
  PROVE  /\ Aged[u] \in Entry \cup {None}
         /\ Aged[u] # None =>
              /\ cache[u] # None /\ Aged[u].schema = cache[u].schema
              /\ cache[u].written + 1 < CacheTtl
              /\ Aged[u].written = cache[u].written + 1
              /\ Aged[u].age = Older(cache[u].age)
         /\ Aged[u] = None => cache[u] = None \/ cache[u].written + 1 >= CacheTtl
<1>1. CASE cache[u] = None \/ cache[u].written + 1 >= CacheTtl
  BY <1>1, Constants DEF Aged
<1>2. CASE cache[u] # None /\ cache[u].written + 1 < CacheTtl
  <2>1. cache[u] \in Entry
    BY <1>2
  <2>2. /\ cache[u].written + 1 \in 0 .. CacheTtl - 1
        /\ Older(cache[u].age) \in 0 .. Horizon /\ cache[u].schema \in FetchedSchema
    BY <1>2, <2>1, EntryFields, OlderType, Constants
  <2>3. ~(cache[u] = None \/ cache[u].written + 1 >= CacheTtl)
    BY <1>2, <2>1, EntryFields, Constants
  <2>4. Aged[u] = [cache[u] EXCEPT !.age = Older(@), !.written = @ + 1]
    BY <2>3 DEF Aged
  <2>5. Aged[u] = [schema |-> cache[u].schema, age |-> Older(cache[u].age),
                   written |-> cache[u].written + 1]
    BY <2>1, <2>4 DEF Entry
  <2>6. Aged[u] \in Entry
    BY <2>2, <2>5 DEF Entry
  <2> QED  BY <1>2, <2>5, <2>6, Constants
<1>3. cache[u] = None \/ (cache[u].written + 1 \in Int /\ CacheTtl \in Int)
  BY EntryFields, Constants
<1> QED  BY <1>1, <1>2, <1>3

-----------------------------------------------------------------------------
(* Control: how the locals of a call hang together.                        *)
Control ==
  \A t \in Threads :
    /\ pc[t] = "idle" <=> call[t] = None
    /\ pc[t] = "done" <=> outcome[t] # Pending
    /\ pc[t] \in {"refresh", "store", "restore"} => held[t] # None
    /\ outcome[t].kind \in {"fetched", "revalidated", "fallback"} =>
         outcome[t].schema # None

(* The type invariant without and with the clocks.                         *)
StepOK ==
  /\ cache \in [Uris -> Entry \cup {None}]
  /\ origin \in [Uris -> Versions]
  /\ call \in [Threads -> Configs \cup {None}]
  /\ pc \in [Threads -> Places]
  /\ held \in [Threads -> FetchedSchema \cup {None}]
  /\ outcome \in [Threads -> [kind : Kinds, schema : FetchedSchema \cup {None}]]
  /\ seen \in [Threads -> SUBSET Versions]
ClocksOK ==
  /\ stamp \in [Threads -> 0 .. Horizon]
  /\ since \in [Threads -> 0 .. Horizon]
  /\ confirmed \in [Uris -> [Versions -> 0 .. Horizon]]
  /\ answered \in [Uris -> [Versions -> 0 .. Horizon]]
  /\ lag \in 0 .. Horizon

TypeInv == StepOK /\ ClocksOK /\ Control

LEMMA InitTypeInv == Init => TypeInv
<1> SUFFICES ASSUME Init PROVE TypeInv
  OBVIOUS
<1>1. StepOK
  BY Constants DEF Init, StepOK, CacheInit, Versions, Pending, Kinds, Places
<1>2. ClocksOK
  BY Constants DEF Init, ClocksOK
<1>3. Control
  BY DEF Init, Control, Pending
<1> QED  BY <1>1, <1>2, <1>3 DEF TypeInv

(* What a call under way has in its variables.                             *)
LEMMA UnderWay ==
  ASSUME TypeInv, NEW t \in Threads
  PROVE  /\ pc[t] # "idle" => call[t] \in Configs /\ call[t].uri \in Uris
         /\ pc[t] \in {"refresh", "store", "restore"} => held[t] # None
         /\ held[t] # None => held[t] \in FetchedSchema /\ held[t].version \in Versions
         /\ pc[t] # "done" => outcome[t] = Pending /\ outcome[t].kind = "pending"
BY Constants, EntryFields DEF TypeInv, StepOK, Control, Pending

-----------------------------------------------------------------------------
(* The steps of a call leave every other call alone.                       *)
OthersStay(t) ==
  \A s \in Threads \ {t} :
    /\ pc'[s] = pc[s] /\ call'[s] = call[s] /\ held'[s] = held[s]
    /\ outcome'[s] = outcome[s] /\ seen'[s] = seen[s]
    /\ stamp'[s] = stamp[s] /\ since'[s] = since[s]

(* Each step of a call, as the values it leaves behind.                    *)
LEMMA BeginStep ==
  ASSUME TypeInv, NEW t \in Threads, NEW c \in Configs, NEW host \in Hosts,
         Fetch(t, c, host) \/ RejectUri(t, c, host) \/ RejectRequest(t, c, host)
  PROVE  /\ OthersStay(t) /\ UNCHANGED <<cache, origin, clocks>>
         /\ pc[t] = "idle" /\ call'[t] = c /\ seen'[t] = {origin[c.uri]}
         /\ \/ /\ pc'[t] = "sent" /\ held'[t] = Snapshot(c.uri)
               /\ UNCHANGED outcome
            \/ /\ pc'[t] = "done" /\ UNCHANGED held
               /\ \E kind \in {"permanent", "illegal"} : outcome'[t] = Throws(kind)
<1>1. CASE Fetch(t, c, host)
  BY <1>1 DEF Fetch, Ask, OthersStay, clocks, TypeInv, StepOK
<1>2. ASSUME NEW kind \in {"permanent", "illegal"}, Reject(t, c, kind)
      PROVE  /\ OthersStay(t) /\ UNCHANGED <<cache, origin, clocks, held>>
             /\ pc[t] = "idle" /\ call'[t] = c /\ seen'[t] = {origin[c.uri]}
             /\ pc'[t] = "done" /\ outcome'[t] = Throws(kind)
  BY <1>2 DEF Reject, Ask, OthersStay, clocks, TypeInv, StepOK
<1> QED  BY <1>1, <1>2 DEF RejectUri, RejectRequest

LEMMA AnswerStep ==
  ASSUME TypeInv, NEW t \in Threads, Answer(t)
  PROVE  /\ OthersStay(t) /\ UNCHANGED <<cache, origin, call, stamp, outcome, seen, answered, lag>>
         /\ pc[t] = "sent"
         /\ \/ /\ pc'[t] = "body" /\ held'[t] \in FetchedSchema
               /\ held'[t].version = origin[call[t].uri]
               /\ Confirms(t, held'[t].version)
            \/ /\ pc'[t] = "refresh" /\ held'[t] = held[t]
               /\ Unchanged(call[t].uri, held[t])
               /\ Confirms(t, held'[t].version)
            \/ /\ pc'[t] = "body" /\ held'[t] = None
               /\ UNCHANGED <<since, confirmed>>
<1>1. ASSUME NEW header \in ContentTypes \cup {None}, ReceiveSchema(t, header)
      PROVE  /\ OthersStay(t)
             /\ UNCHANGED <<cache, origin, call, stamp, outcome, seen, answered, lag>>
             /\ pc[t] = "sent" /\ pc'[t] = "body" /\ held'[t] \in FetchedSchema
             /\ held'[t].version = origin[call[t].uri]
             /\ Confirms(t, held'[t].version)
  <2>1. pc[t] = "sent"
    BY <1>1 DEF ReceiveSchema
  <2>2. /\ call[t] \in Configs /\ call[t].override \in ContentTypes \cup {None}
        /\ origin[call[t].uri] \in Versions
    BY <2>1, UnderWay, Constants DEF TypeInv, StepOK
  <2>3. ContentType(call[t], header) \in ContentTypes
    BY <1>1, <2>2 DEF ReceiveSchema, ContentType
  <2> DEFINE schema == [version |-> origin[call[t].uri],
                        contentType |-> ContentType(call[t], header)]
  <2>4. schema \in FetchedSchema /\ schema.version = origin[call[t].uri]
    BY <2>2, <2>3, EntryFields
  <2>5. Receive(t, "body", schema) /\ Confirms(t, schema.version)
    BY <1>1 DEF ReceiveSchema
  <2> HIDE DEF schema
  <2>6. OthersStay(t) /\ held'[t] = schema /\ pc'[t] = "body"
    BY <2>5 DEF Receive, Confirms, OthersStay, TypeInv, StepOK, ClocksOK
  <2> QED  BY <2>1, <2>4, <2>5, <2>6 DEF Receive
<1>2. CASE ReceiveNotModified(t)
  BY <1>2 DEF ReceiveNotModified, Receive, Confirms, OthersStay, TypeInv, StepOK, ClocksOK
<1>3. CASE ReceiveUseless(t)
  BY <1>3 DEF ReceiveUseless, Receive, OthersStay, TypeInv, StepOK
<1> QED  BY <1>1, <1>2, <1>3 DEF Answer

LEMMA StampStep ==
  ASSUME TypeInv, NEW t \in Threads, StampFetched(t) \/ StampCached(t)
  PROVE  /\ OthersStay(t)
         /\ UNCHANGED <<cache, origin, call, held, outcome, seen, since, confirmed, answered, lag>>
         /\ pc[t] \in {"body", "refresh"} /\ held[t] # None
         /\ pc'[t] \in {"store", "restore"} /\ stamp' = [stamp EXCEPT ![t] = 0]
<1>1. held[t] # None
  BY UnderWay DEF StampFetched, StampCached
<1> QED
  BY <1>1 DEF StampFetched, StampCached, Build, OthersStay, TypeInv, StepOK, ClocksOK

LEMMA ReturnStep ==
  ASSUME TypeInv, NEW t \in Threads, NEW result, Return(t, result)
  PROVE  /\ OthersStay(t) /\ UNCHANGED <<origin, call, seen, confirmed>>
         /\ pc'[t] = "done" /\ held'[t] = None /\ outcome'[t] = result
         /\ stamp'[t] = 0 /\ since'[t] = 0
BY DEF Return, OthersStay, TypeInv, StepOK, ClocksOK

LEMMA PutStep ==
  ASSUME TypeInv, NEW t \in Threads, NEW kind \in {"fetched", "revalidated"},
         pc[t] \in {"store", "restore"}, PutHeld(t, kind)
  PROVE  /\ OthersStay(t) /\ UNCHANGED <<origin, call, seen, confirmed>>
         /\ pc'[t] = "done" /\ held'[t] = None
         /\ outcome'[t] = Returns(kind, held[t])
         /\ stamp'[t] = 0 /\ since'[t] = 0
         /\ call[t].uri \in Uris /\ held[t] \in FetchedSchema
         /\ cache' = [cache EXCEPT ![call[t].uri] =
                        [schema |-> held[t], age |-> stamp[t], written |-> 0]]
         /\ cache'[call[t].uri] \in Entry
         /\ answered' = [answered EXCEPT ![call[t].uri][held[t].version] = 0]
         /\ lag' \in 0 .. Horizon /\ lag <= lag' /\ since[t] <= lag'
<1>1. Return(t, Returns(kind, held[t]))
  BY DEF PutHeld
<1>2. call[t].uri \in Uris /\ held[t] \in FetchedSchema
  BY UnderWay
<1>3. /\ cache' = [cache EXCEPT ![call[t].uri] =
                     [schema |-> held[t], age |-> stamp[t], written |-> 0]]
      /\ answered' = [answered EXCEPT ![call[t].uri][held[t].version] = 0]
  BY DEF PutHeld, Put
<1>4. cache'[call[t].uri] \in Entry
  BY <1>2, <1>3, EntryFields DEF TypeInv, StepOK, ClocksOK
<1>5. lag' \in 0 .. Horizon /\ lag <= lag' /\ since[t] <= lag'
  BY DEF PutHeld, TypeInv, ClocksOK
<1> QED  BY <1>1, <1>2, <1>3, <1>4, <1>5, ReturnStep

(* A call that ends without a put.                                         *)
LEMMA EndStep ==
  ASSUME TypeInv, NEW t \in Threads, RejectUntyped(t) \/ Fail(t)
  PROVE  /\ OthersStay(t) /\ UNCHANGED <<cache, origin, call, seen, confirmed, answered, lag>>
         /\ pc[t] \in {"sent", "body"} /\ pc'[t] = "done" /\ held'[t] = None
         /\ stamp'[t] = 0 /\ since'[t] = 0
         /\ call[t].uri \in Uris
         /\ \/ RejectUntyped(t) /\ outcome'[t] = Throws("permanent")
            \/ FallbackMiss(t) /\ outcome'[t] = Throws("transient")
            \/ /\ FallbackHit(t) /\ cache[call[t].uri] \in Entry
               /\ outcome'[t] = Returns("fallback", cache[call[t].uri].schema)
<1>1. pc[t] \in {"sent", "body"}
  BY DEF RejectUntyped, Fail, FallbackHit, FallbackMiss, Failing
<1>2. call[t].uri \in Uris
  BY <1>1, UnderWay
<1>3. CASE RejectUntyped(t)
  BY <1>1, <1>2, <1>3, ReturnStep DEF RejectUntyped
<1>4. CASE FallbackMiss(t)
  BY <1>1, <1>2, <1>4, ReturnStep DEF FallbackMiss
<1>5. CASE FallbackHit(t)
  <2>1. cache[call[t].uri] \in Entry
    BY <1>2, <1>5 DEF FallbackHit, Usable, Get, TypeInv, StepOK
  <2> QED  BY <1>1, <1>2, <1>5, <2>1, ReturnStep DEF FallbackHit, Get
<1> QED  BY <1>3, <1>4, <1>5 DEF Fail

LEMMA FinishStep ==
  ASSUME TypeInv, NEW t \in Threads, Finish(t)
  PROVE  /\ OthersStay(t) /\ UNCHANGED <<cache, origin, held, clocks>>
         /\ pc[t] = "done" /\ pc'[t] = "idle" /\ call'[t] = None
         /\ outcome'[t] = Pending /\ seen'[t] = {}
BY DEF Finish, OthersStay, clocks, TypeInv, StepOK

(* Every step is one of these, or none of a call.                          *)
LEMMA Steps ==
  ASSUME [Next]_vars
  PROVE  \/ \E t \in Threads :
              \/ \E c \in Configs, host \in Hosts :
                   Fetch(t, c, host) \/ RejectUri(t, c, host) \/ RejectRequest(t, c, host)
              \/ Answer(t)
              \/ StampFetched(t) \/ StampCached(t)
              \/ \E kind \in {"fetched", "revalidated"} :
                   pc[t] \in {"store", "restore"} /\ PutHeld(t, kind)
              \/ RejectUntyped(t) \/ Fail(t)
              \/ Finish(t)
         \/ \E u \in Uris : Publish(u) \/ EvictEntry(u)
         \/ Tick
         \/ UNCHANGED vars
<1>1. ASSUME NEW t \in Threads, StoreFetched(t)
      PROVE  pc[t] \in {"store", "restore"} /\ PutHeld(t, "fetched")
  BY <1>1 DEF StoreFetched
<1>2. ASSUME NEW t \in Threads, RefreshCached(t)
      PROVE  pc[t] \in {"store", "restore"} /\ PutHeld(t, "revalidated")
  BY <1>2 DEF RefreshCached
<1> QED  BY <1>1, <1>2 DEF Next, Begin, Use, Proceed

-----------------------------------------------------------------------------
(* Type correctness.                                                       *)

(* Throws and Returns make results.                                        *)
LEMMA Results ==
  /\ Pending \in [kind : Kinds, schema : FetchedSchema \cup {None}]
  /\ \A kind \in Kinds : Throws(kind) \in [kind : Kinds, schema : FetchedSchema \cup {None}]
  /\ \A kind \in Kinds, s \in FetchedSchema :
       Returns(kind, s) \in [kind : Kinds, schema : FetchedSchema \cup {None}]
BY DEF Pending, Throws, Returns, Kinds

LEMMA CallStepOK ==
  ASSUME TypeInv, NEW t \in Threads,
         \/ \E c \in Configs, host \in Hosts :
              Fetch(t, c, host) \/ RejectUri(t, c, host) \/ RejectRequest(t, c, host)
         \/ Answer(t)
         \/ StampFetched(t) \/ StampCached(t)
         \/ \E kind \in {"fetched", "revalidated"} :
              pc[t] \in {"store", "restore"} /\ PutHeld(t, kind)
         \/ RejectUntyped(t) \/ Fail(t)
         \/ Finish(t)
  PROVE  StepOK'
<1> USE DEF StepOK, Places
<1>1. ASSUME NEW c \in Configs, NEW host \in Hosts, Fetch(t, c, host)
      PROVE  StepOK'
  <2>1. Snapshot(c.uri) \in FetchedSchema \cup {None}
    BY EntryFields, Constants DEF Snapshot, Get, TypeInv
  <2>2. c.uri \in Uris
    BY Constants
  <2> QED  BY <1>1, <2>1, <2>2 DEF Fetch, Ask, TypeInv
<1>2. ASSUME NEW c \in Configs, NEW kind \in {"permanent", "illegal"}, Reject(t, c, kind)
      PROVE  StepOK'
  <2>1. c.uri \in Uris /\ kind \in Kinds
    BY Constants DEF Kinds
  <2> QED  BY <1>2, <2>1, Results DEF Reject, Ask, TypeInv
<1>3. CASE Answer(t)
  <2>1. held'[t] \in FetchedSchema \cup {None}
    BY <1>3, AnswerStep DEF TypeInv
  <2>2. /\ \E place \in {"body", "refresh"} : pc' = [pc EXCEPT ![t] = place]
        /\ \E schema : held' = [held EXCEPT ![t] = schema]
        /\ UNCHANGED <<cache, origin, call, outcome, seen>>
    BY <1>3 DEF Answer, ReceiveSchema, ReceiveUseless, ReceiveNotModified, Receive
  <2> QED  BY <2>1, <2>2 DEF TypeInv
<1>4. CASE StampFetched(t) \/ StampCached(t)
  BY <1>4 DEF StampFetched, StampCached, Build, TypeInv
<1>5. ASSUME NEW kind \in {"fetched", "revalidated"},
             pc[t] \in {"store", "restore"}, PutHeld(t, kind)
      PROVE  StepOK'
  <2>1. kind \in Kinds
    BY DEF Kinds
  <2>2. cache' \in [Uris -> Entry \cup {None}]
    <3>1. /\ cache' = [cache EXCEPT ![call[t].uri] =
                          [schema |-> held[t], age |-> stamp[t], written |-> 0]]
          /\ cache'[call[t].uri] \in Entry /\ call[t].uri \in Uris
      BY <1>5, PutStep
    <3> QED  BY <3>1 DEF TypeInv
  <2>3. Returns(kind, held[t]) \in [kind : Kinds, schema : FetchedSchema \cup {None}]
    BY <1>5, <2>1, UnderWay, Results
  <2> QED  BY <1>5, <2>2, <2>3 DEF PutHeld, Return, TypeInv
<1>6. ASSUME NEW result \in [kind : Kinds, schema : FetchedSchema \cup {None}],
             Return(t, result), UNCHANGED cache
      PROVE  StepOK'
  BY <1>6 DEF Return, TypeInv
<1>7. CASE RejectUntyped(t) \/ Fail(t)
  <2>1. {"permanent", "transient", "fallback"} \subseteq Kinds
    BY DEF Kinds
  <2>2. CASE RejectUntyped(t)
    BY <1>6, <2>1, <2>2, Results DEF RejectUntyped
  <2>3. CASE FallbackMiss(t)
    BY <1>6, <2>1, <2>3, Results DEF FallbackMiss
  <2>4. CASE FallbackHit(t)
    <3>1. Get(call[t].uri).schema \in FetchedSchema
      BY <1>7, <2>4, EndStep, EntryFields, Constants
         DEF FallbackHit, Usable, Get, TypeInv
    <3> QED  BY <1>6, <2>1, <2>4, <3>1, Results DEF FallbackHit
  <2> QED  BY <1>7, <2>2, <2>3, <2>4 DEF Fail
<1>8. CASE Finish(t)
  BY <1>8, Results DEF Finish, TypeInv
<1> QED
  BY <1>1, <1>2, <1>3, <1>4, <1>5, <1>7, <1>8 DEF RejectUri, RejectRequest

LEMMA CallClocksOK ==
  ASSUME TypeInv, NEW t \in Threads,
         \/ \E c \in Configs, host \in Hosts :
              Fetch(t, c, host) \/ RejectUri(t, c, host) \/ RejectRequest(t, c, host)
         \/ Answer(t)
         \/ StampFetched(t) \/ StampCached(t)
         \/ \E kind \in {"fetched", "revalidated"} :
              pc[t] \in {"store", "restore"} /\ PutHeld(t, kind)
         \/ RejectUntyped(t) \/ Fail(t)
         \/ Finish(t)
  PROVE  ClocksOK'
<1> USE Constants DEF ClocksOK
<1>1. CASE UNCHANGED clocks
  BY <1>1 DEF clocks, TypeInv
<1>2. CASE Answer(t)
  <2>1. ASSUME NEW v \in Versions, Confirms(t, v), UNCHANGED <<stamp, answered, lag>>
        PROVE  ClocksOK'
    <3>1. call[t].uri \in Uris
      BY <1>2, AnswerStep, UnderWay
    <3>2. confirmed' = [confirmed EXCEPT ![call[t].uri][v] = 0]
      BY <2>1 DEF Confirms
    <3>3. confirmed' \in [Uris -> [Versions -> 0 .. Horizon]]
      BY <3>1, <3>2 DEF TypeInv
    <3> QED  BY <2>1, <3>3 DEF Confirms, TypeInv
  <2>2. CASE UNCHANGED <<stamp, since, confirmed, answered, lag>>
    BY <2>2 DEF TypeInv
  <2>3. /\ UNCHANGED <<stamp, answered, lag>>
        /\ \/ held'[t] # None /\ Confirms(t, held'[t].version)
           \/ UNCHANGED <<since, confirmed>>
    BY <1>2, AnswerStep DEF Unchanged
  <2>4. held'[t] \in FetchedSchema \cup {None}
    BY <1>2, AnswerStep, UnderWay
  <2>5. held'[t] # None => held'[t].version \in Versions
    BY <2>4, EntryFields
  <2> HIDE DEF ClocksOK
  <2> QED  BY <2>1, <2>2, <2>3, <2>5
<1>3. CASE StampFetched(t) \/ StampCached(t)
  BY <1>3, StampStep DEF TypeInv
<1>4. ASSUME NEW kind \in {"fetched", "revalidated"},
             pc[t] \in {"store", "restore"}, PutHeld(t, kind)
      PROVE  ClocksOK'
  <2>1. answered' \in [Uris -> [Versions -> 0 .. Horizon]]
    <3>1. /\ call[t].uri \in Uris /\ held[t] \in FetchedSchema
          /\ answered' = [answered EXCEPT ![call[t].uri][held[t].version] = 0]
      BY <1>4, PutStep
    <3>2. held[t].version \in Versions
      BY <3>1, EntryFields
    <3> QED  BY <3>1, <3>2 DEF TypeInv
  <2>2. lag' \in 0 .. Horizon
    BY <1>4, PutStep
  <2> QED  BY <1>4, <2>1, <2>2 DEF PutHeld, Return, TypeInv
<1>5. CASE RejectUntyped(t) \/ Fail(t)
  BY <1>5 DEF RejectUntyped, Fail, FallbackHit, FallbackMiss, Return, TypeInv
<1> QED  BY <1>1, <1>2, <1>3, <1>4, <1>5, BeginStep, FinishStep

LEMMA CallControl ==
  ASSUME TypeInv, NEW t \in Threads,
         \/ \E c \in Configs, host \in Hosts :
              Fetch(t, c, host) \/ RejectUri(t, c, host) \/ RejectRequest(t, c, host)
         \/ Answer(t)
         \/ StampFetched(t) \/ StampCached(t)
         \/ \E kind \in {"fetched", "revalidated"} :
              pc[t] \in {"store", "restore"} /\ PutHeld(t, kind)
         \/ RejectUntyped(t) \/ Fail(t)
         \/ Finish(t)
  PROVE  Control'
<1> DEFINE Good == /\ pc'[t] = "idle" <=> call'[t] = None
                   /\ pc'[t] = "done" <=> outcome'[t] # Pending
                   /\ pc'[t] \in {"refresh", "store", "restore"} => held'[t] # None
                   /\ outcome'[t].kind \in {"fetched", "revalidated", "fallback"} =>
                        outcome'[t].schema # None
<1>a. OthersStay(t) /\ Good => Control'
  BY DEF OthersStay, Control, TypeInv
<1>1. ASSUME NEW c \in Configs, NEW host \in Hosts,
             Fetch(t, c, host) \/ RejectUri(t, c, host) \/ RejectRequest(t, c, host)
      PROVE  OthersStay(t) /\ Good
  <2>1. /\ OthersStay(t) /\ pc[t] = "idle" /\ call'[t] = c
        /\ \/ pc'[t] = "sent" /\ UNCHANGED outcome
           \/ /\ pc'[t] = "done"
              /\ \E kind \in {"permanent", "illegal"} : outcome'[t] = Throws(kind)
    BY <1>1, BeginStep
  <2>2. outcome[t] = Pending
    BY <2>1, UnderWay
  <2>3. c # None
    BY Constants
  <2> QED  BY <2>1, <2>2, <2>3 DEF Pending, Throws
<1>2. ASSUME Answer(t)
      PROVE  OthersStay(t) /\ Good
  <2>1. /\ OthersStay(t) /\ UNCHANGED <<call, outcome>> /\ pc[t] = "sent"
        /\ \/ pc'[t] = "body"
           \/ pc'[t] = "refresh" /\ held'[t] # None
    BY <1>2, AnswerStep DEF Unchanged
  <2>2. outcome[t] = Pending /\ call[t] # None
    BY <2>1, UnderWay, Constants
  <2> QED  BY <2>1, <2>2 DEF Pending
<1>3. ASSUME StampFetched(t) \/ StampCached(t)
      PROVE  OthersStay(t) /\ Good
  <2>1. /\ OthersStay(t) /\ UNCHANGED <<call, outcome, held>>
        /\ pc[t] \in {"body", "refresh"} /\ held[t] # None
        /\ pc'[t] \in {"store", "restore"}
    BY <1>3, StampStep
  <2>2. outcome[t] = Pending /\ call[t] # None
    BY <2>1, UnderWay, Constants
  <2> QED  BY <2>1, <2>2 DEF Pending
<1>4. ASSUME NEW kind \in {"fetched", "revalidated"},
             pc[t] \in {"store", "restore"}, PutHeld(t, kind)
      PROVE  OthersStay(t) /\ Good
  <2>1. /\ OthersStay(t) /\ UNCHANGED call /\ pc'[t] = "done"
        /\ outcome'[t] = Returns(kind, held[t]) /\ held[t] \in FetchedSchema
    BY <1>4, PutStep
  <2>2. call[t] # None /\ held[t] # None
    BY <1>4, UnderWay, Constants
  <2> QED  BY <2>1, <2>2 DEF Pending, Returns
<1>5. ASSUME RejectUntyped(t) \/ Fail(t)
      PROVE  OthersStay(t) /\ Good
  <2>1. /\ OthersStay(t) /\ UNCHANGED call
        /\ pc[t] \in {"sent", "body"} /\ pc'[t] = "done"
        /\ \/ \E kind \in {"permanent", "transient"} : outcome'[t] = Throws(kind)
           \/ /\ cache[call[t].uri] \in Entry
              /\ outcome'[t] = Returns("fallback", cache[call[t].uri].schema)
    BY <1>5, EndStep
  <2>2. call[t] # None /\ \A e \in Entry : e.schema # None
    BY <2>1, UnderWay, Constants, EntryFields
  <2> QED  BY <2>1, <2>2 DEF Pending, Throws, Returns
<1>6. ASSUME Finish(t)
      PROVE  OthersStay(t) /\ Good
  BY <1>6, FinishStep DEF Pending
<1> HIDE DEF Good
<1> QED  BY <1>1, <1>2, <1>3, <1>4, <1>5, <1>6, <1>a

LEMMA NextTypeInv == TypeInv /\ [Next]_vars => TypeInv'
<1> SUFFICES ASSUME TypeInv, [Next]_vars PROVE TypeInv'
  OBVIOUS
<1>1. ASSUME NEW u \in Uris, Publish(u)
      PROVE  TypeInv'
  <2>1. origin[u] + 1 \in Versions
    BY <1>1, Constants DEF Publish, Versions, TypeInv, StepOK
  <2>2. seen' \in [Threads -> SUBSET Versions]
    <3>1. seen \in [Threads -> SUBSET Versions]
      BY DEF TypeInv, StepOK
    <3> QED  BY <1>1, <2>1, <3>1 DEF Publish
  <2>3. StepOK'
    BY <1>1, <2>1, <2>2 DEF Publish, TypeInv, StepOK
  <2>4. ClocksOK' /\ Control'
    BY <1>1 DEF Publish, clocks, TypeInv, ClocksOK, Control
  <2> QED  BY <2>3, <2>4 DEF TypeInv
<1>2. ASSUME NEW u \in Uris, EvictEntry(u)
      PROVE  TypeInv'
  <2>1. StepOK'
    BY <1>2 DEF EvictEntry, Evict, TypeInv, StepOK
  <2>2. ClocksOK' /\ Control'
    BY <1>2 DEF EvictEntry, clocks, TypeInv, ClocksOK, Control
  <2> QED  BY <2>1, <2>2 DEF TypeInv
<1>3. CASE Tick
  <2>1. StepOK'
    <3>1. cache' \in [Uris -> Entry \cup {None}]
      BY <1>3, AgedEntry DEF Tick, Aged, TypeInv, StepOK
    <3> QED  BY <1>3, <3>1 DEF Tick, TypeInv, StepOK
  <2>2. ClocksOK'
    BY <1>3, OlderType DEF Tick, TypeInv, ClocksOK
  <2>3. Control'
    BY <1>3 DEF Tick, TypeInv, Control
  <2> QED  BY <2>1, <2>2, <2>3 DEF TypeInv
<1>4. CASE UNCHANGED vars
  BY <1>4 DEF vars, TypeInv, StepOK, ClocksOK, Control
<1> QED
  BY <1>1, <1>2, <1>3, <1>4, Steps, CallStepOK, CallClocksOK, CallControl DEF TypeInv

(* Every variable keeps its type: no put stores anything but a schema, and *)
(* no entry reaches the TTL.                                               *)
THEOREM TypeCorrect == Spec => []TypeOK
<1>1. TypeInv => TypeOK
  BY DEF TypeInv, StepOK, ClocksOK, TypeOK, CacheTypeOK
<1> QED  BY <1>1, InitTypeInv, NextTypeInv, PTL DEF Spec

-----------------------------------------------------------------------------
(* A version is alike to itself.                                           *)
LEMMA AlikeReflexive ==
  /\ \A u \in Uris, v \in Versions : v \in Alike[u][v]
  /\ \A u \in Uris, v \in Versions :
       Validator[u] # "lastModified" => Alike[u][v] = {v}
BY DEF Alike

(* A running call has seen the version current now, and what it carries or *)
(* has returned from an answer is alike to one it has seen.                *)
SeenInv ==
  /\ \A t \in Threads : Running(t) => origin[call[t].uri] \in seen[t]
  /\ \A t \in Threads : Carries(t) =>
       seen[t] \cap Alike[call[t].uri][held[t].version] # {}
  /\ ReturnedWasCurrent

(* At rest a thread carries nothing.                                       *)
RestInv == \A t \in Threads : pc[t] \in {"idle", "done"} => held[t] = None

LEMMA InitSeenInv == Init => SeenInv /\ RestInv
BY DEF Init, SeenInv, RestInv, ReturnedWasCurrent, Running, Carries, Pending

LEMMA NextRestInv == TypeInv /\ RestInv /\ [Next]_vars => RestInv'
<1> SUFFICES ASSUME TypeInv, RestInv, [Next]_vars PROVE RestInv'
  OBVIOUS
<1>1. ASSUME NEW t \in Threads, OthersStay(t),
             pc'[t] \in {"idle", "done"} => held'[t] = None
      PROVE  RestInv'
  BY <1>1 DEF OthersStay, RestInv
<1>2. ASSUME NEW t \in Threads, NEW c \in Configs, NEW host \in Hosts,
             Fetch(t, c, host) \/ RejectUri(t, c, host) \/ RejectRequest(t, c, host)
      PROVE  RestInv'
  <2>1. /\ OthersStay(t) /\ pc[t] = "idle"
        /\ pc'[t] = "sent" \/ UNCHANGED held
    BY <1>2, BeginStep
  <2> QED  BY <1>1, <2>1 DEF RestInv
<1>3. ASSUME NEW t \in Threads, Answer(t)
      PROVE  RestInv'
  <2>1. OthersStay(t) /\ pc'[t] \in {"body", "refresh"}
    BY <1>3, AnswerStep
  <2> QED  BY <1>1, <2>1
<1>4. ASSUME NEW t \in Threads, StampFetched(t) \/ StampCached(t)
      PROVE  RestInv'
  <2>1. OthersStay(t) /\ pc'[t] \in {"store", "restore"}
    BY <1>4, StampStep
  <2> QED  BY <1>1, <2>1
<1>5. ASSUME NEW t \in Threads, NEW kind \in {"fetched", "revalidated"},
             pc[t] \in {"store", "restore"}, PutHeld(t, kind)
      PROVE  RestInv'
  <2>1. OthersStay(t) /\ held'[t] = None
    BY <1>5, PutStep
  <2> QED  BY <1>1, <2>1
<1>6. ASSUME NEW t \in Threads, RejectUntyped(t) \/ Fail(t)
      PROVE  RestInv'
  <2>1. OthersStay(t) /\ held'[t] = None
    BY <1>6, EndStep
  <2> QED  BY <1>1, <2>1
<1>7. ASSUME NEW t \in Threads, Finish(t)
      PROVE  RestInv'
  <2>1. OthersStay(t) /\ pc[t] = "done" /\ UNCHANGED held
    BY <1>7, FinishStep
  <2> QED  BY <1>1, <2>1 DEF RestInv
<1>8. CASE UNCHANGED <<pc, held>>
  BY <1>8 DEF RestInv
<1> QED
  BY <1>2, <1>3, <1>4, <1>5, <1>6, <1>7, <1>8, Steps DEF Publish, EvictEntry, Tick, vars

(* A step of one call breaks SeenInv at that call or nowhere.              *)
LEMMA OneCallSeen ==
  ASSUME SeenInv, NEW t \in Threads, OthersStay(t), UNCHANGED origin,
         Running(t)' => origin'[call'[t].uri] \in seen'[t],
         Carries(t)' => seen'[t] \cap Alike[call'[t].uri][held'[t].version] # {},
         outcome'[t].kind \in {"fetched", "revalidated"} =>
           seen'[t] \cap Alike[call'[t].uri][outcome'[t].schema.version] # {}
  PROVE  SeenInv'
<1>1. ASSUME NEW s \in Threads, Running(s)'
      PROVE  origin'[call'[s].uri] \in seen'[s]
  BY <1>1 DEF SeenInv, OthersStay, Running
<1>2. ASSUME NEW s \in Threads, Carries(s)'
      PROVE  seen'[s] \cap Alike[call'[s].uri][held'[s].version] # {}
  BY <1>2 DEF SeenInv, OthersStay, Carries
<1>3. ASSUME NEW s \in Threads, outcome'[s].kind \in {"fetched", "revalidated"}
      PROVE  seen'[s] \cap Alike[call'[s].uri][outcome'[s].schema.version] # {}
  BY <1>3 DEF SeenInv, ReturnedWasCurrent, OthersStay
<1> QED  BY <1>1, <1>2, <1>3 DEF SeenInv, ReturnedWasCurrent

LEMMA NextSeenInv == TypeInv /\ RestInv /\ SeenInv /\ [Next]_vars => SeenInv'
<1> SUFFICES ASSUME TypeInv, RestInv, SeenInv, [Next]_vars PROVE SeenInv'
  OBVIOUS
<1>1. ASSUME NEW t \in Threads, NEW c \in Configs, NEW host \in Hosts,
             Fetch(t, c, host) \/ RejectUri(t, c, host) \/ RejectRequest(t, c, host)
      PROVE  SeenInv'
  <2>1. /\ OthersStay(t) /\ UNCHANGED origin
        /\ pc[t] = "idle" /\ call'[t] = c /\ seen'[t] = {origin[c.uri]}
        /\ \/ pc'[t] = "sent" /\ UNCHANGED outcome
           \/ /\ pc'[t] = "done" /\ UNCHANGED held
              /\ \E kind \in {"permanent", "illegal"} : outcome'[t] = Throws(kind)
    BY <1>1, BeginStep
  <2>2. outcome'[t].kind \in {"pending", "permanent", "illegal"}
    BY <2>1, UnderWay DEF Throws
  <2>3. ~Carries(t)'
    BY <2>1 DEF Carries, RestInv
  <2> QED  BY <2>1, <2>2, <2>3, OneCallSeen
<1>2. ASSUME NEW t \in Threads, Answer(t)
      PROVE  SeenInv'
  <2>1. /\ OthersStay(t) /\ UNCHANGED <<origin, call, outcome, seen>>
        /\ pc[t] = "sent"
        /\ \/ held'[t] = None
           \/ held'[t].version = origin[call[t].uri]
           \/ held'[t] = held[t] /\ Unchanged(call[t].uri, held[t])
    BY <1>2, AnswerStep
  <2>2. call[t].uri \in Uris /\ origin[call[t].uri] \in Versions
    BY <2>1, UnderWay DEF TypeInv, StepOK
  <2>3. origin[call[t].uri] \in seen[t]
    BY <2>1 DEF SeenInv, Running
  <2>4. held'[t] # None => origin[call[t].uri] \in Alike[call[t].uri][held'[t].version]
    BY <2>1, <2>2, AlikeReflexive DEF Unchanged
  <2>5. outcome'[t].kind = "pending"
    BY <2>1, UnderWay
  <2>6. Carries(t)' => seen'[t] \cap Alike[call'[t].uri][held'[t].version] # {}
    BY <2>1, <2>3, <2>4 DEF Carries
  <2> QED  BY <2>1, <2>3, <2>5, <2>6, OneCallSeen
<1>3. ASSUME NEW t \in Threads, StampFetched(t) \/ StampCached(t)
      PROVE  SeenInv'
  <2>1. /\ OthersStay(t) /\ UNCHANGED <<origin, call, held, outcome, seen>>
        /\ pc[t] \in {"body", "refresh"} /\ held[t] # None
        /\ pc'[t] \in {"store", "restore"}
    BY <1>3, StampStep
  <2>2. /\ origin[call[t].uri] \in seen[t]
        /\ seen[t] \cap Alike[call[t].uri][held[t].version] # {}
    BY <2>1 DEF SeenInv, Running, Carries
  <2>3. outcome'[t].kind = "pending"
    BY <2>1, UnderWay
  <2> QED  BY <2>1, <2>2, <2>3, OneCallSeen
<1>4. ASSUME NEW t \in Threads, NEW kind \in {"fetched", "revalidated"},
             pc[t] \in {"store", "restore"}, PutHeld(t, kind)
      PROVE  SeenInv'
  <2>1. /\ OthersStay(t) /\ UNCHANGED <<origin, call, seen>>
        /\ pc'[t] = "done" /\ held'[t] = None /\ outcome'[t] = Returns(kind, held[t])
    BY <1>4, PutStep
  <2>2. held[t] # None
    BY <1>4, UnderWay
  <2>3. seen[t] \cap Alike[call[t].uri][held[t].version] # {}
    BY <1>4, <2>2 DEF SeenInv, Carries
  <2>4. ~Running(t)' /\ ~Carries(t)'
    BY <2>1 DEF Running, Carries
  <2>5. outcome'[t].schema = held[t]
    BY <2>1 DEF Returns
  <2> QED  BY <2>1, <2>3, <2>4, <2>5, OneCallSeen
<1>5. ASSUME NEW t \in Threads, OthersStay(t), UNCHANGED origin,
             pc'[t] \in {"idle", "done"}, held'[t] = None,
             outcome'[t].kind \in {"pending", "permanent", "transient", "fallback"}
      PROVE  SeenInv'
  <2>1. ~Running(t)' /\ ~Carries(t)'
    BY <1>5 DEF Running, Carries
  <2> QED  BY <1>5, <2>1, OneCallSeen
<1>6. ASSUME NEW t \in Threads, RejectUntyped(t) \/ Fail(t)
      PROVE  SeenInv'
  <2>1. /\ OthersStay(t) /\ UNCHANGED origin /\ pc'[t] = "done" /\ held'[t] = None
        /\ \/ outcome'[t] = Throws("permanent") \/ outcome'[t] = Throws("transient")
           \/ outcome'[t] = Returns("fallback", cache[call[t].uri].schema)
    BY <1>6, EndStep
  <2>2. outcome'[t].kind \in {"permanent", "transient", "fallback"}
    BY <2>1 DEF Throws, Returns
  <2> QED  BY <1>5, <2>1, <2>2
<1>7. ASSUME NEW t \in Threads, Finish(t)
      PROVE  SeenInv'
  <2>1. /\ OthersStay(t) /\ UNCHANGED <<origin, held>> /\ pc[t] = "done"
        /\ pc'[t] = "idle" /\ outcome'[t] = Pending
    BY <1>7, FinishStep
  <2>2. held'[t] = None /\ outcome'[t].kind = "pending"
    BY <2>1 DEF RestInv, Pending
  <2> QED  BY <1>5, <2>1, <2>2
<1>8. ASSUME NEW u \in Uris, Publish(u)
      PROVE  SeenInv'
  <2>1. UNCHANGED <<call, pc, held, outcome>>
    BY <1>8 DEF Publish
  <2>2. /\ origin'[u] = origin[u] + 1
        /\ \A x \in Uris \ {u} : origin'[x] = origin[x]
    BY <1>8 DEF Publish, TypeInv, StepOK
  <2>3. \A t \in Threads :
          /\ seen[t] \subseteq seen'[t]
          /\ Running(t) /\ call[t].uri = u => origin[u] + 1 \in seen'[t]
    BY <1>8 DEF Publish
  <2>4. ASSUME NEW t \in Threads, Running(t)
        PROVE  origin'[call[t].uri] \in seen'[t]
    <3>1. call[t].uri \in Uris /\ origin[call[t].uri] \in seen[t]
      BY <2>4, UnderWay DEF SeenInv, Running
    <3> QED  BY <2>2, <2>3, <2>4, <3>1
  <2>5. ASSUME NEW t \in Threads, NEW S, seen[t] \cap S # {} PROVE seen'[t] \cap S # {}
    BY <2>3, <2>5
  <2>6. \A t \in Threads : (Running(t)' <=> Running(t)) /\ (Carries(t)' <=> Carries(t))
    BY <2>1 DEF Running, Carries
  <2>7. ReturnedWasCurrent'
    BY <2>1, <2>5 DEF SeenInv, ReturnedWasCurrent
  <2>8. \A t \in Threads : Carries(t) =>
          seen'[t] \cap Alike[call[t].uri][held[t].version] # {}
    BY <2>5 DEF SeenInv
  <2> QED  BY <2>1, <2>4, <2>6, <2>7, <2>8 DEF SeenInv
<1>9. CASE UNCHANGED <<origin, call, pc, held, outcome, seen>>
  BY <1>9 DEF SeenInv, ReturnedWasCurrent, Running, Carries
<1> QED
  BY <1>1, <1>2, <1>3, <1>4, <1>6, <1>7, <1>8, <1>9, Steps DEF EvictEntry, Tick, vars

(* What the owner's answer to a call makes it return was current while the *)
(* call ran, whatever the other threads put in the cache meanwhile.        *)
THEOREM ReturnedWasCurrentAlways == Spec => []ReturnedWasCurrent
<1>1. Init => TypeInv /\ RestInv /\ SeenInv
  BY InitTypeInv, InitSeenInv
<1>2. TypeInv /\ RestInv /\ SeenInv /\ [Next]_vars => (TypeInv /\ RestInv /\ SeenInv)'
  BY NextTypeInv, NextRestInv, NextSeenInv
<1>3. SeenInv => ReturnedWasCurrent
  BY DEF SeenInv
<1> QED  BY <1>1, <1>2, <1>3, PTL DEF Spec

-----------------------------------------------------------------------------
(* Ages.  An entry under construction is no older than the answer it is    *)
(* made of, and nothing has been heard of that version for longer.         *)
CarriedOK(t) ==
  /\ pc[t] \notin {"store", "restore"} => stamp[t] = 0
  /\ stamp[t] <= since[t]
  /\ Carries(t) => confirmed[call[t].uri][held[t].version] <= since[t]

CarriedInv == \A t \in Threads : CarriedOK(t)

(* The age of an entry is the time since its put or up to lag more, and    *)
(* its owner confirmed it at most that and lag ago.  Its version was put   *)
(* then, and no other later.                                               *)
EntryOK(u) ==
  cache[u] # None =>
    /\ cache[u].written <= cache[u].age
    /\ cache[u].age <= cache[u].written + lag
    /\ confirmed[u][cache[u].schema.version] <= cache[u].age + lag
    /\ answered[u][cache[u].schema.version] <= cache[u].written
    /\ \A v \in Versions : cache[u].written <= answered[u][v]

(* What is not in the cache was put a TTL ago, or was evicted.             *)
Remembers(u) == cache[u] = None => \A v \in Versions : answered[u][v] >= CacheTtl

EntryInv == /\ \A u \in Uris : EntryOK(u)
            /\ MayEvict \/ \A u \in Uris : Remembers(u)

AgeInv == CarriedInv /\ EntryInv

LEMMA InitAgeInv == Init => AgeInv
BY Constants
   DEF Init, CacheInit, AgeInv, CarriedInv, CarriedOK, Carries, EntryInv, EntryOK,
       Remembers

(* Without a URI too many, Caffeine never has a reason to evict.           *)
LEMMA NoEviction ==
  ASSUME ~MayEvict, NEW u \in Uris PROVE ~Evict(u)
<1>1. IsFiniteSet(Uris) /\ Present \subseteq Uris
  BY UrisFinite DEF Present
<1>2. /\ Cardinality(Present) \in Nat /\ Cardinality(Uris) \in Nat
      /\ Cardinality(Present) <= Cardinality(Uris)
  BY <1>1, FS_Subset, FS_CardinalityType
<1> QED  BY <1>2, Constants DEF MayEvict, Evict

(* A step of one call in which no version's confirmation grows older.      *)
LEMMA OneCallCarried ==
  ASSUME TypeInv, RestInv, CarriedInv, NEW t \in Threads, OthersStay(t), CarriedOK(t)',
         \A u \in Uris, v \in Versions :
           confirmed'[u][v] = confirmed[u][v] \/ confirmed'[u][v] = 0
  PROVE  CarriedInv'
<1> SUFFICES ASSUME NEW s \in Threads PROVE CarriedOK(s)'
  BY DEF CarriedInv
<1>1. CASE s = t
  BY <1>1
<1>2. CASE s # t
  <2>1. /\ pc'[s] = pc[s] /\ call'[s] = call[s] /\ held'[s] = held[s]
        /\ stamp'[s] = stamp[s] /\ since'[s] = since[s]
    BY <1>2 DEF OthersStay
  <2>2. CarriedOK(s) /\ since[s] \in Nat
    BY DEF CarriedInv, TypeInv, ClocksOK
  <2>3. ASSUME Carries(s)
        PROVE  confirmed'[call[s].uri][held[s].version] <= since[s]
    <3>1. confirmed[call[s].uri][held[s].version] <= since[s]
      BY <2>2, <2>3 DEF CarriedOK
    <3>2. held[s].version \in Versions
      BY <2>3, UnderWay DEF Carries
    <3>3. pc[s] # "idle"
      BY <2>3 DEF Carries, RestInv
    <3>4. call[s].uri \in Uris
      BY <3>3, UnderWay
    <3> QED  BY <2>2, <3>1, <3>2, <3>4
  <2> QED  BY <2>1, <2>2, <2>3 DEF CarriedOK, Carries
<1> QED  BY <1>1, <1>2

(* One timer behind another stays behind it.                               *)
LEMMA OlderMonotone ==
  \A a, b \in 0 .. Horizon : a <= b => Older(a) <= Older(b)
BY Constants DEF Older

LEMMA NextCarried == TypeInv /\ RestInv /\ CarriedInv /\ [Next]_vars => CarriedInv'
<1> SUFFICES ASSUME TypeInv, RestInv, CarriedInv, [Next]_vars PROVE CarriedInv'
  OBVIOUS
<1>1. ASSUME NEW t \in Threads, OthersStay(t), UNCHANGED confirmed, CarriedOK(t)'
      PROVE  CarriedInv'
  BY <1>1, OneCallCarried
<1>2. ASSUME NEW t \in Threads, NEW c \in Configs, NEW host \in Hosts,
             Fetch(t, c, host) \/ RejectUri(t, c, host) \/ RejectRequest(t, c, host)
      PROVE  CarriedInv'
  <2>1. /\ OthersStay(t) /\ UNCHANGED clocks /\ pc[t] = "idle"
        /\ \/ pc'[t] = "sent"
           \/ pc'[t] = "done" /\ UNCHANGED held
    BY <1>2, BeginStep
  <2>2. ~Carries(t)' /\ pc'[t] \notin {"store", "restore"}
    BY <2>1 DEF Carries, RestInv
  <2>3. stamp[t] = 0 /\ stamp[t] <= since[t]
    BY <2>1 DEF CarriedInv, CarriedOK
  <2> QED  BY <1>1, <2>1, <2>2, <2>3 DEF CarriedOK, clocks
<1>3. ASSUME NEW t \in Threads, Answer(t)
      PROVE  CarriedInv'
  <2>1. /\ OthersStay(t) /\ UNCHANGED <<call, stamp>> /\ pc[t] = "sent"
        /\ pc'[t] \in {"body", "refresh"}
        /\ \/ held'[t] # None /\ Confirms(t, held'[t].version)
           \/ held'[t] = None /\ UNCHANGED <<since, confirmed>>
    BY <1>3, AnswerStep, Constants DEF Unchanged
  <2>2. stamp'[t] = 0 /\ stamp[t] <= since[t]
    BY <2>1 DEF CarriedInv, CarriedOK
  <2>3. CASE held'[t] = None /\ UNCHANGED <<since, confirmed>>
    <3>1. CarriedOK(t)'
      BY <2>1, <2>2, <2>3 DEF CarriedOK, Carries
    <3> QED  BY <1>1, <2>1, <2>3, <3>1
  <2>4. CASE held'[t] # None /\ Confirms(t, held'[t].version)
    <3>1. held'[t].version \in Versions
      <4>1. held'[t] \in FetchedSchema
        BY <1>3, <2>4, AnswerStep, UnderWay
      <4> QED  BY <4>1, EntryFields
    <3>2. call[t].uri \in Uris
      BY <2>1, UnderWay
    <3>3. /\ since'[t] = 0 /\ confirmed'[call[t].uri][held'[t].version] = 0
          /\ \A u \in Uris, v \in Versions :
               confirmed'[u][v] = confirmed[u][v] \/ confirmed'[u][v] = 0
      BY <2>4, <3>1, <3>2 DEF Confirms, TypeInv, ClocksOK
    <3>4. CarriedOK(t)'
      BY <2>1, <2>2, <3>3 DEF CarriedOK
    <3> QED  BY <2>1, <3>3, <3>4, OneCallCarried
  <2> QED  BY <2>1, <2>3, <2>4
<1>4. ASSUME NEW t \in Threads, StampFetched(t) \/ StampCached(t)
      PROVE  CarriedInv'
  <2>1. /\ OthersStay(t) /\ UNCHANGED <<call, held, since, confirmed>>
        /\ pc[t] \in {"body", "refresh"} /\ held[t] # None
        /\ stamp'[t] = 0
    BY <1>4, StampStep DEF TypeInv, ClocksOK
  <2>2. /\ Carries(t) /\ confirmed[call[t].uri][held[t].version] <= since[t]
        /\ since[t] \in Nat
    BY <2>1 DEF CarriedInv, CarriedOK, Carries, TypeInv, ClocksOK
  <2> QED  BY <1>1, <2>1, <2>2 DEF CarriedOK
<1>5. ASSUME NEW t \in Threads, OthersStay(t), UNCHANGED confirmed, held'[t] = None,
             pc'[t] \in {"idle", "done"}, stamp'[t] = 0, since'[t] \in Nat
      PROVE  CarriedInv'
  <2>1. CarriedOK(t)'
    BY <1>5 DEF CarriedOK, Carries
  <2> QED  BY <1>1, <1>5, <2>1
<1>6. ASSUME NEW t \in Threads, NEW kind \in {"fetched", "revalidated"},
             pc[t] \in {"store", "restore"}, PutHeld(t, kind)
      PROVE  CarriedInv'
  <2>1. /\ OthersStay(t) /\ UNCHANGED confirmed /\ held'[t] = None /\ pc'[t] = "done"
        /\ stamp'[t] = 0 /\ since'[t] = 0
    BY <1>6, PutStep
  <2> QED  BY <1>5, <2>1
<1>7. ASSUME NEW t \in Threads, RejectUntyped(t) \/ Fail(t)
      PROVE  CarriedInv'
  <2>1. /\ OthersStay(t) /\ UNCHANGED confirmed /\ held'[t] = None /\ pc'[t] = "done"
        /\ stamp'[t] = 0 /\ since'[t] = 0
    BY <1>7, EndStep
  <2> QED  BY <1>5, <2>1
<1>8. ASSUME NEW t \in Threads, Finish(t)
      PROVE  CarriedInv'
  <2>1. /\ OthersStay(t) /\ UNCHANGED <<held, clocks>>
        /\ pc[t] = "done" /\ pc'[t] = "idle"
    BY <1>8, FinishStep
  <2>2. held[t] = None /\ stamp[t] = 0 /\ since[t] \in Nat
    BY <2>1 DEF RestInv, CarriedInv, CarriedOK, TypeInv, ClocksOK
  <2> QED  BY <1>5, <2>1, <2>2 DEF clocks
<1>9. CASE Tick
  <2> SUFFICES ASSUME NEW t \in Threads PROVE CarriedOK(t)'
    BY DEF CarriedInv
  <2>1. /\ UNCHANGED <<call, pc, held>>
        /\ stamp'[t] = IF pc[t] \in {"store", "restore"} THEN Older(stamp[t]) ELSE stamp[t]
        /\ since'[t] = IF Carries(t) THEN Older(since[t]) ELSE since[t]
    BY <1>9 DEF Tick
  <2>2. CarriedOK(t) /\ since[t] \in 0 .. Horizon /\ stamp[t] \in 0 .. Horizon
    BY DEF CarriedInv, TypeInv, ClocksOK
  <2>3. pc[t] \in {"store", "restore"} => Carries(t)
    BY UnderWay DEF Carries
  <2>4. since[t] <= since'[t] /\ since'[t] \in Nat
    BY <2>1, <2>2, OlderType, Constants
  <2>5. stamp'[t] <= since'[t]
    <3>1. CASE pc[t] \in {"store", "restore"}
      BY <2>1, <2>2, <2>3, <3>1, OlderMonotone DEF CarriedOK
    <3>2. CASE pc[t] \notin {"store", "restore"}
      BY <2>1, <2>2, <2>4, <3>2, Constants DEF CarriedOK
    <3> QED  BY <3>1, <3>2
  <2>6. ASSUME Carries(t)
        PROVE  confirmed'[call[t].uri][held[t].version] <= since'[t]
    <3>1. pc[t] # "idle" /\ held[t] # None
      BY <2>6 DEF Carries, RestInv
    <3>2. call[t].uri \in Uris /\ held[t].version \in Versions
      BY <3>1, UnderWay
    <3>3. /\ confirmed'[call[t].uri][held[t].version]
               = Older(confirmed[call[t].uri][held[t].version])
          /\ confirmed[call[t].uri][held[t].version] \in 0 .. Horizon
      BY <1>9, <3>2 DEF Tick, TypeInv, ClocksOK
    <3> QED  BY <2>1, <2>2, <2>6, <3>3, OlderMonotone DEF CarriedOK
  <2> QED  BY <2>1, <2>2, <2>5, <2>6 DEF CarriedOK, Carries
<1>10. CASE UNCHANGED <<call, pc, held, clocks>>
  BY <1>10 DEF clocks, CarriedInv, CarriedOK, Carries
<1> QED
  BY <1>2, <1>3, <1>4, <1>6, <1>7, <1>8, <1>9, <1>10, Steps
     DEF Publish, EvictEntry, clocks, vars

(* The ages of an entry when neither it nor a clock of its URI restarts.   *)
LEMMA EntryStays ==
  ASSUME TypeInv, EntryInv, NEW u \in Uris, UNCHANGED answered,
         cache'[u] = cache[u], lag' \in Nat, lag <= lag',
         \A v \in Versions : confirmed'[u][v] = confirmed[u][v] \/ confirmed'[u][v] = 0
  PROVE  EntryOK(u)' /\ (Remembers(u) => Remembers(u)')
<1>1. Remembers(u) => Remembers(u)'
  BY DEF Remembers
<1>2. CASE cache[u] = None
  BY <1>1, <1>2 DEF EntryOK
<1>3. CASE cache[u] # None
  <2>1. cache[u] \in Entry /\ lag \in Nat
    BY <1>3 DEF TypeInv, StepOK, ClocksOK
  <2>2. /\ cache[u].age \in Nat /\ cache[u].written \in Nat
        /\ cache[u].schema.version \in Versions
    BY <2>1, EntryFields, Constants
  <2>3. EntryOK(u)
    BY DEF EntryInv
  <2>4. confirmed[u][cache[u].schema.version] \in Nat
    BY <2>2, Constants DEF TypeInv, ClocksOK
  <2>5. cache[u].age <= cache[u].written + lag'
    BY <1>3, <2>1, <2>2, <2>3 DEF EntryOK
  <2>6. confirmed'[u][cache[u].schema.version] <= cache[u].age + lag'
    BY <1>3, <2>1, <2>2, <2>3, <2>4 DEF EntryOK
  <2> QED  BY <1>1, <1>3, <2>3, <2>5, <2>6 DEF EntryOK
<1> QED  BY <1>2, <1>3

(* A put: the entry of its URI starts from the answer it is made of.       *)
LEMMA PutEntryInv ==
  ASSUME TypeInv, CarriedInv, EntryInv, NEW t \in Threads,
         NEW kind \in {"fetched", "revalidated"},
         pc[t] \in {"store", "restore"}, PutHeld(t, kind)
  PROVE  EntryInv'
<1> DEFINE u == call[t].uri  v == held[t].version
<1>1. /\ UNCHANGED confirmed /\ u \in Uris /\ held[t] \in FetchedSchema
      /\ cache' = [cache EXCEPT ![u] = [schema |-> held[t], age |-> stamp[t], written |-> 0]]
      /\ answered' = [answered EXCEPT ![u][v] = 0]
      /\ lag' \in 0 .. Horizon /\ lag <= lag' /\ since[t] <= lag'
  BY PutStep
<1>2. v \in Versions
  BY <1>1, EntryFields
<1>3. held[t] # None
  BY UnderWay
<1>4. /\ stamp[t] \in Nat /\ since[t] \in Nat /\ lag' \in Nat
      /\ stamp[t] <= since[t] /\ confirmed[u][v] <= since[t]
      /\ confirmed[u][v] \in Nat
  <2>1. Carries(t)
    BY <1>3 DEF Carries
  <2>2. stamp[t] <= since[t] /\ confirmed[u][v] <= since[t]
    BY <2>1 DEF CarriedInv, CarriedOK
  <2>3. stamp[t] \in Nat /\ since[t] \in Nat /\ confirmed[u][v] \in Nat
    BY <1>1, <1>2, Constants DEF TypeInv, ClocksOK
  <2> QED  BY <1>1, <2>2, <2>3, Constants
<1> HIDE DEF u, v
<1>5. ASSUME NEW x \in Uris, x = u
      PROVE  EntryOK(x)' /\ Remembers(x)'
  <2>1. cache'[x] = [schema |-> held[t], age |-> stamp[t], written |-> 0]
    BY <1>1, <1>5 DEF TypeInv, StepOK
  <2>2. \A y \in Versions : answered'[x][y] \in Nat
    BY <1>1, <1>2, <1>5 DEF TypeInv, ClocksOK
  <2>3. cache'[x] # None
    BY <1>5, PutStep, Constants DEF u
  <2>4. /\ cache'[x].written = 0 /\ cache'[x].age = stamp[t]
        /\ cache'[x].schema.version = v
    BY <2>1 DEF v
  <2>5. confirmed'[x][v] = confirmed[u][v] /\ answered'[x][v] = 0
    BY <1>1, <1>2, <1>5 DEF TypeInv, ClocksOK
  <2>6. 0 <= stamp[t] /\ stamp[t] <= 0 + lag' /\ confirmed[u][v] <= stamp[t] + lag'
    BY <1>1, <1>4
  <2> QED  BY <2>2, <2>3, <2>4, <2>5, <2>6 DEF EntryOK, Remembers
<1>6. ASSUME NEW x \in Uris, x # u
      PROVE  EntryOK(x)' /\ (Remembers(x) => Remembers(x)')
  <2>1. cache'[x] = cache[x] /\ answered'[x] = answered[x] /\ confirmed'[x] = confirmed[x]
    BY <1>1, <1>6 DEF TypeInv, StepOK, ClocksOK
  <2>2. Remembers(x) => Remembers(x)'
    BY <2>1 DEF Remembers
  <2>3. CASE cache[x] = None
    BY <2>1, <2>2, <2>3 DEF EntryOK
  <2>4. CASE cache[x] # None
    <3>1. cache[x] \in Entry /\ lag \in Nat /\ lag' \in Nat
      BY <1>4, <2>4 DEF TypeInv, StepOK, ClocksOK
    <3>2. /\ cache[x].age \in Nat /\ cache[x].written \in Nat
          /\ cache[x].schema.version \in Versions
      BY <3>1, EntryFields, Constants
    <3>3. confirmed[x][cache[x].schema.version] \in Nat
      BY <3>2, Constants DEF TypeInv, ClocksOK
    <3>4. EntryOK(x)
      BY DEF EntryInv
    <3>5. /\ cache[x].age <= cache[x].written + lag'
          /\ confirmed[x][cache[x].schema.version] <= cache[x].age + lag'
      BY <1>1, <2>4, <3>1, <3>2, <3>3, <3>4 DEF EntryOK
    <3> QED  BY <2>1, <2>2, <2>4, <3>4, <3>5 DEF EntryOK
  <2> QED  BY <2>3, <2>4
<1> QED  BY <1>5, <1>6 DEF EntryInv, MayEvict

(* A second passes: the clocks of an entry, and those of its versions,     *)
(* advance together.                                                       *)
LEMMA TickEntryInv ==
  ASSUME TypeInv, EntryInv, Tick PROVE EntryInv'
<1> SUFFICES ASSUME NEW u \in Uris
             PROVE  EntryOK(u)' /\ (Remembers(u) => Remembers(u)')
  BY DEF EntryInv, MayEvict
<1>1. /\ cache'[u] = Aged[u] /\ lag' = lag /\ lag \in Nat
      /\ \A v \in Versions : /\ confirmed'[u][v] = Older(confirmed[u][v])
                             /\ confirmed[u][v] \in 0 .. Horizon
                             /\ answered'[u][v] = Older(answered[u][v])
                             /\ answered[u][v] \in 0 .. Horizon
  BY DEF Tick, TypeInv, ClocksOK
<1>2. CASE Aged[u] # None
  <2>1. /\ cache[u] # None /\ Aged[u].schema = cache[u].schema
        /\ cache[u].written + 1 < CacheTtl
        /\ Aged[u].written = cache[u].written + 1
        /\ Aged[u].age = Older(cache[u].age)
    BY <1>2, AgedEntry DEF TypeInv, StepOK
  <2>2. cache[u] \in Entry
    BY <2>1 DEF TypeInv, StepOK
  <2>3. /\ cache[u].age \in 0 .. Horizon /\ cache[u].written \in Nat
        /\ cache[u].schema.version \in Versions
    BY <2>2, EntryFields, Constants
  <2> DEFINE a == cache[u].age  w == cache[u].written
             c == confirmed[u][cache[u].schema.version]
             d == answered[u][cache[u].schema.version]
  <2>4. /\ w <= a /\ a <= w + lag /\ c <= a + lag /\ d <= w
        /\ \A v \in Versions : w <= answered[u][v]
    BY <2>1 DEF EntryInv, EntryOK
  <2>5. c \in 0 .. Horizon /\ d \in 0 .. Horizon
    BY <1>1, <2>3
  <2> HIDE DEF a, w, c, d
  <2>6. a \in 0 .. Horizon /\ w \in Nat /\ w + 1 < CacheTtl
    BY <2>1, <2>3 DEF a, w
  <2>7. w + 1 <= Older(a) /\ Older(a) <= w + 1 + lag
    BY <1>1, <2>4, <2>6, Constants DEF Older
  <2>8. Older(c) <= Older(a) + lag /\ Older(d) <= w + 1
    BY <1>1, <2>4, <2>5, <2>6, Constants DEF Older
  <2>9. \A v \in Versions : w + 1 <= Older(answered[u][v])
    BY <1>1, <2>4, <2>6, Constants DEF Older
  <2>10. /\ cache'[u].written = w + 1 /\ cache'[u].age = Older(a)
         /\ confirmed'[u][cache'[u].schema.version] = Older(c)
         /\ answered'[u][cache'[u].schema.version] = Older(d)
    BY <1>1, <2>1, <2>3 DEF a, w, c, d
  <2>11. cache'[u] # None
    BY <1>1, <1>2
  <2> QED  BY <1>1, <2>7, <2>8, <2>9, <2>10, <2>11 DEF EntryOK, Remembers
<1>3. CASE Aged[u] = None
  <2>1. cache[u] = None \/ cache[u].written + 1 >= CacheTtl
    BY <1>3, AgedEntry DEF TypeInv, StepOK
  <2>2. CASE cache[u] = None
    <3>1. \A v \in Versions : answered[u][v] <= answered'[u][v] /\ answered'[u][v] \in Nat
      BY <1>1, OlderType, Constants
    <3> QED  BY <1>1, <1>3, <2>2, <3>1, Constants DEF EntryOK, Remembers
  <2>3. CASE cache[u] # None
    <3>1. cache[u] \in Entry
      BY <2>3 DEF TypeInv, StepOK
    <3>2. cache[u].written \in Nat /\ cache[u].written + 1 >= CacheTtl
      BY <2>1, <2>3, <3>1, EntryFields, Constants
    <3>3. \A v \in Versions : cache[u].written <= answered[u][v]
      BY <2>3 DEF EntryInv, EntryOK
    <3>4. \A v \in Versions : Older(answered[u][v]) >= CacheTtl
      BY <1>1, <3>2, <3>3, Constants DEF Older
    <3> QED  BY <1>1, <1>3, <3>4 DEF EntryOK, Remembers
  <2> QED  BY <2>2, <2>3
<1> QED  BY <1>2, <1>3

LEMMA NextEntryInv ==
  TypeInv /\ CarriedInv /\ EntryInv /\ [Next]_vars => EntryInv'
<1> SUFFICES ASSUME TypeInv, CarriedInv, EntryInv, [Next]_vars PROVE EntryInv'
  OBVIOUS
<1>1. ASSUME UNCHANGED <<cache, answered, lag>>,
             \A u \in Uris, v \in Versions :
               confirmed'[u][v] = confirmed[u][v] \/ confirmed'[u][v] = 0
      PROVE  EntryInv'
  <2>1. lag' \in Nat /\ lag <= lag'
    BY <1>1, Constants DEF TypeInv, ClocksOK
  <2>2. \A u \in Uris : EntryOK(u)' /\ (Remembers(u) => Remembers(u)')
    BY <1>1, <2>1, EntryStays
  <2> QED  BY <2>2 DEF EntryInv, MayEvict
<1>2. ASSUME NEW t \in Threads, Answer(t)
      PROVE  EntryInv'
  <2>1. /\ UNCHANGED <<cache, answered, lag>> /\ pc[t] = "sent"
        /\ \/ held'[t] # None /\ Confirms(t, held'[t].version)
           \/ UNCHANGED confirmed
    BY <1>2, AnswerStep, Constants DEF Unchanged
  <2>2. CASE held'[t] # None /\ Confirms(t, held'[t].version)
    <3>1. held'[t] \in FetchedSchema
      BY <1>2, <2>2, AnswerStep, UnderWay
    <3>2. call[t].uri \in Uris /\ held'[t].version \in Versions
      BY <2>1, <3>1, UnderWay, EntryFields
    <3>3. \A u \in Uris, v \in Versions :
            confirmed'[u][v] = confirmed[u][v] \/ confirmed'[u][v] = 0
      BY <2>2, <3>2 DEF Confirms, TypeInv, ClocksOK
    <3> QED  BY <1>1, <2>1, <3>3
  <2> QED  BY <1>1, <2>1, <2>2
<1>3. ASSUME NEW u \in Uris, EvictEntry(u)
      PROVE  EntryInv'
  <2>1. /\ Evict(u) /\ UNCHANGED <<confirmed, answered, lag>>
        /\ cache' = [cache EXCEPT ![u] = None]
    BY <1>3 DEF EvictEntry, Evict, clocks
  <2>2. MayEvict
    BY <2>1, NoEviction
  <2>3. \A x \in Uris : cache'[x] = None \/ cache'[x] = cache[x]
    BY <2>1 DEF TypeInv, StepOK
  <2>4. ASSUME NEW x \in Uris
        PROVE  EntryOK(x)'
    <3>1. EntryOK(x)
      BY DEF EntryInv
    <3> QED  BY <2>1, <2>3, <3>1 DEF EntryOK
  <2> QED  BY <2>2, <2>4 DEF EntryInv, MayEvict
<1>4. ASSUME NEW t \in Threads,
             \/ \E c \in Configs, host \in Hosts :
                  Fetch(t, c, host) \/ RejectUri(t, c, host) \/ RejectRequest(t, c, host)
             \/ StampFetched(t) \/ StampCached(t) \/ RejectUntyped(t) \/ Fail(t)
             \/ Finish(t)
      PROVE  UNCHANGED <<cache, confirmed, answered, lag>>
  BY <1>4, BeginStep, StampStep, EndStep, FinishStep DEF clocks
<1>5. CASE UNCHANGED <<cache, confirmed, answered, lag>>
  BY <1>1, <1>5
<1> QED
  BY <1>2, <1>3, <1>4, <1>5, Steps, PutEntryInv, TickEntryInv DEF Publish, clocks, vars

-----------------------------------------------------------------------------
(* A fallback and a transient failure happen in FallbackHit and            *)
(* FallbackMiss only.                                                      *)
LEMMA OutcomeSteps ==
  ASSUME TypeInv, [Next]_vars, NEW t \in Threads
  PROVE  /\ FallsBack(t) => FallbackHit(t)
         /\ FailsTransiently(t) => FallbackMiss(t)
<1>1. ASSUME NEW s \in Threads, OthersStay(s), outcome'[s] = outcome[s] \/
             outcome'[s].kind \notin {"fallback", "transient"}
      PROVE  ~FallsBack(t) /\ ~FailsTransiently(t)
  BY <1>1 DEF OthersStay, FallsBack, FailsTransiently, Pending
<1>2. ASSUME NEW s \in Threads, NEW c \in Configs, NEW host \in Hosts,
             Fetch(s, c, host) \/ RejectUri(s, c, host) \/ RejectRequest(s, c, host)
      PROVE  ~FallsBack(t) /\ ~FailsTransiently(t)
  <2>1. /\ OthersStay(s)
        /\ UNCHANGED outcome \/ \E kind \in {"permanent", "illegal"} : outcome'[s] = Throws(kind)
    BY <1>2, BeginStep
  <2> QED  BY <1>1, <2>1 DEF Throws
<1>3. ASSUME NEW s \in Threads, Answer(s) \/ StampFetched(s) \/ StampCached(s)
      PROVE  ~FallsBack(t) /\ ~FailsTransiently(t)
  <2>1. UNCHANGED outcome
    BY <1>3, AnswerStep, StampStep
  <2> QED  BY <2>1 DEF FallsBack, FailsTransiently, Pending
<1>4. ASSUME NEW s \in Threads, NEW kind \in {"fetched", "revalidated"},
             pc[s] \in {"store", "restore"}, PutHeld(s, kind)
      PROVE  ~FallsBack(t) /\ ~FailsTransiently(t)
  <2>1. OthersStay(s) /\ outcome'[s] = Returns(kind, held[s])
    BY <1>4, PutStep
  <2>2. outcome'[s].kind \notin {"fallback", "transient"}
    BY <2>1 DEF Returns
  <2> QED  BY <1>1, <2>1, <2>2
<1>5. ASSUME NEW s \in Threads, RejectUntyped(s)
      PROVE  ~FallsBack(t) /\ ~FailsTransiently(t)
  <2>1. OthersStay(s) /\ Return(s, Throws("permanent"))
    BY <1>5, EndStep DEF RejectUntyped
  <2>2. outcome'[s].kind = "permanent"
    BY <2>1, ReturnStep DEF Throws
  <2> QED  BY <1>1, <2>1, <2>2
<1>6. ASSUME NEW s \in Threads, FallbackHit(s) \/ FallbackMiss(s)
      PROVE  /\ FallsBack(t) => FallbackHit(t)
             /\ FailsTransiently(t) => FallbackMiss(t)
  <2>1. OthersStay(s)
    BY <1>6, EndStep DEF Fail
  <2>2. t # s => ~FallsBack(t) /\ ~FailsTransiently(t)
    BY <2>1 DEF OthersStay, FallsBack, FailsTransiently, Pending
  <2>3. FallbackHit(s) => outcome'[s].kind = "fallback"
    BY ReturnStep DEF FallbackHit, Returns
  <2>4. FallbackMiss(s) => outcome'[s].kind = "transient"
    BY ReturnStep DEF FallbackMiss, Throws
  <2> QED  BY <1>6, <2>2, <2>3, <2>4 DEF FallsBack, FailsTransiently
<1>7. ASSUME NEW s \in Threads, Finish(s)
      PROVE  ~FallsBack(t) /\ ~FailsTransiently(t)
  <2>1. OthersStay(s) /\ outcome'[s] = Pending
    BY <1>7, FinishStep
  <2> QED  BY <1>1, <2>1 DEF Pending
<1>8. CASE UNCHANGED outcome
  BY <1>8 DEF FallsBack, FailsTransiently, Pending
<1> QED
  BY <1>2, <1>3, <1>4, <1>5, <1>6, <1>7, <1>8, Steps
     DEF Fail, Publish, EvictEntry, Tick, vars

LEMMA HitWithinWindow ==
  ASSUME TypeInv, AgeInv, NEW t \in Threads, FallbackHit(t)
  PROVE  confirmed[call[t].uri][outcome'[t].schema.version] <= StalenessWindow + lag
<1> DEFINE u == call[t].uri
<1>1. /\ u \in Uris /\ cache[u] \in Entry
      /\ outcome'[t].schema = cache[u].schema
  <2>1. Return(t, Returns("fallback", cache[u].schema)) /\ Fail(t)
    BY DEF FallbackHit, Get, Fail
  <2>2. call[t].uri \in Uris /\ outcome'[t] = Returns("fallback", cache[u].schema)
    BY <2>1, EndStep, ReturnStep
  <2>3. cache[u] # None
    BY DEF FallbackHit, Usable, Get
  <2> QED  BY <2>2, <2>3 DEF TypeInv, StepOK, Returns
<1>2. cache[u].age <= StalenessWindow /\ cache[u] # None
  BY DEF FallbackHit, Usable, Get
<1>3. cache[u].age \in Nat /\ cache[u].schema.version \in Versions
  BY <1>1, EntryFields
<1>4. confirmed[u][cache[u].schema.version] \in Nat /\ lag \in Nat
  BY <1>1, <1>3 DEF TypeInv, ClocksOK
<1>5. confirmed[u][cache[u].schema.version] <= cache[u].age + lag
  BY <1>1, <1>2 DEF AgeInv, EntryInv, EntryOK
<1> QED  BY <1>1, <1>2, <1>3, <1>4, <1>5, Constants

LEMMA MissForgotten ==
  ASSUME TypeInv, AgeInv, NEW t \in Threads, FallbackMiss(t)
  PROVE  MayEvict \/ Forgotten(call[t].uri)
<1> DEFINE u == call[t].uri
<1>1. u \in Uris
  BY EndStep DEF Fail
<1>2. CASE cache[u] = None
  BY <1>1, <1>2 DEF AgeInv, EntryInv, Remembers, Forgotten
<1>3. CASE cache[u] # None
  <2>1. cache[u] \in Entry
    BY <1>1, <1>3 DEF TypeInv, StepOK
  <2>2. cache[u].age \in Nat /\ cache[u].written \in Nat /\ lag \in Nat
    BY <2>1, EntryFields DEF TypeInv, ClocksOK
  <2>3. cache[u].age > StalenessWindow
    BY <1>3, <2>2, Constants DEF FallbackMiss, Usable, Get
  <2>4. /\ cache[u].age <= cache[u].written + lag
        /\ \A v \in Versions : cache[u].written <= answered[u][v] /\ answered[u][v] \in Nat
    BY <1>1, <1>3 DEF AgeInv, EntryInv, EntryOK, TypeInv, ClocksOK
  <2> HIDE DEF u
  <2>5. \A v \in Versions : answered[u][v] + lag > StalenessWindow
    BY <2>2, <2>3, <2>4, Constants
  <2> QED  BY <2>5 DEF Forgotten, u
<1> QED  BY <1>2, <1>3

(* What every proof about ages, and the refinement, starts from.           *)
LEMMA InitAges == Init => TypeInv /\ RestInv /\ AgeInv
BY InitTypeInv, InitSeenInv, InitAgeInv

LEMMA NextAges ==
  TypeInv /\ RestInv /\ AgeInv /\ [Next]_vars => (TypeInv /\ RestInv /\ AgeInv)'
BY NextTypeInv, NextRestInv, NextCarried, NextEntryInv DEF AgeInv

(* A stale answer is never older than the window and the time a call kept  *)
(* the owner's answer to itself, however the threads' fallbacks, refreshes *)
(* and overwrites interleave.                                              *)
THEOREM FallbackWithinWindowAlways == Spec => FallbackWithinWindow
<1>1. TypeInv /\ AgeInv /\ [Next]_vars =>
        [\A t \in Threads : FallsBack(t) =>
           confirmed[call[t].uri][outcome'[t].schema.version] <= StalenessWindow + lag]_vars
  BY OutcomeSteps, HitWithinWindow
<1> QED  BY <1>1, InitAges, NextAges, PTL DEF Spec, FallbackWithinWindow

(* With room for every URI, no call fails for lack of an answer while one  *)
(* put within the TTL and the shortened window should still be there.      *)
THEOREM AvailableWithinWindowAlways == Spec => AvailableWithinWindow
<1>1. TypeInv /\ AgeInv /\ [Next]_vars =>
        [\A t \in Threads : FailsTransiently(t) => MayEvict \/ Forgotten(call[t].uri)]_vars
  BY OutcomeSteps, MissForgotten
<1> QED  BY <1>1, InitAges, NextAges, PTL DEF Spec, AvailableWithinWindow

-----------------------------------------------------------------------------
(* Refinement of SchemaSource.                                             *)
LEMMA InitSource == Init => Source!Init
BY DEF Init, Source!Init, Pending, Source!Pending, Versions

LEMMA RunningWaits ==
  ASSUME TypeInv, NEW t \in Threads PROVE Running(t) <=> Source!Waiting(t)
BY DEF TypeInv, StepOK, Places, Control, Running, Source!Waiting, Pending, Source!Pending

(* Nothing is from the future, and a running call has seen every version   *)
(* published since the first that it saw.                                  *)
CallHistory(t) ==
  Running(t) =>
    /\ held[t] # None => held[t].version <= origin[call[t].uri]
    /\ \A w \in seen[t], x \in Versions :
         w <= x /\ x <= origin[call[t].uri] => x \in seen[t]

HistoryInv ==
  /\ \A u \in Uris : cache[u] # None => cache[u].schema.version <= origin[u]
  /\ \A t \in Threads : CallHistory(t)

LEMMA InitHistory == Init => HistoryInv
BY DEF Init, CacheInit, HistoryInv, CallHistory, Running

LEMMA OneCallHistory ==
  ASSUME HistoryInv, NEW t \in Threads, OthersStay(t), UNCHANGED <<cache, origin>>,
         CallHistory(t)'
  PROVE  HistoryInv'
<1> SUFFICES ASSUME NEW s \in Threads, s # t PROVE CallHistory(s)'
  BY DEF HistoryInv
<1>1. /\ pc'[s] = pc[s] /\ call'[s] = call[s] /\ held'[s] = held[s] /\ seen'[s] = seen[s]
  BY DEF OthersStay
<1>2. CallHistory(s)
  BY DEF HistoryInv
<1> QED  BY <1>1, <1>2 DEF CallHistory, Running

LEMMA PublishHistory ==
  ASSUME TypeInv, HistoryInv, NEW u \in Uris, Publish(u)
  PROVE  HistoryInv'
<1>1. /\ origin'[u] = origin[u] + 1
      /\ \A x \in Uris \ {u} : origin'[x] = origin[x]
      /\ UNCHANGED <<cache, call, pc, held>>
  BY DEF Publish, TypeInv, StepOK
<1>2. \A x \in Uris : origin[x] \in Versions /\ origin[x] \in Nat
  BY Constants DEF TypeInv, StepOK, Versions
<1>3. \A x \in Uris : origin[x] <= origin'[x] /\ origin'[x] \in Nat
  BY <1>1, <1>2
<1>4. ASSUME NEW x \in Uris, cache'[x] # None
      PROVE  cache'[x].schema.version <= origin'[x]
  <2>1. cache'[x] = cache[x] /\ cache[x] \in Entry
    BY <1>1, <1>4 DEF TypeInv, StepOK
  <2>2. cache[x].schema.version \in Versions
    BY <2>1, EntryFields
  <2>3. cache[x].schema.version <= origin[x]
    BY <1>4, <2>1 DEF HistoryInv
  <2>4. cache[x].schema.version \in Nat
    BY <2>2, Constants DEF Versions
  <2> QED  BY <1>2, <1>3, <2>1, <2>3, <2>4
<1>5. ASSUME NEW t \in Threads
      PROVE  CallHistory(t)'
  <2> SUFFICES ASSUME Running(t)
               PROVE  /\ held'[t] # None => held'[t].version <= origin'[call'[t].uri]
                      /\ \A w \in seen'[t], x \in Versions :
                           w <= x /\ x <= origin'[call'[t].uri] => x \in seen'[t]
    BY <1>1 DEF CallHistory, Running
  <2>1. call[t].uri \in Uris
    BY UnderWay DEF Running
  <2>2. /\ held[t] # None => held[t].version <= origin[call[t].uri]
        /\ \A w \in seen[t], x \in Versions :
             w <= x /\ x <= origin[call[t].uri] => x \in seen[t]
    BY DEF HistoryInv, CallHistory
  <2>3. held[t] # None => held[t].version \in Nat
    BY UnderWay, Constants DEF Versions
  <2>4. held'[t] # None => held'[t].version <= origin'[call'[t].uri]
    BY <1>1, <1>2, <1>3, <2>1, <2>2, <2>3
  <2>5. CASE call[t].uri # u
    <3>1. seen'[t] = seen[t] /\ origin'[call[t].uri] = origin[call[t].uri]
      BY <1>1, <2>1, <2>5 DEF Publish
    <3> QED  BY <1>1, <2>2, <2>4, <3>1
  <2>6. CASE call[t].uri = u
    <3>1. seen'[t] = seen[t] \cup {origin[u] + 1}
      BY <2>6 DEF Publish
    <3>2. ASSUME NEW w \in seen'[t], NEW x \in Versions, w <= x, x <= origin[u] + 1
          PROVE  x \in seen'[t]
      <4>1. x \in Nat /\ origin[u] \in Nat
        BY <1>2, Constants DEF Versions
      <4>2. CASE x = origin[u] + 1
        BY <3>1, <4>2
      <4>3. CASE x <= origin[u]
        <5>1. w # origin[u] + 1
          BY <3>2, <4>1, <4>3
        <5> QED  BY <2>2, <2>6, <3>1, <3>2, <4>3, <5>1
      <4> QED  BY <3>2, <4>1, <4>2, <4>3
    <3> QED  BY <1>1, <2>4, <2>6, <3>2
  <2> QED  BY <2>5, <2>6
<1> QED  BY <1>4, <1>5 DEF HistoryInv

LEMMA NextHistory == TypeInv /\ RestInv /\ HistoryInv /\ [Next]_vars => HistoryInv'
<1> SUFFICES ASSUME TypeInv, RestInv, HistoryInv, [Next]_vars PROVE HistoryInv'
  OBVIOUS
<1>1. ASSUME NEW t \in Threads, NEW c \in Configs, NEW host \in Hosts,
             Fetch(t, c, host) \/ RejectUri(t, c, host) \/ RejectRequest(t, c, host)
      PROVE  HistoryInv'
  <2>1. /\ OthersStay(t) /\ UNCHANGED <<cache, origin>> /\ call'[t] = c
        /\ seen'[t] = {origin[c.uri]}
        /\ \/ pc'[t] = "sent" /\ held'[t] = Snapshot(c.uri)
           \/ pc'[t] = "done"
    BY <1>1, BeginStep
  <2>2. c.uri \in Uris /\ origin[c.uri] \in Nat
    BY Constants DEF TypeInv, StepOK, Versions
  <2>3. CASE pc'[t] = "sent" /\ held'[t] = Snapshot(c.uri)
    <3>1. held'[t] # None => held'[t].version <= origin[c.uri]
      BY <2>2, <2>3 DEF Snapshot, Get, HistoryInv
    <3>2. \A w \in seen'[t], x \in Versions : w <= x /\ x <= origin[c.uri] => x \in seen'[t]
      BY <2>1, <2>2, Constants DEF Versions
    <3>3. CallHistory(t)'
      BY <2>1, <3>1, <3>2 DEF CallHistory
    <3> QED  BY <2>1, <3>3, OneCallHistory
  <2>4. CASE pc'[t] = "done"
    <3>1. CallHistory(t)'
      BY <2>4 DEF CallHistory, Running
    <3> QED  BY <2>1, <3>1, OneCallHistory
  <2> QED  BY <2>1, <2>3, <2>4
<1>2. ASSUME NEW t \in Threads, Answer(t)
      PROVE  HistoryInv'
  <2>1. /\ OthersStay(t) /\ UNCHANGED <<cache, origin, call, seen>> /\ pc[t] = "sent"
        /\ \/ held'[t] = None \/ held'[t] = held[t]
           \/ held'[t].version = origin[call[t].uri]
    BY <1>2, AnswerStep
  <2>2. origin[call[t].uri] \in Nat
    BY <2>1, UnderWay, Constants DEF TypeInv, StepOK, Versions
  <2>3. CallHistory(t) /\ Running(t)
    BY <2>1 DEF HistoryInv, Running
  <2>4. CallHistory(t)'
    BY <2>1, <2>2, <2>3 DEF CallHistory
  <2> QED  BY <2>1, <2>4, OneCallHistory
<1>3. ASSUME NEW t \in Threads, StampFetched(t) \/ StampCached(t)
      PROVE  HistoryInv'
  <2>1. /\ OthersStay(t) /\ UNCHANGED <<cache, origin, call, held, seen>>
        /\ pc[t] \in {"body", "refresh"}
    BY <1>3, StampStep
  <2>2. CallHistory(t) /\ Running(t)
    BY <2>1 DEF HistoryInv, Running
  <2>3. CallHistory(t)'
    BY <2>1, <2>2 DEF CallHistory
  <2> QED  BY <2>1, <2>3, OneCallHistory
<1>4. ASSUME NEW t \in Threads, NEW kind \in {"fetched", "revalidated"},
             pc[t] \in {"store", "restore"}, PutHeld(t, kind)
      PROVE  HistoryInv'
  <2>1. /\ OthersStay(t) /\ UNCHANGED origin /\ pc'[t] = "done"
        /\ call[t].uri \in Uris
        /\ cache' = [cache EXCEPT ![call[t].uri] =
                       [schema |-> held[t], age |-> stamp[t], written |-> 0]]
    BY <1>4, PutStep
  <2>2. held[t].version <= origin[call[t].uri]
    BY <1>4, UnderWay DEF HistoryInv, CallHistory, Running
  <2>3. \A u \in Uris : cache'[u] # None => cache'[u].schema.version <= origin[u]
    BY <2>1, <2>2 DEF TypeInv, StepOK, HistoryInv
  <2>4. ASSUME NEW s \in Threads
        PROVE  CallHistory(s)'
    <3>1. CASE s = t
      BY <2>1, <3>1 DEF CallHistory, Running
    <3>2. CASE s # t
      <4>1. /\ pc'[s] = pc[s] /\ call'[s] = call[s] /\ held'[s] = held[s]
            /\ seen'[s] = seen[s]
        BY <2>1, <3>2 DEF OthersStay
      <4>2. CallHistory(s)
        BY DEF HistoryInv
      <4> QED  BY <2>1, <4>1, <4>2 DEF CallHistory, Running
    <3> QED  BY <3>1, <3>2
  <2> QED  BY <2>1, <2>3, <2>4 DEF HistoryInv
<1>5. ASSUME NEW t \in Threads, OthersStay(t), UNCHANGED <<cache, origin>>,
             pc'[t] \in {"idle", "done"}
      PROVE  HistoryInv'
  <2>1. CallHistory(t)'
    BY <1>5 DEF CallHistory, Running
  <2> QED  BY <1>5, <2>1, OneCallHistory
<1>6. ASSUME NEW t \in Threads, RejectUntyped(t) \/ Fail(t) \/ Finish(t)
      PROVE  HistoryInv'
  <2>1. OthersStay(t) /\ UNCHANGED <<cache, origin>> /\ pc'[t] \in {"idle", "done"}
    BY <1>6, EndStep, FinishStep
  <2> QED  BY <1>5, <2>1
<1>7. ASSUME NEW u \in Uris, EvictEntry(u)
      PROVE  HistoryInv'
  <2>1. \A x \in Uris : cache'[x] = None \/ cache'[x] = cache[x]
    BY <1>7 DEF EvictEntry, Evict, TypeInv, StepOK
  <2>2. UNCHANGED <<origin, call, pc, held, seen>>
    BY <1>7 DEF EvictEntry
  <2> QED  BY <2>1, <2>2 DEF HistoryInv, CallHistory, Running
<1>8. CASE Tick
  <2>1. \A u \in Uris : cache'[u] # None =>
          cache[u] # None /\ cache'[u].schema = cache[u].schema
    BY <1>8, AgedEntry DEF Tick, TypeInv, StepOK
  <2>2. UNCHANGED <<origin, call, pc, held, seen>>
    BY <1>8 DEF Tick
  <2> QED  BY <2>1, <2>2 DEF HistoryInv, CallHistory, Running
<1>9. CASE UNCHANGED vars
  BY <1>9 DEF vars, HistoryInv, CallHistory, Running
<1> QED
  BY <1>1, <1>2, <1>3, <1>4, <1>6, <1>7, <1>8, <1>9, Steps, PublishHistory

(* The two ways to count a second.                                         *)
LEMMA SecondPasses == Tick => Source!Age
BY DEF Tick, Older, Versions, Source!Age

(* Every step of the fetcher is a step of SchemaSource or invisible to it. *)
LEMMA NextSource ==
  ASSUME TypeInv, SeenInv, AgeInv, HistoryInv, [Next]_vars
  PROVE  [Source!Next]_(Source!srcVars)
<1> DEFINE Step == \E t \in Threads :
             \/ \E c \in Configs : Source!Begin(t, c) \/ Source!Refuse(t, c)
             \/ \E kind \in {"fetched", "revalidated"}, schema \in FetchedSchema :
                  Source!AnswerCurrent(t, kind, schema)
             \/ \E schema \in FetchedSchema : Source!AnswerRemembered(t, schema)
             \/ Source!Fail(t)
             \/ Source!Unusable(t)
             \/ Source!End(t)
<1>1. ASSUME NEW t \in Threads, NEW c \in Configs, NEW host \in Hosts,
             Fetch(t, c, host)
      PROVE  Source!Begin(t, c)
  <2>1. call[t] = None /\ outcome[t] = Pending
    BY <1>1 DEF Fetch, Ask, TypeInv, Control
  <2>2. outcome' = [outcome EXCEPT ![t] = Pending]
    BY <1>1, <2>1 DEF Fetch, TypeInv, StepOK
  <2> QED
    BY <1>1, <2>1, <2>2
       DEF Fetch, Ask, clocks, Pending, Source!Begin, Source!Ask, Source!Pending
<1>2. ASSUME NEW t \in Threads, NEW c \in Configs, NEW host \in Hosts,
             RejectUri(t, c, host) \/ RejectRequest(t, c, host)
      PROVE  Source!Refuse(t, c)
  <2>1. \E kind \in {"permanent", "illegal"} : Reject(t, c, kind)
    BY <1>2 DEF RejectUri, RejectRequest
  <2>2. PICK kind \in {"permanent", "illegal"} : Reject(t, c, kind)
    BY <2>1
  <2>3. call[t] = None
    BY <2>2 DEF Reject, Ask, TypeInv, Control
  <2>4. Source!Ask(t, c, Source!Failed(kind))
    BY <2>2, <2>3 DEF Reject, Ask, clocks, Throws, Source!Ask, Source!Failed
  <2> QED  BY <2>4 DEF Source!Refuse
<1>3. ASSUME NEW t \in Threads, Answer(t) \/ StampFetched(t) \/ StampCached(t)
      PROVE  UNCHANGED Source!srcVars
  <2>1. UNCHANGED <<origin, call, outcome, seen, answered, lag>>
    BY <1>3, AnswerStep, StampStep
  <2> QED  BY <2>1 DEF Source!srcVars
<1>4. ASSUME NEW t \in Threads, RejectUntyped(t)
      PROVE  Source!Unusable(t)
  <2>1. Source!Waiting(t)
    BY <1>4, RunningWaits DEF RejectUntyped, Running
  <2> QED
    BY <1>4, <2>1 DEF RejectUntyped, Return, Throws, Source!Unusable, Source!Failed
<1>5. ASSUME NEW t \in Threads, NEW kind \in {"fetched", "revalidated"},
             pc[t] \in {"store", "restore"}, PutHeld(t, kind)
      PROVE  held[t] \in FetchedSchema /\ Source!AnswerCurrent(t, kind, held[t])
  <2>1. held[t] \in FetchedSchema /\ lag' \in 0 .. Horizon /\ lag <= lag'
    BY <1>5, PutStep
  <2>2. Source!Waiting(t)
    BY <1>5, RunningWaits DEF Running
  <2>3. seen[t] \cap Alike[call[t].uri][held[t].version] # {}
    BY <1>5, UnderWay DEF SeenInv, Carries
  <2>4. held[t].version <= origin[call[t].uri]
    BY <1>5, UnderWay DEF HistoryInv, CallHistory, Running
  <2>5. /\ outcome' = [outcome EXCEPT ![t] = [kind |-> kind, schema |-> held[t]]]
        /\ answered' = [answered EXCEPT ![call[t].uri][held[t].version] = 0]
        /\ UNCHANGED <<origin, call, seen>>
    BY <1>5 DEF PutHeld, Return, Returns
  <2> QED
    BY <2>1, <2>2, <2>3, <2>4, <2>5 DEF Source!AnswerCurrent
<1>6. ASSUME NEW t \in Threads, FallbackHit(t)
      PROVE  \E s \in FetchedSchema : Source!AnswerRemembered(t, s)
  <2> DEFINE s == cache[call[t].uri].schema
  <2>1. call[t].uri \in Uris /\ cache[call[t].uri] \in Entry
    BY <1>6, EndStep DEF Fail, FallbackHit, Usable, Get, TypeInv, StepOK
  <2>2. s \in FetchedSchema /\ s.version \in Versions
    BY <2>1, EntryFields
  <2>3. answered[call[t].uri][s.version] <= StalenessWindow
    <3>1. cache[call[t].uri] # None /\ cache[call[t].uri].age <= StalenessWindow
      BY <1>6 DEF FallbackHit, Usable, Get
    <3>2. /\ answered[call[t].uri][s.version] <= cache[call[t].uri].written
          /\ cache[call[t].uri].written <= cache[call[t].uri].age
      BY <2>1, <3>1 DEF AgeInv, EntryInv, EntryOK
    <3>3. /\ answered[call[t].uri][s.version] \in Nat
          /\ cache[call[t].uri].written \in Nat /\ cache[call[t].uri].age \in Nat
      BY <2>1, <2>2, EntryFields, Constants DEF TypeInv, ClocksOK
    <3> QED  BY <3>1, <3>2, <3>3, Constants
  <2>4. Source!Waiting(t)
    BY <1>6, RunningWaits DEF FallbackHit, Failing, Running
  <2>5. /\ outcome' = [outcome EXCEPT ![t] = [kind |-> "fallback", schema |-> s]]
        /\ UNCHANGED <<origin, call, seen, answered, lag>>
    BY <1>6 DEF FallbackHit, Get, Return, Returns
  <2>6. Source!AnswerRemembered(t, s)
    BY <2>3, <2>4, <2>5 DEF Source!AnswerRemembered
  <2> QED  BY <2>2, <2>6
<1>7. ASSUME NEW t \in Threads, FallbackMiss(t)
      PROVE  Source!Fail(t)
  <2>1. MayEvict \/ Forgotten(call[t].uri)
    BY <1>7, MissForgotten
  <2>2. Source!Waiting(t)
    BY <1>7, RunningWaits DEF FallbackMiss, Failing, Running
  <2> QED
    BY <1>7, <2>1, <2>2
       DEF FallbackMiss, Return, Throws, Forgotten, Versions, Source!Fail, Source!Failed
<1>8. ASSUME NEW t \in Threads, Finish(t)
      PROVE  Source!End(t)
  <2>1. outcome[t] # Pending
    BY <1>8 DEF Finish, TypeInv, Control
  <2> QED  BY <1>8, <2>1 DEF Finish, clocks, Pending, Source!End, Source!Pending
<1>9. ASSUME NEW u \in Uris, Publish(u)
      PROVE  Source!Publish(u)
  <2>1. seen' = [t \in Threads |->
                   IF Source!Waiting(t) /\ call[t].uri = u
                   THEN seen[t] \cup {origin[u] + 1} ELSE seen[t]]
    BY <1>9, RunningWaits DEF Publish
  <2> QED  BY <1>9, <2>1 DEF Publish, clocks, Source!Publish
<1>10. ASSUME NEW u \in Uris, EvictEntry(u)
       PROVE  UNCHANGED Source!srcVars
  BY <1>10 DEF EvictEntry, clocks, Source!srcVars
<1>11. CASE UNCHANGED vars
  BY <1>11 DEF vars, Source!srcVars
<1>12. Step \/ (\E u \in Uris : Source!Publish(u)) \/ Source!Age => Source!Next
  BY DEF Source!Next
<1>13. ASSUME NEW t \in Threads,
              \/ \E c \in Configs, host \in Hosts :
                   Fetch(t, c, host) \/ RejectUri(t, c, host) \/ RejectRequest(t, c, host)
              \/ \E kind \in {"fetched", "revalidated"} :
                   pc[t] \in {"store", "restore"} /\ PutHeld(t, kind)
              \/ RejectUntyped(t) \/ Fail(t)
              \/ Finish(t)
       PROVE  Step
  BY <1>13, <1>1, <1>2, <1>4, <1>5, <1>6, <1>7, <1>8 DEF Fail
<1> HIDE DEF Step
<1> QED  BY <1>3, <1>9, <1>10, <1>11, <1>12, <1>13, Steps, SecondPasses

(* To the mint endpoint the fetcher, with its cache, its conditional       *)
(* requests and its races, is SchemaSource.                                *)
THEOREM ImplementsSource == Spec => SourceSpec
<1>1. Init => TypeInv /\ RestInv /\ SeenInv /\ AgeInv /\ HistoryInv
  BY InitAges, InitSeenInv, InitHistory
<1>2. TypeInv /\ RestInv /\ SeenInv /\ AgeInv /\ HistoryInv /\ [Next]_vars =>
        (TypeInv /\ RestInv /\ SeenInv /\ AgeInv /\ HistoryInv)'
  BY NextAges, NextSeenInv, NextHistory
<1>3. TypeInv /\ RestInv /\ SeenInv /\ AgeInv /\ HistoryInv /\ [Next]_vars =>
        [Source!Next]_(Source!srcVars)
  BY NextSource
<1> QED  BY <1>1, <1>2, <1>3, InitSource, PTL DEF Spec, SourceSpec, Source!Spec

-----------------------------------------------------------------------------
(* The schema of an entry changes only by a put.                           *)
LEMMA EntryChanges ==
  ASSUME TypeInv, [Next]_vars, NEW u \in Uris, cache[u] # None, cache'[u] # None,
         cache'[u].schema # cache[u].schema
  PROVE  \E t \in Threads : /\ pc[t] \in {"store", "restore"} /\ call[t].uri = u
                            /\ cache'[u].schema = held[t]
<1>1. ASSUME NEW t \in Threads, NEW kind \in {"fetched", "revalidated"},
             pc[t] \in {"store", "restore"}, PutHeld(t, kind)
      PROVE  call[t].uri = u /\ cache'[u].schema = held[t]
  <2>1. /\ call[t].uri \in Uris
        /\ cache' = [cache EXCEPT ![call[t].uri] =
                       [schema |-> held[t], age |-> stamp[t], written |-> 0]]
    BY <1>1, PutStep
  <2> QED  BY <2>1 DEF TypeInv, StepOK
<1>2. ASSUME Tick
      PROVE  FALSE
  BY <1>2, AgedEntry DEF Tick, TypeInv, StepOK
<1>3. ASSUME NEW x \in Uris, EvictEntry(x)
      PROVE  FALSE
  BY <1>3 DEF EvictEntry, Evict, TypeInv, StepOK
<1>4. ASSUME NEW t \in Threads,
             \/ \E c \in Configs, host \in Hosts :
                  Fetch(t, c, host) \/ RejectUri(t, c, host) \/ RejectRequest(t, c, host)
             \/ Answer(t) \/ StampFetched(t) \/ StampCached(t)
             \/ RejectUntyped(t) \/ Fail(t) \/ Finish(t)
      PROVE  UNCHANGED cache
  BY <1>4, BeginStep, AnswerStep, StampStep, EndStep, FinishStep
<1> QED
  BY <1>1, <1>2, <1>3, <1>4, Steps DEF Publish, vars

(* A rollback is by a call that was running when the newer version came.   *)
LEMMA RollbackSeen ==
  ASSUME TypeInv, SeenInv, HistoryInv, [Next]_vars, NEW u \in Uris,
         Validator[u] # "lastModified", cache[u] # None, cache'[u] # None,
         cache'[u].schema.version < cache[u].schema.version
  PROVE  \E t \in Threads : /\ Running(t) /\ call[t].uri = u
                            /\ {cache'[u].schema.version, cache[u].schema.version}
                                 \subseteq seen[t]
<1>1. cache[u].schema.version \in Versions
  BY EntryFields DEF TypeInv, StepOK
<1>2. cache'[u].schema # cache[u].schema
  BY <1>1, Constants DEF Versions
<1>3. PICK t \in Threads : /\ pc[t] \in {"store", "restore"} /\ call[t].uri = u
                           /\ cache'[u].schema = held[t]
  BY <1>2, EntryChanges
<1>4. held[t].version \in Versions /\ Running(t) /\ Carries(t)
  BY <1>3, UnderWay DEF Running, Carries
<1>5. held[t].version \in seen[t]
  BY <1>3, <1>4, AlikeReflexive DEF SeenInv
<1>6. cache[u].schema.version <= origin[u]
  BY DEF HistoryInv
<1>7. held[t].version <= cache[u].schema.version
  BY <1>1, <1>3, <1>4, Constants DEF Versions
<1>8. cache[u].schema.version \in seen[t]
  BY <1>1, <1>3, <1>4, <1>5, <1>6, <1>7 DEF HistoryInv, CallHistory
<1> QED  BY <1>3, <1>4, <1>5, <1>8

(* Calls that do not overlap a publication never undo one another's puts.  *)
THEOREM RollbackOnlyAcrossPublishAlways == Spec => RollbackOnlyAcrossPublish
<1>1. Init => TypeInv /\ RestInv /\ SeenInv /\ HistoryInv
  BY InitTypeInv, InitSeenInv, InitHistory
<1>2. TypeInv /\ RestInv /\ SeenInv /\ HistoryInv /\ [Next]_vars =>
        (TypeInv /\ RestInv /\ SeenInv /\ HistoryInv)'
  BY NextTypeInv, NextRestInv, NextSeenInv, NextHistory
<1>3. TypeInv /\ SeenInv /\ HistoryInv /\ [Next]_vars =>
        [\A u \in Uris :
           (/\ Validator[u] # "lastModified"
            /\ cache[u] # None /\ cache'[u] # None
            /\ cache'[u].schema.version < cache[u].schema.version)
           => \E t \in Threads : /\ Running(t) /\ call[t].uri = u
                                 /\ {cache'[u].schema.version, cache[u].schema.version}
                                      \subseteq seen[t]]_vars
  BY RollbackSeen
<1> QED  BY <1>1, <1>2, <1>3, PTL DEF Spec, RollbackOnlyAcrossPublish
===============================================================================
