--------------------------- MODULE SchemaFetcher ---------------------------
(***************************************************************************)
(* SchemaFetcher.java: request threads that fetch a type's schema from its *)
(* URI with a conditional GET, over one cache that all of them share and   *)
(* no lock orders.  A call takes a snapshot of the entry, sends its        *)
(* request, and only when the answer has travelled back writes the cache.  *)
(*                                                                         *)
(* The schema's owner answers at one moment, with what it publishes then;  *)
(* everything other threads, the owner and the clock do between that       *)
(* moment, the arrival of the body, the stamp on the new entry and its     *)
(* write into the cache is interleaved.                                    *)
(***************************************************************************)
EXTENDS SchemaCache

CONSTANTS
  Threads,          \* Keycloak's request threads
  Configs,          \* the type configurations in use: [uri, override]
  Scheme,           \* Scheme[u] \in {"https", "http", "other"}
  Hostless,         \* the URIs in which java.net.URI finds no host
  Validator,        \* Validator[u]: what the owner of u sends and compares
  Stamp,            \* Stamp[v]: the Last-Modified of version v, a coarse clock
  StalenessWindow,  \* schema-staleness-window-seconds
  AllowHttp,        \* allow-http-schemas
  AllowPrivateIp    \* allow-private-ip-schemas

Hosts == {"public", "private", "unresolvable"}

ASSUME ConfigsAssumption ==
  Configs \subseteq [uri : Uris, override : ContentTypes \cup {None}]
ASSUME NoneIsNoConfig == None \notin [uri : Uris, override : ContentTypes \cup {None}]
ASSUME ParametersAssumption ==
  /\ Scheme \in [Uris -> {"https", "http", "other"}]
  /\ Validator \in [Uris -> {"etag", "lastModified", "unsendable", "none"}]
  /\ Stamp \in [Versions -> Nat]
  /\ StalenessWindow \in Nat /\ StalenessWindow < Horizon
  /\ AllowHttp \in BOOLEAN /\ AllowPrivateIp \in BOOLEAN

VARIABLES
  origin,     \* origin[u]: the version the owner of u publishes now
  call,       \* call[t]: the arguments of the fetch that t executes, or None
  pc,         \* pc[t]: where t is in it
  held,       \* held[t]: the schema t holds: its snapshot of the entry while
              \*   the owner is asked, then what it will put
  stamp,      \* stamp[t]: the age of the entry t has built and not yet put
  outcome,    \* outcome[t]: what the fetch of t returned or threw
  seen,       \* history: the versions current since the call of t began
  since,      \* history: since[t], seconds since the owner answered what t holds
  confirmed,  \* history: confirmed[u][v], seconds since the owner of u gave v,
              \*   or "not modified" for v, as its answer to some call
  answered,   \* history: answered[u][v], seconds since a call put and returned
              \*   v as its owner's answer
  lag         \* history: the longest that a call took from the owner's answer
              \*   to its put

vars == <<cache, origin, call, pc, held, stamp, outcome, seen, since, confirmed,
          answered, lag>>
clocks == <<stamp, since, confirmed, answered, lag>>

Pending == [kind |-> "pending", schema |-> None]
Returns(kind, schema) == [kind |-> kind, schema |-> schema]
Throws(kind) == [kind |-> kind, schema |-> None]

(* "illegal": IllegalArgumentException.                                    *)
Kinds == {"pending", "fetched", "revalidated", "fallback", "transient", "permanent",
          "illegal"}

(* "sent": the request or the head of its answer is under way.             *)
(* "body": the body of an answer other than 304 is under way.              *)
(* "refresh": 304.  "store", "restore": the entry is built, to be put.     *)
Places == {"idle", "sent", "body", "refresh", "store", "restore", "done"}

TypeOK ==
  /\ CacheTypeOK
  /\ origin \in [Uris -> Versions]
  /\ call \in [Threads -> Configs \cup {None}]
  /\ pc \in [Threads -> Places]
  /\ held \in [Threads -> FetchedSchema \cup {None}]
  /\ stamp \in [Threads -> 0 .. Horizon]
  /\ outcome \in [Threads -> [kind : Kinds, schema : FetchedSchema \cup {None}]]
  /\ seen \in [Threads -> SUBSET Versions]
  /\ since \in [Threads -> 0 .. Horizon]
  /\ confirmed \in [Uris -> [Versions -> 0 .. Horizon]]
  /\ answered \in [Uris -> [Versions -> 0 .. Horizon]]
  /\ lag \in 0 .. Horizon

Init ==
  /\ CacheInit
  /\ origin = [u \in Uris |-> 1]
  /\ call = [t \in Threads |-> None]
  /\ pc = [t \in Threads |-> "idle"]
  /\ held = [t \in Threads |-> None]
  /\ stamp = [t \in Threads |-> 0]
  /\ outcome = [t \in Threads |-> Pending]
  /\ seen = [t \in Threads |-> {}]
  /\ since = [t \in Threads |-> 0]
  /\ confirmed = [u \in Uris |-> [v \in Versions |-> Horizon]]
  /\ answered = [u \in Uris |-> [v \in Versions |-> Horizon]]
  /\ lag = 0

-----------------------------------------------------------------------------
(* The owner of a schema.                                                  *)

Running(t) == pc[t] \notin {"idle", "done"}

Publish(u) ==
  /\ origin[u] < MaxVersion
  /\ origin' = [origin EXCEPT ![u] = @ + 1]
  /\ seen' = [t \in Threads |->
                IF Running(t) /\ call[t].uri = u
                THEN seen[t] \cup {origin[u] + 1} ELSE seen[t]]
  /\ UNCHANGED <<cache, call, pc, held, outcome, clocks>>

(* Alike[u][v]: the versions that the owner of u, asked whether v has      *)
(* changed, cannot tell from v.  If-None-Match takes precedence over       *)
(* If-Modified-Since, whose stamps are too coarse to tell quick successors *)
(* apart.                                                                  *)
Alike == [u \in Uris |-> [v \in Versions |->
            IF Validator[u] = "lastModified"
            THEN {w \in Versions : Stamp[w] = Stamp[v]} ELSE {v}]]

(* The owner answers 304: the request was conditional, on a validator that *)
(* still matches.                                                          *)
Unchanged(u, schema) == /\ schema # None
                        /\ Validator[u] # "none"
                        /\ origin[u] \in Alike[u][schema.version]

-----------------------------------------------------------------------------
(* fetch, up to httpClient.send.                                           *)

SchemeAllowed(u) == \/ Scheme[u] = "https"
                    \/ Scheme[u] = "http" /\ AllowHttp

(* host is what the name resolves to, when it is looked up at all.  No     *)
(* name resolves to the loopback address.                                  *)
HostAllowed(u, host) == AllowPrivateIp \/ (u \notin Hostless /\ host = "public")

UriAllowed(u, host) == SchemeAllowed(u) /\ HostAllowed(u, host)

(* HttpRequest.newBuilder throws for a URI without a host, header for a    *)
(* validator it refuses.  (HttpClient refuses such a value in an answer    *)
(* already, so the second takes another client in its place.)              *)
RequestFails(u) == \/ u \in Hostless
                   \/ Get(u) # None /\ Validator[u] = "unsendable"

Ask(t, c) ==
  /\ pc[t] = "idle"
  /\ call' = [call EXCEPT ![t] = c]
  /\ seen' = [seen EXCEPT ![t] = {origin[c.uri]}]
  /\ UNCHANGED <<cache, origin, clocks>>

Snapshot(u) == IF Get(u) = None THEN None ELSE Get(u).schema

(* Both checks pass; the entry's validators go into the request.           *)
Fetch(t, c, host) ==
  /\ UriAllowed(c.uri, host) /\ ~RequestFails(c.uri)
  /\ Ask(t, c)
  /\ pc' = [pc EXCEPT ![t] = "sent"]
  /\ held' = [held EXCEPT ![t] = Snapshot(c.uri)]
  /\ UNCHANGED outcome

Reject(t, c, kind) ==
  /\ Ask(t, c)
  /\ pc' = [pc EXCEPT ![t] = "done"]
  /\ outcome' = [outcome EXCEPT ![t] = Throws(kind)]
  /\ UNCHANGED held

(* validateScheme and validateNotPrivateIp throw before the try block, so  *)
(* nothing catches them here: no fallback, whatever the cache holds.       *)
RejectUri(t, c, host) == ~UriAllowed(c.uri, host) /\ Reject(t, c, "permanent")

(* So does the builder of the request, an IllegalArgumentException.        *)
RejectRequest(t, c, host) ==
  /\ UriAllowed(c.uri, host) /\ RequestFails(c.uri)
  /\ Reject(t, c, "illegal")

-----------------------------------------------------------------------------
(* The owner answers, and the head of its answer arrives.                  *)

(* The configured content type wins over the header.                       *)
ContentType(c, header) == IF c.override # None THEN c.override ELSE header

Receive(t, place, schema) ==
  /\ pc' = [pc EXCEPT ![t] = place]
  /\ held' = [held EXCEPT ![t] = schema]
  /\ UNCHANGED <<cache, origin, call, stamp, outcome, seen, answered, lag>>

Confirms(t, v) == /\ since' = [since EXCEPT ![t] = 0]
                  /\ confirmed' = [confirmed EXCEPT ![call[t].uri][v] = 0]

(* 200 with a content type.                                                *)
ReceiveSchema(t, header) ==
  LET u == call[t].uri
      type == ContentType(call[t], header)
  IN  /\ pc[t] = "sent"
      /\ type # None
      /\ Receive(t, "body", [version |-> origin[u], contentType |-> type])
      /\ Confirms(t, origin[u])

(* 200 without a content type, any other status, or 304 to a request that  *)
(* was not conditional.                                                    *)
ReceiveUseless(t) ==
  /\ pc[t] = "sent"
  /\ Receive(t, "body", None)
  /\ UNCHANGED <<since, confirmed>>

(* 304 on a request that had a snapshot.                                   *)
ReceiveNotModified(t) ==
  /\ pc[t] = "sent"
  /\ Unchanged(call[t].uri, held[t])
  /\ Receive(t, "refresh", held[t])
  /\ Confirms(t, held[t].version)

-----------------------------------------------------------------------------
(* send returns, and the answer is used.                                   *)

Build(t, place) ==
  /\ pc' = [pc EXCEPT ![t] = place]
  /\ stamp' = [stamp EXCEPT ![t] = 0]
  /\ UNCHANGED <<cache, origin, call, outcome, seen, since, confirmed, answered, lag>>

(* The body has arrived and parses; cache.put builds the new entry.        *)
StampFetched(t) == /\ pc[t] = "body" /\ held[t] # None
                   /\ Build(t, "store")
                   /\ UNCHANGED held

(* Mutant: a 304 refreshes and returns the entry of now.                   *)
StampEntryOfNow(t) ==
  /\ pc[t] = "refresh"
  /\ Build(t, "restore")
  /\ held' = [held EXCEPT ![t] = IF Get(call[t].uri) = None THEN @
                                 ELSE Get(call[t].uri).schema]

(* What is put back is the snapshot of the call, not the entry of now.     *)
StampCached(t) == /\ pc[t] = "refresh"
                  /\ Build(t, "restore")
                  /\ UNCHANGED held

Return(t, result) ==
  /\ pc' = [pc EXCEPT ![t] = "done"]
  /\ held' = [held EXCEPT ![t] = None]
  /\ stamp' = [stamp EXCEPT ![t] = 0]
  /\ since' = [since EXCEPT ![t] = 0]
  /\ outcome' = [outcome EXCEPT ![t] = result]
  /\ UNCHANGED <<origin, call, seen, confirmed>>

PutHeld(t, kind) ==
  LET u == call[t].uri IN
  /\ Put(u, held[t], stamp[t])
  /\ answered' = [answered EXCEPT ![u][held[t].version] = 0]
  /\ lag' = IF lag < since[t] THEN since[t] ELSE lag
  /\ Return(t, Returns(kind, held[t]))

StoreFetched(t) == pc[t] = "store" /\ PutHeld(t, "fetched")

(* Mutant: a 304 for an entry that is gone by now is asked for again.      *)
RefreshOrAskAgain(t) ==
  /\ pc[t] = "restore"
  /\ IF Get(call[t].uri) # None THEN PutHeld(t, "revalidated")
     ELSE /\ pc' = [pc EXCEPT ![t] = "sent"]
          /\ UNCHANGED <<cache, origin, call, held, outcome, seen, clocks>>

RefreshCached(t) == pc[t] = "restore" /\ PutHeld(t, "revalidated")

(* 200 without a content type: the one failure of the try block that is    *)
(* not transient.                                                          *)
RejectUntyped(t) ==
  /\ pc[t] = "body" /\ held[t] = None
  /\ call[t].override = None
  /\ Return(t, Throws("permanent"))
  /\ UNCHANGED <<cache, answered, lag>>

-----------------------------------------------------------------------------
(* The request failed: timeout, connection error, any other status, a 304  *)
(* to an unconditional request, a body that breaks off or does not parse.  *)
(* The catch block reads the cache again.                                  *)

Failing(t) == pc[t] \in {"sent", "body"}

(* Mutant: the comparison with the window is off by one.                   *)
UsableOffByOne(u) == Get(u) # None /\ Get(u).age <= StalenessWindow + 1

(* Mutant: an entry at the very end of the window is refused.              *)
UsableStrictly(u) == Get(u) # None /\ Get(u).age < StalenessWindow

Usable(u) == Get(u) # None /\ Get(u).age <= StalenessWindow

(* Mutant: the fallback goes through the same put as a 304.                *)
FallbackReputs(t) ==
  LET u == call[t].uri IN
  /\ Failing(t)
  /\ Usable(u)
  /\ Put(u, Get(u).schema, 0)
  /\ Return(t, Returns("fallback", Get(u).schema))
  /\ UNCHANGED <<answered, lag>>

(* Mutant: the fallback restores and returns the snapshot of the call.     *)
FallbackToSnapshot(t) ==
  /\ pc[t] = "sent"
  /\ held[t] # None
  /\ Put(call[t].uri, held[t], 0)
  /\ Return(t, Returns("fallback", held[t]))
  /\ UNCHANGED <<answered, lag>>

FallbackHit(t) ==
  LET u == call[t].uri IN
  /\ Failing(t)
  /\ Usable(u)
  /\ Return(t, Returns("fallback", Get(u).schema))
  /\ UNCHANGED <<cache, answered, lag>>

FallbackMiss(t) ==
  /\ Failing(t)
  /\ ~Usable(call[t].uri)
  /\ Return(t, Throws("transient"))
  /\ UNCHANGED <<cache, answered, lag>>

(* The caller takes the result.                                            *)
Finish(t) ==
  /\ pc[t] = "done"
  /\ pc' = [pc EXCEPT ![t] = "idle"]
  /\ call' = [call EXCEPT ![t] = None]
  /\ outcome' = [outcome EXCEPT ![t] = Pending]
  /\ seen' = [seen EXCEPT ![t] = {}]
  /\ UNCHANGED <<cache, origin, held, clocks>>

-----------------------------------------------------------------------------
EvictEntry(u) ==
  /\ Evict(u)
  /\ UNCHANGED <<origin, call, pc, held, outcome, seen, clocks>>

(* An answer of the owner is in the hands of t.                            *)
Carries(t) == pc[t] # "sent" /\ held[t] # None

(* A second passes.                                                        *)
Tick ==
  /\ cache' = Aged
  /\ stamp' = [t \in Threads |-> IF pc[t] \in {"store", "restore"}
                                 THEN Older(stamp[t]) ELSE stamp[t]]
  /\ since' = [t \in Threads |-> IF Carries(t) THEN Older(since[t]) ELSE since[t]]
  /\ confirmed' = [u \in Uris |-> [v \in Versions |-> Older(confirmed[u][v])]]
  /\ answered' = [u \in Uris |-> [v \in Versions |-> Older(answered[u][v])]]
  /\ UNCHANGED <<origin, call, pc, held, outcome, seen, lag>>

Begin(t) == \E c \in Configs, host \in Hosts :
              Fetch(t, c, host) \/ RejectUri(t, c, host) \/ RejectRequest(t, c, host)

Answer(t) == \/ \E header \in ContentTypes \cup {None} : ReceiveSchema(t, header)
             \/ ReceiveUseless(t)
             \/ ReceiveNotModified(t)

Fail(t) == FallbackHit(t) \/ FallbackMiss(t)

Use(t) == StampFetched(t) \/ RejectUntyped(t)

Proceed(t) == StampCached(t) \/ StoreFetched(t) \/ RefreshCached(t) \/ Finish(t)

Next == \/ \E t \in Threads : Begin(t) \/ Answer(t) \/ Fail(t) \/ Use(t) \/ Proceed(t)
        \/ \E u \in Uris : Publish(u) \/ EvictEntry(u)
        \/ Tick

Spec == Init /\ [][Next]_vars

(* The timeouts of the connection and of the request run until the head of *)
(* an answer has arrived: a thread does not stay at "sent".  From then on  *)
(* (Java 17 and 21) no timer runs, and the body of BodyHandlers.ofString   *)
(* may be waited for without end.  The steps after it wait for nothing,    *)
(* and the clock runs.  Nothing makes a caller ask, an owner publish or    *)
(* the cache evict.                                                        *)
Fairness == /\ \A t \in Threads : WF_vars(pc[t] = "sent" /\ (Answer(t) \/ Fail(t)))
            /\ \A t \in Threads : WF_vars(Proceed(t))
            /\ WF_vars(Tick)

FairSpec == Spec /\ Fairness

-----------------------------------------------------------------------------
(* Properties.                                                             *)

(* An answer the owner gave to this very call, 200 or 304, is a version    *)
(* that was current while the call ran: another thread's write between the *)
(* snapshot, the answer and the put never makes the call return something  *)
(* older.  (With Last-Modified alone: a version with the same stamp.)      *)
ReturnedWasCurrent ==
  \A t \in Threads : outcome[t].kind \in {"fetched", "revalidated"} =>
    seen[t] \cap Alike[call[t].uri][outcome[t].schema.version] # {}

FallsBack(t) == outcome[t] = Pending /\ outcome'[t].kind = "fallback"
FailsTransiently(t) == outcome[t] = Pending /\ outcome'[t].kind = "transient"

(* However many threads fall back, refresh and overwrite one another, what *)
(* a fallback returns was the owner's answer within the window, plus the   *)
(* time that some call kept an answer before it put it: the clock of an    *)
(* entry starts when the entry is built, not when the owner answered.      *)
FallbackWithinWindow ==
  [][\A t \in Threads : FallsBack(t) =>
       confirmed[call[t].uri][outcome'[t].schema.version] <= StalenessWindow + lag]_vars

MayEvict == MaxSize < Cardinality(Uris)

Forgotten(u) == \A v \in Versions : \/ answered[u][v] + lag > StalenessWindow
                                    \/ answered[u][v] >= CacheTtl

(* With room for every URI, a failed request is answered from the cache    *)
(* whenever any thread's call returned an answer within the TTL and the    *)
(* window, the window shortened by the longest that a call was under way   *)
(* with its answer.                                                        *)
AvailableWithinWindow ==
  [][\A t \in Threads : FailsTransiently(t) => MayEvict \/ Forgotten(call[t].uri)]_vars

(* The cache returns to an older version only through a call that was      *)
(* running when the newer one was published: calls that do not overlap a   *)
(* publication never undo one another.  (ETags; stamps are too coarse.)    *)
RollbackOnlyAcrossPublish ==
  [][\A u \in Uris :
       (/\ Validator[u] # "lastModified"
        /\ cache[u] # None /\ cache'[u] # None
        /\ cache'[u].schema.version < cache[u].schema.version)
       => \E t \in Threads : /\ Running(t) /\ call[t].uri = u
                             /\ {cache'[u].schema.version, cache[u].schema.version}
                                  \subseteq seen[t]]_vars

(* Every fetch ends, with a schema or an exception, unless the body of an  *)
(* answer never ends: no retry, no race for the entry and no expiry keeps  *)
(* a call under way.                                                       *)
EveryFetchReturns ==
  \A t \in Threads : []<>~Running(t) \/ <>[](pc[t] = "body")

(* Once the owner stops publishing, the cache ends up with the current     *)
(* version or none, for good: puts of outdated snapshots still in flight   *)
(* do not live on by being revalidated.                                    *)
CacheConverges ==
  \A u \in Uris : <>[](cache[u] # None =>
                         origin[u] \in Alike[u][cache[u].schema.version])

(* The calls are those of SchemaSource: the cache, its races, its TTL and  *)
(* the 304s are invisible to the mint endpoint but for the delay.          *)
Source == INSTANCE SchemaSource WITH
            Schemas <- FetchedSchema, Window <- StalenessWindow,
            Memory <- CacheTtl, MayForget <- MayEvict

SourceSpec == Source!Spec

-----------------------------------------------------------------------------
(* Statements of the documentation that the code does not keep.            *)

(* docs/v0.md:209, if the cache has a fresh entry it is returned: no       *)
(* request goes out for it.                                                *)
FreshEntryReturned ==
  [][\A t \in Threads, c \in Configs, host \in Hosts :
       Fetch(t, c, host) => Get(c.uri) = None]_vars

(* docs/v0.md:211, on a 304 the cache's freshness is refreshed: the entry  *)
(* keeps its schema.                                                       *)
RefreshKeepsSchema ==
  [][\A t \in Threads : RefreshCached(t) =>
       cache[call[t].uri] = None \/ cache'[call[t].uri].schema = cache[call[t].uri].schema]_vars

(* docs/v0.md:75, a failed request is answered with the last cached        *)
(* version if that is within the staleness window.  (Not counted: what a   *)
(* slow call makes of the window.)                                         *)
WindowHonoured ==
  [][\A t \in Threads : FailsTransiently(t) =>
       \A v \in Versions : answered[call[t].uri][v] + lag > StalenessWindow]_vars

OverrideApplied(t) == outcome[t].schema # None /\ call[t].override # None =>
                        outcome[t].schema.contentType = call[t].override

(* docs/v0.md:72, the configured content type overrides the header.        *)
OverrideHonoured == \A t \in Threads : call[t] # None => OverrideApplied(t)
=============================================================================
