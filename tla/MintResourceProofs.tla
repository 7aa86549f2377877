------------------------- MODULE MintResourceProofs -------------------------
(***************************************************************************)
(* Theorems of MintResource, for any sets of threads, requests, types and  *)
(* configurations.                                                         *)
(***************************************************************************)
EXTENDS MintResource, TLAPS

(* The configurations as the fetcher sees them.                            *)
LEMMA Arguments ==
  /\ \A c \in TypeConfigs : /\ FetchArguments(c).uri = c.uri /\ c.uri \in Uris
                            /\ FetchArguments(c) # None
  /\ \A a \in {FetchArguments(c) : c \in TypeConfigs} : a.uri \in Uris /\ a # None
  /\ \A s \in FetchedSchema : s.version \in 1 .. MaxVersion /\ s # None
BY NoneAssumption, ParametersAssumption DEF FetchArguments, FetchedSchema

LEMMA RefusalStatuses ==
  \A i \in DOMAIN Checks : RefusalStatus[Checks[i]] \in {400, 401, 403, 500}
BY DEF Checks, RefusalStatus

(* What the checks establish when none of them fails.                      *)
Admissible(r, c) ==
  /\ r.authenticated /\ r.role /\ r.type \in r.scopes /\ r.type \notin RESERVED_TYPES
  /\ 0 < r.ttl /\ r.ttl <= c.maxTtl
  /\ r.audience \in c.audiences

LEMMA ChecksAdmit ==
  ASSUME NEW r \in Requests, Failing(r) = {}, config \in [Types -> TypeConfigs \cup {None}]
  PROVE  LoadedConfig(r) \in TypeConfigs /\ Admissible(r, LoadedConfig(r))
<1>1. \A i \in 1 .. 10 : Passes(Checks[i], r, LoadedConfig(r))
  BY DEF Failing, Checks
<1>2. /\ Passes("bearer", r, LoadedConfig(r)) /\ Passes("role", r, LoadedConfig(r))
      /\ Passes("reserved", r, LoadedConfig(r)) /\ Passes("scope", r, LoadedConfig(r))
      /\ Passes("config", r, LoadedConfig(r)) /\ Passes("ttl", r, LoadedConfig(r))
      /\ Passes("audience", r, LoadedConfig(r))
  BY <1>1 DEF Checks
<1>3. LoadedConfig(r) # None
  BY <1>2 DEF Passes
<1>4. LoadedConfig(r) \in TypeConfigs
  BY <1>3 DEF LoadedConfig
<1>5. r.authenticated /\ r.role /\ r.type \in r.scopes /\ r.type \notin RESERVED_TYPES
  BY <1>2 DEF Passes
<1>6. 0 < r.ttl /\ r.ttl <= LoadedConfig(r).maxTtl
  BY <1>2 DEF Passes
<1>7. r.audience \in LoadedConfig(r).audiences
  BY <1>2 DEF Passes
<1> QED  BY <1>4, <1>5, <1>6, <1>7 DEF Admissible

(* No claim of the service has the name of a type that may be minted.      *)
LEMMA ServiceClaimsReserved ==
  ASSUME NEW r, r.type \notin RESERVED_TYPES, NEW n \in ServiceClaims
  PROVE  Claims(r)[n] = "service"
BY DEF Claims, ServiceClaims, RESERVED_TYPES

-----------------------------------------------------------------------------
(* A call of the fetcher is out exactly while its request waits for it,    *)
(* with the arguments that step 6 loaded, and nothing is recorded, told or *)
(* built before its time.                                                  *)
CallInv ==
  \A t \in Threads :
    /\ call[t] # None <=> pc[t] = "fetching"
    /\ pc[t] = "fetching" => call[t] = FetchArguments(conf[t])
    /\ pc[t] \in {"loaded", "fetching"} => conf[t] # None
    /\ pc[t] # "answered" => events[t] = <<>> /\ status[t] = 0
    /\ outcome[t].kind \in Answers => outcome[t].schema \in FetchedSchema
    /\ pc[t] \in {"signing", "announcing"} => schema[t] \in FetchedSchema
    /\ pc[t] = "idle" => req[t] = None

TypeInv == TypeOK /\ CallInv

LEMMA InitTypeInv == Init => TypeInv
<1> SUFFICES ASSUME Init PROVE TypeInv
  OBVIOUS
<1>1. Source!TypeOK
  BY ParametersAssumption DEF Init, Source!Init, Source!TypeOK, Source!Pending, Source!Kinds
<1>2. TypeOK
  BY <1>1 DEF Init, TypeOK, Steps
<1>3. CallInv
  BY DEF Init, Source!Init, Source!Pending, CallInv, Answers
<1> QED  BY <1>2, <1>3 DEF TypeInv

(* The steps of the schema source keep the types of its variables.         *)
LEMMA SourceType ==
  ASSUME Source!TypeOK,
         [Source!Next]_(Source!srcVars)
  PROVE  Source!TypeOK'
<1> USE ParametersAssumption, Arguments
    DEF Source!TypeOK, Source!Pending, Source!Failed, Source!Kinds
<1>1. ASSUME NEW u \in Uris, Source!Publish(u)
      PROVE  Source!TypeOK'
  <2>1. origin[u] + 1 \in 1 .. MaxVersion
    BY <1>1 DEF Source!Publish
  <2>2. origin' \in [Uris -> 1 .. MaxVersion]
    BY <1>1, <2>1 DEF Source!Publish
  <2>3. seen' \in [Threads -> SUBSET (1 .. MaxVersion)]
    BY <1>1, <2>1 DEF Source!Publish
  <2> QED  BY <1>1, <2>2, <2>3 DEF Source!Publish
<1>2. CASE Source!Age
  <2>1. \A u \in Uris, v \in 1 .. MaxVersion :
          (IF answered[u][v] < Horizon THEN answered[u][v] + 1 ELSE Horizon) \in 0 .. Horizon
    OBVIOUS
  <2> QED  BY <1>2, <2>1 DEF Source!Age
<1>3. ASSUME NEW t \in Threads, NEW a \in {FetchArguments(c) : c \in TypeConfigs},
             NEW answer \in {Source!Pending, Source!Failed("permanent"),
                             Source!Failed("illegal")},
             Source!Ask(t, a, answer)
      PROVE  Source!TypeOK'
  <2>1. call' \in [Threads -> {FetchArguments(c) : c \in TypeConfigs} \cup {None}]
    BY <1>3 DEF Source!Ask
  <2>2. a.uri \in Uris
    OBVIOUS
  <2>3. seen' \in [Threads -> SUBSET (1 .. MaxVersion)]
    BY <1>3, <2>2 DEF Source!Ask
  <2>4. outcome' \in [Threads -> [kind : Source!Kinds, schema : FetchedSchema \cup {None}]]
    BY <1>3 DEF Source!Ask
  <2> QED  BY <1>3, <2>1, <2>3, <2>4 DEF Source!Ask
<1>4. ASSUME NEW t \in Threads, NEW kind \in {"fetched", "revalidated"},
             NEW s \in FetchedSchema, Source!AnswerCurrent(t, kind, s)
      PROVE  Source!TypeOK'
  <2>1. call[t].uri \in Uris
    BY <1>4 DEF Source!AnswerCurrent, Source!Waiting
  <2>2. answered' \in [Uris -> [1 .. MaxVersion -> 0 .. Horizon]]
    BY <1>4, <2>1 DEF Source!AnswerCurrent
  <2> QED  BY <1>4, <2>2 DEF Source!AnswerCurrent
<1>5. ASSUME NEW t \in Threads, NEW s \in FetchedSchema, Source!AnswerRemembered(t, s)
      PROVE  Source!TypeOK'
  BY <1>5 DEF Source!AnswerRemembered
<1>6. ASSUME NEW t \in Threads, Source!Fail(t) \/ Source!Unusable(t) \/ Source!End(t)
      PROVE  Source!TypeOK'
  <2>1. CASE Source!Fail(t) \/ Source!Unusable(t)
    <3>1. PICK kind \in {"transient", "permanent"} :
            outcome' = [outcome EXCEPT ![t] = [kind |-> kind, schema |-> None]]
      BY <2>1 DEF Source!Fail, Source!Unusable
    <3>2. UNCHANGED <<origin, call, seen, answered, lag>>
      BY <2>1 DEF Source!Fail, Source!Unusable
    <3> QED  BY <3>1, <3>2
  <2>2. CASE Source!End(t)
    BY <2>2 DEF Source!End
  <2> QED  BY <1>6, <2>1, <2>2
<1>7. CASE UNCHANGED Source!srcVars
  BY <1>7 DEF Source!srcVars
<1> QED  BY <1>1, <1>2, <1>3, <1>4, <1>5, <1>6, <1>7
     DEF Source!Next, Source!Begin, Source!Refuse

(* Every step of the mint is, for the schema source, one of its own.       *)
LEMMA NextSource == TypeInv /\ [Next]_vars => [Source!Next]_(Source!srcVars)
<1> SUFFICES ASSUME TypeInv, [Next]_vars PROVE [Source!Next]_(Source!srcVars)
  OBVIOUS
<1>1. ASSUME NEW t \in Threads, FetchSchema(t)
      PROVE  Source!Next
  <2>1. conf[t] \in TypeConfigs
    BY <1>1 DEF FetchSchema, TypeInv, TypeOK, CallInv
  <2>2. FetchArguments(conf[t]) \in {FetchArguments(c) : c \in TypeConfigs}
    BY <2>1
  <2> QED  BY <1>1, <2>2 DEF FetchSchema, Fetch, Source!Next
<1>2. ASSUME NEW t \in Threads, NEW kinds, EndFetch(t, kinds)
      PROVE  Source!Next
  BY <1>2 DEF EndFetch, Source!Next
<1>3. ASSUME NEW t \in Threads, SourceAnswers(t)
      PROVE  Source!Next
  BY <1>3 DEF SourceAnswers, Source!Next
<1>4. CASE Environment
  BY <1>4 DEF Environment, Configure, SwitchKeys, srcVars, Source!srcVars, Source!Next
<1>5. ASSUME NEW t \in Threads, NEW r \in Requests, Refuse(t, r) \/ Load(t, r)
      PROVE  UNCHANGED Source!srcVars
  BY <1>5 DEF Refuse, Load, Receive, srcVars, Source!srcVars
<1>6. ASSUME NEW t \in Threads,
             \/ SignFails(t) \/ Sign(t) \/ Announce(t)
             \/ LogSuccessThrows(t) \/ Finish(t)
      PROVE  UNCHANGED Source!srcVars
  BY <1>6 DEF SignFails, Sign, Announce, LogSuccessThrows, Finish, srcVars, Source!srcVars
<1>7. CASE UNCHANGED vars
  BY <1>7 DEF vars, srcVars, Source!srcVars
<1> QED
  BY <1>1, <1>2, <1>3, <1>4, <1>5, <1>6, <1>7
     DEF Next, Proceed, FetchThrows, FetchEscapes, NoValidator, PayloadInvalid, PayloadValid

(* What a call of the fetcher changes.                                     *)
LEMMA FetchCalls ==
  ASSUME TypeInv, NEW t \in Threads, FetchSchema(t)
  PROVE  /\ call'[t] = FetchArguments(conf[t])
         /\ \A s \in Threads \ {t} : call'[s] = call[s] /\ outcome'[s] = outcome[s]
         /\ outcome'[t].kind \in {"pending", "permanent", "illegal"}
         /\ outcome'[t].schema = None
         /\ UNCHANGED <<origin, answered>>
BY DEF FetchSchema, Fetch, Source!Begin, Source!Refuse, Source!Ask, Source!Pending,
       Source!Failed, TypeInv, TypeOK, Source!TypeOK

LEMMA EndFetchCalls ==
  ASSUME TypeInv, NEW t \in Threads, NEW kinds, EndFetch(t, kinds)
  PROVE  /\ call'[t] = None
         /\ \A s \in Threads \ {t} : call'[s] = call[s] /\ outcome'[s] = outcome[s]
         /\ outcome'[t].kind = "pending" /\ outcome'[t].schema = None
         /\ UNCHANGED <<origin, answered>>
BY DEF EndFetch, Source!End, Source!Pending, TypeInv, TypeOK, Source!TypeOK

(* An answer of the source tells the schema it returns.                    *)
LEMMA AnswerCalls ==
  ASSUME TypeInv, NEW t \in Threads, SourceAnswers(t)
  PROVE  /\ call[t] # None /\ UNCHANGED <<call, origin>>
         /\ \A s \in Threads \ {t} : outcome'[s] = outcome[s]
         /\ outcome'[t].kind \in Answers => outcome'[t].schema \in FetchedSchema
<1> USE DEF Source!Waiting, Source!Failed, Answers, TypeInv, TypeOK, Source!TypeOK
<1>1. ASSUME NEW kind \in {"fetched", "revalidated"}, NEW s \in FetchedSchema,
             Source!AnswerCurrent(t, kind, s)
      PROVE  /\ call[t] # None /\ UNCHANGED <<call, origin>>
             /\ outcome' = [outcome EXCEPT ![t] = [kind |-> kind, schema |-> s]]
  BY <1>1 DEF Source!AnswerCurrent
<1>2. ASSUME NEW s \in FetchedSchema, Source!AnswerRemembered(t, s)
      PROVE  /\ call[t] # None /\ UNCHANGED <<call, origin>>
             /\ outcome' = [outcome EXCEPT ![t] = [kind |-> "fallback", schema |-> s]]
  BY <1>2 DEF Source!AnswerRemembered
<1>3. ASSUME Source!Fail(t) \/ Source!Unusable(t)
      PROVE  /\ call[t] # None /\ UNCHANGED <<call, origin>>
             /\ \E kind \in {"transient", "permanent"} :
                  outcome' = [outcome EXCEPT ![t] = [kind |-> kind, schema |-> None]]
  BY <1>3 DEF Source!Fail, Source!Unusable
<1>4. PICK o : /\ call[t] # None /\ UNCHANGED <<call, origin>>
               /\ outcome' = [outcome EXCEPT ![t] = o]
               /\ o.kind \in Answers => o.schema \in FetchedSchema
  BY <1>1, <1>2, <1>3 DEF SourceAnswers
<1> QED  BY <1>4

(* A refusal is answered, and never with a token.                          *)
LEMMA RefuseAnswers ==
  ASSUME TypeInv, NEW t \in Threads, NEW r \in Requests, Refuse(t, r)
  PROVE  /\ pc[t] # "answered" /\ pc'[t] = "answered" /\ UNCHANGED events
         /\ status'[t] \in {400, 401, 403, 500}
         /\ \A s \in Threads \ {t} : pc'[s] = pc[s] /\ status'[s] = status[s]
<1>1. PICK i \in Failing(r) : status' = [status EXCEPT ![t] = RefusalStatus[Checks[i]]]
  BY DEF Refuse
<1>2. i \in DOMAIN Checks
  BY DEF Failing
<1>3. status'[t] = RefusalStatus[Checks[i]]
  BY <1>1 DEF TypeInv, TypeOK
<1>4. /\ pc[t] # "answered" /\ pc'[t] = "answered" /\ UNCHANGED events
      /\ \A s \in Threads \ {t} : pc'[s] = pc[s] /\ status'[s] = status[s]
  BY DEF Refuse, Receive, TypeInv, TypeOK
<1>5. status'[t] \in {400, 401, 403, 500}
  BY <1>2, <1>3, RefusalStatuses
<1> QED  BY <1>4, <1>5

(* One event at most is logged for a request.                              *)
LEMMA FirstEvent ==
  ASSUME TypeInv, NEW t \in Threads, pc[t] # "answered",
         NEW e \in Failures \cup {"success"}
  PROVE  Append(events[t], e) = <<e>>
<1>1. events[t] = <<>>
  BY DEF TypeInv, CallInv
<1>2. Append(<<>>, e) = <<e>>
  OBVIOUS
<1> QED  BY <1>1, <1>2

(* A failure is answered as told, or with a 500 where the log failed.      *)
LEMMA FailWithAnswers ==
  ASSUME TypeInv, NEW t \in Threads, pc[t] # "answered", NEW e \in Failures, NEW code,
         FailWith(t, e, code)
  PROVE  /\ pc' = [pc EXCEPT ![t] = "answered"]
         /\ \/ /\ events' = [events EXCEPT ![t] = <<e>>]
               /\ status' = [status EXCEPT ![t] = code]
            \/ UNCHANGED events /\ status' = [status EXCEPT ![t] = 500]
<1>1. Append(events[t], e) = <<e>>
  BY FirstEvent
<1>2. CASE LogFailure(t, e) /\ Respond(t, code)
  <2>1. events' = [events EXCEPT ![t] = <<e>>]
    BY <1>1, <1>2 DEF LogFailure
  <2> QED  BY <1>2, <2>1 DEF Respond
<1>3. CASE UNCHANGED events /\ Respond(t, 500)
  BY <1>3 DEF Respond
<1> QED  BY <1>2, <1>3 DEF FailWith

(* The owners publish forwards.                                            *)
LEMMA OriginGrows ==
  ASSUME TypeInv, Environment
  PROVE  \A u \in Uris : origin[u] \in Nat /\ origin'[u] \in Nat /\ origin[u] <= origin'[u]
<1>1. origin \in [Uris -> 1 .. MaxVersion]
  BY DEF TypeInv, TypeOK, Source!TypeOK
<1>2. \A u \in Uris : origin[u] \in Nat
  BY <1>1, ParametersAssumption
<1>3. UNCHANGED origin \/ \E u \in Uris : origin' = [origin EXCEPT ![u] = @ + 1]
  BY DEF Environment, Configure, SwitchKeys, srcVars, Source!Publish, Source!Age
<1>4. ASSUME NEW u \in Uris, origin' = [origin EXCEPT ![u] = @ + 1]
      PROVE  origin'[u] = origin[u] + 1 /\ \A v \in Uris \ {u} : origin'[v] = origin[v]
  BY <1>1, <1>4
<1> QED  BY <1>2, <1>3, <1>4

LEMMA NextTypeInv == TypeInv /\ [Next]_vars => TypeInv'
<1> SUFFICES ASSUME TypeInv, [Next]_vars PROVE TypeInv'
  OBVIOUS
<1>0. Source!TypeOK'
  BY NextSource, SourceType DEF TypeInv, TypeOK
<1> USE DEF TypeInv, TypeOK, CallInv
<1>1. ASSUME NEW t \in Threads, NEW r \in Requests, Refuse(t, r)
      PROVE  TypeInv'
  <2>1. status' \in [Threads -> {0, 200, 400, 401, 403, 422, 500, 503}]
    BY <1>1, RefusalStatuses DEF Refuse, Failing
  <2>2. LoadedConfig(r) \in TypeConfigs \cup {None}
    BY DEF LoadedConfig
  <2>3. TypeOK'
    BY <1>0, <1>1, <2>1, <2>2 DEF Refuse, Receive, Steps
  <2>4. CallInv'
    BY <1>1 DEF Refuse, Receive, srcVars
  <2> QED  BY <2>3, <2>4
<1>2. ASSUME NEW t \in Threads, NEW r \in Requests, Load(t, r)
      PROVE  TypeInv'
  <2>1. LoadedConfig(r) \in TypeConfigs
    BY <1>2, ChecksAdmit DEF Load
  <2>2. TypeOK'
    BY <1>0, <1>2, <2>1 DEF Load, Receive, Steps
  <2>3. CallInv'
    BY <1>2, <2>1, NoneAssumption DEF Load, Receive, srcVars
  <2> QED  BY <2>2, <2>3
<1>3. ASSUME NEW t \in Threads, FetchSchema(t)
      PROVE  TypeInv'
  <2>1. TypeOK'
    BY <1>0, <1>3 DEF FetchSchema, Fetch, Steps
  <2>2. FetchArguments(conf[t]) # None
    BY <1>3, Arguments DEF FetchSchema
  <2>3. /\ pc[t] = "loaded" /\ pc' = [pc EXCEPT ![t] = "fetching"]
        /\ UNCHANGED <<req, conf, schema, status, events>>
    BY <1>3 DEF FetchSchema, Fetch
  <2>4. CallInv'
    BY <1>3, <2>2, <2>3, FetchCalls DEF Answers
  <2> QED  BY <2>1, <2>4
<1>4. ASSUME NEW t \in Threads, NEW kinds, EndFetch(t, kinds),
             NEW e \in Failures, NEW code \in {422, 500, 503},
             FailWith(t, e, code), UNCHANGED schema
      PROVE  TypeInv'
  <2>1. pc[t] # "answered" /\ UNCHANGED <<config, keys, req, conf, token, inForce>>
    BY <1>4 DEF EndFetch
  <2>2. /\ pc' = [pc EXCEPT ![t] = "answered"]
        /\ \/ /\ events' = [events EXCEPT ![t] = <<e>>]
              /\ status' = [status EXCEPT ![t] = code]
           \/ UNCHANGED events /\ status' = [status EXCEPT ![t] = 500]
    BY <1>4, <2>1, FailWithAnswers
  <2>3. TypeOK'
    BY <1>0, <1>4, <2>1, <2>2 DEF Steps, Failures
  <2>4. CallInv'
    BY <1>4, <2>1, <2>2, EndFetchCalls DEF Answers
  <2> QED  BY <2>3, <2>4
<1>5. ASSUME NEW t \in Threads, NEW kinds, EndFetch(t, kinds), Respond(t, 500),
             UNCHANGED <<schema, events>>
      PROVE  TypeInv'
  <2>1. TypeOK'
    BY <1>0, <1>5 DEF EndFetch, Respond, Steps
  <2>2. /\ pc[t] = "fetching" /\ pc' = [pc EXCEPT ![t] = "answered"]
        /\ UNCHANGED <<req, conf, schema, events>>
        /\ status' = [status EXCEPT ![t] = 500]
    BY <1>5 DEF EndFetch, Respond
  <2>3. CallInv'
    BY <1>5, <2>2, EndFetchCalls DEF Answers
  <2> QED  BY <2>1, <2>3
<1>6. ASSUME NEW t \in Threads, PayloadValid(t)
      PROVE  TypeInv'
  <2>1. outcome[t].schema \in FetchedSchema
    BY <1>6 DEF PayloadValid, EndFetch
  <2>2. TypeOK'
    BY <1>0, <1>6, <2>1 DEF PayloadValid, EndFetch, Steps
  <2>3. /\ pc[t] = "fetching" /\ pc' = [pc EXCEPT ![t] = "signing"]
        /\ schema' = [schema EXCEPT ![t] = outcome[t].schema]
        /\ UNCHANGED <<req, conf, status, events>>
    BY <1>6 DEF PayloadValid, EndFetch
  <2>4. EndFetch(t, Answers)
    BY <1>6 DEF PayloadValid
  <2>5. CallInv'
    BY <2>1, <2>3, <2>4, EndFetchCalls DEF Answers
  <2> QED  BY <2>2, <2>5
<1>7. ASSUME NEW t \in Threads, SignFails(t) \/ LogSuccessThrows(t)
      PROVE  TypeInv'
  <2>1. /\ pc[t] \in {"signing", "announcing"}
        /\ FailWith(t, "token_build_failed", 500)
        /\ UNCHANGED <<srcVars, config, keys, req, conf, schema, inForce>>
    BY <1>7 DEF SignFails, LogSuccessThrows
  <2>2. TypeOK'
    BY <1>0, <2>1, FailWithAnswers DEF Steps, Failures
  <2>3. CallInv'
    BY <2>1, FailWithAnswers DEF srcVars, Failures
  <2> QED  BY <2>2, <2>3
<1>8. ASSUME NEW t \in Threads, Sign(t)
      PROVE  TypeInv'
  <2>1. TypeOK'
    BY <1>0, <1>8 DEF Sign, Steps
  <2>2. CallInv'
    BY <1>8 DEF Sign, srcVars
  <2> QED  BY <2>1, <2>2
<1>9. ASSUME NEW t \in Threads, Announce(t)
      PROVE  TypeInv'
  <2>1. TypeOK'
    BY <1>0, <1>9, FirstEvent DEF Announce, LogSuccess, Respond, Steps
  <2>2. CallInv'
    BY <1>9 DEF Announce, LogSuccess, Respond, srcVars
  <2> QED  BY <2>1, <2>2
<1>10. ASSUME NEW t \in Threads, Finish(t)
       PROVE  TypeInv'
  <2>1. TypeOK'
    BY <1>0, <1>10 DEF Finish, Steps
  <2>2. CallInv'
    BY <1>10 DEF Finish, srcVars
  <2> QED  BY <2>1, <2>2
<1>11. ASSUME NEW t \in Threads, SourceAnswers(t)
       PROVE  TypeInv'
  <2>1. UNCHANGED <<config, keys, locals, inForce>>
    BY <1>11 DEF SourceAnswers
  <2>2. TypeOK'
    BY <1>0, <2>1 DEF locals
  <2>3. CallInv'
    BY <1>11, <2>1, AnswerCalls DEF locals
  <2> QED  BY <2>2, <2>3
<1>12. CASE Environment
  <2>1. UNCHANGED locals /\ UNCHANGED <<call, outcome>>
    BY <1>12 DEF Environment, Configure, SwitchKeys, srcVars, Source!Publish, Source!Age
  <2>2. /\ config' \in [Types -> TypeConfigs \cup {None}] /\ keys' \in KeySets
        /\ inForce' \in [Threads -> SUBSET (TypeConfigs \cup {None})]
    BY <1>12 DEF Environment, Configure, SwitchKeys
  <2>3. TypeOK'
    BY <1>0, <2>1, <2>2 DEF locals
  <2>4. CallInv'
    BY <2>1 DEF locals
  <2> QED  BY <2>3, <2>4
<1>13. CASE UNCHANGED vars
  <2>1. UNCHANGED locals /\ UNCHANGED <<call, outcome, config, keys, inForce>>
    BY <1>13 DEF vars, srcVars
  <2> QED  BY <1>0, <2>1 DEF locals
<1> QED
  BY <1>1, <1>2, <1>3, <1>4, <1>5, <1>6, <1>7, <1>8, <1>9, <1>10, <1>11, <1>12, <1>13
     DEF Next, Proceed, FetchThrows, FetchEscapes, NoValidator, PayloadInvalid, Failures

(* Every variable keeps its type; in particular no request logs twice.     *)
THEOREM TypeCorrect == Spec => []TypeOK
<1>1. TypeInv => TypeOK
  BY DEF TypeInv
<1> QED  BY <1>1, InitTypeInv, NextTypeInv, PTL DEF Spec

-----------------------------------------------------------------------------
LEMMA InitAudit == Init => AuditMatchesAnswer
BY DEF Init, AuditMatchesAnswer

LEMMA NextAudit == TypeInv /\ AuditMatchesAnswer /\ [Next]_vars => AuditMatchesAnswer'
<1> SUFFICES ASSUME TypeInv, AuditMatchesAnswer, [Next]_vars PROVE AuditMatchesAnswer'
  OBVIOUS
<1> USE DEF AuditMatchesAnswer
<1>1. ASSUME NEW t \in Threads, pc[t] # "answered",
             NEW e \in Failures, NEW code \in {422, 500, 503}, FailWith(t, e, code),
             code = 422 => e = "payload_validation_failed",
             code = 503 => e = "schema_fetch_failed"
      PROVE  AuditMatchesAnswer'
  <2>1. /\ pc' = [pc EXCEPT ![t] = "answered"]
        /\ \/ /\ events' = [events EXCEPT ![t] = <<e>>]
              /\ status' = [status EXCEPT ![t] = code]
           \/ UNCHANGED events /\ status' = [status EXCEPT ![t] = 500]
    BY <1>1, FailWithAnswers
  <2>2. events[t] = <<>> /\ <<>> # <<"success">>
    BY <1>1 DEF TypeInv, CallInv
  <2>3. <<e>> # <<"success">>
    BY DEF Failures
  <2>4. /\ pc'[t] = "answered"
        /\ \/ events'[t] = <<e>> /\ status'[t] = code
           \/ events'[t] = <<>> /\ status'[t] = 500
        /\ \A s \in Threads \ {t} :
             pc'[s] = pc[s] /\ status'[s] = status[s] /\ events'[s] = events[s]
    BY <2>1, <2>2 DEF TypeInv, TypeOK
  <2> QED  BY <1>1, <2>2, <2>3, <2>4
<1>2. ASSUME NEW t \in Threads, FetchThrows(t) \/ PayloadInvalid(t)
      PROVE  AuditMatchesAnswer'
  BY <1>1, <1>2 DEF FetchThrows, PayloadInvalid, EndFetch, Failures
<1>3. ASSUME NEW t \in Threads, SignFails(t) \/ LogSuccessThrows(t)
      PROVE  AuditMatchesAnswer'
  BY <1>1, <1>3 DEF SignFails, LogSuccessThrows, Failures
<1>4. ASSUME NEW t \in Threads, Announce(t)
      PROVE  AuditMatchesAnswer'
  <2>1. pc[t] # "answered"
    BY <1>4 DEF Announce
  <2>2. Append(events[t], "success") = <<"success">>
    BY <2>1, FirstEvent
  <2>3. /\ pc'[t] = "answered" /\ status'[t] = 200 /\ events'[t] = <<"success">>
        /\ \A s \in Threads \ {t} :
             pc'[s] = pc[s] /\ status'[s] = status[s] /\ events'[s] = events[s]
    BY <1>4, <2>2 DEF Announce, LogSuccess, Respond, TypeInv, TypeOK
  <2> QED  BY <2>3
<1>5. ASSUME NEW t \in Threads, pc[t] # "answered", UNCHANGED events,
             status'[t] \in {400, 401, 403, 500},
             \A s \in Threads \ {t} : pc'[s] = pc[s] /\ status'[s] = status[s]
      PROVE  AuditMatchesAnswer'
  <2>1. events'[t] = <<>> /\ <<>> # <<"success">>
    BY <1>5 DEF TypeInv, CallInv
  <2> QED  BY <1>5, <2>1
<1>6. ASSUME NEW t \in Threads, NEW r \in Requests, Refuse(t, r)
      PROVE  AuditMatchesAnswer'
  BY <1>5, <1>6, RefuseAnswers
<1>7. ASSUME NEW t \in Threads, NoValidator(t) \/ FetchEscapes(t)
      PROVE  AuditMatchesAnswer'
  <2>1. pc[t] = "fetching" /\ Respond(t, 500) /\ UNCHANGED events
    BY <1>7 DEF NoValidator, FetchEscapes, EndFetch
  <2>2. /\ status'[t] = 500
        /\ \A s \in Threads \ {t} : pc'[s] = pc[s] /\ status'[s] = status[s]
    BY <2>1 DEF Respond, TypeInv, TypeOK
  <2> QED  BY <1>5, <2>1, <2>2
<1>8. ASSUME NEW t \in Threads,
             \/ \E r \in Requests : Load(t, r)
             \/ FetchSchema(t) \/ PayloadValid(t) \/ Sign(t)
      PROVE  AuditMatchesAnswer'
  BY <1>8 DEF Load, Receive, FetchSchema, Fetch, PayloadValid, EndFetch, Sign, TypeInv, TypeOK
<1>9. ASSUME NEW t \in Threads, Finish(t)
      PROVE  AuditMatchesAnswer'
  BY <1>9 DEF Finish, TypeInv, TypeOK
<1>10. CASE UNCHANGED locals
  BY <1>10 DEF locals
<1>11. ASSUME (\E t \in Threads : SourceAnswers(t)) \/ Environment \/ UNCHANGED vars
       PROVE  UNCHANGED locals
  BY <1>11 DEF SourceAnswers, Environment, Configure, SwitchKeys, vars
<1> QED
  BY <1>2, <1>3, <1>4, <1>6, <1>7, <1>8, <1>9, <1>10, <1>11 DEF Next, Proceed

(* A success is in the audit log exactly when the token goes out, also     *)
(* when the log fails.                                                     *)
THEOREM AuditMatchesAnswerAlways == Spec => []AuditMatchesAnswer
<1>1. Init => TypeInv /\ AuditMatchesAnswer
  BY InitTypeInv, InitAudit
<1>2. TypeInv /\ AuditMatchesAnswer /\ [Next]_vars => (TypeInv /\ AuditMatchesAnswer)'
  BY NextTypeInv, NextAudit
<1> QED  BY <1>1, <1>2, PTL DEF Spec

-----------------------------------------------------------------------------
(* A request past the checks, until its answer is anything but a token.    *)
Admitted(t) == pc[t] \in {"loaded", "fetching", "signing", "announcing"} \/ Minted(t)

(* It was admitted by a configuration in force, and holds that             *)
(* configuration.                                                          *)
AdmittedInv ==
  \A t \in Threads : Admitted(t) =>
    /\ req[t] # None
    /\ conf[t] \in inForce[t] /\ conf[t] \in TypeConfigs
    /\ Admissible(req[t], conf[t])

LEMMA InitAdmitted == Init => AdmittedInv
BY DEF Init, AdmittedInv, Admitted, Minted

(* A step that admits no request keeps what the admitted ones hold.        *)
LEMMA AdmittedKept ==
  ASSUME AdmittedInv, UNCHANGED <<req, conf>>,
         \A t \in Threads : inForce[t] \subseteq inForce'[t],
         \A t \in Threads : Admitted(t)' => Admitted(t)
  PROVE  AdmittedInv'
BY DEF AdmittedInv

LEMMA NextAdmitted == TypeInv /\ AdmittedInv /\ [Next]_vars => AdmittedInv'
<1> SUFFICES ASSUME TypeInv, AdmittedInv, [Next]_vars PROVE AdmittedInv'
  OBVIOUS
<1>1. ASSUME NEW t \in Threads, NEW r \in Requests, Load(t, r)
      PROVE  AdmittedInv'
  <2>1. LoadedConfig(r) \in TypeConfigs /\ Admissible(r, LoadedConfig(r))
    BY <1>1, ChecksAdmit DEF Load, TypeInv, TypeOK
  <2>2. /\ req'[t] = r /\ conf'[t] = LoadedConfig(r) /\ inForce'[t] = {LoadedConfig(r)}
        /\ r # None
        /\ \A s \in Threads \ {t} : /\ pc'[s] = pc[s] /\ status'[s] = status[s]
                                    /\ req'[s] = req[s] /\ conf'[s] = conf[s]
                                    /\ inForce'[s] = inForce[s]
    BY <1>1, NoneAssumption DEF Load, Receive, TypeInv, TypeOK
  <2> QED  BY <2>1, <2>2 DEF AdmittedInv, Admitted, Minted
<1>2. ASSUME NEW t \in Threads, (\E r \in Requests : Refuse(t, r)) \/ Finish(t)
      PROVE  AdmittedInv'
  <2>1. ~Admitted(t)'
    <3>1. ASSUME NEW r \in Requests, Refuse(t, r)
          PROVE  status'[t] # 200 /\ pc'[t] = "answered"
      BY <3>1, RefuseAnswers
    <3>2. ASSUME Finish(t)
          PROVE  pc'[t] = "idle"
      BY <3>2 DEF Finish, TypeInv, TypeOK
    <3> QED  BY <1>2, <3>1, <3>2 DEF Admitted, Minted
  <2>2. \A s \in Threads \ {t} : /\ pc'[s] = pc[s] /\ status'[s] = status[s]
                                 /\ req'[s] = req[s] /\ conf'[s] = conf[s]
                                 /\ inForce'[s] = inForce[s]
    BY <1>2 DEF Refuse, Receive, Finish, TypeInv, TypeOK
  <2> QED  BY <2>1, <2>2 DEF AdmittedInv, Admitted, Minted
<1>3. ASSUME NEW t \in Threads, Proceed(t), ~Finish(t)
      PROVE  AdmittedInv'
  <2>1. UNCHANGED <<req, conf, inForce>> /\ Admitted(t)
    BY <1>3 DEF Proceed, FetchSchema, Fetch, FetchThrows, FetchEscapes, NoValidator,
                PayloadInvalid, PayloadValid, EndFetch, SignFails, Sign, Announce, LogSuccessThrows,
                Admitted
  <2>2. \A s \in Threads \ {t} : pc'[s] = pc[s] /\ status'[s] = status[s]
    BY <1>3 DEF Proceed, FetchSchema, Fetch, FetchThrows, FetchEscapes, NoValidator,
                PayloadInvalid, PayloadValid, EndFetch, SignFails, Sign, Announce, LogSuccessThrows,
                FailWith, Respond, TypeInv, TypeOK
  <2> QED  BY <2>1, <2>2, AdmittedKept DEF Admitted, Minted
<1>4. ASSUME (\E t \in Threads : SourceAnswers(t)) \/ Environment \/ UNCHANGED vars
      PROVE  AdmittedInv'
  <2>1. UNCHANGED locals
    BY <1>4 DEF SourceAnswers, Environment, Configure, SwitchKeys, vars
  <2>2. \A t \in Threads : inForce[t] \subseteq inForce'[t]
    BY <1>4 DEF SourceAnswers, Environment, Configure, SwitchKeys, vars, TypeInv, TypeOK
  <2> QED  BY <2>1, <2>2, AdmittedKept DEF locals, Admitted, Minted
<1> QED  BY <1>1, <1>2, <1>3, <1>4 DEF Next

(* Tokens are built for admitted requests only.                            *)
TokenInv ==
  /\ token \in [Threads -> {Claims(r) : r \in Requests} \cup {None}]
  /\ \A t \in Threads : token[t] # None =>
       /\ pc[t] \in {"announcing", "answered"}
       /\ req[t].authenticated /\ req[t].role /\ req[t].type \in req[t].scopes
       /\ req[t].type \notin RESERVED_TYPES
       /\ token[t] = Claims(req[t])

LEMMA InitToken == Init => TokenInv
BY DEF Init, TokenInv

LEMMA NextToken == TypeInv /\ AdmittedInv /\ TokenInv /\ [Next]_vars => TokenInv'
<1> SUFFICES ASSUME TypeInv, AdmittedInv, TokenInv, [Next]_vars PROVE TokenInv'
  OBVIOUS
<1>1. ASSUME NEW t \in Threads, Sign(t)
      PROVE  TokenInv'
  <2>1. Admissible(req[t], conf[t]) /\ req[t] \in Requests
    BY <1>1 DEF Sign, AdmittedInv, Admitted, TypeInv, TypeOK
  <2>2. token' \in [Threads -> {Claims(r) : r \in Requests} \cup {None}]
    BY <1>1, <2>1 DEF Sign, TokenInv
  <2>3. /\ UNCHANGED req /\ pc'[t] = "announcing" /\ token'[t] = Claims(req[t])
        /\ \A s \in Threads \ {t} : pc'[s] = pc[s] /\ token'[s] = token[s]
    BY <1>1 DEF Sign, TokenInv, TypeInv, TypeOK
  <2> QED  BY <2>1, <2>2, <2>3 DEF TokenInv, Admissible
<1>2. ASSUME NEW t \in Threads, NEW r \in Requests, Refuse(t, r) \/ Load(t, r)
      PROVE  TokenInv'
  <2>1. token[t] = None
    BY <1>2 DEF Refuse, Load, Receive, TokenInv
  <2>2. /\ UNCHANGED token
        /\ \A s \in Threads \ {t} : pc'[s] = pc[s] /\ req'[s] = req[s]
    BY <1>2 DEF Refuse, Load, Receive, TypeInv, TypeOK
  <2> QED  BY <2>1, <2>2 DEF TokenInv
<1>3. ASSUME NEW t \in Threads, Finish(t)
      PROVE  TokenInv'
  BY <1>3 DEF Finish, TokenInv, TypeInv, TypeOK
<1>4. ASSUME NEW t \in Threads, Proceed(t), ~Sign(t), ~Finish(t)
      PROVE  TokenInv'
  <2>1. /\ UNCHANGED <<req, token>>
        /\ token[t] # None => pc'[t] = "answered"
        /\ \A s \in Threads \ {t} : pc'[s] = pc[s]
    BY <1>4 DEF Proceed, FetchSchema, Fetch, FetchThrows, FetchEscapes, NoValidator,
                PayloadInvalid, PayloadValid, EndFetch, SignFails, Announce, LogSuccessThrows, FailWith,
                Respond, TokenInv, TypeInv, TypeOK
  <2> QED  BY <2>1 DEF TokenInv
<1>5. ASSUME (\E t \in Threads : SourceAnswers(t)) \/ Environment \/ UNCHANGED vars
      PROVE  TokenInv'
  <2>1. UNCHANGED locals
    BY <1>5 DEF SourceAnswers, Environment, Configure, SwitchKeys, vars
  <2> QED  BY <2>1 DEF locals, TokenInv
<1> QED  BY <1>1, <1>2, <1>3, <1>4, <1>5 DEF Next

(* No token, however the realm is edited meanwhile, without both gates of  *)
(* the authorization model, and none in which the payload decides a claim  *)
(* of the service.                                                         *)
THEOREM MintedAuthorisedAlways == Spec => []MintedAuthorised
<1>1. Init => TypeInv /\ AdmittedInv /\ TokenInv
  BY InitTypeInv, InitAdmitted, InitToken
<1>2. TypeInv /\ AdmittedInv /\ TokenInv /\ [Next]_vars =>
        (TypeInv /\ AdmittedInv /\ TokenInv)'
  BY NextTypeInv, NextAdmitted, NextToken
<1>3. TokenInv => MintedAuthorised
  BY ServiceClaimsReserved DEF TokenInv, MintedAuthorised
<1> QED  BY <1>1, <1>2, <1>3, PTL DEF Spec

-----------------------------------------------------------------------------
(* What the source remembers or has answered, and what a request holds, is *)
(* a version that has been published.                                      *)
PublishedInv ==
  /\ \A u \in Uris, v \in 1 .. MaxVersion : answered[u][v] <= Window => v <= origin[u]
  /\ \A t \in Threads : pc[t] = "fetching" /\ outcome[t].kind \in Answers =>
       outcome[t].schema.version <= origin[conf[t].uri]

(* The payload of a request that goes on to step 12 is valid for it.       *)
Validated(t) == /\ schema[t].version <= origin[conf[t].uri]
                /\ req[t].payload \in Conforms[conf[t].uri][schema[t].version]

ValidatedInv ==
  \A t \in Threads : pc[t] \in {"signing", "announcing"} \/ Minted(t) =>
    schema[t] \in FetchedSchema /\ Validated(t)

LEMMA InitValidated == Init => PublishedInv /\ ValidatedInv
BY ParametersAssumption
   DEF Init, Source!Init, Source!Pending, PublishedInv, ValidatedInv, Minted

LEMMA NextPublished ==
  TypeInv /\ AdmittedInv /\ PublishedInv /\ [Next]_vars => PublishedInv'
<1> SUFFICES ASSUME TypeInv, AdmittedInv, PublishedInv, [Next]_vars PROVE PublishedInv'
  OBVIOUS
<1>1. ASSUME NEW t \in Threads, SourceAnswers(t)
      PROVE  PublishedInv'
  <2> DEFINE u == conf[t].uri
  <2>1. /\ pc[t] = "fetching" /\ call[t].uri = u /\ u \in Uris
        /\ UNCHANGED <<origin, pc, conf>>
        /\ \A s \in Threads \ {t} : outcome'[s] = outcome[s]
    BY <1>1, AnswerCalls, Arguments DEF TypeInv, TypeOK, CallInv, SourceAnswers, locals
  <2>2. origin[u] \in 1 .. MaxVersion /\ answered \in [Uris -> [1 .. MaxVersion -> 0 .. Horizon]]
        /\ outcome \in [Threads -> [kind : Source!Kinds, schema : FetchedSchema \cup {None}]]
    BY <2>1 DEF TypeInv, TypeOK, Source!TypeOK
  <2> HIDE DEF u
  <2>3. ASSUME NEW kind \in {"fetched", "revalidated"}, NEW s \in FetchedSchema,
               Source!AnswerCurrent(t, kind, s)
        PROVE  PublishedInv'
    <3>1. /\ s.version \in 1 .. MaxVersion /\ s.version <= origin[u]
          /\ outcome'[t].schema = s
          /\ answered' = [answered EXCEPT ![u][s.version] = 0]
      BY <2>1, <2>2, <2>3, Arguments DEF Source!AnswerCurrent
    <3>2. \A x \in Uris, v \in 1 .. MaxVersion :
            answered'[x][v] = answered[x][v] \/ (x = u /\ v = s.version)
      BY <2>1, <2>2, <3>1
    <3> QED  BY <2>1, <3>1, <3>2 DEF PublishedInv, u
  <2>4. ASSUME NEW s \in FetchedSchema, Source!AnswerRemembered(t, s)
        PROVE  PublishedInv'
    <3>1. /\ s.version \in 1 .. MaxVersion /\ answered[u][s.version] <= Window
          /\ outcome'[t].schema = s /\ UNCHANGED answered
      BY <2>1, <2>2, <2>4, Arguments DEF Source!AnswerRemembered
    <3> QED  BY <2>1, <3>1 DEF PublishedInv, u
  <2>5. ASSUME Source!Fail(t) \/ Source!Unusable(t)
        PROVE  PublishedInv'
    <3>1. outcome'[t].kind \notin Answers /\ UNCHANGED answered
      BY <2>2, <2>5 DEF Source!Fail, Source!Unusable, Source!Failed, Answers
    <3> QED  BY <2>1, <3>1 DEF PublishedInv
  <2> QED  BY <1>1, <2>3, <2>4, <2>5 DEF SourceAnswers
<1>2. CASE Environment
  <2>1. UNCHANGED <<pc, conf, outcome>>
    BY <1>2 DEF Environment, Configure, SwitchKeys, srcVars, locals, Source!Publish,
                Source!Age
  <2>2. \A u \in Uris : origin[u] \in Nat /\ origin'[u] \in Nat /\ origin[u] <= origin'[u]
    BY <1>2, OriginGrows
  <2>3. \A u \in Uris, v \in 1 .. MaxVersion :
          answered'[u][v] <= Window => answered[u][v] <= Window
    <3>1. ASSUME Source!Age, NEW u \in Uris, NEW v \in 1 .. MaxVersion
          PROVE  answered'[u][v] <= Window => answered[u][v] <= Window
      <4>1. answered[u][v] \in 0 .. Horizon
        <5>1. answered \in [Uris -> [1 .. MaxVersion -> 0 .. Horizon]]
          BY DEF TypeInv, TypeOK, Source!TypeOK
        <5>2. answered[u] \in [1 .. MaxVersion -> 0 .. Horizon]
          BY <5>1
        <5> QED  BY <5>2
      <4>2. answered'[u][v] = IF answered[u][v] < Horizon
                               THEN answered[u][v] + 1 ELSE Horizon
        BY <3>1 DEF Source!Age
      <4> QED  BY <4>1, <4>2, ParametersAssumption
    <3>2. CASE UNCHANGED answered
      BY <3>2
    <3> QED
      BY <1>2, <3>1, <3>2 DEF Environment, Configure, SwitchKeys, srcVars, Source!Publish
  <2>4. \A u \in Uris, v \in 1 .. MaxVersion : answered'[u][v] <= Window => v <= origin'[u]
    BY <2>2, <2>3 DEF PublishedInv
  <2>5. ASSUME NEW t \in Threads, pc[t] = "fetching", outcome[t].kind \in Answers
        PROVE  outcome[t].schema.version <= origin'[conf[t].uri]
    <3>1. outcome[t].schema.version \in Nat /\ conf[t].uri \in Uris
      BY <2>5, Arguments DEF TypeInv, TypeOK, CallInv
    <3>2. outcome[t].schema.version <= origin[conf[t].uri]
      BY <2>5 DEF PublishedInv
    <3> QED  BY <2>2, <3>1, <3>2
  <2> QED  BY <2>1, <2>4, <2>5 DEF PublishedInv
<1>3. ASSUME NEW t \in Threads, FetchSchema(t)
      PROVE  PublishedInv'
  <2>1. /\ UNCHANGED <<origin, answered>> /\ outcome'[t].kind \notin Answers
        /\ \A s \in Threads \ {t} : outcome'[s] = outcome[s]
    BY <1>3, FetchCalls DEF Answers
  <2>2. UNCHANGED conf /\ \A s \in Threads \ {t} : pc'[s] = pc[s]
    BY <1>3 DEF FetchSchema, Fetch, TypeInv, TypeOK
  <2>3. \A s \in Threads : pc'[s] = "fetching" /\ outcome'[s].kind \in Answers =>
          s # t /\ pc[s] = "fetching" /\ outcome[s].kind \in Answers
    BY <2>1, <2>2
  <2> QED  BY <2>1, <2>2, <2>3 DEF PublishedInv
<1>4. ASSUME NEW t \in Threads, NEW kinds, EndFetch(t, kinds), pc'[t] # "fetching",
             \A s \in Threads \ {t} : pc'[s] = pc[s]
      PROVE  PublishedInv'
  <2>1. UNCHANGED conf
    BY <1>4 DEF EndFetch
  <2> QED  BY <1>4, <2>1, EndFetchCalls DEF PublishedInv
<1>5. ASSUME NEW t \in Threads,
             \/ FetchThrows(t) \/ FetchEscapes(t) \/ NoValidator(t)
             \/ PayloadInvalid(t) \/ PayloadValid(t)
      PROVE  PublishedInv'
  <2>1. pc'[t] # "fetching" /\ \A s \in Threads \ {t} : pc'[s] = pc[s]
    BY <1>5 DEF FetchThrows, FetchEscapes, NoValidator, PayloadInvalid, PayloadValid,
                FailWith, Respond, TypeInv, TypeOK
  <2> QED
    BY <1>4, <1>5, <2>1 DEF FetchThrows, FetchEscapes, NoValidator, PayloadInvalid, PayloadValid
<1>6. ASSUME NEW t \in Threads,
             \/ \E r \in Requests : Refuse(t, r) \/ Load(t, r)
             \/ SignFails(t) \/ Sign(t) \/ Announce(t) \/ LogSuccessThrows(t)
             \/ Finish(t)
      PROVE  PublishedInv'
  <2>1. UNCHANGED <<origin, answered, outcome>>
    BY <1>6 DEF Refuse, Load, Receive, SignFails, Sign, Announce, LogSuccessThrows, Finish,
                srcVars
  <2>2. \A s \in Threads : pc'[s] = "fetching" => pc[s] = "fetching" /\ conf'[s] = conf[s]
    BY <1>6 DEF Refuse, Load, Receive, SignFails, Sign, Announce, LogSuccessThrows, Finish,
                FailWith, Respond, TypeInv, TypeOK
  <2> QED  BY <2>1, <2>2 DEF PublishedInv
<1>7. CASE UNCHANGED vars
  BY <1>7 DEF vars, srcVars, locals, PublishedInv
<1> QED  BY <1>1, <1>2, <1>3, <1>5, <1>6, <1>7 DEF Next, Proceed

LEMMA NextValidated ==
  TypeInv /\ AdmittedInv /\ PublishedInv /\ ValidatedInv /\ [Next]_vars => ValidatedInv'
<1> SUFFICES ASSUME TypeInv, AdmittedInv, PublishedInv, ValidatedInv, [Next]_vars
             PROVE  ValidatedInv'
  OBVIOUS
<1> DEFINE Past(t) == pc[t] \in {"signing", "announcing"} \/ Minted(t)
<1>1. ASSUME NEW t \in Threads, PayloadValid(t)
      PROVE  ValidatedInv'
  <2>1. /\ pc[t] = "fetching" /\ outcome[t].kind \in Answers
        /\ outcome[t].schema \in FetchedSchema
    BY <1>1 DEF PayloadValid, EndFetch, TypeInv, CallInv
  <2>2. call[t].uri = conf[t].uri
    BY <2>1, Arguments DEF TypeInv, TypeOK, CallInv
  <2>3. /\ outcome[t].schema.version <= origin[conf[t].uri]
        /\ req[t].payload \in Conforms[conf[t].uri][outcome[t].schema.version]
    BY <1>1, <2>1, <2>2 DEF PayloadValid, IsValid, PublishedInv
  <2>4. /\ UNCHANGED <<req, conf, status>> /\ schema'[t] = outcome[t].schema
        /\ \A s \in Threads \ {t} : pc'[s] = pc[s] /\ schema'[s] = schema[s]
    BY <1>1 DEF PayloadValid, EndFetch, TypeInv, TypeOK
  <2>5. UNCHANGED origin
    BY <1>1 DEF PayloadValid, EndFetch, Source!End
  <2>6. schema'[t] \in FetchedSchema /\ Validated(t)'
    BY <2>1, <2>3, <2>4, <2>5 DEF Validated
  <2> QED  BY <2>4, <2>5, <2>6 DEF ValidatedInv, Validated, Minted
<1>2. ASSUME \A t \in Threads : Past(t)' => Past(t) /\ UNCHANGED <<req[t], conf[t], schema[t]>>,
             \A u \in Uris : origin[u] \in Nat /\ origin'[u] \in Nat /\ origin[u] <= origin'[u]
      PROVE  ValidatedInv'
  <2> SUFFICES ASSUME NEW t \in Threads, Past(t)'
               PROVE  schema'[t] \in FetchedSchema /\ Validated(t)'
    BY DEF ValidatedInv
  <2>1. schema[t] \in FetchedSchema /\ Validated(t)
    BY <1>2 DEF ValidatedInv
  <2>2. conf[t].uri \in Uris /\ schema[t].version \in Nat
    BY <1>2, <2>1, Arguments DEF AdmittedInv, Admitted
  <2>3. UNCHANGED <<req[t], conf[t], schema[t]>>
    BY <1>2
  <2> HIDE DEF Past
  <2> QED  BY <1>2, <2>1, <2>2, <2>3 DEF Validated
<1>3. CASE Environment
  <2>1. UNCHANGED <<pc, status, req, conf, schema>>
    BY <1>3 DEF Environment, Configure, SwitchKeys, locals
  <2>2. \A u \in Uris : origin[u] \in Nat /\ origin'[u] \in Nat /\ origin[u] <= origin'[u]
    BY <1>3, OriginGrows
  <2> QED  BY <1>2, <2>1, <2>2 DEF Minted
<1>4. \A u \in Uris : origin[u] \in Nat
  BY DEF TypeInv, TypeOK, Source!TypeOK
<1>5. ASSUME NEW t \in Threads, Proceed(t), ~PayloadValid(t), ~Finish(t)
      PROVE  ValidatedInv'
  <2>1. UNCHANGED <<req, conf, schema, origin>>
    BY <1>5 DEF Proceed, FetchSchema, Fetch, FetchThrows, FetchEscapes, NoValidator,
                PayloadInvalid, EndFetch, SignFails, Sign, Announce, LogSuccessThrows, srcVars,
                Source!Begin, Source!Refuse, Source!Ask, Source!End
  <2>2. /\ Past(t)' => Past(t)
        /\ \A s \in Threads \ {t} : pc'[s] = pc[s] /\ status'[s] = status[s]
    BY <1>5 DEF Proceed, FetchSchema, Fetch, FetchThrows, FetchEscapes, NoValidator,
                PayloadInvalid, EndFetch, SignFails, Sign, Announce, LogSuccessThrows, FailWith, Respond,
                Minted, TypeInv, TypeOK
  <2> QED  BY <1>2, <1>4, <2>1, <2>2 DEF Minted
<1>6. ASSUME NEW t \in Threads, (\E r \in Requests : Refuse(t, r) \/ Load(t, r)) \/ Finish(t)
      PROVE  ValidatedInv'
  <2>1. ~Past(t)'
    <3>1. ASSUME NEW r \in Requests, Refuse(t, r)
          PROVE  status'[t] # 200 /\ pc'[t] = "answered"
      BY <3>1, RefuseAnswers
    <3>2. ASSUME (\E r \in Requests : Load(t, r)) \/ Finish(t)
          PROVE  pc'[t] \in {"loaded", "idle"}
      BY <3>2 DEF Load, Finish, TypeInv, TypeOK
    <3> QED  BY <1>6, <3>1, <3>2 DEF Minted
  <2>2. /\ UNCHANGED origin
        /\ \A s \in Threads \ {t} : /\ pc'[s] = pc[s] /\ status'[s] = status[s]
                                    /\ UNCHANGED <<req[s], conf[s], schema[s]>>
    BY <1>6 DEF Refuse, Load, Receive, Finish, srcVars, TypeInv, TypeOK
  <2> QED  BY <1>2, <1>4, <2>1, <2>2 DEF Minted
<1>7. ASSUME (\E t \in Threads : SourceAnswers(t)) \/ UNCHANGED vars
      PROVE  ValidatedInv'
  <2>1. UNCHANGED <<pc, status, req, conf, schema, origin>>
    BY <1>7, AnswerCalls DEF SourceAnswers, locals, vars, srcVars
  <2> QED  BY <1>2, <1>4, <2>1 DEF Minted
<1> QED  BY <1>1, <1>3, <1>5, <1>6, <1>7 DEF Next

(* A token that goes out was permitted by the configuration its request    *)
(* held, which was in force during it, and its payload was validated       *)
(* against a version of that configuration's schema that its owner had     *)
(* published.                                                              *)
THEOREM MintedUnderOneConfigurationAlways == Spec => []MintedUnderOneConfiguration
<1>1. Init => TypeInv /\ AdmittedInv /\ PublishedInv /\ ValidatedInv
  BY InitTypeInv, InitAdmitted, InitValidated
<1>2. TypeInv /\ AdmittedInv /\ PublishedInv /\ ValidatedInv /\ [Next]_vars =>
        (TypeInv /\ AdmittedInv /\ PublishedInv /\ ValidatedInv)'
  BY NextTypeInv, NextAdmitted, NextPublished, NextValidated
<1>3. AdmittedInv /\ ValidatedInv => MintedUnderOneConfiguration
  <2> SUFFICES ASSUME AdmittedInv, ValidatedInv, NEW t \in Threads, Minted(t)
               PROVE  \E c \in inForce[t] \ {None} :
                        /\ 0 < req[t].ttl /\ req[t].ttl <= c.maxTtl
                        /\ req[t].audience \in c.audiences
                        /\ schema[t].version <= origin[c.uri]
                        /\ req[t].payload \in Conforms[c.uri][schema[t].version]
    BY DEF MintedUnderOneConfiguration
  <2>1. /\ conf[t] \in inForce[t] /\ conf[t] \in TypeConfigs
        /\ Admissible(req[t], conf[t])
    BY DEF AdmittedInv, Admitted
  <2>2. conf[t] \in inForce[t] \ {None}
    BY <2>1, NoneAssumption
  <2>3. Validated(t)
    BY DEF ValidatedInv
  <2> WITNESS conf[t] \in inForce[t] \ {None}
  <2> QED  BY <2>1, <2>3 DEF Admissible, Validated
<1> QED  BY <1>1, <1>2, <1>3, PTL DEF Spec
=============================================================================
