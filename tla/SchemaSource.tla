---------------------------- MODULE SchemaSource ----------------------------
(***************************************************************************)
(* What the schema subsystem promises the mint endpoint, with no cache in  *)
(* sight.  A call gets a version of the schema that its owner had current  *)
(* at some moment of the call, or, when the owner cannot be asked, one     *)
(* that another call returned as its owner's answer at most Window seconds *)
(* ago.  It fails for lack of an answer only when nothing was returned     *)
(* recently enough to be remembered, where "recently" is shortened by the  *)
(* time a call may take from the owner's answer to its own return.  It     *)
(* promises no end: a call may wait for its owner for ever.                *)
(*                                                                         *)
(* SchemaFetcher implements this specification.                            *)
(***************************************************************************)
EXTENDS Naturals

CONSTANTS
  Threads,      \* request threads
  Uris,
  Configs,      \* the callers' configurations, each with a field uri
  MaxVersion,
  Schemas,      \* what a call can be answered with, each with a field version
  Window,       \* seconds for which a returned version may stand in
  Memory,       \* a version returned less than this ago is not forgotten
  Horizon,      \* ages are counted up to here
  MayForget,    \* TRUE when memory is too small for the URIs in use
  Alike,        \* Alike[u][v]: the versions the owner of u cannot tell from v
  None

(* "illegal" is an exception that is no SchemaFetchException.              *)
Kinds == {"pending", "fetched", "revalidated", "fallback", "transient", "permanent",
          "illegal"}

VARIABLES
  origin,     \* origin[u]: the version the owner of u publishes now
  call,       \* call[t]: what thread t asks for, or None
  seen,       \* seen[t]: the versions that were current during the call of t
  answered,   \* answered[u][v]: seconds since a call returned v as the owner's answer
  lag,        \* the longest that a call took from the owner's answer to its return
  outcome     \* outcome[t]: how the call of t ended

TypeOK ==
  /\ origin \in [Uris -> 1 .. MaxVersion]
  /\ call \in [Threads -> Configs \cup {None}]
  /\ seen \in [Threads -> SUBSET (1 .. MaxVersion)]
  /\ answered \in [Uris -> [1 .. MaxVersion -> 0 .. Horizon]]
  /\ lag \in 0 .. Horizon
  /\ outcome \in [Threads -> [kind : Kinds, schema : Schemas \cup {None}]]

srcVars == <<origin, call, seen, answered, lag, outcome>>

Pending == [kind |-> "pending", schema |-> None]
Failed(kind) == [kind |-> kind, schema |-> None]

Init == /\ origin = [u \in Uris |-> 1]
        /\ call = [t \in Threads |-> None]
        /\ seen = [t \in Threads |-> {}]
        /\ answered = [u \in Uris |-> [v \in 1 .. MaxVersion |-> Horizon]]
        /\ lag = 0
        /\ outcome = [t \in Threads |-> Pending]

Waiting(t) == call[t] # None /\ outcome[t] = Pending

(* The owner of u publishes its next version.                              *)
Publish(u) ==
  /\ origin[u] < MaxVersion
  /\ origin' = [origin EXCEPT ![u] = @ + 1]
  /\ seen' = [t \in Threads |->
                IF Waiting(t) /\ call[t].uri = u
                THEN seen[t] \cup {origin[u] + 1} ELSE seen[t]]
  /\ UNCHANGED <<call, answered, lag, outcome>>

Ask(t, c, answer) ==
  /\ call[t] = None
  /\ call' = [call EXCEPT ![t] = c]
  /\ seen' = [seen EXCEPT ![t] = {origin[c.uri]}]
  /\ outcome' = [outcome EXCEPT ![t] = answer]
  /\ UNCHANGED <<origin, answered, lag>>

Begin(t, c) == Ask(t, c, Pending)

(* The URI itself is refused, or no request can be made of it.             *)
Refuse(t, c) == \E kind \in {"permanent", "illegal"} : Ask(t, c, Failed(kind))

AnswerCurrent(t, kind, schema) ==
  LET u == call[t].uri IN
  /\ Waiting(t)
  /\ schema.version <= origin[u]
  /\ seen[t] \cap Alike[u][schema.version] # {}
  /\ outcome' = [outcome EXCEPT ![t] = [kind |-> kind, schema |-> schema]]
  /\ answered' = [answered EXCEPT ![u][schema.version] = 0]
  /\ lag' \in {l \in 0 .. Horizon : lag <= l}
  /\ UNCHANGED <<origin, call, seen>>

AnswerRemembered(t, schema) ==
  /\ Waiting(t)
  /\ answered[call[t].uri][schema.version] <= Window
  /\ outcome' = [outcome EXCEPT ![t] = [kind |-> "fallback", schema |-> schema]]
  /\ UNCHANGED <<origin, call, seen, answered, lag>>

(* No answer: only when nothing could have been remembered.                *)
Fail(t) ==
  /\ Waiting(t)
  /\ \/ MayForget
     \/ \A v \in 1 .. MaxVersion :
          answered[call[t].uri][v] + lag > Window \/ answered[call[t].uri][v] >= Memory
  /\ outcome' = [outcome EXCEPT ![t] = Failed("transient")]
  /\ UNCHANGED <<origin, call, seen, answered, lag>>

(* The owner's answer is not usable and must not be replaced by an old one. *)
Unusable(t) ==
  /\ Waiting(t)
  /\ outcome' = [outcome EXCEPT ![t] = Failed("permanent")]
  /\ UNCHANGED <<origin, call, seen, answered, lag>>

End(t) ==
  /\ outcome[t] # Pending
  /\ call' = [call EXCEPT ![t] = None]
  /\ seen' = [seen EXCEPT ![t] = {}]
  /\ outcome' = [outcome EXCEPT ![t] = Pending]
  /\ UNCHANGED <<origin, answered, lag>>

(* A second passes.                                                        *)
Age ==
  /\ answered' = [u \in Uris |-> [v \in 1 .. MaxVersion |->
                    IF answered[u][v] < Horizon THEN answered[u][v] + 1 ELSE Horizon]]
  /\ UNCHANGED <<origin, call, seen, lag, outcome>>

Next ==
  \/ \E u \in Uris : Publish(u)
  \/ Age
  \/ \E t \in Threads :
       \/ \E c \in Configs : Begin(t, c) \/ Refuse(t, c)
       \/ \E kind \in {"fetched", "revalidated"}, schema \in Schemas :
            AnswerCurrent(t, kind, schema)
       \/ \E schema \in Schemas : AnswerRemembered(t, schema)
       \/ Fail(t)
       \/ Unusable(t)
       \/ End(t)

Spec == Init /\ [][Next]_srcVars
=============================================================================
