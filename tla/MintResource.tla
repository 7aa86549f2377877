---------------------------- MODULE MintResource ----------------------------
(***************************************************************************)
(* The mint endpoint (MintResource.java): POST /realms/{realm}/mint/token. *)
(* Each request runs on a thread of its own through the twelve steps of    *)
(* the pipeline, while administrators edit the realm, the owners of the    *)
(* schemas publish, and the audit log may fail.                            *)
(*                                                                         *)
(* A request blocks in one place, the fetch of the schema.  What happens   *)
(* there is left to SchemaSource, which SchemaFetcher implements.          *)
(***************************************************************************)
EXTENDS Integers, Sequences

CONSTANTS
  Threads,
  Requests,        \* callers' requests: [authenticated, role, scopes, body,
                   \*   type, ttl, audience, payload]
  Types,           \* the types a client scope mint:<type> may exist for
  WellFormed,      \* the type names that match TYPE_PATTERN
  TypeConfigs,     \* [uri, override, maxTtl, audiences]
  KeySets,         \* sets of algorithms a realm may have active keys for
  Oversized,       \* the payloads beyond max-payload-bytes or -depth
  Conforms,        \* Conforms[u][v]: the payloads valid for version v of u
  Supported,       \* the content types some PayloadValidator supports
  Uris, MaxVersion, ContentTypes, Window, Memory, Horizon, MayForget, Alike,
  None

VARIABLES
  origin, call, seen, answered, lag, outcome,  \* those of SchemaSource
  config,    \* config[ty]: the attributes of the client scope mint:<ty>, None
             \*   where the scope or a required attribute is missing or unreadable
  keys,      \* the algorithms the realm has an active signing key for
  pc,        \* pc[t]: the step of the pipeline
  req,       \* req[t]: the request of t
  conf,      \* conf[t]: the TypeConfig that step 6 loaded
  schema,    \* schema[t]: what step 10 returned
  token,     \* token[t]: the claims of the token step 12 built
  status,    \* status[t]: the HTTP status, 0 before the answer
  events,    \* events[t]: the events logged for the request of t
  inForce    \* history: the configurations of the type in force since the
             \*   request of t began

srcVars == <<origin, call, seen, answered, lag, outcome>>
locals == <<pc, req, conf, schema, token, status, events>>
vars == <<srcVars, config, keys, locals, inForce>>

FetchedSchema == [version : 1 .. MaxVersion, contentType : ContentTypes]

(* The arguments of schemaFetcher.fetch.                                   *)
FetchArguments(c) == [uri |-> c.uri, override |-> c.override]

ASSUME NoneAssumption ==
  /\ None \notin Requests /\ None \notin TypeConfigs /\ None \notin FetchedSchema
  /\ \A c \in TypeConfigs : None # FetchArguments(c)
ASSUME ParametersAssumption ==
  /\ \A c \in TypeConfigs : c.uri \in Uris
  /\ MaxVersion \in Nat \ {0}
  /\ Window \in Nat /\ Horizon \in Nat /\ Window < Horizon

Source == INSTANCE SchemaSource WITH
            Configs <- {FetchArguments(c) : c \in TypeConfigs},
            Schemas <- FetchedSchema

Steps == {"idle", "loaded", "fetching", "signing", "announcing", "answered"}
Failures == {"schema_fetch_failed", "payload_validation_failed", "token_build_failed"}

TypeOK ==
  /\ Source!TypeOK
  /\ config \in [Types -> TypeConfigs \cup {None}]
  /\ keys \in KeySets
  /\ pc \in [Threads -> Steps]
  /\ req \in [Threads -> Requests \cup {None}]
  /\ conf \in [Threads -> TypeConfigs \cup {None}]
  /\ schema \in [Threads -> FetchedSchema \cup {None}]
  /\ status \in [Threads -> {0, 200, 400, 401, 403, 422, 500, 503}]
  /\ events \in [Threads -> {<<>>} \cup {<<e>> : e \in Failures \cup {"success"}}]
  /\ inForce \in [Threads -> SUBSET (TypeConfigs \cup {None})]

Init ==
  /\ Source!Init
  /\ config \in [Types -> TypeConfigs \cup {None}]
  /\ keys \in KeySets
  /\ pc = [t \in Threads |-> "idle"]
  /\ req = [t \in Threads |-> None]
  /\ conf = [t \in Threads |-> None]
  /\ schema = [t \in Threads |-> None]
  /\ token = [t \in Threads |-> None]
  /\ status = [t \in Threads |-> 0]
  /\ events = [t \in Threads |-> <<>>]
  /\ inForce = [t \in Threads |-> {}]

-----------------------------------------------------------------------------
(* Steps 1 to 9: checks of the request, the caller's token and the loaded  *)
(* configuration.                                                          *)

RESERVED_TYPES == {"iss", "sub", "aud", "exp", "iat", "nbf", "jti", "azp", "act",
                   "scope", "type"}

Checks == <<"bearer", "role", "body", "type", "reserved", "scope", "config", "ttl",
            "audience", "payload">>

(* An empty request is no body at all: getType throws, and the server      *)
(* answers 500.  A body that does not parse never reaches mint.            *)
RefusalStatus == [bearer |-> 401, role |-> 403, body |-> 500, type |-> 400,
                  reserved |-> 400, scope |-> 403, config |-> 500, ttl |-> 400,
                  audience |-> 403, payload |-> 400]

(* Mutant: the scope gate is left to the client scope's existence.         *)
PassesUnscoped(check, r, c) ==
  CASE check = "bearer"   -> r.authenticated
    [] check = "role"     -> r.role
    [] check = "body"     -> r.body
    [] check = "type"     -> r.type \in WellFormed
    [] check = "reserved" -> r.type \notin RESERVED_TYPES
    [] check = "scope"    -> TRUE
    [] check = "config"   -> c # None
    [] check = "ttl"      -> c # None /\ 0 < r.ttl /\ r.ttl <= c.maxTtl
    [] check = "audience" -> c # None /\ r.audience \in c.audiences
    [] check = "payload"  -> r.payload # None /\ r.payload \notin Oversized

Passes(check, r, c) ==
  CASE check = "bearer"   -> r.authenticated
    [] check = "role"     -> r.role
    [] check = "body"     -> r.body
    [] check = "type"     -> r.type \in WellFormed
    [] check = "reserved" -> r.type \notin RESERVED_TYPES
    [] check = "scope"    -> r.type \in r.scopes
    [] check = "config"   -> c # None
    [] check = "ttl"      -> c # None /\ 0 < r.ttl /\ r.ttl <= c.maxTtl
    [] check = "audience" -> c # None /\ r.audience \in c.audiences
    [] check = "payload"  -> r.payload # None /\ r.payload \notin Oversized

LoadedConfig(r) == IF r.type \in Types THEN config[r.type] ELSE None

Failing(r) == {i \in DOMAIN Checks : ~Passes(Checks[i], r, LoadedConfig(r))}

Receive(t, r) ==
  /\ pc[t] = "idle"
  /\ req' = [req EXCEPT ![t] = r]
  /\ inForce' = [inForce EXCEPT ![t] = {LoadedConfig(r)}]
  /\ UNCHANGED <<srcVars, config, keys, schema, token, events>>

(* The first check that fails decides the status.  Nothing is logged.      *)
Refuse(t, r) ==
  /\ Receive(t, r)
  /\ \E i \in Failing(r) : /\ \A j \in Failing(r) : i <= j
                           /\ status' = [status EXCEPT ![t] = RefusalStatus[Checks[i]]]
  /\ pc' = [pc EXCEPT ![t] = "answered"]
  /\ UNCHANGED conf

(* The configuration is read once, and the checks after step 6 use what    *)
(* was read.                                                               *)
Load(t, r) ==
  /\ Receive(t, r)
  /\ Failing(r) = {}
  /\ conf' = [conf EXCEPT ![t] = LoadedConfig(r)]
  /\ pc' = [pc EXCEPT ![t] = "loaded"]
  /\ UNCHANGED status

-----------------------------------------------------------------------------
(* Steps 10 and 11.                                                        *)

Fetch(t, c) == /\ Source!Begin(t, FetchArguments(c)) \/ Source!Refuse(t, FetchArguments(c))
               /\ pc' = [pc EXCEPT ![t] = "fetching"]
               /\ UNCHANGED <<config, keys, req, conf, schema, token, status, events, inForce>>

(* Mutant: the schema URI is read from the scope again.                    *)
FetchSchemaReloaded(t) == /\ pc[t] = "loaded"
                          /\ LoadedConfig(req[t]) # None
                          /\ Fetch(t, LoadedConfig(req[t]))

FetchSchema(t) == pc[t] = "loaded" /\ Fetch(t, conf[t])

Respond(t, code) == /\ pc' = [pc EXCEPT ![t] = "answered"]
                    /\ status' = [status EXCEPT ![t] = code]

LogFailure(t, event) == events' = [events EXCEPT ![t] = Append(@, event)]

(* logFailure records its event, or throws out of mint: then the server    *)
(* answers 500 on its behalf.                                              *)
FailWith(t, event, code) ==
  \/ LogFailure(t, event) /\ Respond(t, code)
  \/ UNCHANGED events /\ Respond(t, 500)

(* The fetch has returned or thrown.                                       *)
EndFetch(t, kinds) ==
  /\ pc[t] = "fetching"
  /\ outcome[t].kind \in kinds
  /\ Source!End(t)
  /\ UNCHANGED <<config, keys, req, conf, token, inForce>>

(* Mutant: a failed fetch is tried again until it succeeds.                *)
FetchRetried(t) ==
  /\ EndFetch(t, {"transient", "permanent"})
  /\ pc' = [pc EXCEPT ![t] = "loaded"]
  /\ UNCHANGED <<schema, status, events>>

(* Whatever the cause, transient or not, the answer is 503.                *)
FetchThrows(t) ==
  /\ EndFetch(t, {"transient", "permanent"})
  /\ FailWith(t, "schema_fetch_failed", 503)
  /\ UNCHANGED schema

(* An IllegalArgumentException is not caught: it leaves mint, and the      *)
(* server answers 500.                                                     *)
FetchEscapes(t) ==
  /\ EndFetch(t, {"illegal"})
  /\ Respond(t, 500)
  /\ UNCHANGED <<schema, events>>

Answers == {"fetched", "revalidated", "fallback"}

HasValidator(t) == outcome[t].schema.contentType \in Supported
IsValid(t) == req[t].payload \in Conforms[call[t].uri][outcome[t].schema.version]

(* Nothing is logged here either.                                          *)
NoValidator(t) ==
  /\ EndFetch(t, Answers)
  /\ ~HasValidator(t)
  /\ Respond(t, 500)
  /\ UNCHANGED <<schema, events>>

PayloadInvalid(t) ==
  /\ EndFetch(t, Answers)
  /\ HasValidator(t) /\ ~IsValid(t)
  /\ FailWith(t, "payload_validation_failed", 422)
  /\ UNCHANGED schema

(* Mutant: a schema of the fallback is trusted without validating again.   *)
PayloadUnchecked(t) ==
  /\ EndFetch(t, Answers)
  /\ HasValidator(t) /\ (IsValid(t) \/ outcome[t].kind = "fallback")
  /\ schema' = [schema EXCEPT ![t] = outcome[t].schema]
  /\ pc' = [pc EXCEPT ![t] = "signing"]
  /\ UNCHANGED <<status, events>>

PayloadValid(t) ==
  /\ EndFetch(t, Answers)
  /\ HasValidator(t) /\ IsValid(t)
  /\ schema' = [schema EXCEPT ![t] = outcome[t].schema]
  /\ pc' = [pc EXCEPT ![t] = "signing"]
  /\ UNCHANGED <<status, events>>

-----------------------------------------------------------------------------
(* Step 12.                                                                *)

ServiceClaims == {"iss", "iat", "exp", "jti", "aud", "azp", "type"}

(* Who decides each claim of the token.  setOtherClaims puts the payload   *)
(* under the name of the type, whatever that name is.                      *)
Claims(r) == [n \in ServiceClaims \cup {r.type} |->
                IF n = r.type THEN "caller" ELSE "service"]

PREFERRED_ALGORITHMS == {"RS256", "ES256", "PS256"}

SignFails(t) ==
  /\ pc[t] = "signing"
  /\ FailWith(t, "token_build_failed", 500)
  /\ UNCHANGED <<srcVars, config, keys, req, conf, schema, token, inForce>>

LogSuccess(t) == events' = [events EXCEPT ![t] = Append(@, "success")]

(* Mutant: the success is logged before the token is signed.               *)
SignAfterLogging(t) ==
  /\ pc[t] = "signing"
  /\ LogSuccess(t)
  /\ IF keys \cap PREFERRED_ALGORITHMS # {}
     THEN /\ token' = [token EXCEPT ![t] = Claims(req[t])]
          /\ pc' = [pc EXCEPT ![t] = "announcing"]
          /\ UNCHANGED status
     ELSE Respond(t, 500) /\ UNCHANGED token
  /\ UNCHANGED <<srcVars, config, keys, req, conf, schema, inForce>>

Sign(t) ==
  /\ pc[t] = "signing"
  /\ keys \cap PREFERRED_ALGORITHMS # {}
  /\ token' = [token EXCEPT ![t] = Claims(req[t])]
  /\ pc' = [pc EXCEPT ![t] = "announcing"]
  /\ UNCHANGED <<srcVars, config, keys, req, conf, schema, status, events, inForce>>

(* The success is logged, then the token goes out.                         *)
Announce(t) ==
  /\ pc[t] = "announcing"
  /\ LogSuccess(t)
  /\ Respond(t, 200)
  /\ UNCHANGED <<srcVars, config, keys, req, conf, schema, token, inForce>>

(* Mutant: a token that could not be logged is handed out all the same.    *)
LogSuccessSwallowed(t) ==
  /\ pc[t] = "announcing"
  /\ Respond(t, 200)
  /\ UNCHANGED <<srcVars, config, keys, req, conf, schema, token, events, inForce>>

(* logSuccess throws inside the same try block as the signing: the token   *)
(* is dropped and its failure logged as one of the signing.                *)
LogSuccessThrows(t) ==
  /\ pc[t] = "announcing"
  /\ FailWith(t, "token_build_failed", 500)
  /\ UNCHANGED <<srcVars, config, keys, req, conf, schema, token, inForce>>

(* The response is on its way.                                             *)
Finish(t) ==
  /\ pc[t] = "answered"
  /\ pc' = [pc EXCEPT ![t] = "idle"]
  /\ req' = [req EXCEPT ![t] = None]
  /\ conf' = [conf EXCEPT ![t] = None]
  /\ schema' = [schema EXCEPT ![t] = None]
  /\ token' = [token EXCEPT ![t] = None]
  /\ status' = [status EXCEPT ![t] = 0]
  /\ events' = [events EXCEPT ![t] = <<>>]
  /\ inForce' = [inForce EXCEPT ![t] = {}]
  /\ UNCHANGED <<srcVars, config, keys>>

-----------------------------------------------------------------------------
(* Administrators, the owners of the schemas, and the fetcher at work.     *)

Configure(ty, c) ==
  /\ config[ty] # c
  /\ config' = [config EXCEPT ![ty] = c]
  /\ inForce' = [t \in Threads |-> IF req[t] # None /\ req[t].type = ty
                                   THEN inForce[t] \cup {c} ELSE inForce[t]]
  /\ UNCHANGED <<srcVars, keys, locals>>

SwitchKeys(ks) == /\ ks # keys
                  /\ keys' = ks
                  /\ UNCHANGED <<srcVars, config, locals, inForce>>

SourceAnswers(t) ==
  /\ \/ \E kind \in {"fetched", "revalidated"}, s \in FetchedSchema :
          Source!AnswerCurrent(t, kind, s)
     \/ \E s \in FetchedSchema : Source!AnswerRemembered(t, s)
     \/ Source!Fail(t)
     \/ Source!Unusable(t)
  /\ UNCHANGED <<config, keys, locals, inForce>>

Environment ==
  \/ /\ (\E u \in Uris : Source!Publish(u)) \/ Source!Age
     /\ UNCHANGED <<config, keys, locals, inForce>>
  \/ \E ty \in Types, c \in TypeConfigs \cup {None} : Configure(ty, c)
  \/ \E ks \in KeySets : SwitchKeys(ks)

Proceed(t) == \/ FetchSchema(t) \/ FetchThrows(t) \/ FetchEscapes(t)
              \/ NoValidator(t) \/ PayloadInvalid(t) \/ PayloadValid(t)
              \/ SignFails(t) \/ Sign(t) \/ Announce(t) \/ LogSuccessThrows(t)
              \/ Finish(t)

Next == \/ \E t \in Threads : \/ \E r \in Requests : Refuse(t, r) \/ Load(t, r)
                              \/ Proceed(t)
                              \/ SourceAnswers(t)
        \/ Environment

Spec == Init /\ [][Next]_vars

(* A thread does not pause of its own accord.  Its fetch may never end     *)
(* (SchemaFetcher!EveryFetchReturns): SourceAnswers is not fair.           *)
Fairness == \A t \in Threads : WF_vars(Proceed(t))

FairSpec == Spec /\ Fairness

-----------------------------------------------------------------------------
(* Properties.                                                             *)

Minted(t) == pc[t] = "answered" /\ status[t] = 200

(* However the administrators edit the scope while a request runs, a token *)
(* that goes out was permitted in full by one configuration in force       *)
(* during the request: its lifetime, its audience and a published version  *)
(* of its schema.                                                          *)
MintedUnderOneConfiguration ==
  \A t \in Threads : Minted(t) =>
    \E c \in inForce[t] \ {None} :
      /\ 0 < req[t].ttl /\ req[t].ttl <= c.maxTtl
      /\ req[t].audience \in c.audiences
      /\ schema[t].version <= origin[c.uri]
      /\ req[t].payload \in Conforms[c.uri][schema[t].version]

(* Both gates of the authorization model stand before every token, and the *)
(* payload decides no claim of the service: no type is named like one.     *)
MintedAuthorised ==
  \A t \in Threads : token[t] # None =>
    /\ req[t].authenticated /\ req[t].role /\ req[t].type \in req[t].scopes
    /\ \A n \in ServiceClaims : token[t][n] = "service"

(* The audit log and the answers agree: a success is logged exactly for    *)
(* the tokens that go out, also when the log fails, and a 422 or 503 has   *)
(* its own failure logged.                                                 *)
AuditMatchesAnswer ==
  \A t \in Threads : pc[t] = "answered" =>
    /\ status[t] = 200 <=> events[t] = <<"success">>
    /\ status[t] = 422 => events[t] = <<"payload_validation_failed">>
    /\ status[t] = 503 => events[t] = <<"schema_fetch_failed">>

(* Every request that passes the first checks is answered, unless its      *)
(* fetch never ends: nothing else in the pipeline waits.                   *)
EveryRequestAnswered ==
  \A t \in Threads : pc[t] = "loaded" ~> (pc[t] = "answered" \/ []Source!Waiting(t))

-----------------------------------------------------------------------------
(* Statements of the documentation that the code does not keep.            *)

(* docs/v0.md:127, each mint attempt emits an event.  (A 500 may be one of *)
(* the log itself.)                                                        *)
EveryAttemptLogged ==
  \A t \in Threads : pc[t] = "answered" /\ status[t] # 500 => events[t] # <<>>
=============================================================================
