----------------------------- MODULE WalletHarness -----------------------------
(***************************************************************************)
(* harness/issue-credential.mjs: one run of the OID4VCI issuance against   *)
(* Keycloak, from the user token to the verdict.  Each action is what runs *)
(* between two awaits.  Keycloak is external: it may refuse any request,   *)
(* leave out what a later step needs, and change its keys between steps.   *)
(***************************************************************************)
CONSTANTS
  EcKeys, OtherKeys,  \* the keys of the realm, by kid
  Absent              \* undefined

RealmKeys == EcKeys \cup OtherKeys

(* What an SD-JWT VC tells: who signed it, the kid of its header, which is *)
(* not always that of the signer, and whether it has a vct.                *)
Credential == [signer : EcKeys, kid : RealmKeys \cup {Absent}, vct : BOOLEAN]

ASSUME KeysAssumption ==
  EcKeys \cap OtherKeys = {} /\ Absent \notin RealmKeys \cup Credential \cup {"given"}

VARIABLES
  step,       \* what the harness awaits, or its end
  cNonce,     \* "given" or Absent
  sdjwt,      \* the credential, or Absent
  published,  \* the keys of protocol/openid-connect/certs
  trouble     \* history: what stood in the way of the run

harnessVars == <<step, cNonce, sdjwt, published, trouble>>

Requesting == {"token", "offer", "grant", "exchange", "nonce", "credential", "certs"}

HarnessInit ==
  /\ step = "idle" /\ cNonce = Absent /\ sdjwt = Absent
  /\ published \in {ks \in SUBSET RealmKeys : ks \cap EcKeys # {}}
  /\ trouble = {}

(* Keycloak publishes a key or withdraws one; after the verdict nobody      *)
(* looks.                                                                  *)
RotateKeys ==
  /\ step \notin {"passed", "failed"}
  /\ \E k \in RealmKeys :
       \/ k \notin published /\ published' = published \cup {k}
       \/ k \in published /\ published' = published \ {k}
  /\ UNCHANGED <<step, cNonce, sdjwt, trouble>>

-----------------------------------------------------------------------------
(* fail.                                                                   *)
Exit(why) == step' = "failed" /\ trouble' = trouble \cup why

Start == step = "idle" /\ step' = "token" /\ UNCHANGED <<cNonce, sdjwt, published, trouble>>

(* A request is refused or answered without what the next step needs: fail *)
(* where the status or the field is checked, and main().catch where the    *)
(* next use of it throws.                                                  *)
Refused ==
  /\ step \in Requesting /\ Exit({step})
  /\ UNCHANGED <<cNonce, sdjwt, published>>

(* Steps 1 and 2: a token of the user, an offer, the offer's grant.        *)
Answered ==
  \E next \in {<<"token", "offer">>, <<"offer", "grant">>, <<"grant", "exchange">>} :
    /\ step = next[1] /\ step' = next[2]
    /\ UNCHANGED <<cNonce, sdjwt, published, trouble>>

(* Step 3: the answer may carry the nonce.                                 *)
Exchange ==
  /\ step = "exchange"
  /\ \/ cNonce' = "given" /\ step' = "credential"
     \/ UNCHANGED cNonce /\ step' = "nonce"
  /\ UNCHANGED <<sdjwt, published, trouble>>

(* Mutant: starts the exchange over until there is a nonce.                *)
NonceAskedAgain ==
  /\ step = "nonce"
  /\ \/ cNonce' = "given" /\ step' = "credential"
     \/ UNCHANGED cNonce /\ step' = "exchange"
  /\ UNCHANGED <<sdjwt, published, trouble>>

(* Step 4: neither the status nor the field is looked at, and an answer    *)
(* without a nonce goes into the proof as it is.                           *)
GetNonce ==
  /\ step = "nonce" /\ step' = "credential"
  /\ cNonce' \in {"given", Absent}
  /\ UNCHANGED <<sdjwt, published, trouble>>

(* Steps 5 and 6: a credential, whatever the nonce of the proof and        *)
(* whoever has signed it; Keycloak may refuse, the harness does not look.  *)
ReceiveCredential ==
  /\ step = "credential" /\ step' = "certs"
  /\ sdjwt' \in Credential
  /\ UNCHANGED <<cNonce, published, trouble>>

(* Mutant: the first EC key, whatever the kid.                             *)
FirstEcKey == published \cap EcKeys

(* Step 7: the key of the kid, or else the first EC key: any, since the    *)
(* order is Keycloak's.                                                    *)
MatchingKeys == IF sdjwt.kid \in published THEN {sdjwt.kid} ELSE published \cap EcKeys

(* crypto.verify.                                                          *)
Verifies(key) == key = sdjwt.signer

(* What can keep a credential of an EC key from being verified: that key   *)
(* is not published, or the kid is not its own and leads to another one.   *)
Unverifiable ==
  {why \in {"withdrawn", "kid"} :
     \/ why = "withdrawn" /\ sdjwt.signer \notin published
     \/ why = "kid" /\ sdjwt.kid # sdjwt.signer
          /\ (sdjwt.kid \in published \/ ~(published \cap EcKeys \subseteq {sdjwt.signer}))}

Untyped == IF sdjwt.vct THEN {} ELSE {"vct"}

Verify ==
  /\ step = "certs"
  /\ \/ /\ \E key \in MatchingKeys : Verifies(key)
        /\ sdjwt.vct /\ step' = "passed" /\ UNCHANGED trouble
     \/ /\ \/ MatchingKeys = {}
           \/ \E key \in MatchingKeys : ~Verifies(key)
           \/ ~sdjwt.vct
        /\ Exit(Unverifiable \cup Untyped)
  /\ UNCHANGED <<cNonce, sdjwt, published>>

HarnessStep ==
  Start \/ Refused \/ Answered \/ Exchange \/ GetNonce \/ ReceiveCredential \/ Verify

HarnessNext == HarnessStep \/ RotateKeys

(* Every fetch ends: it is answered, or the runtime gives it up.           *)
HarnessFair == WF_harnessVars(HarnessStep)

HarnessSpec == HarnessInit /\ [][HarnessNext]_harnessVars /\ HarnessFair

-----------------------------------------------------------------------------
HarnessTypeOK ==
  /\ step \in Requesting \cup {"idle", "passed", "failed"}
  /\ cNonce \in {"given", Absent} /\ sdjwt \in Credential \cup {Absent}
  /\ published \subseteq RealmKeys

(* The run succeeds only with a credential that a published key verifies   *)
(* and that has its vct; and it fails only for something in the answers or *)
(* in the keys, never by its own choice of a key (main, from the first     *)
(* request to the last assertion).  Of the nonce it says nothing.          *)
Verdict ==
  /\ step = "passed" => sdjwt # Absent /\ sdjwt.signer \in published /\ sdjwt.vct
  /\ step = "failed" => trouble # {}

(* A run that has begun gives a verdict, whatever is refused or left out   *)
(* (fail, and main().catch).                                               *)
HarnessEnds == step # "idle" ~> step \in {"passed", "failed"}
===============================================================================
