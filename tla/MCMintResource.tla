--------------------------- MODULE MCMintResource ---------------------------
(***************************************************************************)
(* Instances of MintResource for TLC.                                      *)
(***************************************************************************)
EXTENDS MintResource, TLC

CONSTANTS t1, t2, u1, u2, schemaJson, html, orders, small, big, shop, other

Good == [authenticated |-> TRUE, role |-> TRUE, scopes |-> {"capability"}, body |-> TRUE,
         type |-> "capability", ttl |-> 2, audience |-> shop, payload |-> small]

(* A request for each check that it fails, one that suits each of the two  *)
(* configurations, and one whose lifetime suits the first and whose        *)
(* payload the second.                                                     *)
AllRequests ==
  { Good,
    [Good EXCEPT !.ttl = 1, !.payload = orders],
    [Good EXCEPT !.payload = orders],
    [Good EXCEPT !.authenticated = FALSE],
    [Good EXCEPT !.role = FALSE],
    [Good EXCEPT !.body = FALSE],
    [Good EXCEPT !.type = "Capability"],
    [Good EXCEPT !.type = "azp", !.scopes = {"azp"}],
    [Good EXCEPT !.scopes = {}],
    [Good EXCEPT !.ttl = 0],
    [Good EXCEPT !.audience = other],
    [Good EXCEPT !.payload = big] }

NamesWellFormed == {"capability", "azp"}

(* The second configuration moves the schema and tightens the lifetime.    *)
TwoConfigs == { [uri |-> u1, override |-> None, maxTtl |-> 2, audiences |-> {shop}],
                [uri |-> u2, override |-> None, maxTtl |-> 1, audiences |-> {shop, other}] }

SigningKeys == { {"RS256"}, {"EdDSA"} }

(* Version 2 at u1 accepts nothing that version 1 did.                     *)
Valid == u1 :> << {small}, {} >> @@ u2 :> << {orders}, {orders} >>

Etags == [u \in Uris |-> [v \in 1 .. MaxVersion |-> {v}]]
=============================================================================
