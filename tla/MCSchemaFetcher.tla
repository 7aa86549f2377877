-------------------------- MODULE MCSchemaFetcher --------------------------
(***************************************************************************)
(* Instances of SchemaFetcher for TLC.                                     *)
(***************************************************************************)
EXTENDS SchemaFetcher, TLC

CONSTANTS u1, u2, t1, t2, schemaJson, plainJson

PlainConfigs == {[uri |-> u, override |-> None] : u \in Uris}

(* u1 is configured with a content type, u2 is served with one.            *)
MixedConfigs == {[uri |-> u1, override |-> schemaJson], [uri |-> u2, override |-> None]}

(* Two types of one realm configure the same URI, one of them with a       *)
(* content type.                                                           *)
SharedConfigs == {[uri |-> u1, override |-> schemaJson], [uri |-> u1, override |-> None]}

AllHttps == [u \in Uris |-> "https"]

(* The owner of u1, reached over http, sends an ETag that cannot be sent   *)
(* back, the owner of u2 Last-Modified.                                    *)
MixedScheme == u1 :> "http" @@ u2 :> "https"
MixedValidator == u1 :> "unsendable" @@ u2 :> "lastModified"

AllEtag == [u \in Uris |-> "etag"]

(* Versions 1 and 2 are published within one second.                       *)
CoarseStamp == [v \in Versions |-> IF v <= 2 THEN 1 ELSE v]

ThreadSymmetry == Permutations(Threads)
=============================================================================
