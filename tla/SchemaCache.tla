---------------------------- MODULE SchemaCache ----------------------------
(***************************************************************************)
(* The cache of fetched schemas (SchemaCache.java): a Caffeine map from    *)
(* schema URI to entry, bounded in size and in the age of its entries.     *)
(*                                                                         *)
(* Time passes in seconds, the unit of both limits, and every timer counts *)
(* the same ones: by what fraction of a second two timers differ is left   *)
(* out.                                                                    *)
(***************************************************************************)
EXTENDS Naturals, FiniteSets

CONSTANTS
  Uris,          \* the schema URIs some realm configures
  MaxVersion,    \* bound on the versions a schema owner publishes at a URI
  ContentTypes,  \* normalised content types, after the cut at ";" and lower-casing
  CacheTtl,      \* schema-cache-ttl-seconds: seconds until an entry expires
  MaxSize,       \* schema-cache-max-size: entries Caffeine keeps
  Horizon,       \* ages are counted up to here, beyond which all are alike
  None           \* Optional.empty()

Versions == 1 .. MaxVersion

(* FetchedSchema.java.  The JSON document is represented by its version.   *)
(* The ETag and the Last-Modified stamp are those of that version, so they *)
(* are functions of it (SchemaFetcher!Unchanged) and not fields here.      *)
FetchedSchema == [version : Versions, contentType : ContentTypes]

(* age is the time since Entry.fetchedAt, which the fetcher looks at;      *)
(* written the time since the entry was put in the map, which is what      *)
(* expireAfterWrite counts from.                                           *)
Entry == [schema : FetchedSchema, age : 0 .. Horizon, written : 0 .. CacheTtl - 1]

ASSUME UrisFinite == IsFiniteSet(Uris)
ASSUME BoundsAssumption == /\ MaxVersion \in Nat \ {0}
                           /\ CacheTtl \in Nat \ {0}
                           /\ MaxSize \in Nat
                           /\ Horizon \in Nat /\ CacheTtl <= Horizon
ASSUME NoneAssumption == None \notin FetchedSchema \cup Entry \cup ContentTypes

VARIABLE cache   \* cache[u] is the live entry of URI u, or None

CacheTypeOK == cache \in [Uris -> Entry \cup {None}]

CacheInit == cache = [u \in Uris |-> None]

Present == {u \in Uris : cache[u] # None}

(* cache.getIfPresent(uri): an entry written a TTL ago is no longer        *)
(* visible, and Aged has already dropped it.                               *)
Get(u) == cache[u]

(* The second half of put: cache.put(uri, entry) overwrites what was there.*)
(* The first half, new Entry(schema, Instant.now()), came before it: age   *)
(* seconds ago by now, in which other threads may have put theirs.         *)
Put(u, schema, age) ==
  cache' = [cache EXCEPT ![u] = [schema |-> schema, age |-> age, written |-> 0]]

(* Caffeine's maintenance after a write evicts from a cache that is over   *)
(* its maximum.  Its policy weighs how often keys were used: here the      *)
(* victim is any entry.                                                    *)
Evict(u) == /\ Cardinality(Present) > MaxSize
            /\ cache[u] # None
            /\ cache' = [cache EXCEPT ![u] = None]

(* A timer one second later.                                               *)
Older(age) == IF age < Horizon THEN age + 1 ELSE Horizon

(* Mutant: expireAfterWrite off by one, an entry outlives its TTL.         *)
AgedTooLong == [u \in Uris |->
                  IF cache[u] = None \/ cache[u].written >= CacheTtl THEN None
                  ELSE [cache[u] EXCEPT !.age = Older(@), !.written = @ + 1]]

(* The cache one second later: expireAfterWrite(ttlSeconds).               *)
Aged == [u \in Uris |->
           IF cache[u] = None \/ cache[u].written + 1 >= CacheTtl THEN None
           ELSE [cache[u] EXCEPT !.age = Older(@), !.written = @ + 1]]
=============================================================================
