# A verification project for kc-token-mint

kc-token-mint is a Keycloak extension. A caller with a realm role and a client
scope posts a payload to `/realms/{realm}/mint/token`; the extension looks up
what the client scope `mint:<type>` allows, fetches the JSON schema that the
scope names, validates the payload against it and signs a token that carries
the payload as a claim. Around it the repository has a small web page that
drives the endpoint, an account-console script, and a harness.

This directory holds TLA+ modules translated from that code, TLC
configurations that check them on small instances, and proofs, checked by
TLAPS, for instances of any size. Java paths below are relative to
`src/main/java/com/example/keycloak/mint/`.

## 1. Inventory

| Component | State it keeps | Operations | Talks to |
|---|---|---|---|
| Schema cache (`schema/SchemaCache.java`, `FetchedSchema.java`) | one Caffeine map URI -> (schema, moment of the put), bounded in age and in size; one per server | `get`, `put`, expiry, eviction (`invalidate`, `cleanUp`: tests only) | schema fetcher |
| Schema fetcher (`schema/SchemaFetcher.java`, `SchemaFetchException.java`) | none of its own; locals of each call | `fetch`: URI checks, snapshot of the cache, conditional GET, 200 / 304 / failure, fallback | cache, owners of the schemas (HTTP), mint endpoint |
| Mint endpoint (`resource/*.java`) | locals of each request | `mint` (twelve steps), `serveUi` | all Java components, the realm |
| Type configuration loader (`token/TypeConfigLoader.java`, `TypeConfig.java`) | none | `load` | client scopes of the realm, edited by administrators |
| Token builder (`token/TokenBuilder.java`) | none | `build` | keys of the realm |
| Payload validation (`validation/*.java`) | none | `supports`, `validate` | JSON-Schema library |
| Audit event logger (`audit/MintEventLogger.java`) | none (Keycloak's event store) | `logSuccess`, `logFailure` | event listeners of the realm |
| SPI provider and factory (`spi/*.java`) | the one fetcher, cache and validator list, built in `init` | `init`, `create` | Keycloak |
| Mint web page (`src/main/resources/mint-ui.html`) | `sessionStorage`: tokens, PKCE verifier, one-shot sign-on flag | `freshToken`, `login`, `logout`, `handleCallback`, `doMint`, boot | Keycloak's token endpoint, mint endpoint |
| Account console script, offers and wallet (`theme/.../mint-credentials.js`, 135-419) | captured access token, build in progress, marks on offer images, the box | token capture, image observer, `buildOffer`, `render`, `issueCredential` | Keycloak's OID4VCI endpoints, the console's DOM |
| Account console script, navigation (4-133) | overlay, animation frame, marks in the nav | `show`, `hide`, `loop`, `injectNav` | the console's DOM, which React also writes |
| QR code encoder (`theme/.../qrcode.js`) | `_dataList`, `_typeNumber`, `_modules`, `_dataCache`; in an image, the tables and streams of the GIF | `addData`, `make`, `createDataURL` | `renderQr` of the script; the phone that scans |
| Wallet harness (`harness/issue-credential.mjs`) | one run | user token -> offer -> grant -> exchange -> nonce -> credential -> certs -> verdict | Keycloak's OID4VCI endpoints |
| `realm-import.json`, `validate.sh`, `docker-compose.yml` | - | - | development containers, no program logic |

How they interact. All requests of a server run on threads of their own. They
share two things: the cache behind the one fetcher, and the realm (scopes,
keys, event store) that administrators change at any time. Nothing in the
extension takes a lock: Caffeine makes each `get` and `put` atomic, and that is
all. A request blocks in one place, `httpClient.send`, with a timeout that covers
the connection and the head of the answer, but not its body.

What is hard about it:

* `fetch` reads the cache, blocks for seconds, then writes the cache from what
  it read; any number of other calls do the same in between, and the entry may
  age out or be evicted meanwhile. The catch block reads the cache once more.
* Between the moment at which an owner decides its answer and the moment at which
  the answer is in the cache lie the body, the reading of the clock and the
  `put`: the age of an entry is not the age of its answer, and entries may
  arrive out of the order of their ages.
* What is checked before the `try` block fails without a fallback, and the builder of
  the request with an exception that `mint` does not catch.
* Two clocks run over one entry: the TTL of Caffeine removes it, the staleness
  window of the fetcher judges its age, and their boundaries touch.
* HTTP validators are as coarse as their owners make them: a 304 may stand for
  a version that has been replaced within the stamp's second.
* `mint` uses a configuration that it read before it blocked.
* `logSuccess` sits between the signature and the answer in one `try` block;
  `logFailure` in the `catch` blocks may throw as well.
* Twelve checks with early returns, each with a status, some with an event.
* In the browser: refresh against logout, the sign-on loop guard, marks set
  before a build that refuses to start, marks of the navigation that two writers
  (the script and React) put on the same links.
* The encoder draws a symbol nine times over the same variables and keeps the
  codewords of the first time; its tables, its loops over bits and its masks
  have to agree with those of a reader that shares no code with it; the GIF's
  compressor grows a table and a code width that its reader has to guess.
* Keys of the realm may change between the issue of a credential and the look
  at the published keys that verifies it.

What makes each component correct:

* cache - an entry is never visible past its TTL;
* fetcher - what it returns was current during the call, or was its owner's answer
  within the window plus the delay of a put; a failed request throws only when nothing recent enough is
  remembered; every call ends unless a body does not; the cache follows its owner in
  the end;
* endpoint, loader, builder, validator - a token that goes out passed both
  gates (role and scope), and its lifetime, audience and payload were permitted
  by one configuration that was in force;
* event logger - successes and tokens correspond one to one;
* page - no tokens after a logout, no login loop, a form that is shown only
  over tokens, a button that comes back;
* script - one build for an image, an offer that fits the selection, credentials
  in the boxes of their offers, builds and wallets that end;
* navigation - one frame loop while the overlay is open and none otherwise, and
  the mark of the current item on the item of the route;
* encoder - a reader finds in the symbol what was added, and in the image the
  symbol; what it refuses could not be encoded;
* harness - it passes only after an issuance that a published key verifies, and
  fails only for a reason outside of it.

`PROJECT.json` lists each hazard at its line with the properties aimed at it.

## 2. The modules

```
SchemaCache  <--EXTENDS--  SchemaFetcher  --implements-->  SchemaSource
                                |                               ^
                                |                               | INSTANCE
                        SchemaFetcherProofs               MintResource  <-- MintResourceProofs

MintUi  <-- MintUiProofs                      OfferBuilder  <-- OfferBuilderProofs
   |                                                |
   +------------------- MCBrowser ------------------+

QrTables <-- QrCodewords <-- QrSymbol ------+
                  ^                         |
                  +--------- QrScan --------+--- QrCode ---+--- MCClients
                                            |      ^       |
GifRaster  <-------------- GifImage --------+      |       |
                               ^                   |       |
                           GifProofs  <---- QrCodeProofs   |
                                                   ^       |
                                            QrPatternProofs|
                                                           |
AccountNav, WalletHarness  --------------------------------+
    ^
ClientProofs
```

Modules are EXTENDed except where the diagram says `INSTANCE` or `implements`.

| Module | What it is | Code |
|---|---|---|
| `SchemaCache` | the cache: `Get`, `Put`, `Evict`, `Aged` | `SchemaCache.java`, `FetchedSchema.java` |
| `SchemaFetcher` | threads in `fetch` over one cache, the owners, the clock | `SchemaFetcher.java`, `MintResourceProviderFactory.init` |
| `SchemaSource` | abstract specification: what the fetcher owes the endpoint, without a cache | - |
| `MintResource` | the twelve steps, administrators, audit log, over an `INSTANCE` of `SchemaSource` | `MintResource.java`, `TypeConfigLoader.java`, `TokenBuilder.java`, `MintEventLogger.java`, `JsonSchemaPayloadValidator.java` |
| `MintUi` | the mint page in one tab: storage, asynchronous functions, redirects | `mint-ui.html` |
| `OfferBuilder` | the offer builder and the demo wallet in the account console | `mint-credentials.js`, 135-419 |
| `AccountNav` | the Credentials item, its overlay and the marks in the navigation | `mint-credentials.js`, 4-133 |
| `WalletHarness` | one run of the harness against a Keycloak that refuses, leaves out and changes keys | `issue-credential.mjs` |
| `QrTables` | the tables of the encoder, as data | `qrcode.js` |
| `QrCodewords` | data bits, padding, blocks, Reed-Solomon, interleaving | `qrcode.js` |
| `QrSymbol` | `addData`, `make`, the nine drawings, masks and penalty | `qrcode.js` |
| `QrScan` | reference: what a reader of QR codes makes of a symbol | - |
| `GifRaster` | the compressor of the GIF with a reader beside it, and its bit stream | `qrcode.js`, `getLZWRaster`, `bitOutputStream` |
| `GifImage` | the GIF around the raster, with a viewer of its blocks beside it; base64 and its reader | `qrcode.js`, `gifImage`, `createDataURL` |
| `QrCode` | from the text to the data URL: the symbol, its pixels, their image | `qrcode.js` |
| `...Proofs` (eight of them) | theorems | |
| `MCSchemaFetcher`, `MCMintResource`, `MCBrowser`, `MCClients` | instances for TLC | |

The endpoint is composed with the *abstract* source. Because the fetcher is
proved to implement it (`ImplementsSource`), every behaviour the endpoint can
meet is covered, and the state spaces of cache and pipeline do not multiply.

### SchemaFetcher against the code

`pc[t]` follows `fetch`: `idle`; `sent` from the snapshot (line 45) until the head
of an answer has come; `refresh` after a 304, `body` while the body of any other
answer is under way; `store` or `restore` when the new entry has its time stamp and
the write into the map is still ahead; `done` when the call has returned or thrown.
`held[t]` is the local that matters, first the snapshot, then what will be put.

| Action | Lines of `SchemaFetcher.java` |
|---|---|
| `Fetch` | 41-60 |
| `RejectUri` | 42-43 with the checks 107-128, thrown before the `try` block |
| `RejectRequest` | 47-55: `IllegalArgumentException` of the builder, before the `try` block |
| `ReceiveSchema`, `StampFetched`, `StoreFetched` | 58-60 and 68-81, in three steps: the owner answers, the body is there and the entry is built, the entry is written |
| `ReceiveNotModified`, `StampCached`, `RefreshCached` | 62-66, in three steps likewise |
| `ReceiveUseless`, `RejectUntyped` | any other answer; 69-73, thrown non-transient and rethrown by the first `catch` |
| `FallbackHit`, `FallbackMiss` | 84-105, every other failure, of the request or of the body |
| `Finish` | the caller takes the result |

Interleaving points are chosen where another thread, the owner or the clock can
make a difference: the read of the cache, the moment at which the owner decides
its answer, the reading of the clock in `put`, and the write of the cache. URI checks, the read
of the cache and the sending are one step (nothing they depend on but the cache is
shared, and the owner acts only at its own step); so are a failure and the read of
the cache in the `catch` block (a failure carries no data, so a failure noticed
earlier is the same as one noticed at the read).

`put` is `cache.put(uri, new Entry(schema, Instant.now()))`: the entry is built,
and then written. Threads may overtake one another in between, so an entry may
be put over a younger one. `stamp[t]` is the age of an entry that is built and not yet
written; in the cache, `age` counts from the stamp, which the fetcher looks at,
`written` from the write, which Caffeine's expiry looks at.

`origin[u]` is the version the owner publishes now, and it only grows. The
body of a schema is its version. ETag and Last-Modified are functions of the
version, `Alike` says which versions an owner cannot tell apart. An owner that
publishes older content again under the same ETag is a republication of the
same version and is not distinguished from no change.

The builder of the request throws for a URI in which `java.net.URI` finds no host
(`Hostless`; reached only where private addresses are allowed, since no other such
URI passes the host check) and for a validator that it refuses
(`Validator[u] = "unsendable"`). The JDK's own client refuses such a value in an
answer already, so the second stands for any other client that `init` may be given.

History variables, read by no guard: `seen[t]`, the versions that were current while
the call ran; `since[t]`, the time since the owner answered what `t` holds;
`confirmed[u][v]`, the time since the owner of `u` gave `v`, or "not modified" for
it, counted *from the owner's answer*; `answered[u][v]`, the time since a call put
and returned `v` as its owner's answer; `lag`, the longest that any call has so far
taken from the owner's answer to its put. `confirmed` and `answered` differ by the delay of the call, and
`lag` bounds it.

Time is counted in whole seconds. Caffeine compares with a whole number of seconds,
and the fetcher floors the age before it compares. All timers count the same
seconds; by what fraction of a second they differ is left out. Ages are counted up
to `Horizon`, from which on all are alike.

### MintResource against the code

`pc[t]`: `idle`; `loaded` after step 9; `fetching` in step 10; `signing` after
step 11; `announcing` when the token is signed and `logSuccess` is ahead;
`answered`. Steps 1 to 9 do not block and read shared state once (the scope, in
step 6), so they are one step, `Load` or `Refuse`; the order of the checks is
kept as `Checks`, and the first that fails decides the status. `FetchThrows`,
`FetchEscapes`, `NoValidator`, `PayloadInvalid`, `PayloadValid`, `SignFails`, `Sign`,
`Announce`, `LogSuccessThrows` are the branches of steps 10 to 12. `FetchEscapes` is
an exception that `mint` does not catch: the server answers 500, and nothing is logged. `FailWith`
is a `catch` block: the event is logged and the status sent, or `logFailure`
itself throws and the server answers 500.

A client scope's attributes are either readable (a member of `TypeConfigs`) or
not (`None`): `TypeConfigLoader` refuses all unreadable ones alike. `body` is
false for a request without a body, which reaches `mint` as `null` and ends in
a 500; one that does not parse is refused before `mint` is called. `Claims` says who decides
each claim of the token; the payload is put under the type's name whatever the
name, which is what makes `RESERVED_TYPES` matter. Signing may always fail
(`build` throws for more reasons than a missing key) and cannot succeed
without an active key of one of the preferred algorithms.

### MintUi against the code

The page runs on one thread, so a step is what happens between two awaits.
`run[x]` says where the execution `x` is: the main function (`Boot`) is at its
`start`, `exchanging` a code (line 279) or `refreshing` (line 247); an execution
of `doMint` is `refreshing` or `posting` (line 319). `tokens`, `verifier`,
`tried` and `embedded` are the four keys of `sessionStorage`.

| Action | Lines of `mint-ui.html` |
|---|---|
| `Login`, `Redirect` | 254-262, before and after the hash of the verifier |
| `BootStarts`, `Exchanged`, `ExchangeRefused`, `ExchangeBreaks` | 273-286 and 357-378 |
| `Refreshed`, `RefreshRefused`, `RefreshBreaks` | 247-251 and what the caller does next |
| `MintStarts`, `MintEnds` | 305-352 |
| `Logout` | 265-271, where the header is shown (line 135) |
| `Leave`, `Return`, `Reload`, `Open` | the browser; 12-16 when a page loads |
| `Age` | the clock, as line 245 reads it |

`freshToken` is called from two places, and the rest of the caller runs in the
same step as its result: `SignedIn` and `SignedOut` are those continuations.
`FreshToken` is the part before the request, with its four outcomes.

A code is named by the verifier of the login it came from; Keycloak accepts it
with that verifier only, and may refuse it all the same. The model does not
remember that a code was redeemed: when the answer to an exchange is lost, a
reload may find the code good. That allows more than Keycloak does. `state`,
which the page sends and never looks at again, is left out, and so is a return
that the page did not ask for. A mint whose payload does not parse changes
nothing that is modelled.

`silent` and `out` are history variables: no guard reads them.

### OfferBuilder against the code

The script runs in the page of the account console, whose image, drop-down and
pages it does not control; `Select`, `LeavePage` and `EnterPage` are what the script
assumes of them (external). When another credential is selected the console may
make a new image or keep the one it has: both are allowed.

`job` is the run of `buildOffer` that has passed its guard; `building` is
`job # Nothing`. Its steps are the three requests (lines 209, 223, 232).
`content[b]` is what `render` put into the box `b`, `issue[b]` and `cred[b]` the
wallet started from it; a wallet goes on when its box has been replaced.

| Action | Lines of `mint-credentials.js` |
|---|---|
| `Observe` | 411-418, within every step that changes the document |
| `Choose`, `Offered`, `Built`, `Fail` | 205-240 with `render`, 242-312 |
| `Capture` | 172-186 |
| `Click`, `Authorized`, `Challenged`, `Issued`, `NotIssued` | 286, 322-376 |

The observer is called as a microtask, after the code that changed the document
has run to its next await and before anything else: hence `Observe` is part of
the steps, and `Render` calls it when `finally` has already lifted the guard.
What the key pair and the proof are is left out; making them reads and writes
nothing that is shared. So are the names of claims and endpoints, and that the
wallet asks for one fixed credential (line 361).

`begun` and `fresh` are history variables.

### AccountNav against the code

| Action | Lines of `mint-credentials.js` |
|---|---|
| `injectNav` | 93-117, within every step that changes the navigation |
| `show`, `hide`, `restoreRouteCurrent` | 42-91, with the listener of 119-126 |
| `loop` | 73-76, the callback of `requestAnimationFrame` |
| `RenderNav`, `Navigate` | the console (external) |

An action is one event of the page with its microtasks, so the observer has put
the item back before anything else runs. A handle of `requestAnimationFrame` is
never one that is due or was the last. Of React, which is not in the repository,
the model assumes what the script works around: a navigation that is rendered
marks the item of the route and no other, and going elsewhere patches the two
items for which something changes. It does not know about the script's marks.

### WalletHarness against the code

`step` is the request that is awaited. `Refused` is a refusal and any answer
without what the next step needs, whether the harness checks for it (`fail`) or
throws at its next use (`main().catch`). Of the nonce the harness checks nothing: a
missing one goes into the proof as it is. Whether Keycloak then refuses is its own
affair, and the model assumes nothing of it: `ReceiveCredential` may bring a
credential whatever the proof was, signed by any EC key, with any `kid`.
`MatchingKeys` is the key with the credential's `kid`, or else the first EC key;
which one is first is Keycloak's choice, so any may be. `RotateKeys` publishes or
withdraws a key before any step. `trouble` is a history variable: what stood in the
way of the run.

### The encoder against the code

A piece of data is a mode and a sequence of character values. `QrCodewords` is
made of pure operators; `QrSymbol` keeps the four variables of `qrcode(...)` and
follows `make`:

| `pc` | Next step | Lines of `qrcode.js` |
|---|---|---|
| `make` | `Make`: the type is settled, or it throws | `make`, and the choice of a type |
| `draw` | `DrawPatterns`: all patterns of one drawing | `makeImpl`, `setup...` |
| `cache` | `Cache`: codewords, unless they are kept | `createData`, `createBytes` |
| `map` | `MapColumn`: one pair of columns | `mapData` |
| `score` | `Score`: the penalty, and which mask is best | `getBestMaskPattern`, `getLostPoint` |
| `made` | `AddData`, or the image | `addData` |
| `thrown` | the end | |

`GifImage` writes any image of black and white pixels; `QrCode` gives it those
of a finished symbol:

| `phase` | Next step | Lines of `qrcode.js` |
|---|---|---|
| `none` | `CreateDataURL` with `SetPixels`: every pixel, and the header | `createDataURL` (557-575, 2222-2231), `gifImage.write` |
| `raster` | `Raster`, one pixel; `EndRaster`, the last codes | `getLZWRaster` |
| `blocks` | `WriteBlock`, `WriteLastBlock` | `gifImage.write`, 2075-2089 |
| `encode` | `WriteBase64` | `createDataURL`, 2233-2240 |
| `shown` | the end | |

The penalty is multiplied by the number of modules in the symbol, which makes its last term
(the share of the dark modules) an integer; an order of penalties is all that
the choice of a mask needs. `bitOutputStream` is modelled by the value that its
loop takes apart: the buffer and the new bits above it, cut into bytes; base64
by the sextets of its bytes. The code computes the whole raster before it writes
the last byte of the header, the code size; nothing reads the header meanwhile,
so the model writes it in one piece. The model enters `createDataURL` once per image, and each
pixel is a step.

`QrScan` is a reader stated from the way QR codes are read, in closed form where
the encoder has a loop: the centres of the patterns, the masks, and error
correction by evaluating a block at the powers of 2; the words of the format
and of the versions that are drawn to the end are listed. It shares the table of the blocks with
the encoder, and `CapacityExact` holds that table against the drawing. The
reader inside `GifRaster` is the one a GIF viewer runs: a table of its own, one
string behind. The viewer in `GifImage` (`at`, `seen`) takes each block when it
is written: it reads the length where it expects one, takes so many bytes, and
expects the next length behind them. `base64DecodeInputStream` of the same file,
which the page does not use, is the reader of the base64. `bits` and `fed` are
history variables.

## 3. What the runs check

The passing runs check for deadlock too, except `clients`: an encoder that has
shown or thrown, and a harness with a verdict, have stopped.

**`fetcher_race`** - two threads (under symmetry), one URI with ETags, two versions,
TTL 3 and window 1 (an entry at the end of the window, one beyond it that is still
there, and one that has expired), with seconds that pass between the owner's answer,
the stamp and the put; about 470 000 states. `ReturnedWasCurrent`,
`FallbackWithinWindow`, `AvailableWithinWindow`, `RollbackOnlyAcrossPublish` and
refinement of `SchemaSource` (`SourceSpec`). Two threads are enough for the race:
it needs one call that holds an old snapshot, an old answer or an old stamp and one
that overwrites the entry meanwhile; a third call would add a second overwriter,
which the overwriter becomes when it calls again. Two versions tell old from new.

What the two properties of the fallback say has a margin, and it is the code's.
The clock of an entry starts at `put`, so a fallback may return an answer that is
older than the window by the time its call took from the owner's answer to the
put (`FallbackWithinWindow`); and a thread that stops between the stamp and the write
may put an old entry over a new one, so a fallback may be refused that much early
(`AvailableWithinWindow`). `lag` is that time; without delays it is 0 and both say
what one expects.

**`fetcher_evict`** - two threads (under symmetry) and two URIs in a cache with
room for one: the first URI over http, with a configured content type and a
validator that cannot be sent back, the second with Last-Modified stamps that
cannot tell its two versions apart. Host names resolve to public or private
addresses or not at all. Entries live for one second, so those that come late are
past the window. 1 130 000 states. `SourceSpec`, which here speaks of versions up to
stamps, of evictions, of refused URIs and of requests that cannot be built.

**`fetcher_ends`** - the race with TTL 2 and without symmetry, under fairness:
`EveryFetchReturns` and `CacheConverges`; 196 000 states.
`EveryFetchReturns` says that a thread is out of `fetch` again and again, unless it
waits for a body for ever. That exception is the code's too: docs/v0.md:75 wants
short timeouts and a fallback when a fetch fails, but the timeout of the request ends
with the head of the answer, and an owner that stalls in the middle of a body keeps
the request thread.

**`mint`** - one request at a time, with one request for every check it may
fail and several that suit only one of two configurations; two schema URIs, two
versions, one of which accepts nothing; keys with and without a preferred
algorithm; about 356 000 states. `MintedUnderOneConfiguration`,
`MintedAuthorised`, `AuditMatchesAnswer`, `EveryRequestAnswered`. One thread is
enough: requests influence one another only through the fetcher (whose effects
`SchemaSource` allows at any time) and through the realm (which `Environment`
changes at any time). The theorems hold for any number.

**`browser`** - the mint page and the account console, about 346 000 states, 157 000 of
the one and 188 000 of the other. They share no variable, so each runs while the
other has nothing under way.

*Mint page:* one tab, two executions of `doMint`, six verifiers, one pending click
on "Log in" (and so two overlapping logins, with the automatic one). `SignOnOnce` (no login loop), `LogoutForgets`,
`SignedInHasTokens`, `OneRefresh`, and under fairness `ButtonComesBack` and
`BootEnds`. Two executions are enough to see the second started too early.
`BootEnds` says that the main function ends, and no more: where its `fetch` or
`json` rejects (`RefreshBreaks`, `ExchangeBreaks`) it ends with the login section
that the page began with, also over tokens that are stored.

`LogoutForgets` has an exception, and it is the code's: a refresh that is under
way when the user logs out saves its answer over the cleared storage, and a
reload then shows the user as signed in. No document of the repository speaks of
it, so it is stated as the bound of what holds. Nor does any run claim that a
login succeeds: `clear()` also removes the verifier of a login whose redirect is
pending, and of two overlapping logins the one that redirects last need not be
the one whose verifier is stored. The code of such a login is refused.

*Account console:* three images (the one in the page, one that a build still holds, a
new one), two boxes, a drop-down of three names of which the issuer knows two. `OneBuildPerImage`, `HiddenBehindBox`,
`OfferFitsSelection`, `CredentialInItsBox`, and under fairness `BuildEnds` and
`WalletEnds`. The status of the third answer (line 232) is not looked at by the code,
so an error with a JSON body is an offer like any other. With two boxes, a build that is ready to be shown waits while the
box before last has its wallet at work; more than two wallets at once would be
more of the same, as a wallet touches its own box only.

**`clients`** - encoder, navigation and harness, about 4 000 states, most of
them columns and pixels. They share no variable, so each runs while the other
two are at their start; an interleaving would multiply the states and show
nothing more.

*Encoder:* `QrTypeOK`, `CapacityExact`, `Scannable`, `RasterReadable`,
`ImageDecodes`. Each request is there for a case: 14 bytes, which fill type 1
to the last bit, and 15, which need type 2; 34 digits, after which the
terminator is cut short; 15 alphanumeric characters, an odd number; 150 bytes,
in type 8, with blocks of unequal lengths and version information; two modes in
one symbol of an explicit type; data added after a first `make`, which fits or
does not; a character that its mode has not, with a type to be found and with a
given one; and 1300 bytes at level H, too long for any type: with each type
from 1 to 40 (and with 0, which settles on 40) the patterns are drawn once, for
`CapacityExact`, and the data refused. Two of them become images, both with a margin.
`TableLimit` and `BlockLimit` are scaled down with the images: the larger image
fills the table of the GIF, the smaller one ends where the last string brings the
reader to its next width, so that the end code is a bit narrower than the reader
expects; both have several blocks.

*Navigation:* three paths, two of which have an item, three handles.
`OneLoop`, `RouteMarked`. Both marks at once are possible while the panel is open: when
the console renders its navigation or goes elsewhere in its history, its own item is
marked beside Credentials or in its place, although the comment at
mint-credentials.js:75 wants only Credentials to look active then. `RouteMarked` is
about the time after the panel has been closed.

*Harness:* two EC keys and another one. `Verdict` and, under fairness, `HarnessEnds`.
Neither speaks of the nonce: "Have c_nonce for key binding" (line 86) is reported
whatever lines 82-85 got, as they look neither at the status nor at the field.

Every property of a passing run is also broken once by a plausible bug: the
operators marked "Mutant" are never used by the specifications, they are
swapped for their neighbours to see that the property notices.

### Statements the code does not keep

Each is a run that ends in a counterexample.

* `fresh_entry_returned` - docs/v0.md:209, "Checks cache; if fresh, returns", and
  :74. The code asks the owner at every call; the cache supplies validators and the
  fallback. `ReturnedWasCurrent` is what the code gets from that.
* `image_rebuilt` - mint-credentials.js:409, an image that appears triggers a
  build. The observer marks the image first, and `buildOffer` returns at once
  when it is busy: an image that appears during a build keeps its mark and its
  broken picture for good.
* `refresh_keeps_schema` - docs/v0.md:211, "On 304, refreshes cache freshness
  and returns cached". The code puts back the snapshot of the call; a newer
  schema stored meanwhile is replaced, and the fallback hands out the old one
  until the next successful call. `RollbackOnlyAcrossPublish` and
  `CacheConverges` bound the damage: it takes a publication during the call, and
  it does not last.
* `window_honoured` - docs/v0.md:75, fallback to the last cached schema within
  the staleness window. The fallback reads the cache from which the TTL (300 s
  by default) has removed the entry, so a longer window (3600 s by default) has
  no effect. `AvailableWithinWindow` is what does hold: the smaller of the two.
* `override_honoured` - docs/v0.md:72, a configured content type is used. The
  entry stores the content type of whoever stored it, per URI: another type's, or
  the same type's before an administrator edited it (the two configurations of the
  run may be either). Until a 200 replaces it, a 304 or the fallback returns it.
* `every_attempt_logged` - docs/v0.md:127, each mint attempt emits an event.
  Nothing is logged before step 10, nor for a missing validator.

Seen while modelling, and visible in one step of the model without a run: docs/v0.md:215
wants failures of the fetch told apart as 503 (transient) and 500 (misconfiguration), but
`mint` answers both with 503 (`FetchThrows`, MintResource.java:186).

### Fairness

`SchemaFetcher!Fairness`: a thread does not stay at `sent`, because the connect
timeout of the client and the timeout of the request run until the head of the
answer is there. From then on no timer runs in Java 17 and 21, so there is no
fairness on `body` (`StampFetched`, `RejectUntyped`, and the failures of a body): a
call may wait there for ever, and `EveryFetchReturns` excepts exactly that. The
steps after the body wait for nothing and are fair, and the clock runs. Nothing makes
a caller call, an owner publish, answer with a 200 rather than fail, or the cache
evict. `CacheConverges` needs the clock: without it an outdated entry could stay
because nobody asks.
`MintResource!Fairness`: a request proceeds; its fetch need not end.
`EveryRequestAnswered` says that a request is answered, or waits for its fetch for
ever.
`MintUi!Fairness`: the browser answers or breaks off every request of the page,
each on its own. This is assumed of the environment: `fetch` has no timeout in the
page, and a browser gives a request up when the connection fails. Users need not do anything, Keycloak need not send anyone back,
and the hash of a verifier need not come. `BootEnds` is about pages that are not
reloaded for ever.
`OfferBuilder!OfferFairness`: the same for the requests of the builder and of each
wallet; the console and the user need not do anything.
`WalletHarness!HarnessFair`: every `fetch` ends, because it is answered or the
runtime gives it up. Keycloak need not answer well, nor change its keys. The
navigation and the encoder have no liveness property: the one reacts to events
only, the other is a loop without waiting.

## 4. What is proved

For any sets of threads, URIs, requests, types and configurations and any TTL,
window, cache size and number of versions, from the named `ASSUME`s of the
modules (types of the parameters, finitely many URIs, `None` unlike anything
else):

| Theorem | Says |
|---|---|
| `SchemaFetcherProofs!TypeCorrect` | `[]TypeOK` |
| `ReturnedWasCurrentAlways` | `[]ReturnedWasCurrent` |
| `FallbackWithinWindowAlways`, `AvailableWithinWindowAlways` | the two action properties, with time counted from the owner's answer and from the put |
| `ImplementsSource` | `Spec => SourceSpec`: the fetcher implements `SchemaSource` |
| `RollbackOnlyAcrossPublishAlways` | the action property |
| `MintResourceProofs!TypeCorrect` | `[]TypeOK` |
| `AuditMatchesAnswerAlways` | `[]AuditMatchesAnswer` |
| `MintedAuthorisedAlways` | `[]MintedAuthorised` |
| `MintedUnderOneConfigurationAlways` | `[]MintedUnderOneConfiguration` |
| `MintUiProofs!TypeCorrect` | `[]TypeOK` |
| `OfferBuilderProofs!TypeCorrect` | `[]OfferTypeOK` |
| `OneBuildPerImageAlways`, `HiddenBehindBoxAlways`, `OfferFitsSelectionAlways`, `CredentialInItsBoxAlways` | the four invariants of the builder |
| `SignOnOnceAlways`, `LogoutForgetsAlways`, `SignedInHasTokensAlways`, `OneRefreshAlways` | the four invariants of the page |
| `ClientProofs!NavTypeCorrect`, `OneLoopRuns`, `RouteAlwaysMarked` | the three invariants of the navigation |
| `ClientProofs!VerdictHolds` | `[]Verdict` |
| `GifProofs!RasterAlwaysReadable` | `[]RasterReadable`, for every image and every odd `TableLimit`: the widths agree at every code that stands for pixels, and at the end code the reader is at most one bit wider |
| `GifProofs!AnyImageDecodes` | `ImageSpec => []GifDecodes`: any image of any size, with any limit of its blocks, decodes to its pixels, and a viewer finds its end |
| `QrCodeProofs!QrCodeImageDecodes` | `[]ImageDecodes`: the image of any symbol decodes to the pixels of the symbol |
| `QrCodeProofs!QrTypesHold` | `[]QrTypeOK`; with it, that no type leaves a module of a finished symbol undecided |
| `QrCodeProofs!SymbolIsOfTheData` | `[]SymbolOfData`: what is drawn is the data as it is now in the smallest type, and nothing is refused that fits |
| `QrCodeProofs!NothingRefusedWithoutCause` | `[]RefusedForCause`, the second half of `Scannable`: what is refused could not be drawn, by the reader's measure of its length |
| `QrPatternProofs!PatternsAreReadable` | a finished symbol of any of the forty types is `PatternsReadable` |
| `QrPatternProofs!CapacityIsExact` | `[]CapacityExact`, for every request and type: the drawing, the table of positions and the table of blocks fit |
| `QrPatternProofs!CodewordsArePlaced` | `[]CodewordsPlaced`: a reader that follows its path and takes the mask off finds the bits of the codewords of the present data, in order, and zeros past the last |
| `QrPatternProofs!WordsAreDrawn` | `[]WordsDrawn`: the bits of the two BCH words stand where a reader looks for them, in both copies |
| `QrPatternProofs!BestIsDrawn` | `[]BestDrawn`: a finished symbol is the drawing of its data from a blank matrix with the best of the eight masks |

The argument for the fetcher, one invariant on top of the other:

* `TypeInv` = `TypeOK` and `Control`, which ties `pc`, `call`, `held` and
  `outcome` together (a thread about to put holds something to put).
* `SeenInv`: a running call has seen the version that is current now, and what
  it is about to put or has returned is alike to one it has seen.
  `ReturnedWasCurrent` alone is not inductive: it does not say where the
  value of a put came from. `RestInv`: an idle or finished call holds nothing.
* `AgeInv`, in two parts. `CarriedInv`, about what is on its way: the owner confirmed
  what a call holds at most `since` ago, and the stamp is no older than that.
  `EntryInv`, about what is in the cache: the age of an entry is at least the time
  since its write and at most `lag` more; its owner confirmed it at most the age and
  `lag` ago; its version was put exactly `written` ago, and no other later
  (`EntryOK`); and where nothing can be evicted, a URI without an entry has had no
  put for the whole TTL (`Remembers`). The first part gives the second at the put,
  when `lag` takes in the delay of the call. `FallbackWithinWindow` follows from the
  bound on `confirmed`, `AvailableWithinWindow` from the other two and `Remembers`;
  that nothing is evicted while all URIs fit is a lemma on cardinalities.
* `HistoryInv`: what is cached or held has been published, and the versions a
  call has seen are an upper end of those published. With the first two it
  gives `RollbackOnlyAcrossPublish`; with all of them, every step of the
  fetcher is a step of `SchemaSource` or leaves its variables alone.

For the endpoint:

* `TypeInv` = `TypeOK` and `CallInv`: a call of the source is out exactly while
  the request is in step 10, with the arguments the request loaded; nothing is
  logged or answered early.
* `AdmittedInv`: a request past the checks, until it is answered otherwise,
  holds a configuration that was in force during the request and that admits it.
* `TokenInv`: a token stands only on a request that passed the gates.
* `PublishedInv`, `ValidatedInv`: what the source remembers or answers has been
  published, and a request past step 11 holds a version of *its*
  configuration's schema for which its payload is valid.

For the page, `IInv`:

* `FlagCounts`: the one-shot flag is the number of automatic logins.
* `Overlap`: the main function runs alone, and mints one at a time.
* `Sections`: the mint form is shown over tokens, after the main function has
  ended, in a tab that is not away.
* `Forgotten`: after a clean logout there are no tokens, nothing refreshes, and
  the verifier in the storage does not fit the code in the URL.
  `LogoutForgets` needs the last part: without it a reload might redeem the
  code of an earlier exchange that was refused.

For the builder, `IInv` adds to the four invariants `Marked` (an image in the
document is marked by the time anything else runs, so `render` starts no build),
`Reads` (past its first request, a build holds the selection unless that has
changed since) and `Works` (a wallet works for an offer).

For the navigation each invariant is inductive, given the type invariant where
handles are compared. For the harness, `VerdictInv` adds `OnTheWay`: a run that
has come to the published keys holds a credential of an EC key, and had no trouble
so far; without it nothing says that a failed verification has one of the causes
in `Unverifiable`.

For the compressor, `RasterInv`: the reader's table is the writer's without the
last string (`Behind`), that string is the previous one with the first pixel of
the pending one at its end, and it is the only code that a reader can meet
without having it (`Tables`); sizes and widths stay in step (`Widths`). When the
writer's table is full the reader goes on for two strings, to one more than the
writer has; the widths stay equal because the full size, `TableLimit`, is odd and
so never a power of two. That is the one thing about 0xfff that
matters, and the `ASSUME` says it.

All this is about the codes that stand for pixels. With the last of them the reader
adds a string and the writer does not, so at the end code the reader may be one
bit wider (`EndWidth`, part of `RasterInv`). That it finds the end code all the same
is a fact about the stream: the end code comes last, and the bit that the reader
reads too many is one that `flush` filled up with 0, or is not there
(`EndCodeAtEnd`, for `EndCodeFound` in `GifDecodes`).

The rest of the image hangs on three more invariants, each on top of the last.

* `StreamInv`: the bytes that are out and the bits in the buffer of
  `bitOutputStream` are the bits of the codes in order, and the buffer holds
  nothing above them. `PutBits` works on numbers, so this needs the arithmetic of
  cutting a number into bytes and bits (`GifProofs`, from the lemmas on
  `PowerOf2` and `BitOf`).
* `ImageInv`: while blocks are written the viewer stands at the end of what has
  been written and has seen exactly the bytes of the raster up to `offset`, of
  which one at least is left. What `GifDecodes` says of the end is not inductive
  without saying where the viewer stands on the way, nor without the byte that is
  left: a last block of length 0 would end the image for the viewer, and
  `writeBytes` takes 0 for the whole array.
* `EncoderInv`: the symbol does not change while its image is written, so the
  pixels that were set are still those of the symbol.

That base64 decodes to its bytes is a lemma (`GifProofs`) over every
sequence of bytes: three bytes and four characters at a time, and the two ends
with padding.

For the symbol, `SymbolInv`: the patterns decide every module of column 6, which
`mapData` leaves out; while it runs, every column right of `col` is decided,
and `col` is even down to the timing pattern and odd after it, so that the last
pair is columns 1 and 0. This is what `QrTypeOK` needs for its conjunct on
finished symbols. `DataInv`, for `SymbolOfData`: codewords that are kept are
those of the data as it is (they are thrown away when data is added), and the
type is the smallest for the data of the first `make`.

The arithmetic needs induction. The induction theorems of the library
cannot be instantiated, so `GifProofs` derives what is needed from
cardinalities: `SetInduction` (a set that has 0 and, with a number, the next one, has them
all), which the provers take because a set is a value and a predicate is not,
and from it that a function defined by recursion over the naturals exists
(`Recursion`), of which `PowerOf2` is one.

Sums and joined sequences are folds, which the provers cannot evaluate on a
variable. `QrCodeProofs` counts instead: `Total(f)` is the number of pairs
`<<x, i>>` with `i` up to `f[x]` (`TotalCounts`), so a sum over two sets apart is
the sum of the two (`PairsMore`), and what `FlattenSeq` puts together is as long
as its parts in all (`FlattenLength`). With it the length of the buffer is that of
the pieces, `Fits` of the encoder is the opposite of `TooLong` of the reader
(`OverflowIsTooLong`), and `NothingRefusedWithoutCause` follows from `DataInv`.

`QrPatternProofs` is about what stands in the symbol. The argument in its order:

* The patterns, layer by layer (`ProbesShape`, `TimedShape`, `PatternsShape`):
  each `setup...` decides the modules of one closed form (`CornerAt`,
  `AlignedAt`, `TimingAt`, `InfoAt`, `NumberAt`) and leaves the others as they
  were. An alignment pattern is skipped where its centre is taken, so this needs
  that those that are drawn are apart from each other and from the corners, which
  is a statement about the table of positions (`PositionsOfTypes`, row by row).
  In all, what is drawn is what `Taken` of the reader says (`DrawnIsTaken`).
* `Kept`: while data is placed and when the symbol is done, whatever the
  patterns decided is still there. This gives `PatternsAreReadable` and, from where
  each bit of the words is drawn, `WordsAreDrawn`.
* For `CapacityIsExact` the modules of `Taken` are cut into products of intervals
  and of the sets around the centres, which gives their number in closed form
  (`TakenCounted`). Each row of the table of blocks is compared with the square less
  that number (`BlockRowsTo20`, `BlockRowsFrom21`).
* `Placed`: before its p-th pair of columns `mapData` has filled the first
  `2 n p` modules of the reader's path, each with the bit whose number is that of
  the modules without a pattern before it, has counted `placed` up to that number,
  and has touched nothing further left. It is not inductive without the column, the
  direction and the number. Within a pair, the code counts row by row and the
  reader step by step (`ColumnsNumbered`).
* `Cached`: the codewords in use are those of the present data and type. With
  it, with `Placed`, and because the masks agree (`MasksAgree`), `CodewordsArePlaced`.
* `Scored`: before the k-th drawing, `pattern` is the first mask below k with the
  lowest penalty of *the drawing from a blank matrix* (`Whole`); that what the code
  draws is that drawing (`WholeIsDrawn`) is where the shared variables could have
  shown through. `BestIsDrawn` follows.

Only model-checked:

* the liveness properties: liveness under fairness is out of the prover's reach;
* of `Scannable`, the arithmetic of the codes. Proved for every request are the
  refusals, the patterns, the places of the words, and the bits of the codewords on
  the reader's path. Left to the run are that the BCH words have the values in the
  reader's list, that the blocks are without an error (Reed-Solomon over GF(256)),
  and that the codewords, dealt out to the blocks, decode to the data. These are
  results of recursive functions over arbitrary data, and products in a field that
  the provers know nothing of.

## 5. Bounds

| Bound | Where | Why it is enough |
|---|---|---|
| `MaxVersion` 2 (3 in `override_honoured`) | guard of `Publish` | an old and a new version |
| `Horizon` 1 to 3 | ages, histories, delays | more than the window and no less than the TTL; in `fetcher_race` a delay of one second is told from none, and is added to the window |
| TTL 3, 2 or 1 s, window 1 or 0 s | cfgs | ages on either side of both boundaries; the TTL ends before the window in `window_honoured` |
| `MaxDigests` 1 | guard of `Login` | with the automatic login, two logins overlap |
| six verifiers | `browser.cfg` | `VerifiersAssumption`: one for every place and a new one |
| three images, two boxes | `browser.cfg` | see section 3 |
| two threads, two URIs | cfgs | see section 3; the proofs have no such bound |
| `TableLimit` 129 (0xfff in the code), `BlockLimit` 24 (255) | `clients.cfg` | an image of 25 x 25 modules fills the table and several blocks; the theorem about the table has no such bound |
| `MCRequests` | `MCClients` | one text per case, see section 3; every type is drawn |
| three handles, three paths, three keys | `clients.cfg` | one that is due, one that was the last, a new one; two items and a path without; the signer, another EC key, one of another kind |

## 6. Not modelled

* The fraction of a second by which two timers differ.
* Steps of the wall clock: `Instant.now()` is taken to advance with the time
  Caffeine measures.
* Several servers: each has its own cache, and they share nothing else.
  Restarts lose the cache, which evictions cover where they are on.
* The default TTL and window, reading of the configuration in `init`, HTTP
  details, formatting, messages, the signature itself, JSON Schema.
* `expires_at` of the response, which is computed from a second reading of the
  clock, and the order of steps within the URI checks.
* What the mint page renders, its styles, and the result of a mint.
* Of the navigation: geometry, the iframe, the search for the markup that is
  cloned, and the matching of paths, which is React's and the script's own.
  After a step back in the history the overlay stays over the page: modelled,
  but nothing in the repository says what should happen.
* Of the harness: what it prints, and the checks whose result it only prints.
* Of `qrcode.js`: Kanji (its table is in a file the page does not load);
  `createStringToBytes` and the UTF-8 wrapper (the script feeds URIs, and a
  character above 255 loses its high byte); `createImgTag`, `createTableTag`,
  `createSvgTag`, `createASCII` and `renderTo2dContext`, which the script does
  not call and which keep no state. When the encoder throws, it throws strings;
  `renderQr` shows their `.message`, which they do not have
  (mint-credentials.js:306): wording, and not modelled.
* `realm-import.json`, `docker-compose.yml` and `validate.sh`: configuration.

## 7. Plan

All of it is done, in this order: `SchemaCache`, `SchemaFetcher`, `SchemaSource`,
`MintResource`, because the shared cache is where the concurrency is, and the
endpoint is what the service is for; then the clients: `MintUi`, `OfferBuilder`,
`AccountNav`, `WalletHarness`, and the encoder behind the offers. The proofs
followed the same order, and end with the drawing of the symbol. Every invariant
and every action property of the runs that pass has its theorem, `Scannable` for
the part named in section 4.

Considered and not done:

* The issuance protocol as an abstract specification, refined by `OfferBuilder`
  and `WalletHarness`. The two clients share the order of their requests and
  little else: the wallet of the console shows an error and stops wherever the
  harness gives a verdict, and neither checks what the other does. A
  specification that both refine would say that a proof follows a nonce and a
  credential follows a proof, which in each of them is the order of the awaits and
  holds by the shape of the model. What can go wrong in them (the wrong box, a
  wrong key) is in `CredentialInItsBox` and `Verdict`.
* Reed-Solomon in general: it would be a project of its own on polynomials
  over GF(256), and the run that evaluates every block of the sample symbols is
  what bears on the tables of this code.
