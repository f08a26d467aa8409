# txcript: models, checks and proofs

txcript converts the sessions of coding agents between their native formats,
searches, views and edits them (a library, `src/src`, and a CLI, `src/cli`),
and shares them with a team through a small service (`src/share-core`,
`src/share-store`, `src/share-server`, `src/share-worker`,
`src/deploy/cloudflare`). This directory holds TLA+ modules of the parts whose
correctness depends on order, time or failure, TLC configurations that check
them on small instances, and TLAPS proofs of what holds for every instance.
Paths below are those of the repository, under `src/`.

## 1. Inventory

### The share service

A client publishes a *Simple* document under a key `owner/session`. The host
(native server or Worker) authenticates the caller, asks the store for the
facts of the object (a HEAD), asks the pure core to `decide`, and executes the
plan with one more store call.

| Part | State | Operations | Interacts with | Hard behaviour | Correct when |
|---|---|---|---|---|---|
| `share-core` (`lib.rs`, `plan.rs`, `policy.rs`) | none | `Key::parse`, `decide`, `Policy::authorize`, `list_scope`, `team_of`, `precondition` | called by both hosts | order of its checks; what a plan still means when it is executed late | only owners write; outsiders learn nothing; If-Match is never weakened |
| `share-core/identity.rs` | none | reads the trusted headers | hosts | none (no state) | an unauthenticated caller is nobody |
| `share-store` contract (`lib.rs`) and `memory.rs` | a map of objects under one mutex; attributes with a byte budget | put, get, head, delete, list | hosts | conditional writes; the budget cuts values | put with a precondition is atomic; pages end, and lose nothing |
| `filesystem.rs` | two files per object, staging files, one mutex per process | the same, one system call at a time | other processes over the directory | torn reads, crashes, races between processes | body and version belong together; a create replaces nothing |
| `s3.rs` | the bucket | the same, by HTTP | other hosts | lost replies; list and HEAD are two moments | the same |
| `catalog.rs` | none | a derived listing | store | none of its own | not used by a host |
| `share-server/http.rs` | policy, limits | publish, read, remove, list | core, store, identity | concurrent handlers between HEAD and execution; the page loop | see the runs |
| `share-server/access.rs` | key set and its age; a refresher thread | refresh, `publish`, `key`, `principal` | the Access team's certs endpoint | rotation, outage, startup without network, a thread that never started | a good token is accepted or answered "unavailable"; retired keys run out |
| `share-server/{config,store,main,lib}.rs` | none after startup | parse, dispatch | — | none | — |
| `deploy/cloudflare/src/support.js` | `jwksCache` of an isolate | `accessKeys`, `verifyAccessJwt` | certs endpoint; interleaved requests | awaits between reading and writing the cache; late responses | forced fetches keep their floor; retired keys run out |
| `deploy/cloudflare/src/index.js`, `share-worker` | none | routing, R2 calls, JSON around `decide` | core, R2 | order of checks differs from the native host | same answers as the native host |
| `src/harness/share.rs`, `share_s3.rs` (client) | configuration | discover, load, save, delete | service or bucket | lost replies, ETags, retries | a save replaces what was loaded or fails |

### The library

| Part | State | Operations | Hard behaviour | Correct when |
|---|---|---|---|---|
| `src/common.rs`, `transcript.rs` | none (a transcript is a value) | tool-call pairing, spans, merging | order and pairing of events | no result without its call, ids unique |
| `src/harness/*` (18 codecs and their stores) | native files and databases of agents | discover, read, write, delete; linearising trees of messages | branches, cycles, partial writes, concurrent agents | a conversation keeps its messages and their order |
| `src/local.rs` | registry of harnesses | discovery, fingerprint, resume | sessions that change while read | a fingerprint changes when the session does |
| `src/http.rs` | a worker thread, two channels | start, send, drop | a worker that failed or stopped; drop while requests wait | every caller is answered; drop ends |
| `src/search.rs`, `text.rs`, `wasm.rs` | none | ranking, projection, bindings | — | — |

### The CLI

| Part | State | Operations | Hard behaviour | Correct when |
|---|---|---|---|---|
| `cli/src/cache.rs`, `build_index` in `lib.rs` | one SQLite file for all processes and versions | open, get, put_many, retain | processes of different versions; a cursor read before its session | a row served is the extraction of this version of that session |
| `cli/src/pager.rs` (crop), `draft.rs`, `editpane.rs` | kept set, edits, undo and redo stacks (capped), cursor | cut, restore, keep only, edit, undo, redo, save | closure under links; the cap; long sequences | call and result stay together; undo retraces |
| `cli/src/fragment.rs`, `mcp.rs` | none | ranges, chunks | bounds | ranges cover exactly what they name |
| `cli/src/{view,graphics,export,lib,main}.rs` | terminal | formatting, process launch | — | — |

`PROJECT.json` lists each of these with its status, and the hazards at the
lines where they bite.

## 2. Modules

| Module | Models | Kind |
|---|---|---|
| `ObjectStore` | versions and preconditions, shared by all stores | definitions |
| `ShareCore` | policies, list scopes, If-Match, `decide` | pure operators |
| `ShareService` | `http.rs` publish, read, remove over a store with atomic calls | state machine |
| `ShareServiceProofs` | — | proofs about `ShareService` |
| `FsStoreProofs` | — | proofs about `FsStore`, with its refinement |
| `AtomicStore` | what put and delete promise | abstract specification |
| `FsStore` | `filesystem.rs`, one system call per step | state machine, refines `AtomicStore` |
| `ShareListing` | `http.rs` page loop over memory, filesystem and S3 `list` | state machine |
| `ShareListingProofs` | — | proofs about `ShareListing` |
| `KeyPublisher` | the Access certs endpoint (external) | shared part |
| `AccessKeys` | `access.rs` key set and refresher | timed state machine |
| `WorkerKeys` | `support.js` key cache | timed state machine |
| `AccessKeysProofs`, `WorkerKeysProofs` | — | proofs about a fetched key set, and with them about the two verifiers |
| `SearchCache` | `cli/src/cache.rs`, `build_index` and the listing before it | state machine |
| `SearchCacheProofs` | — | proofs about `SearchCache` |
| `Conversation` | the canonical model (`common.rs`) | definitions |
| `Cropping` | tool-call pairing, spans and `crop` (`transcript.rs`) | pure operators |
| `PiCodec`, `CodexCodec`, `ClaudeCodec`, `CoworkCodec`, `SimpleCodec`, `ShareCodec`, `HermesCodec`, `OpenCodeCodec`, `AmpCodec`, `FxCodec`, `GrokCodec`, `GrokBotCodec`, `AntigravityCodec`, `CursorCodec`, `CursorDesktopCodec`, `ChatGptCodec`, `ClaudeChatCodec` | the codec of each harness: to_common, from_common, metadata, discovery | pure operators |
| `NativeLogs` | what the harnesses themselves write (external) | definitions |
| `Conversions` | a session that grows and is converted, composing all of them | state machine |
| `ConversionsProofs` | — | proofs about `Conversions`, each of the codecs and what is written for them |
| `LinearHistory` | what undo and redo promise | abstract specification |
| `CropEdit` | the crop editor of `pager.rs` with `draft.rs` | state machine, refines `LinearHistory` |
| `CropEditProofs` | — | proofs about `CropEdit` and `Cropping`, with its refinement |
| `MC...` | small instances for TLC | |

A definition named `..._Fault...` is a plausible slip in the definition that
follows it; no specification uses it, the runs substitute it to show that the
property they check notices.

**ShareCore / ShareService.** `decide` is translated check by check: the policy
is asked before existence is reported, the owner of a publish is the caller,
If-Match becomes a store precondition. Each handler is a record in
`handler[h]`. `Refuse` stands for the early returns before the store in the
code's order: a body beyond the router's limit is a 413 before anybody is asked who the
caller is (axum's body limit), then 401, 503 and 400. `Decide` is the HEAD and `decide` on what it
saw; the store may change before `Execute...`, which is the second call.
`ExecuteFails` covers a store that did nothing and one whose reply was lost.
`StoredTeam` is `Attrs::set` for the last attribute: it is cut to what the byte
budget leaves. Versions are the digest of the body, so an identical rewrite
keeps its version, as in the code; collisions are not modelled.

**FsStore.** `body` and `sidecar` are the two files, `staged` the temporaries,
`lock` the mutex of each process. put is Lock, Stat, ReadSidecar, Create, Fill,
Install (link or rename), Truncate, Record; delete is Lock, Stat, ReadSidecar,
Unlink, Forget; get is ReadBody, Stat, ReadSidecar, head the last two; neither
takes the lock. `IOFails`, `SidecarFails` and `Crash` can strike between any
two of them. A sidecar that cannot be read is no failure to the code: it counts
as one that names no version (`Legible`). The history variable `torn` is true
from a write that stopped between its two files to the next one that completes.
The refinement maps the abstract object to `body`; a call is done from the
moment its body is in place. `AtomicStore` takes `OtherTokens`, what a
store that is at times unable to tell a version may take for it; here that is
"unknown".

**ShareListing.** The three stores build pages differently: `InMemory` under its
lock, `Filesystem` by walking the owners' directories and then reading one
sidecar after another, `S3` by LIST (which may return fewer keys than asked)
and one HEAD per key. `http.rs` asks for pages until there is no cursor, and
leaves out what the policy would deny on read. Others publish and delete all
the while. `Filesystem` lists an object whose sidecar it cannot read without
attributes, hence without a team (`Bare`).

**AccessKeys.** Time is a `Tick`. The thread sleeps TTL after a good fetch and
RETRY after a bad one; a fetch takes up to FETCH; the endpoint may fail, or
answer without a usable key. `Publish` at startup may leave no thread behind
(the spawn fails). `key` and `principal` are the request path.

**SearchCache.** A run of the command lists the sessions, opens the SQLite file in
the three statements of `Cache::open`, asks for cursors, takes the rows whose
cursor still matches, parses the rest one by one, stores it and prunes. Between
any two of these another run, of this or another release, takes its own steps,
sessions are written, edited in place and deleted, and a run may be killed. A
cursor is a value the store gives: of a local store one that moves with an edit,
of a shared transcript the version of its content, which returns with it. Three
variables are history: `past`, `blurred` (a cursor that stood for two documents)
and `mixed` (two releases had the file open at once). No action reads them.

**Conversions and the codecs.** A session is its harness's own log, a sequence of
records of the kinds the codec tells apart. `Work` lets the harness append or
update (`NativeLogs`, from the fixtures and the format notes), `Continue` is
`txcript continue` (read, fresh identity, write), `Export` the library's convert
and `pull`, `Push` publishing, which keeps the id. A text, an output or an image is a sequence of numbers, so
that joining and splitting show; the number of a step names what was said in it.
Each codec translates its whole pairing logic (ids minted, results folded into
calls, messages split and joined, branches resolved) and its own discovery
where that reads a file otherwise than loading it does. Campfire is pi's
codec, `Cowork` Claude Code's under a record of its own, `Share` Simple's under a slug.
The codecs share one namespace (`PiToCommon`, `CodexToCommon`, ...), and a loop of the
code is a recursive function from how far it has come to what it has put together, so that
the proofs can follow it.
Of a stop reason the models keep that a message was aborted (`Aborted`), through every
format that says so: it steers fx, which writes a turn that was cut short at a call as
an interrupted one, with its text and its first call only (`FxInterrupted`). pi and fx
themselves write such messages; the others get them by conversion.

**CropEdit.** `kept`, `undo`, `redo` and `edited` are those of the editor; a
selection is `cursor` and at most one `anchor`. Cuts, restores and keep-only act
on the closure of the selection under the ties of calls and results. An edit
goes out to the user's editor and comes back as any text its file can be read
back as (`Applied`). The refinement maps the undo and redo stacks to the list of
states they lead to (`Trail`).

**WorkerKeys.** JavaScript runs one request at a time between awaits: a step is
what runs between two of them. `Land` replaces the cache with whatever the
response carries, however late, also with a list that has no key the team
published; `LandWithoutList` is a response without a list, which fails the request
when the cache is already replaced. `FETCH`, the time a fetch may take, is an
assumption about the platform: `support.js:158` sets no timeout.

## 3. Runs

| Run | Bounds | Distinct states | Shows |
|---|---|---|---|
| `share_service` | 2 principals, 1 plain and 1 bad session, 2 documents (one leaves no room for a team), 2 handlers, 5 policies | 148 159 | ownership, compare-and-swap, create-once, team visibility, with lost replies |
| `team_in_a_tight_room` | the same, one document leaves one byte | violation | finding 1 |
| `fs_store` | 1 process, 2 threads, 2 documents, every failure and crashes | 656 812 | refinement of `AtomicStore`, quiet state described |
| `fs_store_processes` | 2 processes, sidecar failures and crashes | 224 079 | whole bodies and create-once survive |
| `fs_store_torn_get` | 1 process, no failure | violation | finding 2 |
| `access_keys` | 2 keys; TTL 3, RETRY 1, GRACE 2, FETCH 1 | 104 233 | acceptance, refusal, recovery over time |
| `worker_keys` | 2 keys, 1 forged, 2 requests; TTL 4, FLOOR 2, FETCH 1 | 5 479 792 | floor, expiry, rotation |
| `share_listing` | 2 owners x 2 sessions and a stray name, pages of 2 | 349 364 | listings are complete, ordered, allowed, and end |
| `conversions` | 18 harnesses to start in, 13 to continue in, 5 to export for; 3 steps, 2 conversions, 4 of both | 269 943 | conversations, pairs, searches, pieces, spans and identities survive |
| `conversions_into_opencode` | Amp into OpenCode, 2 steps | violation | finding 3 |
| `search_cache` | 2 runs of 1 or 2 releases, 1 session, 2 documents, 3 edits | 2 564 730 | what is served is current and of its own release |
| `crop_edit` | 3 conversations, a history of 2, 3 changes | 341 150 | what is kept can be saved, history is linear, changes are told |

Why the bounds suffice. Two handlers give every interleaving of a HEAD, another
caller's write and the execution; a third one could only repeat the write, since
a handler keeps nothing but its own plan. Two documents tell an old version from
a new one, and returning to the first (the ABA case) is included. The lock and
the link decide between two writers. Four objects and pages of two give a page
that is exactly full, one less, one more, and a tail lost or repeated. The times
keep the order of the real ones (RETRY and FETCH below TTL), and ages count to a
horizon past every comparison. For the cache one session is enough, since rows of different sessions share only
the mark of the file, which every run reads and writes; three edits let a cursor
be read, move and return, and two documents are what it can be wrong about. For
conversions four moves give a call, its result, something after it and a
conversion, or two conversions with a step between; two calls of one step and a
failure are in `Calls` and `Output`. In the editor three changes overflow a
history of two; the real one is 500, and no step compares its length with
anything else. `MaxEdits`, `MaxSteps`, `MaxHops`, `MaxTotal` and `MaxChanges` bound
how much happens. `Horizon` and `UpHorizon` are the only other bounds on
counters: beyond them an age no longer grows, which no comparison can tell.
`ShareService` is finite without a bound.
Symmetry is used only in runs without liveness properties.

What the properties exempt, and why:
- `OwnReleaseUnlessMixed` exempts runs beside which another release had the file
  open. Rows do not name the release that wrote them, and such a run goes on
  writing (`cache.rs:122`): the hazard is real and the property marks its edge.
- `IndexIsCurrent` exempts sessions a cursor of which stood for two documents.
- `QuietMeansDescribed` and `MutationsAreAtomic` exempt the time from a write that
  stopped between the two files (a crash, a sidecar that could not be written
  or removed) to the next one that completes (`torn`): there a version does describe an
  older body, and If-Match of it overwrites the newer one.
- `NothingStableIsLost` counts an object whose sidecar the store failed to read as
  readable only if its reader may list it without a team.
- `OwnFormatKeepsAll` has `Fits`: Codex does not write that a call failed, a file
  in Claude Code and Cowork gains a result, OpenCode has no running call. It compares
  two readings, of the log as it was and of what was written from it; what
  `to_common` left out of the first is in neither, so reading is the matter of
  `SearchesFindTheirEnds` and of what `SpansStayValid` says of a log that grows.
- `SearchesFindTheirEnds` has `Overtaken`: a Codex search whose item came before
  its end leaves its id behind in the table the item is paired from
  (`codex.rs:193-204`), so that the next search of the same action takes that id
  and its own end becomes a result without a call.
- `NothingIsLost` has `NoPlaceIn`, piece by piece: files and images where a format has none;
  in Antigravity the second thought of a message, and a result of no call or of which of two; in
  OpenCode a result that is one of several of its message, or late; in fx
  a result beyond a prompt, and all but the first call of a message that was cut
  short; and the user's own command, where calls are the model's only (it is kept in Claude
  Code, Cowork, ChatGPT, Claude's chats and a share).
  Everything else counts exactly, also in these harnesses.
- `AnswersKeepTheirCalls` has `Tells`: Antigravity finds a call by its id and Grok Bot by the
  order of the calls, and fx keeps one call of a message cut short, which changes
  which of the calls a later one is.
- `ConvertedIsFound` leaves out harnesses without a title (`Untitled`) and sessions
  without a line that names them (`NamesItself`).
- `SpansStayValid` is about appends only: a branch or an update in place may
  move what a span names.
- `ChangesAreTold` lets a user leave unasked once a step was forgotten.

Fairness.
- `AccessKeys!FairSpec`: the clock ticks, a fetch answers or times out (ureq's
  timeout), the thread is scheduled. The endpoint is not assumed to recover;
  `KeysStayFresh` is conditional on it staying up.
- `ShareListing!Spec`: weak fairness on the lister's steps, no matter how often
  others write: the handler's future is polled until it answers. That LIST
  returns at least one key when one matches is assumed of S3.

Deadlock is checked everywhere but in `share_listing`, where the listing is over
once it has answered, and in `conversions`, `search_cache` and `crop_edit`, which end:
the bounded session has been written and converted as often as it may, every run
of the command has ended, the editor was left.

### Findings

1. *The team can be cut.* `Attrs::set` (`share-store/src/lib.rs:105`) clips a value
   to what is left of the budget, and the team is set last
   (`share-server/src/http.rs:111`). A document whose own attributes all but fill the
   budget gets a part of its team's name, which may be another team's name.
   `TeamComesFromPolicy` is violated; the theorems about reads assume
   `TeamsFit`, which rules exactly this out.
2. *A get may be torn.* `filesystem.rs:190` says the lock is "what makes a version
   always describe the body stored beside it"; `get` does not take it. The run
   shows one that reads the body a put has just moved into place, and then the
   sidecar, which still names the version of the document that put replaced. (That
   a sidecar in rewriting reads as "unknown" is documented and does not count.)
3. *OpenCode loses results that come back together.* `opencode.rs:485` says a result
   is folded into the preceding tool part. `assistant_part` folds only a result that is the
   whole of the next message; two calls answered in one message keep neither
   result, and both are recorded as completed with an empty output.

Observed while modelling, and not claims of the code: a crash, or a sidecar that
cannot be written, between body and sidecar leaves the old version on the new
body until the next write. A search in Codex whose item was written before its end takes
the next search of the same action with it (`Overtaken`, above), although
`docs/formats/codex.md:61` pairs the two halves of each. Two ids Cursor Desktop writes that differ
in nothing but characters it replaces by `_` would become one; the ids here differ in letters and
digits. An S3 listing entry has its version from LIST and its
attributes from a later HEAD. A late response may put older keys back into
the Worker's cache, and a token of a new key is refused while somebody else's
forced fetch is under way; both are bounded, and the bounds are what
`RetiredKeysRunOut` and `RotationRecovers` state. A changed membership leaves
the old team on stored objects until they are published again. The Worker
checks a body after `decide`, the native host before.

Of the CLI: the cache's cursors miss what they do not cover (OpenCode's, Grok's, fx's
and Cursor Desktop's do not move with an edit in place). A run that names one
remote harness lists that one alone and then prunes the rows of all others,
though `build_index` says the cache is pruned against every session on disk, "never
against one command's filtered view of it" (`lib.rs:2651`); so does an unreachable
share endpoint with the share rows. `retain` also drops rows another run cached after this one listed.
`edited()` says it tells whether anything changed (`pager.rs:209`), which ends when more than 500
changes were made and the last 500 undone. `draft.rs` splits a block where
its text holds a line that looks like a heading, and does not refuse an emptied
result that is a text, as its comment says of all results (`draft.rs:55`). A file
kept from an edit that could not be read is written again under the same name by the next edit
of that message (`pager.rs:995`, `pager.rs:1137`).

## 4. Proofs

### ShareServiceProofs

`ShareServiceProofs` proves, for any number of principals, sessions, documents,
teams and concurrent handlers, and any set of policies:

| Theorem | Statement |
|---|---|
| `TypeCorrect` | `Spec => []TypeOK` |
| `OwnerWritesTheorem` | `Spec => OnlyOwnerWrites` |
| `CompareAndSwapTheorem` | `Spec => ConditionalPublishIsCompareAndSwap` |
| `CreateTheorem` | `Spec => CreateReplacesNothing` |
| `ReadStaysInTeamTheorem` | `ASSUME TeamsFit PROVE Spec => []ReadStaysInTeam` |
| `OutsiderLearnsNothingTheorem` | `ASSUME TeamsFit PROVE Spec => []OutsiderLearnsNothing` |

The argument. None of these is inductive alone: a step that executes a plan
says nothing about the HEAD the plan was made from. `WriteInv` states what a
planned write or delete still promises at any later moment: the key is the
caller's own, the policy allows writes, and the store precondition is at least as
strong as the condition the caller gave, or as the absence the HEAD saw. It is
made by `decide` (`DecideWrites`) and kept by every other step because it
speaks of the handler alone (`WriteFrame`). An executed plan then meets
its precondition at that moment (`EffectIsPut`), which gives the action
properties. `ReadInv` adds that a planned read is for somebody who may receive
*any* object at that key, because every object there carries the owner's team or
none (`TeamComesFromPolicy`), hence what was published after the HEAD is no
exception. That part needs `TeamsFit`: without it the invariant is false, and
finding 1 shows it.

Assumptions used: `StoreAssumption`, `CoreAssumption`, `ServiceAssumption` (sets
the constants are drawn from), checked by TLC in every run of the module.

### FsStoreProofs

For any number of threads, processes and documents, whatever fails:

| Theorem | Statement |
|---|---|
| `FsTypeCorrect` | `Spec => []TypeOK` |
| `WholeBodiesTheorem` | `Spec => []ReadersSeeWholeBodies` |
| `FsCreateTheorem` | `Spec => CreateReplacesNothing` |

and for one process (`OneProcess`), any number of threads and documents, still
whatever fails and whenever the process ends:

| Theorem | Statement |
|---|---|
| `QuietTheorem` | `Spec => []QuietMeansDescribed` |
| `RefinementTheorem` | `Spec => MutationsAreAtomic`, that is, every step that neither begins nor ends `torn` is one of the atomic store |

The argument has three layers. `StagingInv` says where a call of each kind can
be and that a write that is about to be installed has staged all of its own
document; it needs no lock, since the staging names differ, and so holds across
processes and crashes. `LockInv` says that a mutation past "lock" is the holder
of its process's lock, and nobody else is. `DescribedInv` is what the holder
knows: between its check and the moment it changes the body, the check still
holds; between the body and the sidecar, the body is its own. With one process
no other step can disturb that (`Exclusion`), which is where `OneProcess` is
used, and with two it is false, which is where the last guarantee left is the
link (`FsCreateTheorem`). What the holder's check found may be "unknown" of any
document (`Granted`), which is why the atomic store may judge by it too. A write cut off
between the files breaks the last part of `DescribedInv`, hence `torn`, and the
next one that completes restores it. `RefinementStep` maps each step: Install and Unlink are the
moment a call takes effect, a failed check or link is a refusal, IOFails a
failure, a crash the end of its process's calls (`Abandon`), and everything
else, get and head included, a stutter. The invariants
(`FsInv`) were checked by TLC on the instances of the two runs before they were
proved.

Assumptions used: `StoreAssumption` and `FsAssumption`.

### ShareListingProofs

Over each of the three stores, for any bucket, page size and policies, whatever
others publish and delete meanwhile, and however short LIST's answers are:

| Theorem | Statement |
|---|---|
| `ListingTypeCorrect` | `Spec => []TypeOK` |
| `StableObjectsAreListed` | `Spec => []NothingStableIsLost` |
| `PagesFollowTheOrder` | `Spec => []ListedOnceInOrder` |
| `ListingIsReadable` | `Spec => []ListingShowsWhatReadAllows` |

The argument. An object is on its way to the answer through four places: not yet
looked for, found by name, on the page, listed. `CoverInv` says where an object
the caller could read all along is: at or before the cursor it is listed; past
it, its owner is still to be walked, or its name is found, or it is on the page,
or it is beyond all that was found on a page that says that more follows. Three
things keep this across a page. `FoundInv` says that names are looked at in
order, each after everything on the page. `LastSeenInv` says that S3's cursor is the
last name looked at, kept or not, never ahead of one that is not, and is
somewhere once more is said to follow, so that a listing that goes on goes on from
there. And a page that is cut at the limit has its cursor on its own last object, everything
cut off being past it (`TruncatedKeepsInv`), which is why the stores ask for one
more than the limit. `EntriesInv` then orders the answer: what is
listed is at or before the cursor and sorted, and a page begins past the
cursor (`AnswerKeepsInv`). The proofs rest on lemmas about the model's own
operators (`InOrderProperties`, `FirstOfProperties`, `ShownLeaves`): what sorting,
cutting and filtering a page keeps and leaves out. The invariant
(`ListingInv`) was checked by TLC on the instance of the run before it was
proved. Assumption used: `ListingAssumption` (pages hold at least one object,
and `Order` names every key, none of them twice).

### SearchCacheProofs

For any number of runs, releases, sessions, documents and edits:

| Theorem | Statement |
|---|---|
| `CacheTypeCorrect` | `Spec => []TypeOK` |
| `OwnReleaseTheorem` | `Spec => []OwnReleaseUnlessMixed` |
| `IndexIsCurrentTheorem` | `Spec => []IndexIsCurrent` |

The argument. `ReleaseInv` is why the release of what is served is right: runs of
two releases that have the file open together are marked (`MixedInv`); the mark
in the file is that of every unmarked run past its opening (`WriterInv`), and a
row of an unmarked run is of the release of the mark and of every open run that
has no emptying left to do (`RowsInv`). `Cache::open` needs its three statements in their
order for this: emptied first and marked after, so that no other reader takes old rows
for its own. `CurrentInv` is why what is served is current. A cursor leads back
from a row to the time its document was read only through three facts: the
present cursor of a session is one it has had (`HeldInv`, `KnownInv`); whatever
was stored or parsed under the *present* cursor is what the session holds now
(`StoreInv`); and whatever was stored or parsed under the cursor a run has *read*
is something this run has seen the session hold (`SeenInv`). An edit gives a new
cursor, unless the session becomes `blurred`, so that `StoreInv` starts empty; a
run that asks for cursors turns `StoreInv` into `SeenInv`; and `put_many` stores
under the cursor read *before* the document, which is the order both need. Both
invariants were checked by TLC before they were proved. Assumption used:
`EditsAssumption`.

### AccessKeysProofs, WorkerKeysProofs

For any keys, rates and grace, any rotations, and any number of requests in flight in
the Worker:

| Module | Theorem | Statement |
|---|---|---|
| `AccessKeysProofs` | `AccessTypeCorrect` | `Spec => []TypeOK` |
| | `RetiredKeysTheorem` | `Spec => []RetiredKeysRunOut` |
| | `GoodTokenTheorem` | `Spec => []GoodTokenIsNotTheCallersFault` |
| | `OutageTheorem` | `Spec => []OutageIsNotOurs` |
| | `RecoveryTheorem` | `Spec => []RecoversAtTheRetryRate` |
| | `RotationTheorem` | `ASSUME FETCH < GRACE PROVE Spec => []RotationIsPickedUp` |
| `WorkerKeysProofs` | `WorkerTypeCorrect` | `Spec => []TypeOK` |
| | `FloorTheorem` | `Spec => ForcedFetchesKeepTheFloor` |
| | `RetiredKeysTheorem` | `Spec => []RetiredKeysRunOut` |
| | `RotationTheorem` | `Spec => RotationRecovers` |

The argument both share is `Recent(keys, n, ...)`: a set that was what the team
published at most n ago holds no key retired for longer than n, and lacks none published for
longer. A rotation keeps it (it starts a key's age again) and a tick makes it one older
(the lemmas on the published keys, which each module proves for its own variables), so
it has only to be established where a fetch is answered and carried to where the set is used. What a verifier holds is older
than its age says by a fetch at most (`HeldInv`, `CachedInv`).

In the server the rest is a deadline. `Due` is the time until the refresher publishes
next if every fetch is answered; `DueInv` says that either the set it holds is
young enough to be replaced in time, or the refresher is within a retry of the
endpoint's return. `RotationIsPickedUp` needs a set that has passed its TTL to
be usable still, hence `FETCH < GRACE` (5 s against 24 h in the code). In the
Worker the rest is the forced fetches. `FloorInv` says that `forcedAt` is when the last one
began, whatever landed since, which is `ForcedFetchesKeepTheFloor`: two of them begin at least
`FLOOR` apart, however long a fetch takes. `ForcedInv` says where a floor that refuses comes
from: a fetch under way, one that failed since or brought no key, or one whose answer, or a
later one, is in the cache; a cached list without a key (`CachedInv`) is as recent as the
failure it counts as; `SecondLookInv` says what a request looks at
after the refetch it asked for. Together they leave a rejected token of a published key
the three excuses `RotationRecovers` names. The invariants were
checked by TLC before they were proved. Assumptions used: `RateAssumption` and
`WorkerAssumption`.

### CropEditProofs

For any conversation the editor opens, any ties in it, any length of the history
and any number of changes:

| Theorem | Statement |
|---|---|
| `EditorInvariant` | `Spec => []EditorInv` |
| `ChangesAreToldTheorem` | `Spec => []ChangesAreTold` |
| `HistoryIsLinearTheorem` | `Spec => HistoryIsLinear`, that is `History!Spec` |
| `WhatIsKeptMayBeKeptTheorem` | `Spec => []WhatIsKeptMayBeKept` |

The history. A step holds one side of a change, and undoing it is right only in the
state it was recorded in. `TrailInv` says there is a trail of states along which
the undo steps lead from the present state back, and the redo steps on, one
state a step; it begins at the opened session unless a step was forgotten, and the
two stacks together have no more than `Depth` steps. A change cuts the trail
at the present state and extends it, a full history loses its first state, and undo and redo
move along it. With nothing left to undo the present state *is* the first of the
trail, and so the opened session. `BodyInv` says that the messages counted as edited are those that
differ from the opened ones, which holds across undo and redo because both put a
message as an edit does. For the refinement there can be only one such trail,
the one `Trail` computes from the stacks (`TrailIsTheTrail`, by induction along
each stack); hence a change maps to `Change` (`ChangeIsOne`), undo to `Back`,
redo to `Forward`, and everything else, a cut that cuts nothing included, to a stutter.

What may be kept. That the kept messages now tie no call to a result that is
gone is not inductive: undo brings back a kept set and a text that were right
together with others. `FitInv` says it of every state on the trail, in two halves that
do not depend on each other: its kept set is closed under the ties of the conversation
as it was *opened*, and each of its messages ties what it tied then, so that the
ties now are those ties (`PairsAlike`). Closed sets come from `Closure`: its
rounds find another tied message each until they find none, so there are enough of them
(`ClosureCloses`), and from unions and differences of such sets
(`ClosedTogether`). Messages keep their ties because a section that is read back
keeps the kind and the id of its block, or drops a block that ties nothing (`SectionsTie`,
`AppliedTies`). TLC checked the invariant on the instance of the run before it was
proved, its second half as the equality of the ties. Assumptions used: `DepthAssumption` and `OpenedAssumption`.

### ConversionsProofs

For any harnesses to start in, to continue in and to export for, any number of steps
and any number of conversions:

| Theorem | Statement |
|---|---|
| `ConversationsAreWellFormed` | `Spec => []TypeOK` |

`TypeOK` says what `common.rs` promises of a conversation and nothing in the code checks:
no message is empty, a result is the user's and a thought the model's, and the
only calls of the user's own are commands. It is not inductive, for it says nothing of the log, and
a decoder given a log it is not owed can return anything. `IInv` adds `SessionOK`: what the
decoder of the session's harness relies on, line by line (`LineOK`: that the content of a
message is a list of blocks that decode to what its role may say, that a row still
active says so, that a turn's steps are lists of calls and results, ...), and where the first line decides, of the first line (`FxOK`, `ChatGptOK`,
`ClaudeChatOK`, and `BehindOK` for Cowork and a share, which put another codec's log
behind a record). Three facts carry it, each proved once per codec:

- `Read`: of such a log the decoder makes a well-formed conversation (`BodyOK`). This is
  where the pairing is: Codex's queue of outputs and fallback ids, the messages Claude Code
  splits over lines, the pending calls of Grok Bot and Simple, the branch of a chat that
  is shown, Cursor's rows of results.
- `Written`: of a well-formed conversation, with any metadata, the encoder makes such a
  log. `BodyOK` is all it asks for, so conversions may follow each other in any order.
- `Grown`: what the harness itself writes next (`NativeLogs`) keeps the log such.

A loop is followed by its invariant: the function that runs it exists (`RunExists`) and
has the step of the loop as its equation (`RunOf`, `Step`), and what holds at the start
and is kept by a step holds at the end (`AllNumbers`). `Step` tells the loops apart by a
tag, because a lemma cannot take the loop's body as a parameter. The operators that take
operators (`Each`, `Where`, `FlattenSeq`) are first equated with plain functions.
Assumption used: `BoundsAssumption`.

### Induction in these proofs

The induction theorems of the library take an operator, which the provers cannot
instantiate. Where a proof needs induction over numbers it takes the
least counterexample instead: `LeastNumber` is proved in each module that needs it, from the
well-foundedness of the order. With it, what a recursive function computes is
proved in three steps: the function exists, it satisfies its equation, and
whatever satisfies the equation has the same values. `Cropping`, the trail of
`CropEdit`, the filter of `ShareListing` and the loops of the codecs are written as recursive
functions for that reason.

### Only model-checked

Liveness (`KeysStayFresh`, `ListingEnds`) is out
of the prover's reach. So are, in practice, the action properties of `Conversions`: what is proved
of the codecs is that they decode and write what is well formed, not that the one
undoes the other. That a round trip keeps a conversation, that results keep their calls,
that searches find their ends, that nothing is lost, that spans stay valid and that a converted session is found relate
two logs of two formats piece by piece, and are model-checked.

## 5. Not modelled, and why

Formatting, layout, ranking, terminal output, packaging: no control a model would
tell apart. Cryptography is one flaw of a token, HTTP is a call that may fail or
lose its reply, a slug is a model value (plain or not). Attributes of a stored
object other than the team play no part in any decision. AllowAll, a policy for
tests, and the catalog are not used by a host. Guarded deletes on S3 (a HEAD and
a DELETE) are not reachable from the service.

Of the conversions, these are abstracted: the characters of a text, whether an
output is text or JSON, signatures of thoughts, the fields of a tool's input,
models, usage, the stop reasons other than an abort, timestamps and directories. Ids are values with the
structure the code gives them (minted from a position, prefixed, or the
harness's own). The stores' files, databases and gateways (where a session is
put, locked, registered and deleted) and the protobuf bytes of Cursor and
Antigravity are left out: each save is a single writer's sequence of system calls with no
recovery to check.

The HTTP worker thread (`src/http.rs`) makes each caller wait on one receive whose
only sender the worker owns, and every path out of the worker drops it; a model
of it would say what the channel's type says. The Worker's routing (`index.js`)
differs from the native host in the order of two checks, noted above. The
transcript viewer, the windows of `editpane.rs`, the MCP server and the search index read
and never write a session.

## 6. What is left

1. `ShareClient` (`src/harness/share.rs`) composed with `ShareService`: a save after a
   load, over lost replies.
2. Ranges in `Conversions`: a session continued from a part of it
   (`fragment.rs`), as `Cropping` already decides which parts may be.
3. The store side of the harnesses whose save is several files or rows
   (Cursor Desktop, Grok, Claude Code with its files): what discovery shows of a
   save that was interrupted.
4. Proofs: that a codec's own format keeps a conversation (`OwnFormatKeepsAll`), for the
   codecs that map one message to one record, on the lemmas of `ConversionsProofs`.
