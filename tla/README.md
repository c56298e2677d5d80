# Arkham Horror client: models and proofs

TLA+ models of the Linux client's own logic (`src/src`, `src/qml`): the session
with its secure store, the network clients, the card image pipeline, the game
board, the input and focus controllers, and the parser and decoders of the
domain's documents. TLC checks them on small instances. TLAPS proves the safety
properties for all instances: of the session alone and with its clients, of the
game client, the board, the image requests and the threads around them, the
fetcher, the image cache, the input router and the focus controller.
`PROJECT.json` maps every definition to the lines it stands for, and every
property to a changed definition (a "Mutant" in the modules) that breaks it.

To check: `tlc -config X.cfg M` for the module and configuration of a run, and
`tlapm M.tla` for the modules that end in `Proofs`.

## 1. The system

The client is a Qt program. One GUI thread runs an event loop; what the
components do is run there in slots, each to its end, except for the image
worker thread, the image reader thread of Qt Quick, and the decode thread of
`GameClient`. Components call each other directly, and are called back through
queued invocations, replies and timers. What makes the code hard is not
parallelism but order: every operation that takes time is answered later, when
the session, the profile, the screen or the object itself may have gone.

| Component | State | Operations | Talks to | What is hard |
|---|---|---|---|---|
| `SessionCoordinator` | public state, loaded profiles, selection, account, retry action, one queue of secure-store operations per profile, list of failed deletions | `start`, `switchProfile`, `signIn`, `registerAccount`, `signOut`, `retry`, `requestAccessToken`; a completion for each call it makes | probe, authentication client, token store, profile store; observed by the board and QML | calls answered after a restart or a switch; deletions that fail and must not be forgotten; endpoints that change under a stored credential |
| `QtKeychainTokenStore`, `TokenEnvelope` | pending jobs; the keychain entries | read, save, delete | keychain daemon | an entry bound to another server; no deadline |
| `NetworkAuthenticationClient` | pending requests with deadline timers | authenticate, register, whoAmI, cancel | network | cancel against a reply that has finished |
| `NetworkCapabilityProbe` | pending replies with timers | probe | network | emits synchronously, and is replaced by its observer |
| `QSettingsProfileStore`, `ServerProfile`, `UrlValidator` | settings file | load, save | file system | sticky errors; edited from outside |
| `GameClient` | pending replies with timers, a decode pool | `listGames`, `getGame`, `listCampaignCards` | network, worker thread | a cap on bodies that come in pieces; destruction with work on the other thread |
| `GameBoardController`, `BoardCardsModel`, `BoardScreen.qml` | lists, selection, board, card names, three statuses, two generations | load, open, retry, close, and the replies | session, game client | replies from before a sign-out, a reload or another game |
| `AssetNetworkFetcher` | pending fetches, redirect count, deadline | fetch, cancel | borrowed network manager | redirect chains, one deadline, objects that vanish |
| `AssetImageRequestCoordinator` | flights, waiters, negative cache | request, cancel, cancelAll, set base URL | fetcher, image cache | requests that share a download and are cancelled one by one |
| `AssetCache` | images in memory by URL and size, digests of payloads, an index and queue of files, the files themselves | lookup, store, store in memory only, clear, open | file system, decoders | a payload that changes while images and files of the old one are kept; writes and removals that fail; a directory that outlives the process |
| `AssetCardImageProvider`, `AssetCardImageResponse` | shared, locked state per response; a coordinator handle | request, cancel, destroy, on three threads | coordinator on the worker | every interleaving of three threads between locks |
| `InputMapper`, `InputRouter` | bindings, held keys, installed window, text-entry suspension | remap, process a key, install, suspend | Qt event delivery | keys released out of sight, rebinding while held, text focus it is not told of |
| `FocusController` | graph of nodes, zones with memory, modal stack, focus | register, remove, move, cycle, push, pop, snapshot, restore | QML | a graph that changes under memory, modals and snapshots |
| `domain/RawJson`, `JsonDecode` | none | parse, encode, convert; decode and encode by type | the decoders below | limits that two sides count on their own; integers spelled as decimals; members that are absent, null, unknown or twice there |
| `domain/Games`, `Board`, `Decks`, `CardCatalog` | none | decode JSON to records, some of them back | board, game client | variants and fields of another server version; keys against identifiers; one bad card among many |
| decoders, `AssetLocator`, `CardArt`, `SemanticCommand`, `ControllerGlyphs` | none | bytes, URLs and names | | pure functions |

What makes each correct, in one line: a token goes only to the server that
issued it and `SignedIn` means it is stored; a deletion is carried out however
often it fails; a call is answered once and does not wait for ever; a screen
shows only what is its user's and selected; a download is shared by all who want
it and by nobody else, and a URL has one payload wherever it is shown; a thread
uses nothing that is gone; what was parsed is written back as it was, what a
server added included; a hold is one
command from press to release; the focus never dangles.

## 2. The modules

**Session.** `TokenFifo` holds the operators on one profile's queue of
secure-store operations; `TokenStore` adds what the store keeps and what a call
does to it; `SessionCoordinator` composes them with the coordinator's own state:
one action per slot and per completion, each run to its end.
`SessionLiveness` adds fairness. `SessionWithClients` composes it with
`AuthenticationClient`, `CapabilityProbe` and `KeychainTokenStore`: where
`SessionCoordinator` takes a call as one step that answers, the client goes on
after the session has moved on, and its answer comes late or is refused. Each
of its actions is an action of `SessionCoordinator` joined with what the code
does to the clients in the same slot (cancel by handle, destroy the probe, start
the next job) or a step of a client that the session does not see. The code stamps every continuation with
`m_generation`, a credential epoch or an endpoint epoch, and only ever compares
the stamp with the present value; the model keeps the result of the comparison
(`live`, `fresh`, `sameEndpoint`), set when stamped and cleared by the
increment, so no counter has to be bounded. A completion that would only find
its generation over is not kept, except in the queues, where its operation
still occupies the store. The settings file is arbitrary at every load
(`SettingsImages`), since it may be edited by hand or by another process. A
store call takes effect when it answers, which is sound because each profile has
at most one outstanding (`StoreCallsAreAtomic` shows that the daemon's steps come
to the same), and a save or deletion that reports an error may have
taken effect. `Terminate` ends the process between any two steps and keeps the
store; obligations are in memory only, and `SessionCoordinator.h:61` puts their
durability out of scope.
`StoredSession` is the abstract specification of all this: a session that is
away, out, entering, in or leaving, and the entries of the store. It says which
of these may follow another, what that may do to the selected profile's entry,
and that `in` is reached only with the account's token stored for the server that
issued it. `SessionCoordinator` implements it (`KeepsThePromise`): `Phase` reads
the phase from the state underneath, every probe, restoration, failure and
clean-up being `away`; the account counts only while the session is in or
leaving, since the code leaves it where it is; and an entry is abstracted to the
token it has, if it is bound to that token's issuer.

**Network.** `OneAnswer` is the abstract specification of an asynchronous call:
issued once, answered at most once, or withdrawn. `GameClient`, `AssetFetcher`,
`AssetImageRequests`, `AuthenticationClient`, `CapabilityProbe` and the responses
of `AssetImageProvider` are each shown to implement it (`AnswersOnce`, `FinishesOnce`) by a refinement mapping from their
stages to its phases. `HttpReply` is the part of `QNetworkReply` they see:
headers, bytes in pieces, an end with or without error; external, as it is Qt's.
`AssetFetcher` abstracts a URL to its origin, of four kinds (secure or not,
loopback or not), which is all its rules look at. A body that is delimited by
the end of the connection cannot be told from one that was cut off without an
error, in the code as in the model.

**Images.** `AssetImageRequests` is the coordinator on its own thread; a lookup
in the image cache may hit or miss at any time, and the time an absent image is
remembered passes in ticks. A fetch is named after the request that began it.
`AssetImageProvider` instantiates it and adds the three threads: one action is
one critical section, so that every interleaving between two locks is explored.
`AssetCache` has an operation as an action, its disk as a record that the code's
helpers (`Touched`, `Forgotten`, `Evictions`) turn into another. A file is its
payload, or damaged, and its size; that the checksum in its header tells these
apart is taken for granted. Numbers of accesses become the order of `lruQueue`,
which is any at a start, as the times of files are whatever the clock and the
user made them. The environment fails writes, truncations and removals, each on
its own, damages files, and ends the process at any time. What QCache drops to
make room, and which images are too large for it, is left open. The caller's part,
that `storeMemoryOnly()` is given what `store()` just was, is its guard.
`MCAssetImages` checks it beside the requests, in behaviours of its own, since
their lookups may hit or miss anyway.

**Board.** `GameBoard` is the controller, the model of its rows and the screen's
calls. The session appears as what the controller is told: whose it is and
whether another profile's failed clean-up masks it. A row is reduced to whose it
is, which game's, and by which catalog it is named; a generation to whether a
fetch still has the latest.

**Input.** `InputMapper` holds bindings and holds, `InputRouter` the event
filter around it and its environment: keys go up and down unseen while the
window has no focus, the object with the focus takes text or not without the
filter being told, and a repetition may be a press, or, as X11 and Wayland
deliver it, a release and a press that are marked as repeated. `stroke` and
`last` record what became of the press of a keystroke and of the latest event;
they are history variables for the properties. A keystroke is kept until its key is
released, the window loses the focus or is left, or text entry begins or ends; that
a reset or a marked release has made the mapper forget its hold while the key is
still down is kept with it (`cut`). `FocusController` is a module of
its own. Wrap policy and geometry fallback can be set at any time, so a move may
find either in force. `MCInput` checks the router and the focus in behaviours
of their own, since neither calls the other.

**Documents.** `RawNumber` and `RawJson` are the parser, the encoder and the
exact conversion to 64 bits at a small scale: digits of a small base, integers of
few digits, and the limits on depth, nodes, lengths and bytes as constants, each
counted where the code counts it. `JsonDocument` builds values, writes them,
changes a byte of what was written, and reads and converts it. `JsonDecode` has
the decoders' helpers: a type is a record that says how a member may be missing,
null or wrong, `Decode` gives the set of what is read (one value, or none), and
`Encode` what is written. `Decks`, `CardCatalog`, `Board` and `Games` are tables
of fields in these terms, with the hand-written parts of each (card names that
degrade one by one, entities under their keys, token counts, variants that are
kept as they came). `Documents` takes a well-formed document of each kind and
changes it in one place: a member or element is replaced, lost, added, repeated,
moved to another key or copied; `Rewrite` writes back what was read. These
modules use recursive operators, and are for TLC only.

## 3. The runs

| Run | Instance | Shows |
|---|---|---|
| `two_profiles` | two profiles that move between two servers, a token each, inputs while at most one operation is queued | tokens go home only; a state tells what the store holds; access tokens are the session's; one flow drives the state; an abandoned save is compensated next; an endpoint change parts old reads from new; no deletion is dropped; the session is a `StoredSession` |
| `settles` | two profiles of one server, inputs while at most one operation is queued, with fairness | every failed deletion is carried out; when inputs end, all comes to rest |
| `session_calls` | two profiles of one server and its token, inputs while no operation is queued; two calls, two probes, one job per profile | each call is answered once; the session waits exactly for what is outstanding; keychain jobs are atomic to it |
| `underlying_state` | one profile, two servers | the first divergence of section 6 |
| `game_client` | two requests of any kind, bodies one unit over the cap, replies that are good, unauthorized or otherwise bad | answered once and always; success is a whole body within the cap |
| `asset_fetcher` | one fetch, two redirects, four kinds of sites | no hop is exposed, none after the deadline, one result |
| `image_requests` | three requests, one key under two base URLs, one bound; beside them a cache of two URLs, sizes and payloads | requests, flights and downloads agree (`Sharing`); answered once, always; the cache never mixes payloads, keeps its limit, and keeps what it just wrote |
| `image_provider` | two responses, three threads | a cancellation reaches the coordinator, nothing dangles, finished once, nobody waits for ever |
| `game_board` | two accounts, two games, three fetches in flight | what is shown is the account's and the game's, is named, has its one fetch while it loads (`Selection`), and does not load for ever |
| `input` | a reserved key and another, with and without a modifier, two windows; beside them two nodes, one of which changes between two zones, modals two deep | no stale hold, keystrokes of one command that are whole while the mapper follows them, no text taken; focus, returns and memory never dangle; restoring is exact in an unchanged graph |
| `passed_press` | the same | the second divergence of section 6 |
| `documents` | values of up to four parts with one byte changed; documents of every kind with one change, the small kinds with two | what was read is written back as it was; entities are their keys; names agree with the catalog; parser and encoder agree at every limit; conversion is exact |

The bounds. A second profile is what a restart, a switch or a failed deletion
can be confused with; a third would be treated like the second, as no operation
relates more than the one it leaves and the one it enters (`stalled` is a list,
but only its head and one removal matter). `MaxQueue` keeps inputs from a profile
whose queue is longer; what an input itself queues comes on top, so that a queue
holds a save in flight, its compensation, the deletion for a changed endpoint and
a read behind it. In `session_calls` inputs come while nothing is queued, since
there the clients' own steps make the interleavings. The proofs need none of
these bounds (and `TypeOK` of the session is proved, and in no run of its own). Bodies of up to one unit over the cap meet it, miss it and exceed
it, in one piece or several. Two redirects are one that is followed after
another, and with `MaxRedirects = 2` a third is the one too many. Three requests
are one that starts a flight, one that joins it, and one that comes after it was
cancelled with the first result still queued; a second bound would only add to
what can fail to decode. Of the cache's two payloads one fills its disk and the
other half of it: two files fit, or one takes the other away; a payload that is
larger than the disk is treated like one that cannot be written, and is not in
the run. One digest is kept for two URLs, so that the table is reset. Three
fetches in flight are a list, a board and a catalog, or a late one of each with
its successor. Two nodes in two zones are the removed and the one left; with two
modals a return can lead into another modal. Digits of base three have a least,
a middle and a greatest; integers of two digits have bounds that differ by sign,
with numbers on, below and above each. Two calls and two probes (`CallsLeft`,
`Left`: an input comes only while its flow has enough of them left) are one that
was superseded and one that supersedes it, or a sign-in with the whoami that
follows; they are not used again, so a session has at most two generations with
calls of their own. Where a run sets `CHECK_DEADLOCK FALSE`, all calls of its
instance may be answered, or all changes made, and nothing is left to do.

Fairness. The event loop runs what is queued and timers fire; the worker and the
decode thread run. Nothing is assumed of a server, which may never answer, nor
of inputs, except in `settles`. `Deliver` in `AssetImageProvider` is strongly
fair, because the worker's event loop serves its events in order and closures
cannot overtake a result for ever. The board may count on answers since the
session and the game client answer every call, which their own runs show.
`settles` takes the answers of the session's calls for granted (the network ones
have deadlines; a keychain that never answers would stop its profile's queue, in
the code as well), and assumes a user who keeps pressing retry and a store that
deletes an entry in the end if it is asked for ever: without the first nothing
in the code retries, and without the second no program could promise it.

## 4. The proofs

All are for any values of the constants that satisfy the named assumptions of
the modules: that the empty values are not members, that `Origin` gives each
token a server, that reserved keys have default bindings, that caps and limits
are natural numbers, that calls and probes are told apart. Each safety property
needs an inductive invariant, which the modules state in named parts under "Why
that is"; TLC checked each on a run before it was proved.

* `SessionProofs` begins with the queue operators of `TokenFifo`: each keeps a queue
  of good operations one. It then proves three things of the session, each on top
  of the one before.

  `[]IInv`, and from it `TypeOK` and `NoTokenToForeignEndpoint`. The second is not
  inductive: a token is sent after it was read from the store, which was written
  by a save, which was queued for an endpoint, which may have changed since.
  `IInv` follows that path: an entry is written only with the issuer of its token
  (`VaultOK`), a queued save carries the endpoint that issued its token and a live
  read is for the present endpoint of the selected profile (`QueuesOK`), a
  retained token is one of the selected profile's server (`RetryOK`).

  `[]Course`, and from it `StateTellsTheStore`, `AccessTokenIsCurrentSession` and
  `SingleFlow`. What the store holds when the state says `SignedIn` depends on
  what was queued before, and that on how the session came to its state; so
  `Course` says, for each state, what is outstanding for it (`Driven`), what the
  operation is like that it waits for (`Shaped`, `Awaited`), and what may be
  queued around it (`Orderly`, `QueuesOrderly`). The point on which it turns is
  that nothing is ever queued behind an operation that the session waits for:
  whatever comes would first end the session's wait. So a save or deletion that
  the session waits for is the last word on its profile's entry when it ends, and
  the entry stays that while the state does (`StoreOK`).

  `AbandonedSaveIsCompensated` and `EndpointChangeSeparatesReads`, from the part
  `Covered` of the same invariant: a save is alive only at the head of its queue
  (`SavesFirst`), so the compensation that is queued when it is abandoned comes
  next, and stays next since whatever is queued later comes behind it and the head
  is never removed while it is in flight. And `DeletionIsNeverDropped`, an action
  property: for each step, a deletion that was owed is queued, or stalled, or has
  just been carried out.

  With that it proves that the session implements `StoredSession`
  (`PromiseIsKept`). Each step either stays in its phase, moves to another as the
  session intends, or leaves (`PhaseStep`), and changes no entry but as the call
  that ends would have it (`Writing`). What the store holds when the session enters
  or is out comes from `Course` after the step, and what it held before from
  `Course` before it. `Course` alone is not enough for a sign-out: `LeavingOK` adds
  that nothing touches the entry before the deletion that is waited for does.

  Last, it proves that the session with its clients implements the session
  alone (`SpecAll => Spec`): each step of the composition is a step of
  `SessionCoordinator` or stutters. So all of the above holds of it too. What
  makes that hard is that a call on the store is three steps there and one in the
  session. `StoreCallsAreAtomic` is the invariant that bridges them: an entry
  differs from what the session last learnt only while a job is posted whose
  outcome explains the difference. `WaitsForWhatIsOutstanding` then needs
  `CallsOK`, `ProbesOK` and `CallsLast`: the call behind the handle is the one of
  the present generation, of the kind that the state waits for, and while the
  session may still make a call there is one it has not used. From these, calls
  and probes are shown to implement `OneAnswer` (`AnswersOnce`).

* `GameClientProofs` proves `[]Bookkeeping`, and from it `SuccessIsWhole` and the
  safety part of `OneAnswer`. A success is taken from a body on another thread,
  after the reply is gone; so the invariant keeps what was received while the
  reply lasts (`BytesAddUp`), what is known of a call in each stage
  (`CallsAreKnown`), and that each call is in the pool once exactly while it is
  decoded (`DecodedOnce`), which survives the destructor.

* `GameBoardProofs` proves `[]Ownership` and from it `ShownIsOwn`. That what is
  shown is the user's is inductive only together with: a fetch that would still
  be taken, and has or may get a token, was asked for by that user. With it, it
  proves `[]Selection`: that the board is the selected game's, and that what loads
  has one fetch, are inductive together once it is known that a catalog waits
  for its reply only, so that a token that is refused is never the catalog's.

* `AssetImageRequestsProofs` proves `[]Sharing`. That each waiter is found and
  each flight has its download is not inductive: a result that comes late could be
  taken for another flight's, if two downloads could have one id or a download and
  its result be under way together. `DownloadsAreDistinct` excludes that, since a
  download has the id of the request that launched it, and a request is made once.
  From it, requests implement the safety part of `OneAnswer`.

* `AssetImageProviderProofs` builds on that by `INSTANCE`: the three threads use
  the coordinator as its own specification lets it be used, so `Sharing` holds of
  it here, too. `[]Provided` adds what holds between the critical sections:
  a closure is run only for what it may be run for (`MayRun`), a response is
  requested once (`RequestedOnce`), its id is on record, or is about to be, or its
  request about to be cancelled (`IdsAreRecorded`), and a response that is open
  has a result exactly while a drain is posted for it (`CompletionsAreDrained`).
  `CancelReaches`, `NothingDangles` and the safety part of `FinishesOnce` follow.

* `AssetDownloadsProofs` has two parts. Of `AssetFetcher` it proves
  `[]HopsAreKnown` (a pending fetch began at its own, allowed URL, and is at an
  allowed one), and from it `NoHopIsExposed`, `NoHopAfterDeadline`, and that the
  fetcher implements the safety part of `OneAnswer`. Of `AssetCache` it proves
  `[]OneVersion`, which is inductive with: a cache whose disk is not used has no
  index. The step that needs care is a payload that replaces one whose digest was
  forgotten, or whose file could not be removed. And it proves
  `DiskKeepsItsLimit`, with `SizesOK`: the code never counts the bytes again, but
  adds and subtracts the sizes it has in its index, so the count is right only as
  long as each of them is the one that was added, and each file is in the queue
  once. Eviction ends within the limit because the whole queue is the whole index;
  and it spares a file just written, which is the last of the queue and fits by
  itself (`EvictedDisk`).

* `PicksProofs` has what the cache and the focus controller need of sequences. The
  models say "those at these places" by `Picked`, where `SelectSeq` would be
  usual: that is defined by recursion, and `Picked` by the number of places before
  each, of which `Ranks` and `RankIsTaken` prove that it is a numbering. For the
  same reason the bytes of files are counted as the members of a set (`BytesIn`)
  and not as a sum.

* `InputProofs` proves, of the router, `[]Holds`, and from it `HeldKeysAreDown`,
  `PhasesBelongTogether`, `KeystrokesAreWhole` and `TextIsNeverTaken`. `Holds`
  relates what the mapper keeps to the history of the keystroke: a held key is
  down in a window with the focus; it is armed with the command its press
  produced exactly if that press was consumed; a key whose keystroke was not cut
  short is held; and nothing is held while text is entered. Of the focus controller it proves `[]Focused`, and from it
  `FocusIsConsistent` and `RestoringIsExact`. The first is inductive with the
  types and with `RegisteredOnce`: were a node registered twice, in two zones, to
  ask for the zone of a node would have no answer. The second holds of every
  consistent state: a snapshot drops only what leads nowhere, and nothing does.

Only model-checked: the liveness properties, which rest on fairness, those among
the promises of `OneAnswer` included; all of `documents`, whose modules are recursive;
and the divergences of section 6, which are counterexamples.

## 5. What is not modelled, and what is left out

* Signal handlers that call back into `SessionCoordinator` while it publishes a
  change (it re-checks its generation after each `emit`): handlers are atomic
  here. `issueWhoAmI()` would cancel an outstanding request, which `SingleFlow`
  excludes. The branch of `startFrontTokenOp()` that drops a stale save unsent is
  in `StartFront`, but found to be unreachable: only a save at the head, which is
  in flight, is ever overtaken.
* Of the three clients of the session: that their calls end. The network ones
  have a deadline by construction; a keychain job has none, so a daemon that
  never answers stops its profile's queue. The keychain store's own rejection of
  empty names and endpoints is left out, as the session passes none.
* Of `AssetCache`: how much an image takes in memory; the names of files and keys
  (a URL's path may hold `@`); files in its directory that are not its own, which
  it removes at a start. Another process that writes the same directory is not
  modelled: nothing in the code keeps two instances from it, and images of two
  payloads could then be kept until one is stored again. What is on disk beyond
  the index, when files could not be removed, is not counted until the next start.
  In `AssetImageRequests` lookups may hit or miss.
* `QSettingsProfileStore`, `UrlValidator`, `AuthTransportSecurity`: records and
  strings; planned as operators checked against a reference definition.
* Of `domain/*`: the overloads for Qt's own JSON values, the order of members,
  the wording of diagnostics, enumerators that are cast from integers, texts
  beyond those that are treated apart, and the grammar of contract revisions.
* The account of an ended session stays in `account()` while another profile is
  selected, probed or signed out (`SessionCoordinator.cpp:1617`): what a screen
  makes of it is in `GameBoard` (`Exposed`), which looks at the state first. That
  X11 and Wayland deliver a repetition as a release and a press
  (`InputMapper.cpp:189`) is in `InputRouter`; what follows is that a hold ends with
  the first such release, as the press after it is marked too and begins none
  (`InputMapper.cpp:157`). Until the key is really released its events go by what
  it is bound to at the time (section 6).
* Across a loss of focus, another window or the begin or end of text entry nothing
  is claimed of a keystroke: its press may have passed and its release be consumed,
  or the reverse, since the code forgets what is held there.
* Of `FocusController`: handlers of `currentFocusChanged()` that call back into it,
  and empty ids. That restoring gives back all (`RestoringIsExact`) is claimed in
  the graph that the snapshot was taken in; of one with no focus, or restored when
  nodes have gone, the claim is `FocusIsConsistent`.
* Pixel decoders, glyph tables, QML layout, build and packaging scripts.
* A cancelled image response never emits `finished()`. Whether Qt's reader then
  releases it is Qt's contract, which nothing in the repository states.
* A suspension and resumption of text entry between two key events is not
  noticed, so that a hold survives it although the comment at
  `InputRouter.cpp:157` says none must. No key event was missed meanwhile, so
  nothing follows from it. A hold that is forgotten produces no `Released`,
  unlike what `InputMapper.h:42-48` says of every hold; the comments of
  `clearHeldKeys()` say so, and there is no consumer yet that counts on it.
* `switchProfile()` that fails to save leaves its retry action behind even when
  the flow that was running ends well; a later `retry()` then switches. The model
  has it, no document says what should happen.

## 6. Where code and documents differ

* `underlying_state`: when a deletion for the *selected* profile fails,
  `startFrontTokenOp()` sets `m_state` itself to `SecureStorageUnavailable`
  (`SessionCoordinator.cpp:1308`). The header says that the state underneath
  keeps advancing and becomes visible again when the obligation clears, and
  `src/README.md` that the override masks only what is read. After the retried
  deletion has succeeded the session goes on reporting the store as unavailable.

* `passed_press`: the press of an unbound key passes, and the comment in
  `InputRouter.cpp:241` says that its later repeats and release must pass as well,
  for the rest of that physical hold, lest someone see a press without its release.
  The mapper forgets the hold of a key that is still down when the bindings are reset
  (`InputMapper.cpp:82`) and at a release that is marked as a repetition
  (`InputMapper.cpp:199`). If the key is bound then, with the modifiers of the
  moment, the rest of its events are consumed. `KeystrokesAreWhole` is what does
  hold: until the hold is forgotten.

## 7. Plan

Done first, because all else depends on it: the session with its queues and
store; then the clients and the board on top of it; then images, input, focus;
then documents and the image cache.
Next, in this order:

1. `SessionPublication`: the coordinator's handlers split at each `emit`, with
   observers that call back into it.
2. The site-settings host fetcher beside `AssetFetcher`; `AssetCache` composed with
   `AssetImageRequests` in place of the open lookup.
3. `ProfileSettings`: load and save with sticky errors, validation and the
   selection, in place of `SettingsImages`.
4. Algorithms: URL validation and transport security, token envelopes.
5. Proofs about the documents: their operators are recursive, so first the parser
   and the conversion would have to be written as recursive functions.
