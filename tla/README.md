# SubmittedIt: a TLA+ verification project

SubmittedIt gives the person who submits a web form a receipt: a browser extension records the
attempt and the confirmation the site shows, encrypts both, and has a hash of each event anchored in
a smart contract through a relay that pays for the transaction. This directory models the parts of the
program whose correctness depends on order, concurrency and failure, checks them with TLC on small
instances, and proves theorems about them with TLAPS.

## 1. Inventory

| Component (source) | State it keeps | Operations | Interacts with |
| --- | --- | --- | --- |
| Registry contract (`contracts/src`) | one compact state per receipt, a global set of event hashes, logs | `anchorEvent`, `getReceipt`, `isAnchored` | called by the relay and by anybody else; read by relay and verifier |
| receipt-core lifecycle (`packages/receipt-core`) | none | `validateEventChain`, `validateReceipt`, `deriveReceiptStatus` | relay, extension and verifier apply it |
| Relay service (`apps/web/lib/relay/relay-service.ts`) | PostgreSQL rows: operations, budgets, signer nonce, rate counters | `relay` (POST), `getOperation` (GET) | RPC node, registry, blob rows |
| Blob service (`blob-service.ts`) | encrypted envelopes by two identifiers | `store`, `get` | extension uploads, relay binds operations to blobs |
| Relay health, configuration, signer, HTTP | none of their own | checks and parsing | relay |
| Demo filing portal (`apps/web/lib/demo`) | submissions, history, acknowledgment signatures | create, lazily process, sign acknowledgment, reset | web pages; extension captures them |
| Anchor workflow (`apps/extension/lib/anchor-*.ts`) | one operation per event: state, relay tokens, counters | `runAnchorWorkflow` | relay over HTTP, verifier, secure storage |
| Background worker (`entrypoints/background.ts`) | storage queue, anchor flights, review sessions | messages of content script and side panel, alarms, permission events | everything in the extension |
| Site access (`entrypoints/background.ts`) | browser permissions, enabled and revoked sites, the registered script, scripts in open pages | enable, revoke, reconcile, delete all, permission events | side panel, browser |
| Secure storage and vault (`lib/secure-storage.ts`, `lib/vault.ts`) | index in `chrome.storage`, keys and blobs in IndexedDB | save, import, anchor, migrate, delete all | background worker |
| Private receipts (`lib/private-receipt.ts`, `encrypted-receipt.ts`) | the bundles inside the encrypted blobs; packages outside | sign, update, attach an anchor, export, import | secure storage, receipt-core, other installations by package |
| Receipt contexts (`lib/storage-schema.ts`) | attempts, contexts, observations, confirmations | append, observe, expire, confirm | background worker |
| Content scripts (`entrypoints/capture.content.ts`) | recent submissions of a page | capture, observe | background worker, by message |
| Anchor verifier (`packages/contract-client/src/verify.ts`) | none | verdict from chain evidence | RPC node |
| Side panel, popup, web pages, UI package, scripts | presentation | | background worker, HTTP |

What is hard, and what makes each part correct:

- **Registry.** Calls of many senders for many receipts interleave. Each receipt must stay one linked
  chain under one key, an event hash must be used once in the whole registry, and the contract must
  accept exactly what receipt-core accepts.
- **Relay.** Several instances work on the same rows, each request is a dozen database statements and
  RPC calls apart from one another, the node may lose, keep or already have a transaction, and an
  instance may die anywhere. No nonce may be used twice or lost, no event paid for twice, no budget
  exceeded, no false CONFIRMED; every operation should end.
- **Blob service, demo portal.** Check-then-insert against unique constraints under concurrency.
- **Anchor workflow.** Retries over an unreliable network against a relay that has its own retries.
- **Secure storage.** Two stores without a common transaction, and a worker the browser may stop
  between any two writes. What the index names must open, and no receipt or evidence may be lost.
- **Private receipts.** A bundle is signed, confirmed, anchored, exported, imported and signed again by
  operations that each rebuild parts of it and verify all of it. No order of them may make a receipt
  unreadable to its owner, drop evidence, or let a package bring claims along.
- **Receipt contexts and background worker.** State read before an await and used after it; messages
  of several tabs in any order. A confirmation must be what the user reviewed.
- **Site access.** Four places say where the extension listens, no call changes two of them, and the
  handlers that bring them together run side by side.
- **Verifier.** A verdict from evidence read in several RPC calls.

`PROJECT.json` lists the hazards one by one, at their lines, with the properties that catch them.

## 2. Modules

| Module | Models | Status |
| --- | --- | --- |
| `EventChain` | `validateEventChain` and the transition table of receipt-core, as operators | built |
| `Registry` | `SubmissionReceiptRegistry.sol` | built, proved |
| `Receipt` | the schema's demands and `validateReceipt` of receipt-core, as operators; EXTENDS `EventChain` | built |
| `PrivateReceipt` | `private-receipt.ts` and `encrypted-receipt.ts`: bundles that travel between installations; EXTENDS `Receipt` | built, proved |
| `RelayService` | the relay, its rows, the RPC node and the chain; INSTANCEs `Registry` as the contract | built, proved |
| `BlobMap` | what the blob service promises: an atomic put-if-absent map | built |
| `BlobTable` | the blob rows and the answers given, INSTANCE of `BlobMap` | built |
| `BlobStore` | `blob-service.ts`; EXTENDS `BlobTable`, implements `BlobMap` | built, proved |
| `DemoFiling` | the fictional authority, `lib/demo/service.ts` | built, proved |
| `RelayOperation` | what the relay promises about one operation, to its clients | built; `RelayService` implements it |
| `Verifier` | `verifySubmissionReceiptAnchor` and the discovery of an anchoring transaction; EXTENDS `Registry` | built, proved in `Registry_proofs` |
| `SecureStorage` | `secure-storage.ts` and `vault.ts` under `queueStorageWrite` | built, proved |
| `Confirmation` | content scripts, contexts, reviews and saved confirmations | built, proved |
| `SiteAccess` | permissions, enabled sites, registration and injected scripts | built, proved |
| `AnchorWorkflow` | the extension's `anchor-workflow.ts` and its callers; INSTANCEs `RelayOperation` as the relay | built, proved |
| `MCRegistry`, `MCRelayService`, `MCBlobStore`, `MCDemoFiling`, `MCAnchorWorkflow`, `MCSecureStorage`, `MCConfirmation`, `MCSiteAccess`, `MCPrivateReceipt` | instances for TLC | built |
| `*_proofs` of `Registry` (with `Verifier`), `RelayService`, `SiteAccess`, `Confirmation`, `SecureStorage`, `AnchorWorkflow`, `PrivateReceipt` | theorems | built |
| `WebServices_proofs` | theorems about the two small services of the web application, `DemoFiling` and (as an instance over the table of `BlobTable`, `Blobs`) `BlobStore` | built |

### Registry

`receipts`, `anchoredEvents` and `log` are the two mappings and the emitted `ReceiptEventAnchored`
events. The one action is `AnchorEvent(r)`, the whole of `anchorEvent` for the arguments `r`; its
guards are `Accepts`. A call that reverts changes nothing and is not a step. Requests range over all
arguments, zero values included, since anybody may call.

### RelayService

State: `op` (a row of `relay_operations` per event hash), `budget` (`relay_daily_budgets` per UTC
day), `nextNonce` (`relay_signer_nonces`), `job` (the local variables and the position of every request
in flight), and the outside: `pool`, `mined`, `final`, `balance` of the relayer's account, `today`, and
the registry.

A worker is one HTTP request. Its position `pc` is the await it is suspended at, and one action is the
code from there to the next await:

| `pc` | action | code |
| --- | --- | --- |
| `idle` | `StartRelay`, `GetOperation` | `relay()` up to the first branch, with `#validateStaticTransition` as a guard; `getOperation()` |
| `recheck`, `precheck` | `Recheck`, `Precheck` (`RequestFails`) | `#precheckRuntime`, `#validateTransition`, balance |
| `external`, `markExternal` | `FindAnchored`, `MarkExternallyAnchored` | an event found anchored |
| `acquire` | `AcquireOperation` | `#acquireOperation`, one transaction under advisory locks |
| `reconcile`, `receipt` | `ReadRow`, `ReadReceipt` | `#reconcile` |
| `nonce`, `prepare` | `ReadPendingNonce`, `PrepareNewTransaction` | `#prepareNewTransaction` |
| `rebroadcast` | `Rebroadcast` | `#rebroadcast` |
| `broadcast`, `submitted`, `wait` | `Broadcast`/`BroadcastFails`, `MarkSubmitted`, `WaitForReceipt` | `#broadcastPrepared` |
| `cost`, `settle` | `RecordMinedCost`, `FinalizeReceipt` | `#finalizeReceipt` |
| `retryable`, `defer` | `MarkRetryable`, `DeferReconciliation` | the two conditional updates |
| `abandon` | none: proved unreachable (`NeverAbandons`) | `#markFinalWithoutTransaction` |

`ReconcileFails` is an RPC error caught inside `#reconcile`; `Crash` drops a request anywhere.
`Mine`, `Confirm`, `Evict` and `AnchorExternally` are the chain and the other senders, `BecomeDue`
the passing of `next_reconcile_at`, `NextDay` the end of a UTC day.

Left out, with the reason: the rate limiter, the checks of signature and blob, wrong chain ids and
missing bytecode (all of them end a request before it changes a row); the history table and the
transaction counter (nothing reads them); a row's `VALIDATING` state (it exists only inside the
transaction that inserts the row). A database error outside the prepared-transaction block is the same
as `Crash`: the request ends where it is. The trigger's abort of `SUBMITTING -> REVERTED` is part of
`Outcome`.

### RelayOperation and AnchorWorkflow

`RelayOperation` forgets the requests, nonces and budgets of the relay and keeps, for one event, what
its clients depend on: the row's state, how far its transaction is (`none`, `lost`, `pending`, `mined`,
`final`), who anchored the event, whether a POST or a GET is under way, whether a POST has the transaction in
hand (`sending`: from `#prepareNewTransaction` or `#rebroadcast` to the UPDATE that makes the row
`SUBMITTED`) and how many GETs were counted. Only a POST accepts, prepares, broadcasts and resubmits, and
only one that is `sending` makes a row `SUBMITTED`: a repeated POST finds a row with a transaction and
either returns it as it is or goes to `#finalizeReceipt`, which starts from `SUBMITTED` or
`FAILED_RETRYABLE`. A GET records results until the poll cap.
`RelayService` implements it under `Shown` (property `Implements`, and a theorem). A GET is told from a
POST by its body, `NoKey`, which `RelayAssumption` allows no POST.

`AnchorWorkflow` has `ops` (the durable `anchorOperations`), `flight` (one `runReceiptAnchorLifecycle`
per receipt), `recovery` (the receipts whose turn in a `recoverAnchorLifecycles` round is still to come;
they are taken in the order of the index, `Turn`), `signed` (how many events of
a receipt exist), `relay` (`RelayOperation`) and the history `posted`. An action of a flight is the
code from one await to the next:

| `pc` | action | code |
| --- | --- | --- |
| `begin` | `Ensure`, `EndEvent`, `Resume`, `SendUpload`, `SendPost` | `runAnchorWorkflow` up to a request, by the durable operation; the loop over a receipt's events |
| `upload`, `post`, `submitted` | `UploadAnswered`, `PostAnswered`, `PostRefused`, `SaveView` | the answers, each with its save |
| `poll`, `get` | `Poll`, `SendGet`, `GetAnswered`, `PausePolling` | the poll loop |
| `discover`, `verify`, `verifying` | `Discover`, `DiscoverNothing`, `Verify`, `Verified`, `NotVerified` | `discoverAndVerify`, `verifyAndConfirm` |

`RelayFails` is an answer that does not come or is to be tried again, `SaveEvent` and `Recheck` are the
user, `Alarm` and `Recover` the recovery round, `Stop` the end of the service worker at any await. A
save that `saveAnchorOperation` or `updateAnchorOperation` refuses ends the flight with an exception
(`Save`) or as a relay failure (`TrySave`), as its place in the code has it. The relay, the chain and
other senders (`RelayWork`, `RelayRetries`, `PostEnds`, `GetEnds`, `ChainStep`, `Evict`,
`AnchorExternally`) go on whether or not anybody waits. A POST ends (`PostEnds`) when no more of it is at
work: it has done what it could, or it is a repeated one, whose row may well be `SUBMITTING` and stays so.
The fault `crash` is an instance of the relay that dies with its POSTs (`Drop`), whether the extension
waits for the answer (`RelayFails`) or has stopped waiting (`PostDropped`).

`Refused` is what `saveAnchorOperation` and `updateAnchorOperation` refuse: `Rewrites` (evidence, the blob,
the status token and the hash of an operation are written once) and the limit of the counters.

What `Spec` of `AnchorWorkflow` uses of `RelayOperation` is narrower in three ways that a reader should
know: an event is accepted after its predecessor is on the chain, a request ends in a step of its own,
and the relay fails with `lost` or `none` transactions only by a fault. Left out: several recovery
rounds at once (a second one awaits the flights of the first), deletion and import of receipts,
rival events of a receipt, and the limit of 100 operations (`MAX_ANCHOR_OPERATIONS`, the 50 receipts a
profile may hold with two signed events each).

### BlobMap, BlobTable and BlobStore

`BlobTable` has `rows` (`relay_encrypted_blobs`) and `answers`, a history of what `store` answered;
`BlobStore` adds `job`, the requests in flight. `Lookup` is the first SELECT with its early answers, `Insert` the
INSERT with a locator drawn at random, `Reread` the SELECT after a unique violation together with the
loop's bookkeeping; `InsertUnanswered` and `Fail` lose a connection or an instance. The unique
constraints of migrations 0002 and 0003 are `Unique`. Locators may collide, which the loop's three
attempts are for. `BlobMap` says the same in three atomic operations (`Bind`, `Repeat`, `Refuse`), and
`AtomicMap` is the refinement: `rows` are the bindings, the answers are the answers.

Left out: the size limit and the parsing of an envelope (they end a request before the first
statement) and the retention state (nothing in the repository ever changes it).

### DemoFiling

`filing` is `demo_submissions` by lookup token, `signature` is `demo_authority_signatures`, `clock`
the server's time, `job` the requests, `shown` and `given` histories of what clients were told. A
request reads the clock in `Start`; `GetSubmission` is the transaction of `getSubmission`;
`CheckCore` is that transaction as the first part of `signTerminalAcknowledgment` with the comparison
of the proposed core; `BindAnswered` and `BindUnanswered` are the signing transaction. `Process`
processes a filing that is due, inside the lock of its row. `CreateSubmission`, `ReadSubmission`,
`ResetForTests`, `Tick` and `Fail` may come between any two of them.

A request's core is chosen in `CheckCore`, which is the first to read it. A token or reference drawn
twice violates a constraint and ends the request (`Fail`). `ResetForTests` clears the histories: what
was said about the old test data is not to hold of the new. Left out: the form's fields, status history
and version (nothing reads them), and the text of the page.

### Verifier

Operators over the state of `Registry`: `Transactions` are the receipts an RPC node may return for
calls of `anchorEvent`, `Verified(t, x)` is the verdict of `verifySubmissionReceiptAnchor` on a
transaction and an expected event (the matching log, the exact event, then the stored state and
`isAnchored`), `Discovered` is the search for an event's transaction by its logs. The stored state is
read after the log; `Verified` is evaluated in every later state of the registry, which is the same as
reading late. Failures of the calls are in `AnchorWorkflow` (`NotVerified`, `DiscoverNothing`).

### SecureStorage

`index` is the value in `chrome.storage.local`, `vault` the IndexedDB object stores (identity, keys,
blobs, the log and the journal of a migration), `job` the one job of `queueStorageWrite` with the
variables it carries from await to await. Each write of either store is an action; what can happen
between two of them is `Crash` (the worker stops; both stores stay) or `Reject` (a call fails; its
`catch` runs). `Load` is `loadSecureExtensionState` with its versions, `Migrate` the migration of a
plaintext profile, `PlanChange` what an operation decides to save from the state it loaded, `Save`
`saveSecureExtensionState` in its order: stage blobs, write the index, delete what it no longer names;
`Import`, `Anchor` and `DeleteAll` likewise. A blob is who owns it, its content, whether it carries
chain evidence, and the key that opens it.

`Reject` may come at every call, also *after* the index was written: the `catch` of
`saveSecureExtensionState` (769) and of `storeVerifiedChainAnchor` (1164) then deletes the staged blobs the
index has just named. The history `rolledBack` has the receipts this happened to (`RolledBack` says which
of a job's artifacts the index names), until a load has decrypted them all or everything was deleted.
`IndexIsReadable` and `AnchorsAgree` hold, as the code stands, of all receipts but these, and except in the
moment between the two halves of `deleteAll`; both exceptions are in the formulas, by name, and losing
any other receipt's blob violates them. Left out: reads outside the queue
(`background.ts:976` may see an empty vault during a deletion; it only refuses a capture) and exports.

### Receipt and PrivateReceipt

`Receipt` says which receipts `parseReceiptStructure` and `validateReceipt` accept and what they return:
the chain (from `EventChain`), the payloads the signatures cover, the stage and status derived from it,
the checks a VERIFIED receipt must have passed, and the *order* in which the schema returns them.
`PrivateReceipt` has `identity` (each installation's signing key), `held` (the bundles it keeps),
`packages` (what was exported) and the histories `captured` and `proved` (which anchors an installation
verified itself). `Enroll` is `generateInstallationIdentity`; `Capture`, `CloseContext` and `Confirm`
are `createOrUpdatePrivateReceiptBundle` for a new or changed operational record; `Attach` is
`attachVerifiedChainAnchor` as `storeVerifiedChainAnchor` calls it; `Export`, `Import`, `Delete` and
`DeleteAll` the rest. Each is one step, since `SecureStorage` shows that an operation's writes are all or
nothing to the next load. `Keep` is the check at the end of each: what does not verify is not kept.
`SortedChecks` puts a check where as many checks as its place says are not after it (`Place` is the order
of `compareCanonicalText` on the seven names); for the lists `VerificationParses` accepts, in which no
check comes twice, that is what the schema's `sort` returns.

A signature is the key and the payload it covers; a package is encrypted and authenticated, so only
exported ones exist. Left out: the private bodies of a receipt (copied whole), authority events (the
extension signs none, and a bundle with one does not parse), formats and sizes.

### Confirmation

`page`, `active` are the browser; `script` and `waiting` the content script (the last capture, the
observer's timer, observations that wait for that capture's answer); `net` the messages and the
worker's handlers of them up to their queued write; `closing` the queued writes for closed tabs;
`stored` the receipts' contexts; `sessions` and `handlers` the reviews and the two requests of the
panel, suspended at `select`, `prepare`, `verify` or `confirm`. A queued write is one action
(`StoreCapture`, `StoreObservation`, `ExpireClosed`, `Prepare`, `StoreConfirmation`), since no other
write comes between; what it does to the two stores is `SecureStorage`. `Lose` and `Abort` are a check
or a call that fails. Delayed messages are elements of a set, so they are processed in any order.

Left out: texts and selections (they enter no decision modelled here), the limits of texts, permission
on each path (it can only end it), and more than one panel per tab. Times are ticks: two events may
share one, which is what the comparisons of times are sensitive to.

### SiteAccess

`granted`, `registered`, `site`, `script`, `active`, `events` are the browser's; `stored` the enabled
and the revoked sites; `handlers` the asynchronous handlers, each with the place it waits at, the state
it loaded and the browser's last answer. Kinds: `init` (`initializeExtension`), `snapshot` and `last`
(`buildSnapshot`), `result` (`handlePermissionResult`), `probe`, `revoke`, `delete`, `added` and
`removed` (`updateOriginsFromPermissionEvent`). An action is one await: `Silence` (uninstall), `Check`,
`Remove`, `Write`, `Survey`/`SaveSurvey`, `Wipe`, `Look`/`Note`, `Read`/`Register`
(`syncCaptureRegistration`, whose two calls are two steps), `Inject`, `Attach`. Jobs of the storage
queue exclude each other (`Queue`); everything else interleaves. `Sleep` and `Wake` are the browser's
management of an idle worker, `Stop` the end of a busy one.

Uninstalling and injecting go over the tabs in one step, and so do `permissions.getAll` and `remove`
of a deletion. Left out: the limit of 100 enabled origins and the display of a site in the panel.

Definitions whose comment begins with "Broken" (or "broken") are variants of a definition with a plausible bug; no
specification uses them. They show that the properties can tell the difference: each property of each
passing run is violated when one of them takes the place of the definition below it (`PROJECT.json`,
`mutants`).

## 3. Runs

`tlc -config X.cfg M` in this directory. Deadlock is checked where the program never comes to rest
(`site_access`: the alarm rings again, whatever happened). Elsewhere it is not, because a registry whose
hashes are all used up, a relay whose operations are all settled and a page nobody touches really have
nothing to do.

| Run | Instance | Shows |
| --- | --- | --- |
| `registry` | 2 receipts, 5 hashes, 2 keys; symmetric | the contract accepts what receipt-core accepts, and the verifier what the contract logged, over every order of calls. Five hashes are a full chain of three on one receipt beside two events on the other, the least with which a hash or a link of one receipt can be offered to the other at every stage. |
| `relay_one_event` | 1 event, 2 requests at a time, three POST bodies (one a rival), 2 faults of any kind, 2 attempts, 1 poll | no false outcome, no second transaction and nothing paid twice, the database trigger respected, and `RelayOperation` implemented. Two requests are the least that race; two faults allow a crash followed by a lost broadcast; two attempts let `#rebroadcast` send again, and another sender lets a row end as `FAILED_FINAL`, which is what `PaidOnce` is about. |
| `relay_events` | the two events of one receipt, a rival first event, the event of another receipt and a first event with a link (which no POST gets accepted), 2 requests at a time, 1 attempt, a budget of one fee a day, 2 days, 1 fault (not external) | every nonce below the counter is one row's, budgets add up, and the relay's own transactions never revert. Two receipts are the least whose transactions are in the node together; two days let a reservation move across midnight and two events be paid. |
| `blob_store` | 3 concurrent uploads (two contents of one envelope, and a second envelope), 3 locators | `store` implements `BlobMap` (so retries agree and conflicts are real). Three requests let one upload collide with a locator up to its last attempt while another stores its envelope. |
| `demo_filing` | 2 filings, 3 events of 2 receipts, 2 requests, delay 1, clock up to 2 | one acknowledgment per filing, one receipt per filing, no signature that contradicts its filing. Two events of one receipt offer both ways to break the binding; a request that read the clock before the delay ended overlaps one that read it later. |
| `anchor_workflow` | 1 receipt with both events, 2 faults of any kind (a dying relay instance among them), one poll per wake, poll cap 1 | exact retries, events in order, nothing given up without reason, nothing confirmed that is not final. Two faults allow a lost answer followed by a stopped worker, an eviction after a premature answer, or an outsider who anchors while an answer is lost; the cap is reached by the first poll, so that every later wake asks a relay that reconciles no more. (A cap of two, with 5,655,007 states instead of 3,280,899, passes as well; it only takes longer.) |
| `anchor_live` | 1 receipt with both events, 1 fault (lost answer, stopped worker, failing node of the extension or of the relay, dying relay instance), no poll cap | every saved event is confirmed, unless the relay has left its row, or its predecessor's, for good where only a POST could move it (`Stranded`). The fault comes at any step. Two faults are beyond what the liveness check finishes in minutes; the safety properties are checked with two. |
| `secure_storage` | 3 receipts of which 2 fit, 3 operations, 1 fault (stop or rejected call), profiles of every version | what the index names opens and keeps its evidence, but for the two exceptions in the formulas; operations without a fault leave nothing behind; the index loses nothing; migration completes. (With 2 operations and 2 faults it passes as well.) Three operations are a save, what replaces it and what removes it; capacity 2 lets a save evict. |
| `confirmation` | 1 tab, 2 URLs of different origins, 3 attempts and reviews, 2 messages and handlers at a time, 2 page changes, 2 ticks, the worker may stop; symmetric | one open context, a confirmation is what was reviewed, contexts only move forward. Two captures and a review are the least that can confirm the wrong receipt; a window of one tick can end between any two steps. |
| `site_access` | 1 site and the relay's own, 1 tab, 2 handlers at a time, 4 actions of the user or stops | enabled and revoked stay apart, listeners end with the permission, the four places agree in the end. Deadlock is checked. |
| `private_receipt` | 2 installations, 1 receipt with both events, 2 anchors (symmetric), 4 signing keys, 3 packages | the owner is never shut out of a bundle the profile keeps (the import that is refused is the next run), evidence only grows, nothing is believed of a package. No operator relates two receipts; four keys let each installation start again once; three packages are the unconfirmed, the closed and a later copy of one receipt. |
| `import_confirmed` | as `secure_storage`, 1 operation, no fault | violated, see Findings |

Named bounds, each a constant with a guard that names it:

- `MaxFaults` (relay, anchor workflow, secure storage): faults of the environment. `Days`: UTC days.
  `MaxAttempts` is a configuration value of the program. `MaxPolls` is the program's poll cap; a GET past
  it changes a counter nothing reads, so it is not repeated. `Polled` names the events whose client uses
  GET; it is empty where GET adds states and nothing to the question, since a GET does a subset of what
  a POST does to a row.
- `MaxTime` (`DemoFiling`, `Confirmation`) stops the clock; a filing is created only if its delay ends
  before that.
- `MaxCount` is the limit of `isCount`, 10 000 in the code, and `Counters` says which counters of an
  operation are modelled. `anchor_workflow` counts verifications up to 1, so a save refused at the limit
  happens; `anchor_live` counts nothing, since the limit ends liveness (Findings).
- `MaxOps` (secure storage): operations begun. `MaxReceipts` is the program's limit of receipts, 50 in
  the code. `Ids` must only be enough for the random identifiers drawn.
- `MaxHistory`, `MaxBusy`, `MaxChanges` (confirmation): attempts and reviews together, messages and
  handlers at a time, changes of a page or of the active tab. `CaptureWindow`, `ReviewWindow` and
  `MaxSessions` are the program's values; one tick stands for the longest stretch within which no
  window ends.
- `Slots`, `MaxActions` (site access): handlers at a time; actions of the user and stops of the worker.
  `EventuallyConsistent` needs `MaxActions`: it says what holds once the user stops.

Fairness, used for the liveness properties only; each assumption and what in the code justifies it:

- `RelayService` (`FairSpec`): a client that has not got a final answer repeats its POST (strong, since a
  worker may be busy whenever it tries; `docs/RELAY.md` asks this of clients, though the extension does
  not do it, see Findings); a request that runs takes its next step (the event loop; RPC calls and waits
  have timeouts); the chain mines what it can and confirms what it mined; time reaches
  `next_reconcile_at`. Nothing of GETs, faults, other senders or the end of a day.
- `AnchorWorkflow` (`FairSpec`): a flight takes its next step, the alarm rings and its round goes on, the
  relay goes on with a POST it has received and ends it, the chain mines and confirms. That a row becomes
  `SUBMITTED` is only weakly fair, and enabled only while a POST has the transaction in hand: nothing else
  in the code makes a row `SUBMITTED`, so a row whose POST died in between stays `SUBMITTING` however often it
  is asked for. Strongly fair is only that the relay records a final result of a `SUBMITTED` or
  `FAILED_RETRYABLE` row: every wake of the extension asks for it again, a GET reconciles before it answers
  unless `next_reconcile_at` is still to come, and that is seconds away while wakes are a minute apart; so
  among endlessly many GETs after the transaction is final one records it (until the poll cap, which the
  run therefore leaves out: `NoCap`). A resend is not fair (`Resubmit`): it needs a POST, and a client with a
  status token sends none. Nothing of the user, of faults, or that the relay is ever asked.
- `SecureStorage`: a job takes its next step (the calls it awaits settle), and `initializeExtension`
  begins again (it runs at every start of the worker, and the alarm starts one), also beyond `MaxOps`
  while the index is not of version 5. Nothing of the user.
  The faults are bounded, so a migration is interrupted finitely often.
- `SiteAccess`: a handler takes its next step, a permission event is delivered, an idle worker is put to
  sleep, and a sleeping one is woken (the anchor alarm rings every minute, and waking reconciles). This is
  the build with a configured relay; one without has no alarm (`background.ts:1846`) and converges when
  something else wakes it.
- `DemoFiling` has no timer: nothing but a request processes a filing, and the code promises of no client
  that it asks again. That a queued filing is processed is therefore not stated.

## 4. Findings

**`import_confirmed` / `ValidImportsSucceed`.** `importedPrivateReceiptBundle` (`private-receipt.ts:286`)
sets the context of an imported receipt to `SUPERSEDED`, but `parseSiteConfirmationEvidence`
(`storage-schema.ts:573`) accepts a site confirmation only in a `COMPLETED` context, and the import
verifies the bundle it made. So every package of a receipt with a confirmed site response is refused with
`IMPORT_FAILED`, in an empty profile as well, although `docs/EXTENSION.md` says that a valid import
receives a new local key and ciphertext.

The following disagreements are not among the runs above; each has a configuration that reproduces it by
hand, with the module named, and TLC reports the property violated.

| Configuration (module) | Property | What happens |
| --- | --- | --- |
| `MCRelayCrash` (`MCRelayService`) | `MinedOperationsSettle` | An instance dies after a broadcast and before it writes `SUBMITTED`. The retry finds the receipt final and finalizes at once, but the statement that records `CONFIRMED` starts only from `SUBMITTED` or `FAILED_RETRYABLE`; the row stays `SUBMITTING` although its cost is recorded. `docs/RELAY.md` promises that an exact signed POST retry can still reconcile it. |
| `MCRelayReserve` (`MCRelayService`) | `ReserveKept` | The balance check looks at the chain's balance and at the request's own reservation, not at the reservations of other operations; two requests spend the protected reserve between them. |
| `MCAnchorRebroadcast` (`MCAnchorWorkflow`) | `SavedEventsConfirm` | The relay accepts an event, its node fails once before the transaction is broadcast, and the POST is answered with a status token and `FAILED_RETRYABLE`. From then on the extension only polls (it POSTs only without a token), the relay broadcasts only for a POST, and the event is never anchored, although the alarm keeps resuming it. |
| `MCAnchorCounters` (`MCAnchorWorkflow`) | `RecoveryReachesAll` | An operation whose counter has reached 10 000 (one upload a minute against a relay that is away for a week) makes its flight throw, and the recovery round ends with it: receipts behind it in the index are no longer resumed, in this round or a later one. |
| `MCConfirmationClose` (`MCConfirmation`) | `ClosedTabsExpire` | `docs/EXTENSION.md:248` says that closing a tab marks its context `EXPIRED`. A capture still on its way when the tab closes is stored after the queued expiry (`background.ts:1813`, `987`), and its context stays `ACTIVE` until its window ends. |

Further cases met while modelling. An event that another sender anchors after its transaction was
prepared, and before any node took it, keeps its row `FAILED_RETRYABLE`: no POST may broadcast any more,
no receipt ever appears, and its nonce is never used, so later transactions of the relayer wait behind
it. After 60 status reads the relay stops reconciling for GETs, so a transaction that is final only later
is recorded by no one, since the extension does not POST (`MCAnchorRebroadcast` with `Faults = {}` and
`MaxPolls = 1`). The crash `MCRelayCrash` shows strands the extension as well: `SavedEventsConfirm` holds with
`Faults = {"timeout", "stop", "node"}` and is violated as soon as `crash` or `rpc` is among them, which is why
the passing run states `ConfirmedOrStranded`. And a call that is rejected after `saveSecureExtensionState` or
`storeVerifiedChainAnchor` has written the index makes the `catch` delete the blobs that index names: the
receipts that operation had just encrypted are then lost to the user, and every load is refused until all
is deleted (`rolledBack`, the exception in `IndexIsReadable`).

## 5. Proofs

Each `*_proofs` module begins with its inductive invariant and ends a section with the theorem it was
for. Invariants were model-checked before they were proved.

`Registry_proofs` proves, for any sets of receipts, hashes and keys and from `ZeroAssumption` alone:

- `TypeCorrect`: `Spec => []TypeOK`;
- `HistoryCorrect`: `StateMatchesLog`, `HashAnchoredOnce` and `LogIsEventChain` are invariant. The
  inductive invariant is their conjunction with `TypeOK`: the link guard compares with the compact
  state, so the chain is only extended correctly because the state is what the logs say, and the hash
  of a new event differs from those of its receipt only because the global set holds exactly the logged
  hashes. `AppendsOneEvent` reduces a call to one appended log entry, `CallKeepsState`,
  `CallKeepsHashes` and `CallKeepsChain` treat the three parts, `TransitionsAgree` relates the two
  transition tables;
- `ChainsCorrect`: `LogIsEventChain` with `StateMatchesLog`: the log of a receipt is a chain receipt-core
  accepts under the key of its first event, and the compact state is the last event, the length and the
  key of that chain;
- `HistoryOnlyGrows`: the action property `ReceiptOnlyGrows`;
- `RulesAgree` (`AgreesWithReceiptCore`): for every call, the guards of the contract and `validateEventChain`
  on the logged chain with the call's event appended say the same. The contract looks at the last stage
  and hash only; `ExtendsTheChain` shows from the invariant above that this is enough, since a chain one
  longer is valid when the shorter one is and its new link fits;
- `VerdictsAreExact` (`VerifierIsExact`): every logged entry of a receipt is among the hashes of its
  compact state, at the place its kind fixes; so the verifier's comparison with the stored state, which
  later events have moved on, refuses no logged event and accepts nothing else. That discovery finds one
  transaction follows from `HashAnchoredOnce`.

`RelayService_proofs` proves about `Spec` of `RelayService`, from `RelayAssumption` alone (and, for
`BudgetsAddUp`, that there are finitely many events), so for any events, receipts, requests, numbers of concurrent requests, fees, budgets, attempt caps and fault
bounds:

- `TypeCorrect`: `TypeOK`, with `TxRecorded`: where the code uses a row's transaction, the row has one.
  `TypeOK` is not inductive without it (a broadcast without a nonce would put garbage in the mempool).
- `NoncesCorrect` and `BroadcastsAreDurable`: `NoncesExact` and `OnlyDurableBroadcast`. The strengthening is
  `PendingKnown`: a pending nonce read from the node, however old, is not above the durable counter,
  because every transaction the node knows of is some row's. So `NextNonce` is always the counter, and
  no preparation skips a nonce.
- `AttemptsCorrect`: `AttemptsBounded` and `NeverAbandons`; attempts are counted only with a
  transaction, and each count is guarded in the statement that makes it.
- `OutcomesCorrect` and `EventsPaidOnce`: `PaidOnce` and `OutcomeIsTrue`. The strengthening `OutcomeInv`
  says that a request that settles has seen the confirmation target (`FinalJobs`, stable because blocks and confirmations
  only grow), that a successful transaction is visible in the registry (`MinedMatches`, from the guards
  of `Registry`), and that an operation given up never had a transaction (`GivenUp`).
- `FeesCorrect`: `FeeInOnePlace`, with `RowsFound` (a request that goes on with a row has found or
  inserted it) and `FeeInv` (a request that settles has charged the fee).
- `UpdatesAccepted`: the action property `UpdatesObeyTrigger`, from the same invariant `RelayInv`.
- `NoFeeWasted` (`NoWastedFee`), where nobody else calls the contract. A transition is checked when its row
  is inserted and executed when its transaction is mined, with other transactions of the relay in
  between. `WasteInv` says why that is safe: what is anchored was mined (`AnchoredIsMined`), no two rows
  compete for one place of a receipt (`PlacesDiffer`), so a row is ready to be mined until it is anchored
  (`RowsReady`), and a request about to insert a row has seen its place free (`CallersReady`), which
  `#acquireOperation` looks at again under the receipt's lock. `ReadyIsAccepted`: the relay's two checks
  together are the contract's guards.
- `ImplementsOperation`: `Spec => Implements`, for every fault the model has. `ViewInv` says what a request
  knows by the place it is at: that it may broadcast only as a POST, that a GET records
  a failure only of an operation with a transaction, that an event it takes for anchored is. A step of a request shows on its own event
  only (`RequestShows`, `ShowsSame`), so `RequestRefines` maps each of them to one action of
  `RelayOperation` for that event, to the end of the request, or to a stutter; `MineRefines`,
  `ConfirmRefines`, `EvictRefines` and `ExternalRefines` do the same for the chain and the other senders.
  `RelayOperation` lets the transaction of an event nobody has anchored revert only where there are other
  senders; that it is so without them is `WasteInv` again.

`RowChanges` and `JobChanges` say once what a step may do to a row and to a request; every later lemma
goes by their few cases and not by the actions.

`BudgetsAddUp` (`BudgetAccounts`) is about sums over all events, which are finitely many because a
hash has 32 bytes. `ReservedOn(d)` and `ChargedOn(d)` say what each row contributes to
day `d`; that the day's counters are their totals is inductive with `RelayInv` and `ViewInv`
(`BudgetInductive`). Three writes move money (`MovesMoney`), each that of one row (`OneRowMoves`), and no
other step touches the budget or what a row holds (`MoneyStays`). That a total changes by the change of
one summand (`TotalChanges`) is induction over a set, which no installed prover does as such; but the order
of the finite subsets is well founded, so what fails for some subset fails for a least one (`LeastSubset`),
and taking one element out of it refutes that (`SumExists`, `SumsAgree`).

`WebServices_proofs` is about two modules with little in common but their kind.

Of `BlobStore`, for any uploads, locators and number of requests, from `BlobAssumption` alone:
`BlobTypesCorrect`, `RetriesCorrect` and `ConflictsCorrect` (with the invariant that an answer with a locator
has its row, and that rows differ in both identifiers), and `ImplementsMap`: `Spec => AtomicMap`, step
by step, where only a SELECT that answers and a successful INSERT are steps of the map.

Of `DemoFiling`, for any tokens, references, events and times, from `FilingAssumption`:
`FilingTypesCorrect`; `AcknowledgmentsCorrect`; `SignaturesCorrect` for `BindingOneToOne` and `SignedIsTrue`
together, `SignaturesTruthful` for the second; and the action property `OutcomesObeyTrigger`
(`OutcomesImmutable`). The strengthening is about requests that wait to sign: their core repeats the acknowledgment of a filing that still exists,
or of one that was reset, whose token is never drawn again; a reset between the comparison and the
signing transaction is therefore harmless.

`SiteAccess_proofs`, for any sites, tabs, slots and bound, from `SiteAccessAssumption`:

- `TypeCorrect` and `RevocationsHold` (`EnabledNotRevoked`). The inductive invariant `Inv` says that the
  stored settings are `Tidy` (known sites, enabled and revoked apart), and so is every state a handler
  *holds*: a handler writes what it computed from a state it read some awaits ago, so the stored state
  alone is not inductive. Each change of the settings keeps `Tidy` (`EnableIsTidy` ... `ReconcileIsTidy`).
- `ListenersGoWithPermission` (`ListenersArePermitted`), with `Inv`: the step that takes a permission
  away queues its event (`EventComes`); an event stays queued until a handler of its own takes it
  (`EventsStay`); that handler's first act is to silence every page, and neither the start nor a step of
  another handler moves it (`StartsKeeps`, `GoesKeeps`); and a script is put into a page only in a step
  that looks at the permission.

`Confirmation_proofs`, for any tabs, URLs, windows and bounds, from `ConfirmationAssumption`:

- `TypeCorrect` (`TypeOK`). The inductive invariant `Typed` also says of what is on its way that no
  message, handler or review is of a document or a time to come, that two copies of a capture request
  carry one time, and that a stored receipt has a confirmation exactly when it is `COMPLETED`.
- `ContextsAdvance` (`ContextsMoveForward`). `StoredChanges` says once what a step may do to the stored
  receipts: all but three actions let each receipt only *evolve* (`Evolves`), and `StoreCapture`, `Delete`
  and `StoreConfirmation` are treated by themselves.
- `OneOpenContext` (`OneActivePerTab`): a capture supersedes the open contexts of its tab in the write
  that adds its own, and no other step opens one.
- `ConfirmationsFaithful` (`ConfirmedWhatWasReviewed`). The strengthening is about the reviews that are
  open or about to be saved (`ReviewsOK`): each is of a receipt that is still as the review shows it or has a
  higher sequence (`Live`), or of one that is gone and whose capture can no longer be stored again
  (`Gone`). So the comparison of the two sequences in the queued write, several awaits after the
  review, shows that nothing was observed in between.

`AnchorWorkflow_proofs`, for any receipts, counters, limits and faults, from
`AnchorAssumption`: `TypeCorrect` (`TypeOK`), `RetriesAreExact` (`ExactRetries`), `EventsSentInOrder`
(`SentInOrder`), `GivingUpIsRight` (`GivesUpWithReason`), `ConfirmationsAreTrue` (`ConfirmedIsTrue`), and
`NoConflicts`: the branch for a POST refused because of its content is dead code. All of them follow from
one invariant, `IInv`, because none is inductive alone: whether a stored operation is right depends on what
the flight knows, and what the flight knows is an answer that was given some awaits ago. `RowFacts` says
what the fields of a relay row say of one another, `OpFacts` relates a durable operation to the row and to
the blobs its POSTs named, and `FlightFacts` is what each place in a flight may rely on: for example, that a
second event is only in hand when the first is confirmed, that a POST names the blob stored before it, and
that a final result in the hands of the flight is still the row's. The relay, the chain and other senders
enter only through `Grows`, what none of their steps takes back: a row stays, a final result stays, an event
the relay has lost stays lost (`Hopeless`), and anchored evidence stays anchored (`AnchoredBy`). `Recheck`
and lost answers restart an operation from less than it knew, which is why `OpFacts` has to hold of
everything a flight may resume.

`SecureStorage_proofs`, for any receipts, identifiers, limits and numbers of operations and faults, from
`StorageAssumption` alone: `TypeCorrect` (`TypeOK`), `StopsLoseNothing`
(`IndexIsReadable`), `EvidenceStays` (`AnchorsAgree`) and `ReceiptsAreKept` (`NoReceiptLost`), with calls rejected
anywhere, those of a cleanup after an index write included. The stores alone are not inductive: whether the
next write is safe depends on how far the operation has come. `Stage` says what a job relies on at each
of its steps: it sees the index as it is until it publishes (`Reads`), the vault opens that index and is of its
identity (`Knows`), the entries it is about to publish decrypt (`Ready`), and the artifacts that a failure
before the write (`Staged`) or the cleanup after it (`Cleans`) deletes are not named by the index. A new
blob never gets an identifier in use (`NewIsUnused`), so staging preserves whatever decrypts
(`PutPreserves`), and entries that decrypt name distinct artifacts (`DecryptedAreDistinct`), so no deletion
reaches another receipt. `Inv` is also what TLC confirmed first, with four operations and two faults.
`Inv` ends with a rejected cleanup, which damages the vault; the invariant of the theorems is therefore
that the stores are `Sound` (`Inv`) or `Damaged`. `Damaged` says what the `catch` leaves: `UndoesOnly`, that it
goes on deleting only artifacts of receipts in `rolledBack`, and `OpensBut`, that the vault opens the rest
of the index. From there no load succeeds while a named blob is missing, so no later operation reaches a write
(`Restarts`), until the missing ones turn out to decrypt after all (a catch that stopped before it
deleted anything) or `deleteAll` empties the vault; either way the stores are sound again
(`DamagedLoads` to `DamagedGoesOn`, `CleanupRejects`, `NextKeeps`, `AlwaysSoundOrDamaged`).
`NothingStays` (`NothingLeaks`) needs `Inv` and a second invariant, `Tally`, that holds until something fails:
the blobs and keys of the vault are those the index names and those the running job still owes a place in
the index or a deletion (`Accounts`). Each write moves an artifact from one side to the other, so when no
job runs nothing is owed. After a fault the code may leave artifacts behind, and promises no more.

`PrivateReceipt_proofs`, for any installations, receipts, keys, anchors and packages, from
`PrivateReceiptAssumption` (a key is not 0, and no event hashes to `Zero`): `OwnersGoOn` (`OwnerCanGoOn`),
`AnchorsProved` (`AnchorsAreProved`), `OwnershipTrue` (`OwnershipIsTrue`), `ContextsOpenOnce`
(`OneOpenContext`) and `EvidenceGrows` (the action property
`EvidenceStays`).

- A bundle is rebuilt and compared with itself by almost every operation, so what must be invariant is its
  whole content: `Made(o, key, f, owner)` is the bundle of an operational record, a key, the anchors of its
  events and a label, and `ReceiptInv` says that every bundle kept or exported is one of these (`IsMade`).
- `MadeVerifies` shows that each of them passes all of `verifyPrivateReceiptBundle` and is returned
  unchanged: the events are a chain (`EvidenceIsChain`), the checks are those the receipt needs and are
  sorted already (`StateParses`, `ChecksSorted`). `SecuredAnew`, `SecuredAgain`, `AttachedIs` and
  `ImportedIs` compute what signing, updating, anchoring and importing make of such a bundle; an update
  keeps the signed first event and its anchor because `signedEventsForOperational` finds it again.
- `GoodHeld` relates a bundle to the profile that keeps it (its label to the key, its anchors to what
  was verified). `StepOf(p)` is what any step of a profile may do: it leaves other profiles alone, and each
  bundle of its own is untouched or `Became` what it is by one of the four operations. Whether a bundle is
  the profile's own changes with its key, so a new key has to be one that no bundle has (`EnrollStep`).

Some of what is proved is not repeated by a run, since a proof for every instance leaves TLC nothing to
add: `StateMatchesLog`, `FeeInOnePlace`, `AttemptsBounded`, `NeverAbandons`, `RetriesAgree`,
`ConflictsAreReal`, `OutcomesObeyTrigger` and the type invariants of `Registry`, `BlobStore`, `DemoFiling`,
`SecureStorage`, `SiteAccess` and `Confirmation`.

Only model-checked: liveness (`ConfirmedOrStranded`, `MigrationCompletes`, `EventuallyConsistent`), which
is out of the prover's reach. `OperationsSettle` of `RelayService` holds as well: `MCRelayLive.cfg` (of
`MCRelayService`) is a configuration beside the runs that shows it. It is what the fairness that
`AnchorWorkflow` assumes of the relay rests on. Every invariant and every action property that a passing
run checks is also a theorem.

## 6. What is left

Worth doing next: `RateLimiter` (`#applyRateLimits`: one row per window and key; it only turns requests
away, so nothing modelled here depends on it); the parsers of `lib/messages.ts`, as far as they refuse
what a handler relies on.

### Not modelled

- *Side panel, popup, web pages, UI package*: presentation of state kept elsewhere. The requests they
  send are the user's actions in `Confirmation`, `SiteAccess` and `SecureStorage`.
- *Canonicalization, hashing, message formats, the extraction of text and form fields*: pure
  functions over text. The decisions that depend on their result are modelled as guards. Of the schemas,
  what they demand of a receipt's events and in which order they return them is in `Receipt`; the
  formats of single fields are not modelled.
- *Cryptography* (vault keys, envelopes, signatures, the demo authority's signature): which key opens
  which blob, and which payload was signed by which key, is kept (`SecureStorage`, `PrivateReceipt`,
  `DemoFiling`); that a wrong key fails, and that hashes do not collide, is assumed.
- *Relay HTTP layer, health, configuration, signer, runtime*: they end a request before it changes
  anything, or describe the process.
- *Deployment, build and smoke scripts*: run by hand.
