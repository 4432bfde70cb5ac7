---------------------------- MODULE SecureStorage ----------------------------
(***************************************************************************)
(* apps/extension/lib/secure-storage.ts over lib/vault.ts: the extension's *)
(* encrypted receipts. chrome.storage holds one value, the public index;   *)
(* IndexedDB holds the signing identity, the receipt keys, the encrypted   *)
(* blobs and the migration journal. No transaction spans the two, so an    *)
(* operation is a chain of awaited steps and the worker may stop between   *)
(* any two of them. The background runs the operations one at a time       *)
(* (queueStorageWrite), so there is one job.                               *)
(*                                                                         *)
(* A receipt's operational record is its content: ACTIVE (attempted, the   *)
(* tab's confirmation context open), CLOSED (attempted, the context        *)
(* superseded or expired) or CONFIRMED (site confirmation signed).         *)
(* Identifiers are random in the code; here a new one is the least unused, *)
(* which loses nothing because they are only compared for equality.        *)
(***************************************************************************)
EXTENDS Integers, FiniteSets

CONSTANTS
  Receipts,
  Ids,            \* key, blob and identity identifiers: 1..n
  MaxReceipts,    \* MAX_LOCAL_RECEIPTS
  MaxOps,         \* bound: operations started
  MaxFaults       \* bound: crashes, rejected calls and blocked deletions

ASSUME StorageAssumption ==
  /\ IsFiniteSet(Receipts) /\ Ids \subseteq Nat \ {0}
  /\ MaxReceipts \in Nat \ {0} /\ MaxOps \in Nat /\ MaxFaults \in Nat

VARIABLES
  index,    \* EXTENSION_STORAGE_KEY: version 0 stands for no value
  vault,    \* the IndexedDB database
  job,      \* the operation at the head of storageWriteQueue
  ops,          \* history: operations started
  faults,       \* history: faults so far
  rolledBack    \* history: receipts of which a catch deletes artifacts the index
                \* names, until a load has decrypted them all or all was deleted

vars == <<index, vault, job, ops, faults, rolledBack>>

Contents == {"ACTIVE", "CLOSED", "CONFIRMED"}
Owners == {"LOCAL", "IMPORTED"}
NoId == 0
Empty == [x \in {} |-> x]
With(f, x, y) == [z \in DOMAIN f \cup {x} |-> IF z = x THEN y ELSE f[z]]
Without(f, S) == [z \in DOMAIN f \ S |-> f[z]]

\* EncryptedReceiptIndexEntry, and what its blob decrypts to.
Entries == [blob : Ids \cup {NoId}, key : Ids \cup {NoId},
            content : Contents, owner : Owners]
Blobs == [receipt : Receipts, key : Ids, content : Contents,
          owner : Owners, anchored : BOOLEAN]
Artifacts == [blob : Ids, key : Ids, new : BOOLEAN]
AnchorStates == {"PENDING", "CHAIN_EVIDENCE_CONFIRMED"}
Operations == {"start", "capture", "close", "confirm", "settings", "remove",
               "import", "export", "ensure", "anchor", "deleteAll"}
Changes == {"capture", "close", "confirm", "settings", "remove"}
PFun(f, D, V) ==   \* f is a function from a part of D to V
  /\ f = [x \in DOMAIN f |-> f[x]]
  /\ DOMAIN f \subseteq D /\ \A x \in DOMAIN f : f[x] \in V

NoValue == [version |-> 0, identity |-> NoId, entries |-> Empty, anchors |-> Empty]
WipedVault == [identity |-> NoId, keys |-> Empty, blobs |-> Empty,
               logged |-> FALSE, journal |-> Empty]
Idle == [op |-> "none", pc |-> "idle", pass |-> 1, r |-> {}, seen |-> NoValue,
         want |-> Empty, next |-> Empty, made |-> {}, todo |-> {}]

Least(S) == {i \in S : \A j \in S : i <= j}
EntryIds(e) == {e.blob, e.key}
UsedIds ==
  {index.identity, vault.identity} \cup DOMAIN vault.keys \cup DOMAIN vault.blobs
    \cup UNION {EntryIds(index.entries[r]) : r \in DOMAIN index.entries}
NewIds == Least(Ids \ UsedIds)

Held(i) == DOMAIN i.entries
Goto(pc) == job' = [job EXCEPT !.pc = pc]
Finish == job' = Idle
Step == UNCHANGED <<ops, faults, rolledBack>>
\* A failure inside saveSecureExtensionState's try block runs its catch.
Fail == job' = IF job.made = {} THEN Idle ELSE [job EXCEPT !.pc = "undo"]

Entry(b, k, c, o) == [blob |-> b, key |-> k, content |-> c, owner |-> o]

\* decryptIndexedBundles' test of one entry: both artifacts present, and the
\* entry says what the decrypted bundle says.
Decrypts(v, r, e) ==
  /\ e.key \in DOMAIN v.keys /\ v.keys[e.key] = r
  /\ e.blob \in DOMAIN v.blobs
  /\ v.blobs[e.blob].receipt = r
  /\ v.blobs[e.blob].key = e.key
  /\ v.blobs[e.blob].content = e.content
  /\ v.blobs[e.blob].owner = e.owner
\* validateSecureExtensionState, asked before every write and on every load.
ValidIndex(i) ==
  /\ Cardinality(DOMAIN i.entries) <= MaxReceipts
  /\ \A r, s \in DOMAIN i.entries :
       r # s => i.entries[r].blob # i.entries[s].blob /\ i.entries[r].key # i.entries[s].key
  /\ DOMAIN i.entries # {} => i.identity # NoId
  /\ DOMAIN i.anchors \subseteq DOMAIN i.entries
DecryptsAll(i, v) ==
  \A r \in DOMAIN i.entries : Decrypts(v, r, i.entries[r])

\* vault.putReceiptArtifacts, deleteBlob, deleteKey, deleteReceipt.
Put(b, k, r, c, o, a) ==
  vault' = [vault EXCEPT
    !.keys = With(@, k, r),
    !.blobs = With(@, b, [receipt |-> r, key |-> k, content |-> c,
                          owner |-> o, anchored |-> a])]
DropReceipt(r) ==
  [vault EXCEPT !.keys = Without(@, {k \in DOMAIN @ : vault.keys[k] = r}),
                !.blobs = Without(@, {b \in DOMAIN @ : vault.blobs[b].receipt = r})]
DropArtifacts(B, K) ==
  [vault EXCEPT !.blobs = Without(@, B), !.keys = Without(@, K)]

-----------------------------------------------------------------------------
\* queueStorageWrite: an operation starts when the previous one has settled.
\* "start" is the load initializeExtension queues whenever the worker starts.
Begin(op) ==
  /\ job.pc = "idle"
  /\ ops < MaxOps \/ (op = "start" /\ index.version # 5)
  /\ job' = [Idle EXCEPT !.op = op, !.pc = IF op = "deleteAll" THEN "wipe" ELSE "read",
                         !.pass = IF op = "import" THEN 2 ELSE 1]
  /\ ops' = IF ops < MaxOps THEN ops + 1 ELSE ops
  /\ UNCHANGED <<index, vault, faults, rolledBack>>

-----------------------------------------------------------------------------
\* loadSecureExtensionState. Pass 2 is the load with ensureIdentity that
\* saveSecureExtensionState makes of its own, and an import's only one.
Read ==
  /\ job.pc = "read"
  /\ job' = [job EXCEPT !.seen = index,
       !.pc = CASE index.version = 0 -> "install"
                [] index.version = 3 -> "adopt"
                [] index.version = 4 -> "upgrade"
                [] OTHER -> "unlock"]
  /\ Step /\ UNCHANGED <<index, vault>>

\* ensureIdentity with no recorded metadata: the stored identity, or a new one.
PutIdentityIfAbsent ==
  IF vault.identity # NoId THEN UNCHANGED vault
  ELSE \E i \in NewIds : vault' = [vault EXCEPT !.identity = i]
EnsureIdentity ==
  /\ job.pc \in {"install", "adopt", "enroll"}
  /\ PutIdentityIfAbsent
  /\ Goto(CASE job.pc = "install" -> "initial"
            [] job.pc = "adopt" -> "openJournal"
            [] OTHER -> "recordIdentity")
  /\ Step /\ UNCHANGED index

\* Writing an index without receipts for the identity the vault holds.
WriteIdentity ==
  /\ job.pc \in {"initial", "recordIdentity"}
  /\ index' = [version |-> 5, identity |-> vault.identity,
               entries |-> job.seen.entries, anchors |-> job.seen.anchors]
  /\ job' = [job EXCEPT !.seen = index', !.pc = "decrypt"]
  /\ Step /\ UNCHANGED vault

\* A version 4 index is rewritten as version 5 before it is unlocked.
Upgrade ==
  /\ job.pc = "upgrade"
  /\ index' = [job.seen EXCEPT !.version = 5, !.anchors = Empty]
  /\ job' = [job EXCEPT !.seen = index', !.pc = "decrypt"]
  /\ Step /\ UNCHANGED vault

Unlock ==
  /\ job.pc = "unlock"
  /\ IF ~ValidIndex(job.seen) THEN Fail
     ELSE IF job.seen.identity # NoId
     THEN IF vault.identity = job.seen.identity THEN Goto("decrypt") ELSE Fail
     ELSE Goto(IF job.pass = 2 THEN "enroll" ELSE "decrypt")
  /\ Step /\ UNCHANGED <<index, vault>>

Decrypt ==
  /\ job.pc = "decrypt"
  /\ IF DecryptsAll(job.seen, vault)
     THEN Goto("loaded") /\ rolledBack' = {}
     ELSE Fail /\ UNCHANGED rolledBack
  /\ UNCHANGED <<index, vault, ops, faults>>

-----------------------------------------------------------------------------
\* migrateLegacyState: a journal remembers which receipts already have their
\* artifacts, so that a migration interrupted by a stop resumes.
PutJournal(entries) == vault' = [vault EXCEPT !.logged = TRUE, !.journal = entries]
OpenJournalOnce ==   \* broken: a journal left by a stopped migration is an error
  /\ job.pc = "openJournal"
  /\ IF vault.logged THEN Finish /\ UNCHANGED vault
     ELSE /\ job' = [job EXCEPT !.pc = "migrate", !.want = vault.journal]
          /\ PutJournal(Empty)
  /\ Step /\ UNCHANGED index
OpenJournal ==
  /\ job.pc = "openJournal"
  /\ job' = [job EXCEPT !.pc = "migrate", !.want = vault.journal]
  /\ PutJournal(Empty)
  /\ Step /\ UNCHANGED index

\* The artifacts the prior journal named serve again if they decrypt to the
\* same operational record.
Reusable(r) ==
  /\ r \in DOMAIN job.want
  /\ Decrypts(vault, r, Entry(job.want[r].blob, job.want[r].key,
                              job.seen.entries[r].content, "LOCAL"))
MigrateReceipt(r) ==
  /\ job.pc = "migrate"
  /\ r \in Held(job.seen) \ DOMAIN job.next
  /\ LET c == job.seen.entries[r].content IN
     IF Reusable(r)
     THEN /\ job' = [job EXCEPT !.pc = "log",
               !.next = With(@, r, Entry(job.want[r].blob, job.want[r].key, c, "LOCAL"))]
          /\ UNCHANGED vault
     ELSE \E i \in NewIds :
            /\ Put(i, i, r, c, "LOCAL", FALSE)
            /\ job' = [job EXCEPT !.pc = "log", !.next = With(@, r, Entry(i, i, c, "LOCAL"))]
  /\ Step /\ UNCHANGED index

LogMigrated ==
  /\ job.pc = "log"
  /\ PutJournal(job.next)
  /\ Goto("migrate")
  /\ Step /\ UNCHANGED index

\* broken: publishes whatever has been migrated so far
PublishMigratedEarly ==
  /\ job.pc = "migrate"
  /\ index' = [version |-> 5, identity |-> vault.identity,
               entries |-> job.next, anchors |-> Empty]
  /\ job' = [job EXCEPT !.seen = index', !.pc = "dropJournal", !.next = Empty, !.want = Empty]
  /\ Step /\ UNCHANGED vault
PublishMigrated ==
  /\ job.pc = "migrate"
  /\ DOMAIN job.next = Held(job.seen)
  /\ index' = [version |-> 5, identity |-> vault.identity,
               entries |-> job.next, anchors |-> Empty]
  /\ job' = [job EXCEPT !.seen = index', !.pc = "dropJournal", !.next = Empty, !.want = Empty]
  /\ Step /\ UNCHANGED vault

DropJournal ==
  /\ job.pc = "dropJournal"
  /\ vault' = [vault EXCEPT !.logged = FALSE, !.journal = Empty]
  /\ Goto("loaded")
  /\ Step /\ UNCHANGED index

-----------------------------------------------------------------------------
\* What the operation makes of the state it loaded: working.receiptIndex as
\* the contents it should hold.
Now == [r \in Held(job.seen) |-> job.seen.entries[r].content]
Loaded(op) == job.pc = "loaded" /\ job.op = op
Plan(R, want) ==
  /\ job' = [job EXCEPT !.pc = "read", !.pass = 2, !.r = R, !.want = want]
  /\ Step /\ UNCHANGED <<index, vault>>
Active == {r \in Held(job.seen) : Now[r] = "ACTIVE"}

\* initializeExtension and getPrivateReceiptBundle (an export) only load.
LoadedOnly ==
  /\ Loaded("start") \/ Loaded("export")
  /\ Finish /\ Step /\ UNCHANGED <<index, vault>>

\* appendAttemptReceipt: a new receipt, which supersedes at most the context
\* of its own tab; refused when the index is full.
PlanCapture ==
  /\ Loaded("capture") /\ job.pass = 1
  /\ Cardinality(Held(job.seen)) < MaxReceipts
  /\ \E r \in Receipts \ Held(job.seen), S \in {{}} \cup {{s} : s \in Active} :
       Plan({r}, [x \in Held(job.seen) \cup {r} |->
                    IF x = r THEN "ACTIVE" ELSE IF x \in S THEN "CLOSED" ELSE Now[x]])
CaptureRefused ==
  /\ Loaded("capture") /\ job.pass = 1
  /\ Cardinality(Held(job.seen)) >= MaxReceipts
  /\ Finish /\ Step /\ UNCHANGED <<index, vault>>

\* expireConfirmationContext and appendSiteConfirmation, on an open context.
PlanContext ==
  /\ job.op \in {"close", "confirm"} /\ Loaded(job.op) /\ job.pass = 1
  /\ \E r \in Active :
       Plan({r}, [Now EXCEPT ![r] = IF job.op = "close" THEN "CLOSED" ELSE "CONFIRMED"])
NoContext ==
  /\ job.op \in {"close", "confirm"} /\ Loaded(job.op) /\ job.pass = 1
  /\ Active = {}
  /\ Finish /\ Step /\ UNCHANGED <<index, vault>>

\* Settings, welcome and origins share the value; the receipts stay as loaded.
PlanSettings == Loaded("settings") /\ job.pass = 1 /\ Plan({}, Now)

\* deleteSecureReceipt: fails when the receipt is not there.
PlanRemove ==
  /\ Loaded("remove") /\ job.pass = 1
  /\ \E r \in Receipts :
       IF r \in Held(job.seen) THEN Plan({r}, Without(Now, {r}))
       ELSE Finish /\ Step /\ UNCHANGED <<index, vault>>

-----------------------------------------------------------------------------
\* saveSecureExtensionState after its own load. Receipts whose operational
\* record is the same keep their entry.
Unchanged(r) == r \in Held(job.seen) /\ Now[r] = job.want[r]
Kept == {r \in DOMAIN job.want : Unchanged(r)}
OpenSave ==
  /\ job.op \in Changes /\ Loaded(job.op) /\ job.pass = 2
  /\ job' = [job EXCEPT !.pc = "sign", !.next = [r \in Kept |-> job.seen.entries[r]]]
  /\ Step /\ UNCHANGED <<index, vault>>

\* createOrUpdatePrivateReceiptBundle and putReceiptArtifacts: a changed
\* receipt keeps its key and its anchors and gets a new blob.
SignAnchorsLost(r) == FALSE   \* broken: signing again drops the chain evidence
SignAnchors(r) == vault.blobs[job.seen.entries[r].blob].anchored
SignBlobInPlace(r) ==         \* broken: encrypts over the blob in use
  IF r \in Held(job.seen) THEN {job.seen.entries[r].blob} ELSE NewIds
SignBlob(r) == NewIds
Sign(r) ==
  /\ job.pc = "sign"
  /\ r \in DOMAIN job.want \ DOMAIN job.next
  /\ \E i \in SignBlob(r) :
       LET known == r \in Held(job.seen)
           k == IF known THEN job.seen.entries[r].key ELSE i IN
       /\ Put(i, k, r, job.want[r], "LOCAL", IF known THEN SignAnchors(r) ELSE FALSE)
       /\ job' = [job EXCEPT !.next = With(@, r, Entry(i, k, job.want[r], "LOCAL")),
                             !.made = @ \cup {[blob |-> i, key |-> k, new |-> ~known]}]
  /\ Step /\ UNCHANGED index

\* writePersistentState; the anchor operations of removed receipts go with them.
StaleRemoved ==   \* broken: a replaced blob stays
  Held(job.seen) \ DOMAIN job.next
Stale ==
  {r \in Held(job.seen) : r \notin DOMAIN job.next \/ job.next[r].blob # job.seen.entries[r].blob}
PublishSave ==
  /\ job.pc = "sign"
  /\ DOMAIN job.next = DOMAIN job.want
  /\ index' = [version |-> 5, identity |-> vault.identity, entries |-> job.next,
               anchors |-> Without(job.seen.anchors, Held(job.seen) \ DOMAIN job.next)]
  /\ job' = [job EXCEPT !.pc = "clean", !.todo = Stale]
  /\ Step /\ UNCHANGED vault

\* The artifacts the index no longer names.
CleanSaved(r) ==
  /\ job.pc = "clean" /\ job.op \in Changes \cup {"anchor"}
  /\ r \in job.todo
  /\ vault' = IF r \notin DOMAIN job.next THEN DropReceipt(r)
              ELSE DropArtifacts({job.seen.entries[r].blob}, {})
  /\ job' = [job EXCEPT !.todo = @ \ {r}]
  /\ Step /\ UNCHANGED index

\* The save decrypts everything once more before it answers.
Settled ==
  /\ job.pc = "clean" /\ job.todo = {}
  /\ IF DecryptsAll(index, vault) THEN Finish ELSE Fail
  /\ Step /\ UNCHANGED <<index, vault>>

\* The catch blocks: the artifacts staged by this operation are deleted, the
\* key with the blob when the receipt was new.
Undo ==
  /\ job.pc = "undo"
  /\ \E m \in job.made :
       /\ vault' = DropArtifacts({m.blob}, IF m.new THEN {m.key} ELSE {})
       /\ job' = IF job.made = {m} THEN Idle ELSE [job EXCEPT !.made = @ \ {m}]
  /\ Step /\ UNCHANGED index

-----------------------------------------------------------------------------
\* storeImportedReceiptBundle. importedPrivateReceiptBundle closes the
\* context of the package (status SUPERSEDED) and parses the result again: a
\* site confirmation needs a COMPLETED context, so a confirmed receipt fails.
\* The copy is LOCAL when this installation's key signed the package.
Packages == [receipt : Receipts, content : Contents, owner : Owners]
Importable(p) == p.content # "CONFIRMED"
ImportRefused ==
  /\ Loaded("import")
  /\ \E p \in Packages : ~Importable(p) \/ p.receipt \in Held(job.seen)
  /\ Finish /\ Step /\ UNCHANGED <<index, vault>>
PutImported ==
  /\ Loaded("import")
  /\ \E p \in Packages, i \in NewIds :
       /\ Importable(p)
       /\ Put(i, i, p.receipt, "CLOSED", p.owner, FALSE)
       /\ job' = [job EXCEPT !.r = {p.receipt},
            !.next = With(job.seen.entries, p.receipt, Entry(i, i, "CLOSED", p.owner)),
            !.made = {[blob |-> i, key |-> i, new |-> TRUE]},
            !.pc = IF Cardinality(Held(job.seen) \cup {p.receipt}) > MaxReceipts THEN "undo"
                   ELSE "publishImport"]
  /\ Step /\ UNCHANGED index
PublishImported ==
  /\ job.pc = "publishImport"
  /\ index' = [job.seen EXCEPT !.entries = job.next, !.anchors = Without(@, job.r)]
  /\ job' = [job EXCEPT !.pc = "clean", !.made = {}, !.todo = job.r \cap Held(job.seen)]
  /\ Step /\ UNCHANGED vault
CleanImportedBlob(r) ==
  /\ job.pc = "clean" /\ job.op = "import" /\ r \in job.todo
  /\ vault' = DropArtifacts({job.seen.entries[r].blob}, {})
  /\ Goto("cleanKey")
  /\ Step /\ UNCHANGED index
CleanImportedKey(r) ==
  /\ job.pc = "cleanKey" /\ r \in job.todo
  /\ vault' = DropArtifacts({}, {job.seen.entries[r].key})
  /\ job' = [job EXCEPT !.pc = "clean", !.todo = @ \ {r}]
  /\ Step /\ UNCHANGED index

-----------------------------------------------------------------------------
\* ensureAnchorOperation and saveAnchorOperation: progress for a locally
\* signed event, written into the index alone.
SaveAnchorOperation ==
  /\ Loaded("ensure")
  /\ \E r \in Held(job.seen) :
       /\ job.seen.entries[r].owner = "LOCAL"
       /\ index' = IF r \in DOMAIN job.seen.anchors THEN index
                   ELSE [job.seen EXCEPT !.anchors = With(@, r, "PENDING")]
  /\ Finish /\ Step /\ UNCHANGED vault
\* getAnchorRelayArtifacts and ensureAnchorOperation refuse anything else.
NothingToAnchor ==
  /\ Loaded("ensure") \/ Loaded("anchor")
  /\ \A r \in Held(job.seen) :
       IF job.op = "ensure" THEN job.seen.entries[r].owner # "LOCAL"
       ELSE r \notin DOMAIN job.seen.anchors
  /\ Finish /\ Step /\ UNCHANGED <<index, vault>>

\* storeVerifiedChainAnchor: the evidence enters a new blob, the operation is
\* confirmed with the entry in one write, the old blob goes last.
PutAnchored ==
  /\ Loaded("anchor")
  /\ \E r \in DOMAIN job.seen.anchors, i \in NewIds :
       LET e == job.seen.entries[r] IN
       /\ Put(i, e.key, r, e.content, e.owner, TRUE)
       /\ job' = [job EXCEPT !.pc = "publishAnchor", !.r = {r},
                    !.next = With(job.seen.entries, r, [e EXCEPT !.blob = i]),
                    !.made = {[blob |-> i, key |-> e.key, new |-> FALSE]}]
  /\ Step /\ UNCHANGED index
PublishAnchored ==
  /\ job.pc = "publishAnchor"
  /\ index' = [job.seen EXCEPT !.entries = job.next,
       !.anchors = [r \in DOMAIN @ |-> IF r \in job.r THEN "CHAIN_EVIDENCE_CONFIRMED" ELSE @[r]]]
  /\ job' = [job EXCEPT !.pc = "clean", !.todo = job.r]
  /\ Step /\ UNCHANGED vault

-----------------------------------------------------------------------------
\* deleteAllSecureExtensionData: the vault, then the index, then an empty index.
Wipe ==
  /\ job.pc = "wipe"
  /\ vault' = WipedVault
  /\ Goto("remove")
  /\ rolledBack' = {}
  /\ UNCHANGED <<index, ops, faults>>
Remove ==
  /\ job.pc = "remove"
  /\ index' = NoValue
  /\ Goto("reset")
  /\ Step /\ UNCHANGED vault
Reset ==
  /\ job.pc = "reset"
  /\ index' = [NoValue EXCEPT !.version = 5]
  /\ Finish
  /\ Step /\ UNCHANGED vault

-----------------------------------------------------------------------------
Fault == faults < MaxFaults /\ faults' = faults + 1 /\ UNCHANGED ops

\* The worker or the browser stops: the queue is gone, both stores stay.
Crash ==
  /\ job.pc # "idle"
  /\ Finish /\ Fault /\ UNCHANGED <<index, vault, rolledBack>>

\* A vault transaction aborts or a storage write rejects: nothing was written.
\* The catch of a save or an anchor also covers what follows the index write,
\* the deletion of the old artifacts and the final decryption; it deletes the
\* staged ones all the same, which the index names by now (RolledBack).
LoadCalls == {"install", "adopt", "enroll", "initial", "recordIdentity", "upgrade",
              "openJournal", "migrate", "log", "dropJournal", "wipe", "remove", "reset"}
StagedCalls == {"sign", "publishImport", "publishAnchor"}
RolledBack ==
  {r \in Held(index) : \E m \in job.made :
     index.entries[r].blob = m.blob \/ (m.new /\ index.entries[r].key = m.key)}
Reject ==
  /\ \/ job.pc \in LoadCalls \cup StagedCalls
     \/ job.pc \in {"clean", "cleanKey"} /\ (job.todo # {} \/ job.op \in Changes)
  /\ rolledBack' = rolledBack \cup RolledBack
  /\ Fail /\ Fault /\ UNCHANGED <<index, vault>>

\* A deletion in a catch block may reject too; the catch ignores it.
UndoIgnored ==
  /\ job.pc = "undo"
  /\ \E m \in job.made :
       job' = IF job.made = {m} THEN Idle ELSE [job EXCEPT !.made = @ \ {m}]
  /\ Fault /\ UNCHANGED <<index, vault, rolledBack>>

\* indexedDB.deleteDatabase while another connection is open: deleteAll
\* rejects on "blocked", but the deletion stays pending and still happens.
WipeBlocked ==
  /\ job.pc = "wipe"
  /\ vault' = WipedVault
  /\ rolledBack' = {}
  /\ Finish /\ Fault /\ UNCHANGED index

-----------------------------------------------------------------------------
Load == Read \/ EnsureIdentity \/ WriteIdentity \/ Upgrade \/ Unlock \/ Decrypt
Migrate ==
  \/ OpenJournal \/ LogMigrated \/ PublishMigrated \/ DropJournal
  \/ \E r \in Receipts : MigrateReceipt(r)
PlanChange ==
  \/ LoadedOnly \/ PlanCapture \/ CaptureRefused \/ PlanContext \/ NoContext
  \/ PlanSettings \/ PlanRemove
Save ==
  \/ OpenSave \/ PublishSave \/ Settled \/ Undo
  \/ \E r \in Receipts : Sign(r) \/ CleanSaved(r)
Import ==
  \/ ImportRefused \/ PutImported \/ PublishImported
  \/ \E r \in Receipts : CleanImportedBlob(r) \/ CleanImportedKey(r)
Anchor == SaveAnchorOperation \/ NothingToAnchor \/ PutAnchored \/ PublishAnchored
DeleteAll == Wipe \/ Remove \/ Reset
Run == Load \/ Migrate \/ PlanChange \/ Save \/ Import \/ Anchor \/ DeleteAll
Faults == Crash \/ Reject \/ UndoIgnored \/ WipeBlocked

\* A new installation, a plaintext version 3 value, or a version 4 index with
\* its vault.
Legacy(S, c) == [r \in S |-> Entry(NoId, NoId, c[r], "LOCAL")]
InitStores ==
  \/ index = NoValue /\ vault = WipedVault
  \/ \E S \in SUBSET Receipts : \E c \in [S -> Contents] :
       /\ Cardinality(S) <= MaxReceipts
       /\ index = [NoValue EXCEPT !.version = 3, !.entries = Legacy(S, c)]
       /\ vault = WipedVault
  \/ \E r \in Receipts, c \in Contents, i \in Least(Ids) :
       /\ index = [NoValue EXCEPT !.version = 4, !.identity = i,
                     !.entries = With(Empty, r, Entry(i, i, c, "LOCAL"))]
       /\ vault = [WipedVault EXCEPT !.identity = i, !.keys = With(Empty, i, r),
            !.blobs = With(Empty, i, [receipt |-> r, key |-> i, content |-> c,
                                      owner |-> "LOCAL", anchored |-> FALSE])]
Init == InitStores /\ job = Idle /\ ops = 0 /\ faults = 0 /\ rolledBack = {}
Next == (\E op \in Operations : Begin(op)) \/ Run \/ Faults

\* Awaited calls settle, and initializeExtension runs on every start.
Fairness == WF_vars(Run) /\ WF_vars(Begin("start"))
Spec == Init /\ [][Next]_vars /\ Fairness

-----------------------------------------------------------------------------
IsIndex(i) ==
  /\ i = [version |-> i.version, identity |-> i.identity,
           entries |-> i.entries, anchors |-> i.anchors]
  /\ i.version \in {0, 3, 4, 5} /\ i.identity \in Ids \cup {NoId}
  /\ PFun(i.entries, Receipts, Entries) /\ PFun(i.anchors, Receipts, AnchorStates)
IsVault(v) ==
  /\ v = [identity |-> v.identity, keys |-> v.keys, blobs |-> v.blobs,
           logged |-> v.logged, journal |-> v.journal]
  /\ v.identity \in Ids \cup {NoId} /\ v.logged \in BOOLEAN
  /\ PFun(v.keys, Ids, Receipts) /\ PFun(v.blobs, Ids, Blobs)
  /\ PFun(v.journal, Receipts, Entries)
TypeOK ==
  /\ IsIndex(index) /\ IsVault(vault)
  /\ job.pc = "idle" => job = Idle
  /\ job.op \in Operations \cup {"none"} /\ job.pass \in {1, 2}
  /\ IsIndex(job.seen) /\ PFun(job.next, Receipts, Entries)
  /\ job.made \subseteq Artifacts /\ job.todo \subseteq Receipts
  /\ ops \in 0..MaxOps /\ faults \in 0..MaxFaults /\ rolledBack \subseteq Receipts

(* At every moment, wherever the worker stops and whichever call rejects,  *)
(* an encrypted index names only receipts that decrypt (secure-storage.ts  *)
(* writes blobs, then the index, then deletes), with two exceptions. A     *)
(* delete-all that got no further than the vault; and a save or an anchor  *)
(* whose cleanup rejects after the index write (757-764, 1157): its catch  *)
(* (769, 1164) deletes blobs the index names. What is lost are the         *)
(* receipts that operation had just encrypted, and no others.              *)
IndexIsReadable ==
  index.version \in {4, 5} /\ vault # WipedVault =>
    /\ ValidIndex(index)
    /\ \A r \in Held(index) \ rolledBack : Decrypts(vault, r, index.entries[r])
    /\ Held(index) # {} => index.identity = vault.identity

(* A confirmed anchor operation and the blob the index names agree: no     *)
(* later capture, confirmation or import loses the chain evidence that     *)
(* storeVerifiedChainAnchor put into the bundle, with the same two         *)
(* exceptions.                                                             *)
AnchorsAgree ==
  \A r \in DOMAIN index.anchors \ rolledBack :
    index.anchors[r] = "CHAIN_EVIDENCE_CONFIRMED" /\ vault # WipedVault =>
      vault.blobs[index.entries[r].blob].anchored

(* With no fault, an operation leaves in the vault exactly the artifacts   *)
(* the index names, and no journal: what a save replaced, a delete         *)
(* removed, a refused import staged or a migration logged is gone.         *)
NothingLeaks ==
  faults = 0 /\ job.pc = "idle" /\ index.version \in {0, 4, 5} =>
    /\ ~vault.logged
    /\ DOMAIN vault.blobs = {index.entries[r].blob : r \in Held(index)}
    /\ DOMAIN vault.keys = {index.entries[r].key : r \in Held(index)}

(* No step, fault or catch takes a receipt out of the index or takes back  *)
(* its confirmation there, except the deletion the user asked for and an   *)
(* import that replaces that receipt. (Whether its blob still decrypts is  *)
(* IndexIsReadable.)                                                       *)
Loses(r) ==
  \/ r \notin Held(index')
  \/ index.entries[r].content = "CONFIRMED" /\ index'.entries[r].content # "CONFIRMED"
NoReceiptLost ==
  [][\A r \in Held(index) : Loses(r) =>
       \/ job.op = "deleteAll"
       \/ job.op \in {"remove", "import"} /\ r \in job.r]_index

(* A package whose bundle verifies can be imported into a profile that     *)
(* holds no receipt (EXTENSION.md, "Encrypted export and import").         *)
ValidImportsSucceed ==
  [][job.op = "import" /\ job.pc = "loaded" /\ job'.pc = "idle" =>
       Held(job.seen) # {} \/ faults' # faults]_vars

(* A version 3 value becomes an encrypted index in the end, however often  *)
(* the worker stops on the way (the faults are finitely many).             *)
MigrationCompletes == index.version = 3 ~> index.version = 5
=============================================================================
