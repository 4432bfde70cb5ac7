-------------------------- MODULE SecureStorage_proofs --------------------------
(***************************************************************************)
(* The safety of SecureStorage for any receipts, limits and numbers of     *)
(* operations and faults.                                                  *)
(*                                                                         *)
(* A job at each of its steps knows what the stores hold (Stage): until it *)
(* publishes, every artifact it staged is unknown to the index; when it    *)
(* publishes, every entry it writes decrypts; when it cleans up, nothing   *)
(* it deletes is named by the index. So the index is readable (IndexOK)    *)
(* at every step, which is where a stop or a rejected call may leave it.   *)
(*                                                                         *)
(* A call that rejects after the index was written leaves that invariant:  *)
(* the catch deletes artifacts the index names. From there on (Damaged)    *)
(* all but the receipts rolled back decrypt, no operation gets past its    *)
(* load, and so none writes the index, until a load decrypts all receipts  *)
(* again or everything is deleted.                                         *)
(*                                                                         *)
(* While nothing has failed the accounts balance as well (Tally): what the *)
(* vault holds is what the index names and what the job still owes a       *)
(* deletion or a place in the index.                                       *)
(***************************************************************************)
EXTENDS SecureStorage, FiniteSetTheorems, TLAPS

\* The artifacts an index names.
BlobsOf(i) == {i.entries[r].blob : r \in Held(i)}
KeysOf(i) == {i.entries[r].key : r \in Held(i)}
Confirmed(i, r) == r \in DOMAIN i.anchors /\ i.anchors[r] = "CHAIN_EVIDENCE_CONFIRMED"

(* The vault opens every receipt of the index, and holds the evidence the  *)
(* index says is there.                                                    *)
Opens(i, v) ==
  /\ DecryptsAll(i, v)
  /\ Held(i) # {} => i.identity = v.identity
  /\ \A r \in Held(i) : Confirmed(i, r) => v.blobs[i.entries[r].blob].anchored
IndexOK(i, v) ==
  /\ Cardinality(Held(i)) <= MaxReceipts
  /\ i.version = 0 => i = NoValue
  /\ i.version = 3 => DOMAIN i.anchors = {}
  /\ i.version = 4 => i.identity # NoId /\ Held(i) # {}
  /\ i.version \in {4, 5} => ValidIndex(i) /\ (v = WipedVault \/ Opens(i, v))

-----------------------------------------------------------------------------
\* What a job relies on at each of its steps.

Seeing ==
  {"install", "adopt", "upgrade", "unlock", "enroll", "initial", "recordIdentity", "openJournal",
   "migrate", "log", "decrypt", "dropJournal", "loaded", "sign", "publishImport", "publishAnchor"}
Publishing == {"sign", "publishImport", "publishAnchor"}
Cleaning == {"clean", "cleanKey"}
Migrating == {"migrate", "log"}
Planned == {"read", "unlock", "enroll", "recordIdentity", "decrypt", "loaded", "sign", "clean", "undo"}

\* The job has read the index as it is, of a version that its step is for.
Reads(j, i) ==
  /\ j.pc \in Seeing => j.seen = i
  /\ j.pc \in {"install", "initial"} => i.version = 0
  /\ j.pc \in {"adopt", "openJournal"} \cup Migrating => i.version = 3
  /\ j.pc = "upgrade" => i.version = 4
  /\ j.pc \in {"unlock", "enroll", "recordIdentity", "decrypt", "dropJournal", "loaded", "undo"}
              \cup Publishing \cup Cleaning => i.version = 5
  /\ j.pc \in {"enroll", "recordIdentity"} => Held(i) = {}
Identified(i, v) == i.identity # NoId /\ i.identity = v.identity
Knows(j, i, v) ==
  /\ j.pc \in {"initial", "recordIdentity", "openJournal"} \cup Migrating => v.identity # NoId
  /\ j.pc = "decrypt" /\ j.pass = 2 /\ Held(i) = {} => Identified(i, v)
  /\ j.pc \in {"dropJournal", "loaded", "undo"} \cup Publishing \cup Cleaning => Opens(i, v)
  /\ j.pc = "dropJournal" \/ (j.pc \in {"loaded"} \cup Publishing /\ j.pass = 2) => Identified(i, v)

\* What a change makes of the receipts: it loses none but the removed one.
Keeps(j, i) ==
  \A r \in Held(i) :
    \/ j.op = "remove" /\ r \in j.r
    \/ r \in DOMAIN j.want /\ (i.entries[r].content = "CONFIRMED" => j.want[r] = "CONFIRMED")
Plans(j, i) ==
  /\ j.op = "import" => j.pass = 2
  /\ j.pc \in {"wipe", "remove", "reset"} => j.op = "deleteAll"
  /\ j.op \in Changes /\ j.pass = 2 =>
       /\ j.pc \in Planned /\ i.version = 5
       /\ PFun(j.want, Receipts, Contents) /\ Cardinality(DOMAIN j.want) <= MaxReceipts
       /\ j.pc \notin Cleaning \cup {"undo"} => Keeps(j, i)

\* The entries a job is about to publish.
Ready(j, i, v) ==
  /\ \A r \in DOMAIN j.next : Decrypts(v, r, j.next[r])
  /\ j.pc \in Migrating =>
       \A r \in DOMAIN j.next : r \in Held(i) /\ j.next[r].content = i.entries[r].content
  /\ j.pc = "sign" =>
       /\ j.op \in Changes /\ j.pass = 2
       /\ \A r \in DOMAIN j.next :
            /\ r \in DOMAIN j.want /\ j.next[r].content = j.want[r]
            /\ Confirmed(i, r) => v.blobs[j.next[r].blob].anchored
  /\ j.pc \in {"publishImport", "publishAnchor"} =>
       /\ Cardinality(DOMAIN j.next) <= MaxReceipts
       /\ Held(i) \subseteq DOMAIN j.next /\ j.r \subseteq DOMAIN j.next
       /\ \A r \in DOMAIN j.next \ j.r : r \in Held(i) /\ j.next[r] = i.entries[r]
       /\ \A r \in j.r : j.next[r].blob \notin BlobsOf(i)
  /\ j.pc = "publishImport" => j.op = "import" /\ \A r \in j.r : j.next[r].key \notin KeysOf(i)
  /\ j.pc = "publishAnchor" =>
       /\ j.op = "anchor" /\ j.r # {} /\ j.r \subseteq Held(i)
       /\ \A r \in j.r : j.next[r].content = i.entries[r].content /\ v.blobs[j.next[r].blob].anchored

\* The artifacts staged, which a failure deletes, and those to be deleted
\* after the index was written: the index names none of them.
Staged(j, i) ==
  /\ j.pc \notin Publishing \cup Cleaning \cup {"undo"} => j.made = {}
  /\ j.pc \notin Migrating \cup Publishing \cup Cleaning \cup {"undo"} => DOMAIN j.next = {}
  /\ j.pc \in Publishing \cup {"undo"} =>
       \A m \in j.made : m.blob \notin BlobsOf(i) /\ (m.new => m.key \notin KeysOf(i))
Cleans(j, i) ==
  /\ j.pc \in Cleaning =>
       /\ j.op \in Changes \cup {"import", "anchor"}
       /\ i.entries = j.next /\ j.todo \subseteq Held(j.seen)
       /\ \A r \in j.todo \cap DOMAIN j.next : j.seen.entries[r].blob \notin BlobsOf(i)
  /\ j.pc \in Cleaning /\ j.op = "import" =>
       /\ j.made = {} /\ j.todo \subseteq DOMAIN j.next
       /\ \A r \in j.todo : j.seen.entries[r].key \notin KeysOf(i)
  /\ j.pc = "cleanKey" => j.op = "import"

Shape(j) ==
  j = [op |-> j.op, pc |-> j.pc, pass |-> j.pass, r |-> j.r, seen |-> j.seen,
       want |-> j.want, next |-> j.next, made |-> j.made, todo |-> j.todo]
JobTyped(j) ==
  /\ Shape(j)
  /\ j.pc = "idle" => j = Idle
  /\ j.op \in Operations \cup {"none"} /\ j.pass \in {1, 2} /\ j.r \subseteq Receipts
  /\ IsIndex(j.seen) /\ PFun(j.next, Receipts, Entries)
  /\ j.made \subseteq Artifacts /\ j.todo \subseteq Receipts
Stage(j, i, v) ==
  /\ JobTyped(j) /\ Reads(j, i) /\ Knows(j, i, v) /\ Plans(j, i)
  /\ j.pc \in Migrating \cup Publishing => Ready(j, i, v)
  /\ Staged(j, i) /\ Cleans(j, i)
Inv ==
  /\ IsIndex(index) /\ IsVault(vault) /\ IndexOK(index, vault)
  /\ Stage(job, index, vault)

-----------------------------------------------------------------------------
\* Functions, and what the vault's operations do to the artifacts.

LEMMA WithTyped ==
  ASSUME NEW D, NEW V, NEW f, PFun(f, D, V), NEW x \in D, NEW y \in V
  PROVE  PFun(With(f, x, y), D, V)
BY DEF PFun, With
LEMMA WithoutTyped ==
  ASSUME NEW D, NEW V, NEW f, PFun(f, D, V), NEW S
  PROVE  PFun(Without(f, S), D, V)
BY DEF PFun, Without
LEMMA EmptyTyped == ASSUME NEW D, NEW V PROVE PFun(Empty, D, V)
BY DEF PFun, Empty

LEMMA HeldFinite ==
  ASSUME NEW i, IsIndex(i) PROVE Held(i) \subseteq Receipts /\ IsFiniteSet(Held(i))
<1>1. Held(i) \subseteq Receipts BY DEF IsIndex, PFun, Held
<1>2. QED BY <1>1, StorageAssumption, FS_Subset
LEMMA EntryTyped ==
  ASSUME NEW i, IsIndex(i), NEW r \in Held(i) PROVE i.entries[r] \in Entries
BY DEF IsIndex, PFun, Held
LEMMA ArtifactsTyped ==
  ASSUME NEW v, IsVault(v), NEW r, NEW e, Decrypts(v, r, e)
  PROVE  e.blob \in Ids /\ e.key \in Ids /\ v.blobs[e.blob] \in Blobs /\ r \in Receipts
BY DEF IsVault, PFun, Decrypts

(* A new identifier names nothing yet.                                      *)
LEMMA NewIsUnused ==
  ASSUME NEW k \in NewIds
  PROVE  /\ k \in Ids /\ k # NoId
         /\ k \notin DOMAIN vault.keys /\ k \notin DOMAIN vault.blobs
         /\ k \notin BlobsOf(index) /\ k \notin KeysOf(index)
<1>1. k \in Ids /\ k \notin UsedIds BY DEF NewIds, Least
<1>2. k # NoId BY <1>1, StorageAssumption DEF NoId
<1>3. ASSUME NEW r \in Held(index) PROVE index.entries[r].blob # k /\ index.entries[r].key # k
  BY <1>1, <1>3 DEF UsedIds, EntryIds, Held
<1>4. QED BY <1>1, <1>2, <1>3 DEF UsedIds, BlobsOf, KeysOf

\* Whatever could be decrypted still can, to the same bundle.
Preserves(v, w) ==
  /\ w.identity = v.identity
  /\ \A r, e : Decrypts(v, r, e) => Decrypts(w, r, e) /\ w.blobs[e.blob] = v.blobs[e.blob]

(* Artifacts put under a new blob identifier, and under a new key or the    *)
(* receipt's own (putReceiptArtifacts).                                     *)
LEMMA PutPreserves ==
  ASSUME IsVault(vault), NEW b \in Ids, NEW k \in Ids, NEW r \in Receipts,
         NEW c \in Contents, NEW o \in Owners, NEW a \in BOOLEAN,
         b \notin DOMAIN vault.blobs, k \in DOMAIN vault.keys => vault.keys[k] = r,
         Put(b, k, r, c, o, a)
  PROVE  /\ IsVault(vault') /\ Preserves(vault, vault')
         /\ Decrypts(vault', r, Entry(b, k, c, o))
         /\ vault'.blobs[b].anchored = a
<1> DEFINE n == [receipt |-> r, key |-> k, content |-> c, owner |-> o, anchored |-> a]
<1>1. n \in Blobs BY DEF Blobs
<1>2. /\ vault'.keys = With(vault.keys, k, r) /\ vault'.blobs = With(vault.blobs, b, n)
      /\ vault'.identity = vault.identity /\ vault'.logged = vault.logged /\ vault'.journal = vault.journal
      /\ vault' = [identity |-> vault'.identity, keys |-> vault'.keys, blobs |-> vault'.blobs,
                   logged |-> vault'.logged, journal |-> vault'.journal]
  <2> HIDE DEF n
  <2> QED BY DEF Put, IsVault, n
<1>3. PFun(vault'.keys, Ids, Receipts) /\ PFun(vault'.blobs, Ids, Blobs)
  <2> HIDE DEF n
  <2> QED BY <1>1, <1>2, WithTyped DEF IsVault
<1>4. IsVault(vault') BY <1>2, <1>3 DEF IsVault
<1>5. vault'.blobs[b] = n /\ b \in DOMAIN vault'.blobs /\ vault'.keys[k] = r /\ k \in DOMAIN vault'.keys
  BY <1>2 DEF With
<1>6. Decrypts(vault', r, Entry(b, k, c, o)) BY <1>5 DEF Decrypts, Entry
<1>7. ASSUME NEW s, NEW e, Decrypts(vault, s, e)
      PROVE Decrypts(vault', s, e) /\ vault'.blobs[e.blob] = vault.blobs[e.blob]
  <2>1. e.blob # b /\ vault'.blobs[e.blob] = vault.blobs[e.blob] /\ e.blob \in DOMAIN vault'.blobs
    BY <1>2, <1>7 DEF With, Decrypts
  <2>2. e.key \in DOMAIN vault'.keys /\ vault'.keys[e.key] = s BY <1>2, <1>7 DEF With, Decrypts
  <2>3. QED BY <1>7, <2>1, <2>2 DEF Decrypts
<1>8. QED BY <1>2, <1>4, <1>5, <1>6, <1>7 DEF Preserves

LEMMA PreservesOpen ==
  ASSUME NEW i, NEW v, NEW w, Opens(i, v), Preserves(v, w) PROVE Opens(i, w)
BY DEF Opens, Preserves, DecryptsAll, Held

(* Artifacts the index does not name can go (deleteBlob, deleteKey).        *)
LEMMA DropKeepsOpen ==
  ASSUME NEW i, IsVault(vault), Opens(i, vault), NEW B, NEW K,
         B \cap BlobsOf(i) = {}, K \cap KeysOf(i) = {}
  PROVE  IsVault(DropArtifacts(B, K)) /\ Opens(i, DropArtifacts(B, K))
<1> SUFFICES ASSUME NEW w, w = DropArtifacts(B, K) PROVE IsVault(w) /\ Opens(i, w) OBVIOUS
<1>1. /\ w.keys = Without(vault.keys, K) /\ w.blobs = Without(vault.blobs, B)
      /\ w.identity = vault.identity /\ w.logged = vault.logged /\ w.journal = vault.journal
      /\ w = [identity |-> w.identity, keys |-> w.keys, blobs |-> w.blobs, logged |-> w.logged, journal |-> w.journal]
  BY DEF DropArtifacts, IsVault
<1>2. IsVault(w) BY <1>1, WithoutTyped DEF IsVault
<1>3. ASSUME NEW r \in Held(i)
      PROVE Decrypts(w, r, i.entries[r]) /\ w.blobs[i.entries[r].blob] = vault.blobs[i.entries[r].blob]
  <2>1. i.entries[r].blob \notin B /\ i.entries[r].key \notin K BY DEF BlobsOf, KeysOf
  <2>2. Decrypts(vault, r, i.entries[r]) BY DEF Opens, DecryptsAll, Held
  <2>3. QED BY <1>1, <2>1, <2>2 DEF Decrypts, Without
<1>4. Opens(i, w) BY <1>1, <1>3 DEF Opens, DecryptsAll, Held
<1>5. QED BY <1>2, <1>4

(* All that belongs to a receipt the index does not hold (deleteReceipt).   *)
LEMMA ForgetKeepsOpen ==
  ASSUME NEW i, IsVault(vault), Opens(i, vault), NEW s, s \notin Held(i)
  PROVE  IsVault(DropReceipt(s)) /\ Opens(i, DropReceipt(s))
<1> DEFINE B == {b \in DOMAIN vault.blobs : vault.blobs[b].receipt = s}
           K == {k \in DOMAIN vault.keys : vault.keys[k] = s}
<1>1. DropReceipt(s) = DropArtifacts(B, K)
  BY DEF DropReceipt, DropArtifacts, IsVault
<1>2. B \cap BlobsOf(i) = {} /\ K \cap KeysOf(i) = {}
  BY DEF BlobsOf, KeysOf, Opens, DecryptsAll, Decrypts, Held
<1> HIDE DEF B, K
<1>3. QED BY <1>1, <1>2, DropKeepsOpen

(* Entries that all decrypt name distinct artifacts.                        *)
LEMMA DecryptedAreDistinct ==
  ASSUME NEW f, NEW v, \A r \in DOMAIN f : Decrypts(v, r, f[r])
  PROVE  \A r, s \in DOMAIN f : r # s => f[r].blob # f[s].blob /\ f[r].key # f[s].key
BY DEF Decrypts

(* A vault that opens a receipt is not empty.                               *)
LEMMA OpensIsNotWiped ==
  ASSUME NEW i, NEW v, DecryptsAll(i, v), Held(i) # {} PROVE v # WipedVault
BY DEF DecryptsAll, Decrypts, Held, WipedVault, Empty

-----------------------------------------------------------------------------
\* Steps that end or fail a job, or that only move it on.

LEMMA IdleStage == ASSUME NEW i, NEW v PROVE Stage(Idle, i, v)
<1>1. IsIndex(NoValue) BY EmptyTyped DEF IsIndex, NoValue
<1>2. JobTyped(Idle) BY <1>1, EmptyTyped DEF JobTyped, Shape, Idle
<1>3. QED
  BY <1>2 DEF Idle, Empty, Stage, Reads, Knows, Plans, Ready, Staged, Cleans, Seeing, Publishing, Cleaning, Migrating, Changes

LEMMA Finishes ==
  ASSUME Finish, IsIndex(index'), IsVault(vault'), IndexOK(index', vault') PROVE Inv'
BY IdleStage DEF Finish, Inv

LEMMA Goes ==
  ASSUME Inv, NEW p, p # "idle", Goto(p)
  PROVE  /\ JobTyped(job') /\ job'.pc = p
         /\ job'.op = job.op /\ job'.pass = job.pass /\ job'.r = job.r /\ job'.seen = job.seen
         /\ job'.want = job.want /\ job'.next = job.next /\ job'.made = job.made /\ job'.todo = job.todo
BY DEF Inv, Stage, JobTyped, Shape, Goto

(* The catch block runs with the index as it was, while the index names    *)
(* nothing of what it deletes.                                             *)
LEMMA CatchRuns ==
  ASSUME Inv, Goto("undo"), UNCHANGED <<index, vault>>, job.pc \in Publishing \cup Cleaning,
         \A m \in job.made : m.blob \notin BlobsOf(index) /\ (m.new => m.key \notin KeysOf(index))
  PROVE  Inv'
<1> DEFINE j == job'
<1>1. /\ JobTyped(j) /\ j.pc = "undo"
      /\ j.op = job.op /\ j.pass = job.pass /\ j.r = job.r /\ j.seen = job.seen
      /\ j.want = job.want /\ j.next = job.next /\ j.made = job.made /\ j.todo = job.todo
  BY Goes
<1>2. Reads(job, index) /\ Knows(job, index, vault) /\ Plans(job, index) /\ Staged(job, index)
  BY DEF Inv, Stage
<1> HIDE DEF j
<1>3. Reads(j, index) BY <1>1, <1>2 DEF Reads, Seeing, Publishing, Cleaning, Migrating
<1>4. Knows(j, index, vault) BY <1>1, <1>2 DEF Knows, Publishing, Cleaning, Migrating
<1>5. Plans(j, index) BY <1>1, <1>2 DEF Plans, Planned, Publishing, Cleaning
<1>6. Staged(j, index) BY <1>1, <1>2 DEF Staged, Publishing, Cleaning, Migrating
<1>7. Cleans(j, index) BY <1>1 DEF Cleans, Cleaning
<1>8. Stage(j, index, vault) BY <1>1, <1>3, <1>4, <1>5, <1>6, <1>7 DEF Stage, Migrating, Publishing
<1>9. QED BY <1>8 DEF Inv, j

(* A failure before anything was staged ends the operation; later, the     *)
(* catch block runs.                                                       *)
LEMMA Fails ==
  ASSUME Inv, Fail, UNCHANGED <<index, vault>>,
         job.pc \in Cleaning => job.op = "import", job.pc # "undo"
  PROVE  Inv'
<1>1. CASE job.made = {}
  <2>1. Finish BY <1>1 DEF Fail, Finish
  <2>2. QED BY <2>1, Finishes DEF Inv
<1>2. CASE job.made # {}
  <2>1. job.pc \in Publishing BY <1>2 DEF Inv, Stage, Staged, Cleans
  <2>2. Goto("undo") BY <1>2 DEF Fail, Goto
  <2>3. \A m \in job.made : m.blob \notin BlobsOf(index) /\ (m.new => m.key \notin KeysOf(index))
    BY <2>1 DEF Inv, Stage, Staged
  <2>4. QED BY <2>1, <2>2, <2>3, CatchRuns
<1>3. QED BY <1>1, <1>2

-----------------------------------------------------------------------------
\* Loading the index.

Loads == {"install", "adopt", "upgrade", "unlock", "enroll", "initial", "recordIdentity",
          "decrypt", "openJournal", "dropJournal", "loaded"}
IsChange == job.op \in Changes /\ job.pass = 2
LEMMA LoadStep ==
  ASSUME Inv, IsIndex(index'), IsVault(vault'), IndexOK(index', vault'), JobTyped(job'),
         job'.op = job.op, job'.pass = job.pass, job'.r = job.r, job'.want = job.want,
         job'.next = job.next, job'.made = job.made,
         job.pc \notin Migrating \cup Publishing \cup Cleaning \cup {"undo"}, job'.pc \in Loads,
         Reads(job', index'), Knows(job', index', vault'),
         IsChange => job'.pc \in Planned /\ index'.version = 5 /\ index'.entries = index.entries
  PROVE  Inv'
<1>1. Plans(job, index) /\ Staged(job, index) BY DEF Inv, Stage
<1>2. Plans(job', index')
  <2>1. IsChange /\ Keeps(job, index) => Keeps(job', index') BY DEF Keeps, Held
  <2>2. QED BY <1>1, <2>1 DEF Plans, IsChange, Cleaning, Loads, Publishing
<1>3. Staged(job', index') BY <1>1 DEF Staged, Loads, Migrating, Publishing, Cleaning
<1>4. Cleans(job', index') BY DEF Cleans, Loads, Cleaning
<1>5. job'.pc \notin Migrating \cup Publishing BY DEF Loads, Migrating, Publishing
<1>6. QED BY <1>2, <1>3, <1>4, <1>5 DEF Inv, Stage

LEMMA ReadKeeps == ASSUME Inv, Read PROVE Inv'
<1> DEFINE p == CASE index.version = 0 -> "install"
                  [] index.version = 3 -> "adopt"
                  [] index.version = 4 -> "upgrade"
                  [] OTHER -> "unlock"
<1>1. UNCHANGED <<index, vault>> /\ job.pc = "read" BY DEF Read
<1>2. /\ job'.pc = p /\ job'.seen = index
      /\ job'.op = job.op /\ job'.pass = job.pass /\ job'.r = job.r /\ job'.want = job.want
      /\ job'.next = job.next /\ job'.made = job.made /\ job'.todo = job.todo
      /\ Shape(job')
  <2> HIDE DEF p
  <2> QED BY DEF Read, Inv, Stage, JobTyped, Shape, p
<1>3. index.version \in {0, 3, 4, 5} BY DEF Inv, IsIndex
<1>4. /\ p \in {"install", "adopt", "upgrade", "unlock"}
      /\ p = "install" => index.version = 0
      /\ p = "adopt" => index.version = 3
      /\ p = "upgrade" => index.version = 4
      /\ p = "unlock" => index.version = 5
      /\ index.version = 5 => p = "unlock"
  BY <1>3
<1> HIDE DEF p
<1>5. JobTyped(job') BY <1>2, <1>4 DEF Inv, Stage, JobTyped, Shape
<1>6. Reads(job', index') BY <1>1, <1>2, <1>4 DEF Reads, Seeing, Publishing, Cleaning, Migrating
<1>7. Knows(job', index', vault') BY <1>1, <1>2, <1>4 DEF Knows, Publishing, Cleaning, Migrating
<1>8. IsChange => job'.pc \in Planned /\ index.version = 5
  BY <1>1, <1>2, <1>4 DEF IsChange, Inv, Stage, Plans, Planned
<1>9. job'.pc \in Loads /\ job.pc \notin Migrating \cup Publishing \cup Cleaning \cup {"undo"}
  BY <1>1, <1>2, <1>4 DEF Loads, Migrating, Publishing, Cleaning
<1>10. QED BY <1>1, <1>2, <1>5, <1>6, <1>7, <1>8, <1>9, LoadStep DEF Inv

LEMMA EnsureIdentityKeeps == ASSUME Inv, EnsureIdentity PROVE Inv'
<1> DEFINE p == CASE job.pc = "install" -> "initial"
                  [] job.pc = "adopt" -> "openJournal"
                  [] OTHER -> "recordIdentity"
<1>1. job.pc \in {"install", "adopt", "enroll"} /\ index' = index /\ PutIdentityIfAbsent /\ Goto(p)
  BY DEF EnsureIdentity
<1>2. /\ p \in {"initial", "openJournal", "recordIdentity"}
      /\ p = "initial" => job.pc = "install"
      /\ p = "openJournal" => job.pc = "adopt"
      /\ p = "recordIdentity" => job.pc = "enroll"
  BY <1>1
<1> HIDE DEF p
<1>3. /\ JobTyped(job') /\ job'.pc = p
      /\ job'.op = job.op /\ job'.pass = job.pass /\ job'.r = job.r /\ job'.seen = job.seen
      /\ job'.want = job.want /\ job'.next = job.next /\ job'.made = job.made /\ job'.todo = job.todo
  BY <1>1, <1>2, Goes
<1>4. IsVault(vault') /\ vault'.identity # NoId
  <2>1. CASE vault.identity # NoId BY <1>1, <2>1 DEF PutIdentityIfAbsent, Inv
  <2>2. CASE vault.identity = NoId
    <3>1. PICK i \in NewIds : vault' = [vault EXCEPT !.identity = i] BY <1>1, <2>2 DEF PutIdentityIfAbsent
    <3>2. i \in Ids /\ i # NoId BY NewIsUnused
    <3>3. QED BY <3>1, <3>2 DEF Inv, IsVault
  <2>3. QED BY <2>1, <2>2
<1>5. Reads(job, index) BY DEF Inv, Stage
<1>6. Reads(job', index')
  BY <1>1, <1>2, <1>3, <1>5 DEF Reads, Seeing, Publishing, Cleaning, Migrating
<1>7. Knows(job', index', vault') BY <1>2, <1>3, <1>4 DEF Knows, Publishing, Cleaning, Migrating
<1>8. IndexOK(index', vault')
  <2>1. index.version \in {0, 3} \/ (index.version = 5 /\ Held(index) = {}) BY <1>1, <1>5 DEF Reads
  <2>2. Held(index) = {} => Opens(index, vault') BY DEF Opens, DecryptsAll, Held
  <2>3. QED BY <1>1, <2>1, <2>2 DEF Inv, IndexOK
<1>9. IsChange => job'.pc \in Planned /\ index.version = 5
  BY <1>1, <1>2, <1>3 DEF IsChange, Inv, Stage, Plans, Planned
<1>10. job'.pc \in Loads /\ job.pc \notin Migrating \cup Publishing \cup Cleaning \cup {"undo"}
  BY <1>1, <1>2, <1>3 DEF Loads, Migrating, Publishing, Cleaning
<1>11. QED BY <1>1, <1>3, <1>4, <1>6, <1>7, <1>8, <1>9, <1>10, LoadStep DEF Inv

(* An index with nothing in it is readable with any vault.                  *)
LEMMA EmptyIsFine ==
  ASSUME NEW i, IsIndex(i), i.version = 5, Held(i) = {}, DOMAIN i.anchors = {}, NEW v PROVE IndexOK(i, v)
<1>1. Cardinality(Held(i)) = 0 BY FS_EmptySet
<1>2. ValidIndex(i) BY <1>1, StorageAssumption DEF ValidIndex, Held
<1>3. Opens(i, v) BY DEF Opens, DecryptsAll, Held
<1>4. QED BY <1>1, <1>2, <1>3, StorageAssumption DEF IndexOK

LEMMA WriteIdentityKeeps == ASSUME Inv, WriteIdentity PROVE Inv'
<1>1. job.pc \in {"initial", "recordIdentity"} /\ vault' = vault BY DEF WriteIdentity
<1>2. job.seen = index /\ (index = NoValue \/ index.version = 5) /\ Held(index) = {} /\ vault.identity # NoId
  BY <1>1 DEF Inv, Stage, Reads, Knows, Seeing, IndexOK, Held, NoValue, Empty
<1>3. index' = [version |-> 5, identity |-> vault.identity, entries |-> index.entries, anchors |-> index.anchors]
  BY <1>2 DEF WriteIdentity
<1>4. DOMAIN index.anchors = {} BY <1>2 DEF Inv, IndexOK, ValidIndex, Held, NoValue, Empty
<1>5. index'.version = 5 /\ index'.identity = vault.identity /\ index'.entries = index.entries
        /\ index'.anchors = index.anchors /\ IsIndex(index')
  BY <1>3 DEF Inv, IsIndex, IsVault
<1>6. IndexOK(index', vault') BY <1>2, <1>4, <1>5, EmptyIsFine DEF Held
<1>7. /\ job'.pc = "decrypt" /\ job'.seen = index'
      /\ job'.op = job.op /\ job'.pass = job.pass /\ job'.r = job.r /\ job'.want = job.want
      /\ job'.next = job.next /\ job'.made = job.made /\ job'.todo = job.todo
      /\ Shape(job')
  BY DEF WriteIdentity, Inv, Stage, JobTyped, Shape
<1>8. JobTyped(job') BY <1>5, <1>7 DEF Inv, Stage, JobTyped, Shape
<1>9. Reads(job', index') BY <1>5, <1>7 DEF Reads, Seeing, Publishing, Cleaning, Migrating
<1>10. Knows(job', index', vault')
  BY <1>1, <1>2, <1>5, <1>7 DEF Knows, Publishing, Cleaning, Migrating, Identified
<1>11. job'.pc \in Loads \cap Planned /\ job.pc \notin Migrating \cup Publishing \cup Cleaning \cup {"undo"}
  BY <1>1, <1>7 DEF Loads, Migrating, Publishing, Cleaning, Planned
<1>12. QED BY <1>1, <1>5, <1>6, <1>7, <1>8, <1>9, <1>10, <1>11, LoadStep DEF Inv

LEMMA UpgradeKeeps == ASSUME Inv, Upgrade PROVE Inv'
<1>1. job.pc = "upgrade" /\ vault' = vault BY DEF Upgrade
<1>2. job.seen = index /\ index.version = 4 /\ IsIndex(index) /\ IndexOK(index, vault)
  BY <1>1 DEF Inv, Stage, Reads, Seeing
<1>3. index' = [index EXCEPT !.version = 5, !.anchors = Empty] BY <1>2 DEF Upgrade
<1>4. index'.version = 5 /\ index'.identity = index.identity /\ index'.entries = index.entries
        /\ index'.anchors = Empty /\ IsIndex(index')
  <2>1. PFun(Empty, Receipts, AnchorStates) BY EmptyTyped
  <2>2. QED BY <1>2, <1>3, <2>1 DEF IsIndex
<1>5. Held(index') = Held(index) /\ \A r : ~Confirmed(index', r) BY <1>4 DEF Held, Confirmed, Empty
<1>6. IndexOK(index', vault')
  <2>1. ValidIndex(index') BY <1>2, <1>4, <1>5 DEF IndexOK, ValidIndex, Empty, Held
  <2>2. Opens(index, vault) => Opens(index', vault) BY <1>4, <1>5 DEF Opens, DecryptsAll, Held
  <2>3. QED BY <1>1, <1>2, <1>4, <1>5, <2>1, <2>2 DEF IndexOK
<1>7. /\ job'.pc = "decrypt" /\ job'.seen = index'
      /\ job'.op = job.op /\ job'.pass = job.pass /\ job'.r = job.r /\ job'.want = job.want
      /\ job'.next = job.next /\ job'.made = job.made /\ job'.todo = job.todo
      /\ Shape(job')
  BY DEF Upgrade, Inv, Stage, JobTyped, Shape
<1>8. JobTyped(job') BY <1>4, <1>7 DEF Inv, Stage, JobTyped, Shape
<1>9. Reads(job', index') BY <1>4, <1>7 DEF Reads, Seeing, Publishing, Cleaning, Migrating
<1>10. Knows(job', index', vault')
  BY <1>2, <1>5, <1>7 DEF Knows, Publishing, Cleaning, Migrating, Identified, IndexOK
<1>11. job'.pc \in Loads \cap Planned /\ job.pc \notin Migrating \cup Publishing \cup Cleaning \cup {"undo"}
  BY <1>1, <1>7 DEF Loads, Migrating, Publishing, Cleaning, Planned
<1>12. IsIndex(index') /\ IsVault(vault') BY <1>1, <1>4 DEF Inv
<1>13. IsChange => job'.pc \in Planned /\ index'.version = 5 /\ index'.entries = index.entries BY <1>4, <1>11
<1>14. job'.pc \in Loads BY <1>11
<1>15. QED BY <1>6, <1>7, <1>8, <1>9, <1>10, <1>11, <1>12, <1>13, <1>14, LoadStep

LEMMA UnlockKeeps == ASSUME Inv, Unlock PROVE Inv'
<1>1. job.pc = "unlock" /\ UNCHANGED <<index, vault>> BY DEF Unlock
<1>2. job.seen = index /\ index.version = 5 BY <1>1 DEF Inv, Stage, Reads, Seeing
<1>3. CASE Fail BY <1>1, <1>3, Fails DEF Cleaning
<1>4. ASSUME NEW p \in {"decrypt", "enroll"}, Goto(p), p = "enroll" => index.identity = NoId,
             p = "decrypt" => (index.identity = vault.identity /\ index.identity # NoId) \/ job.pass = 1
      PROVE Inv'
  <2>1. /\ JobTyped(job') /\ job'.pc = p
        /\ job'.op = job.op /\ job'.pass = job.pass /\ job'.r = job.r /\ job'.seen = job.seen
        /\ job'.want = job.want /\ job'.next = job.next /\ job'.made = job.made /\ job'.todo = job.todo
    BY <1>4, Goes
  <2>2. index.identity = NoId => Held(index) = {} BY <1>2 DEF Inv, IndexOK, ValidIndex, Held
  <2>3. Reads(job', index') BY <1>1, <1>2, <1>4, <2>1, <2>2 DEF Reads, Seeing, Publishing, Cleaning, Migrating
  <2>4. Knows(job', index', vault')
    BY <1>1, <1>4, <2>1 DEF Knows, Publishing, Cleaning, Migrating, Identified
  <2>5. job'.pc \in Loads /\ job'.pc \in Planned /\ job.pc \notin Migrating \cup Publishing \cup Cleaning \cup {"undo"}
    BY <1>1, <1>4, <2>1 DEF Loads, Migrating, Publishing, Cleaning, Planned
  <2>6. IndexOK(index', vault') /\ IsIndex(index') /\ IsVault(vault') BY <1>1 DEF Inv
  <2>7. QED BY <1>1, <1>2, <2>1, <2>3, <2>4, <2>5, <2>6, LoadStep
<1>5. job.pass \in {1, 2} BY DEF Inv, Stage, JobTyped, Shape
<1>6. Fail \/ (Goto("decrypt") /\ index.identity = vault.identity /\ index.identity # NoId)
        \/ (Goto("decrypt") /\ job.pass = 1) \/ (Goto("enroll") /\ index.identity = NoId)
  BY <1>2, <1>5 DEF Unlock
<1>7. QED BY <1>3, <1>4, <1>6

LEMMA DecryptKeeps == ASSUME Inv, Decrypt PROVE Inv'
<1>1. job.pc = "decrypt" /\ UNCHANGED <<index, vault>> BY DEF Decrypt
<1>2. job.seen = index /\ index.version = 5 BY <1>1 DEF Inv, Stage, Reads, Seeing
<1>3. CASE Fail BY <1>1, <1>3, Fails DEF Cleaning
<1>4. CASE DecryptsAll(index, vault) /\ Goto("loaded")
  <2>1. /\ JobTyped(job') /\ job'.pc = "loaded"
        /\ job'.op = job.op /\ job'.pass = job.pass /\ job'.r = job.r /\ job'.seen = job.seen
        /\ job'.want = job.want /\ job'.next = job.next /\ job'.made = job.made /\ job'.todo = job.todo
    BY <1>4, Goes
  <2>2. ValidIndex(index) /\ (vault = WipedVault \/ Opens(index, vault)) BY <1>2 DEF Inv, IndexOK
  <2>3. Opens(index, vault)
    <3>1. CASE Held(index) = {} BY <3>1 DEF Opens, DecryptsAll, Held
    <3>2. CASE Held(index) # {} BY <1>4, <2>2, <3>2, OpensIsNotWiped
    <3>3. QED BY <3>1, <3>2
  <2>4. job.pass = 2 => Identified(index, vault)
    <3>1. CASE Held(index) = {} BY <1>1, <3>1 DEF Inv, Stage, Knows
    <3>2. CASE Held(index) # {} BY <2>2, <2>3, <3>2 DEF Identified, Opens, ValidIndex, Held
    <3>3. QED BY <3>1, <3>2
  <2>5. Reads(job', index') BY <1>1, <1>2, <2>1 DEF Reads, Seeing, Publishing, Cleaning, Migrating
  <2>6. Knows(job', index', vault')
    BY <1>1, <2>1, <2>3, <2>4 DEF Knows, Publishing, Cleaning, Migrating
  <2>7. job'.pc \in Loads /\ job'.pc \in Planned /\ job.pc \notin Migrating \cup Publishing \cup Cleaning \cup {"undo"}
    BY <1>1, <2>1 DEF Loads, Migrating, Publishing, Cleaning, Planned
  <2>8. IndexOK(index', vault') /\ IsIndex(index') /\ IsVault(vault') BY <1>1 DEF Inv
  <2>9. QED BY <1>1, <1>2, <2>1, <2>5, <2>6, <2>7, <2>8, LoadStep
<1>5. QED BY <1>2, <1>3, <1>4 DEF Decrypt

-----------------------------------------------------------------------------
\* Migrating a plaintext value.

\* A step of a migration leaves the index, which is not encrypted, alone.
LEMMA MigrationStep ==
  ASSUME Inv, job.pc \in {"openJournal"} \cup Migrating, index' = index, IsVault(vault'),
         vault'.identity = vault.identity, JobTyped(job'), job'.pc \in Migrating,
         job'.op = job.op, job'.pass = job.pass, job'.seen = job.seen, job'.made = job.made,
         Ready(job', index, vault')
  PROVE  Inv'
<1>1. index.version = 3 /\ job.seen = index /\ vault.identity # NoId /\ job.made = {} /\ ~IsChange
        /\ (job.op = "import" => job.pass = 2)
  BY DEF Inv, Stage, Reads, Knows, Plans, Staged, Seeing, Migrating, Publishing, Cleaning, IsChange, Planned
<1>2. Reads(job', index) BY <1>1 DEF Reads, Seeing, Migrating, Publishing, Cleaning
<1>3. Knows(job', index, vault') BY <1>1 DEF Knows, Migrating, Publishing, Cleaning
<1>4. Plans(job', index) BY <1>1 DEF Plans, IsChange, Migrating
<1>5. Staged(job', index) BY <1>1 DEF Staged, Migrating, Publishing, Cleaning
<1>6. Cleans(job', index) BY DEF Cleans, Migrating, Cleaning
<1>7. IndexOK(index, vault') BY <1>1 DEF Inv, IndexOK
<1>8. QED BY <1>2, <1>3, <1>4, <1>5, <1>6, <1>7 DEF Inv, Stage

\* A journal is no artifact.
LEMMA JournalPut ==
  ASSUME Inv, NEW f, PFun(f, Receipts, Entries), PutJournal(f)
  PROVE  IsVault(vault') /\ Preserves(vault, vault')
<1>1. /\ vault'.keys = vault.keys /\ vault'.blobs = vault.blobs /\ vault'.identity = vault.identity
      /\ vault'.logged = TRUE /\ vault'.journal = f
      /\ vault' = [identity |-> vault'.identity, keys |-> vault'.keys, blobs |-> vault'.blobs,
                   logged |-> vault'.logged, journal |-> vault'.journal]
  BY DEF Inv, IsVault, PutJournal
<1>2. IsVault(vault') BY <1>1 DEF Inv, IsVault
<1>3. Preserves(vault, vault') BY <1>1 DEF Preserves, Decrypts
<1>4. QED BY <1>2, <1>3

LEMMA OpenJournalKeeps == ASSUME Inv, OpenJournal PROVE Inv'
<1>1. job.pc = "openJournal" /\ index' = index /\ PutJournal(Empty) BY DEF OpenJournal
<1>2. IsVault(vault') /\ Preserves(vault, vault') BY <1>1, EmptyTyped, JournalPut
<1>3. /\ job'.pc = "migrate" /\ job'.op = job.op /\ job'.pass = job.pass /\ job'.r = job.r /\ job'.seen = job.seen
      /\ job'.next = job.next /\ job'.made = job.made /\ job'.todo = job.todo
      /\ Shape(job')
  BY DEF OpenJournal, Inv, Stage, JobTyped, Shape
<1>4. JobTyped(job') BY <1>3 DEF Inv, Stage, JobTyped, Shape
<1>5. DOMAIN job.next = {} BY <1>1 DEF Inv, Stage, Staged, Migrating, Publishing, Cleaning
<1>6. Ready(job', index, vault') BY <1>3, <1>5 DEF Ready
<1>7. vault'.identity = vault.identity BY <1>2 DEF Preserves
<1>8. QED BY <1>1, <1>2, <1>3, <1>4, <1>6, <1>7, MigrationStep DEF Migrating

LEMMA LogMigratedKeeps == ASSUME Inv, LogMigrated PROVE Inv'
<1>1. job.pc = "log" /\ index' = index /\ PutJournal(job.next) /\ Goto("migrate") BY DEF LogMigrated
<1>2. IsVault(vault') /\ Preserves(vault, vault')
  <2>1. PFun(job.next, Receipts, Entries) BY DEF Inv, Stage, JobTyped, Shape
  <2>2. QED BY <1>1, <2>1, JournalPut
<1>3. /\ JobTyped(job') /\ job'.pc = "migrate"
      /\ job'.op = job.op /\ job'.pass = job.pass /\ job'.r = job.r /\ job'.seen = job.seen
      /\ job'.want = job.want /\ job'.next = job.next /\ job'.made = job.made /\ job'.todo = job.todo
  BY <1>1, Goes
<1>4. Ready(job, index, vault) BY <1>1 DEF Inv, Stage, Migrating
<1>5. Ready(job', index, vault') BY <1>1, <1>2, <1>3, <1>4 DEF Ready, Preserves, Migrating
<1>6. vault'.identity = vault.identity BY <1>2 DEF Preserves
<1>7. QED BY <1>1, <1>2, <1>3, <1>5, <1>6, MigrationStep DEF Migrating

LEMMA MigrateReceiptKeeps == ASSUME Inv, NEW r \in Receipts, MigrateReceipt(r) PROVE Inv'
<1> DEFINE c == job.seen.entries[r].content
<1>1. job.pc = "migrate" /\ index' = index /\ r \in Held(job.seen) BY DEF MigrateReceipt
<1>2. job.seen = index BY <1>1 DEF Inv, Stage, Reads, Seeing
<1>3. c \in Contents BY <1>1, <1>2, EntryTyped DEF Entries, Inv
<1>4. Ready(job, index, vault) BY <1>1 DEF Inv, Stage, Migrating
<1>5. ASSUME NEW e, IsVault(vault'), Preserves(vault, vault'), Decrypts(vault', r, e), e.content = c, e \in Entries,
             job' = [job EXCEPT !.pc = "log", !.next = With(@, r, e)]
      PROVE Inv'
  <2>1. /\ job'.pc = "log" /\ job'.op = job.op /\ job'.pass = job.pass /\ job'.r = job.r /\ job'.seen = job.seen
        /\ job'.want = job.want /\ job'.next = With(job.next, r, e) /\ job'.made = job.made /\ job'.todo = job.todo
        /\ Shape(job')
    BY <1>5 DEF Inv, Stage, JobTyped, Shape
  <2>2. PFun(job'.next, Receipts, Entries) BY <1>5, <2>1, WithTyped DEF Inv, Stage, JobTyped, Shape
  <2>3. JobTyped(job') BY <2>1, <2>2 DEF Inv, Stage, JobTyped, Shape
  <2>4. ASSUME NEW s \in DOMAIN job'.next
        PROVE  /\ Decrypts(vault', s, job'.next[s])
               /\ s \in Held(index) /\ job'.next[s].content = index.entries[s].content
    <3>1. CASE s = r BY <1>1, <1>2, <1>5, <2>1, <3>1 DEF With
    <3>2. CASE s # r
      <4>1. s \in DOMAIN job.next /\ job'.next[s] = job.next[s] BY <2>1, <2>4, <3>2 DEF With
      <4>2. QED BY <1>1, <1>4, <1>5, <4>1 DEF Ready, Preserves, Migrating
    <3>3. QED BY <3>1, <3>2
  <2>5. Ready(job', index, vault') BY <2>1, <2>4 DEF Ready
  <2>6. vault'.identity = vault.identity BY <1>5 DEF Preserves
  <2>7. QED BY <1>1, <1>5, <2>1, <2>3, <2>5, <2>6, MigrationStep DEF Migrating
<1>6. CASE Reusable(r)
  <2> DEFINE e == Entry(job.want[r].blob, job.want[r].key, c, "LOCAL")
  <2>1. job' = [job EXCEPT !.pc = "log", !.next = With(@, r, e)] /\ vault' = vault BY <1>6 DEF MigrateReceipt
  <2>2. Decrypts(vault, r, e) BY <1>6 DEF Reusable
  <2>3. e.blob \in Ids /\ e.key \in Ids BY <2>2, ArtifactsTyped DEF Inv
  <2>4. e.content = c /\ e \in Entries BY <1>3, <2>3 DEF Entry, Entries, Owners
  <2>5. Preserves(vault, vault') /\ IsVault(vault') BY <2>1 DEF Preserves, Inv
  <2> HIDE DEF e
  <2>6. QED BY <1>5, <2>1, <2>2, <2>4, <2>5
<1>7. CASE ~Reusable(r)
  <2>1. PICK i \in NewIds :
          /\ Put(i, i, r, c, "LOCAL", FALSE)
          /\ job' = [job EXCEPT !.pc = "log", !.next = With(@, r, Entry(i, i, c, "LOCAL"))]
    BY <1>7 DEF MigrateReceipt
  <2> DEFINE e == Entry(i, i, c, "LOCAL")
  <2>2. i \in Ids /\ i \notin DOMAIN vault.keys /\ i \notin DOMAIN vault.blobs BY NewIsUnused
  <2>3. IsVault(vault') /\ Preserves(vault, vault') /\ Decrypts(vault', r, e)
    BY <1>3, <2>1, <2>2, PutPreserves DEF Owners, Inv
  <2>4. e.content = c /\ e \in Entries BY <1>3, <2>2 DEF Entry, Entries, Owners
  <2>5. job' = [job EXCEPT !.pc = "log", !.next = With(@, r, e)] BY <2>1
  <2> HIDE DEF e
  <2>6. QED BY <1>5, <2>3, <2>4, <2>5
<1>8. QED BY <1>6, <1>7

LEMMA PublishMigratedKeeps == ASSUME Inv, PublishMigrated PROVE Inv'
<1>1. job.pc = "migrate" /\ vault' = vault /\ DOMAIN job.next = Held(job.seen) BY DEF PublishMigrated
<1>2. job.seen = index /\ vault.identity # NoId /\ Ready(job, index, vault) /\ ~IsChange
        /\ (job.op = "import" => job.pass = 2) /\ job.made = {}
  BY <1>1 DEF Inv, Stage, Reads, Knows, Plans, Staged, Seeing, Migrating, Publishing, Cleaning, IsChange, Planned
<1>3. index' = [version |-> 5, identity |-> vault.identity, entries |-> job.next, anchors |-> Empty]
  BY DEF PublishMigrated
<1>4. IsIndex(index') /\ index'.version = 5 /\ index'.identity = vault.identity /\ index'.entries = job.next
        /\ index'.anchors = Empty
  <2>1. PFun(Empty, Receipts, AnchorStates) BY EmptyTyped
  <2>2. QED BY <1>3, <2>1 DEF Inv, IsIndex, IsVault, Stage, JobTyped, Shape
<1>5. Opens(index', vault)
  BY <1>2, <1>4 DEF Opens, DecryptsAll, Ready, Held, Confirmed, Empty
<1>6. ValidIndex(index')
  <2>1. Cardinality(DOMAIN index'.entries) <= MaxReceipts BY <1>1, <1>2, <1>4 DEF Inv, IndexOK
  <2>2. \A s, t \in DOMAIN index'.entries :
          s # t => index'.entries[s].blob # index'.entries[t].blob /\ index'.entries[s].key # index'.entries[t].key
    BY <1>2, <1>4, DecryptedAreDistinct DEF Ready
  <2>3. QED BY <1>2, <1>4, <2>1, <2>2 DEF ValidIndex, Empty
<1>7. IndexOK(index', vault') BY <1>1, <1>4, <1>5, <1>6 DEF IndexOK, ValidIndex, Held
<1>8. /\ job'.pc = "dropJournal" /\ job'.seen = index'
      /\ job'.op = job.op /\ job'.pass = job.pass /\ job'.r = job.r
      /\ job'.next = Empty /\ job'.made = job.made /\ job'.todo = job.todo
      /\ Shape(job')
  BY DEF PublishMigrated, Inv, Stage, JobTyped, Shape
<1>9. JobTyped(job')
  <2>1. PFun(Empty, Receipts, Entries) BY EmptyTyped
  <2>2. QED BY <1>4, <1>8, <2>1 DEF Inv, Stage, JobTyped, Shape
<1>10. Reads(job', index') BY <1>4, <1>8 DEF Reads, Seeing, Publishing, Cleaning, Migrating
<1>11. Knows(job', index', vault')
  BY <1>1, <1>2, <1>4, <1>5, <1>8 DEF Knows, Publishing, Cleaning, Migrating, Identified
<1>12. Plans(job', index') BY <1>2, <1>8 DEF Plans, IsChange
<1>13. Staged(job', index') BY <1>2, <1>8 DEF Staged, Publishing, Cleaning, Migrating, Empty
<1>14. Cleans(job', index') BY <1>8 DEF Cleans, Cleaning
<1>15. job'.pc \notin Migrating \cup Publishing BY <1>8 DEF Migrating, Publishing
<1>16. QED BY <1>1, <1>4, <1>7, <1>9, <1>10, <1>11, <1>12, <1>13, <1>14, <1>15 DEF Inv, Stage

LEMMA DropJournalKeeps == ASSUME Inv, DropJournal PROVE Inv'
<1>1. job.pc = "dropJournal" /\ index' = index /\ Goto("loaded") BY DEF DropJournal
<1>2. job.seen = index /\ index.version = 5 /\ Opens(index, vault) /\ Identified(index, vault)
  BY <1>1 DEF Inv, Stage, Reads, Knows, Seeing
<1>3. /\ vault'.keys = vault.keys /\ vault'.blobs = vault.blobs /\ vault'.identity = vault.identity
      /\ vault'.logged = FALSE /\ vault'.journal = Empty
      /\ vault' = [identity |-> vault'.identity, keys |-> vault'.keys, blobs |-> vault'.blobs,
                   logged |-> vault'.logged, journal |-> vault'.journal]
  BY DEF Inv, IsVault, DropJournal
<1>4. IsVault(vault')
  <2>1. PFun(Empty, Receipts, Entries) BY EmptyTyped
  <2>2. QED BY <1>3, <2>1 DEF Inv, IsVault
<1>5. Opens(index, vault') BY <1>2, <1>3 DEF Opens, DecryptsAll, Decrypts, Held
<1>6. IndexOK(index', vault') BY <1>1, <1>2, <1>5 DEF Inv, IndexOK
<1>7. /\ JobTyped(job') /\ job'.pc = "loaded"
      /\ job'.op = job.op /\ job'.pass = job.pass /\ job'.r = job.r /\ job'.seen = job.seen
      /\ job'.want = job.want /\ job'.next = job.next /\ job'.made = job.made /\ job'.todo = job.todo
  BY <1>1, Goes
<1>8. Reads(job', index') BY <1>1, <1>2, <1>7 DEF Reads, Seeing, Publishing, Cleaning, Migrating
<1>9. Knows(job', index', vault')
  BY <1>1, <1>2, <1>3, <1>5, <1>7 DEF Knows, Publishing, Cleaning, Migrating, Identified
<1>10. ~IsChange BY <1>1 DEF Inv, Stage, Plans, Planned, IsChange
<1>11. job'.pc \in Loads /\ job.pc \notin Migrating \cup Publishing \cup Cleaning \cup {"undo"}
  BY <1>1, <1>7 DEF Loads, Migrating, Publishing, Cleaning
<1>12. IsIndex(index') BY <1>1 DEF Inv
<1>13. QED BY <1>4, <1>6, <1>7, <1>8, <1>9, <1>10, <1>11, <1>12, LoadStep

-----------------------------------------------------------------------------
\* What an operation makes of the loaded state.

LEMMA BegunStage ==
  ASSUME NEW op \in Operations, Begin(op)
  PROVE  /\ Stage(job', index, vault) /\ UNCHANGED <<index, vault>>
         /\ job'.pc \in {"wipe", "read"} /\ (job'.pass = 2 => job'.op = "import")
<1>1. UNCHANGED <<index, vault>> BY DEF Begin
<1> DEFINE p == IF op = "deleteAll" THEN "wipe" ELSE "read"
           n == IF op = "import" THEN 2 ELSE 1
<1>2. /\ job'.op = op /\ job'.pc = p /\ job'.pass = n /\ job'.r = {} /\ job'.seen = NoValue /\ job'.want = Empty
      /\ job'.next = Empty /\ job'.made = {} /\ job'.todo = {}
      /\ Shape(job')
  BY DEF Begin, Idle, Shape
<1>3. p \in {"wipe", "read"} /\ n \in {1, 2} /\ (n = 2 <=> op = "import") /\ (p = "wipe" => op = "deleteAll")
  OBVIOUS
<1> HIDE DEF p, n
<1>4. IsIndex(NoValue) BY EmptyTyped DEF IsIndex, NoValue
<1>5. PFun(Empty, Receipts, Entries) BY EmptyTyped
<1>6. JobTyped(job') BY <1>2, <1>3, <1>4, <1>5 DEF JobTyped, Shape
<1>7. Reads(job', index) BY <1>2, <1>3 DEF Reads, Seeing, Migrating, Publishing, Cleaning
<1>8. Knows(job', index, vault) BY <1>2, <1>3 DEF Knows, Migrating, Publishing, Cleaning
<1>9. Plans(job', index) BY <1>2, <1>3 DEF Plans, Changes
<1>10. Staged(job', index) BY <1>2, <1>3 DEF Staged, Migrating, Publishing, Cleaning, Empty
<1>11. Cleans(job', index) BY <1>2, <1>3 DEF Cleans, Cleaning
<1>12. job'.pc \notin Migrating \cup Publishing BY <1>2, <1>3 DEF Migrating, Publishing
<1>13. QED BY <1>1, <1>2, <1>3, <1>6, <1>7, <1>8, <1>9, <1>10, <1>11, <1>12 DEF Stage

LEMMA BeginKeeps == ASSUME Inv, NEW op \in Operations, Begin(op) PROVE Inv'
BY BegunStage DEF Inv

LEMMA LoadedKnows ==
  ASSUME Inv, job.pc = "loaded"
  PROVE  /\ job.seen = index /\ index.version = 5 /\ ValidIndex(index) /\ Opens(index, vault)
         /\ job.pass = 2 => Identified(index, vault)
         /\ job.made = {} /\ DOMAIN job.next = {}
         /\ job.op = "import" => job.pass = 2
         /\ IsChange => /\ PFun(job.want, Receipts, Contents) /\ Cardinality(DOMAIN job.want) <= MaxReceipts
                        /\ Keeps(job, index)
BY DEF Inv, IndexOK, Stage, Reads, Knows, Plans, Staged, Seeing, Migrating, Publishing, Cleaning, IsChange

LEMMA PlanKeeps ==
  ASSUME Inv, job.pc = "loaded", job.op \in Changes, NEW R \in SUBSET Receipts, NEW want, Plan(R, want),
         PFun(want, Receipts, Contents), Cardinality(DOMAIN want) <= MaxReceipts,
         \A r \in Held(index) :
           \/ job.op = "remove" /\ r \in R
           \/ r \in DOMAIN want /\ (index.entries[r].content = "CONFIRMED" => want[r] = "CONFIRMED")
  PROVE  Inv'
<1>1. UNCHANGED <<index, vault>> BY DEF Plan
<1>2. /\ job'.op = job.op /\ job'.pc = "read" /\ job'.pass = 2 /\ job'.r = R /\ job'.seen = job.seen
      /\ job'.want = want /\ job'.next = job.next /\ job'.made = job.made /\ job'.todo = job.todo
      /\ Shape(job')
  BY DEF Plan, Inv, Stage, JobTyped, Shape
<1>3. index.version = 5 /\ job.made = {} /\ DOMAIN job.next = {} BY LoadedKnows
<1>4. JobTyped(job') BY <1>2 DEF Inv, Stage, JobTyped, Shape
<1>5. Reads(job', index) BY <1>2 DEF Reads, Seeing, Migrating, Publishing, Cleaning
<1>6. Knows(job', index, vault) BY <1>2 DEF Knows, Migrating, Publishing, Cleaning
<1>7. Keeps(job', index) BY <1>2 DEF Keeps
<1>8. Plans(job', index) BY <1>2, <1>3, <1>7 DEF Plans, Planned
<1>9. Staged(job', index) BY <1>2, <1>3 DEF Staged, Migrating, Publishing, Cleaning
<1>10. Cleans(job', index) BY <1>2 DEF Cleans, Cleaning
<1>11. job'.pc \notin Migrating \cup Publishing BY <1>2 DEF Migrating, Publishing
<1>12. QED BY <1>1, <1>4, <1>5, <1>6, <1>8, <1>9, <1>10, <1>11 DEF Inv, Stage

LEMMA PlanChangeKeeps == ASSUME Inv, PlanChange PROVE Inv'
<1>1. ASSUME Finish, UNCHANGED <<index, vault>> PROVE Inv' BY <1>1, Finishes DEF Inv
<1>2. ASSUME LoadedOnly \/ CaptureRefused \/ NoContext PROVE Inv' BY <1>1, <1>2 DEF LoadedOnly, CaptureRefused, NoContext
<1>3. ASSUME job.pc = "loaded"
      PROVE  /\ PFun(Now, Receipts, Contents) /\ DOMAIN Now = Held(index) /\ Held(index) \subseteq Receipts
             /\ \A r \in Held(index) : Now[r] = index.entries[r].content
             /\ IsFiniteSet(Held(index)) /\ Cardinality(Held(index)) \in Nat /\ Cardinality(Held(index)) <= MaxReceipts
  <2>1. job.seen = index BY <1>3, LoadedKnows
  <2>2. IsFiniteSet(Held(index)) /\ Held(index) \subseteq Receipts BY HeldFinite DEF Inv
  <2>3. Cardinality(Held(index)) \in Nat BY <2>2, FS_CardinalityType
  <2>4. \A r \in Held(index) : index.entries[r].content \in Contents BY EntryTyped DEF Inv, Entries
  <2>5. QED BY <2>1, <2>2, <2>3, <2>4 DEF Now, PFun, Inv, IndexOK
<1>4. CASE PlanCapture
  <2>1. job.pc = "loaded" /\ job.op = "capture" BY <1>4 DEF PlanCapture, Loaded
  <2>2. job.seen = index BY <2>1, LoadedKnows
  <2>3. PICK r \in Receipts \ Held(index), S \in {{}} \cup {{s} : s \in Active} :
          Plan({r}, [x \in Held(index) \cup {r} |->
                       IF x = r THEN "ACTIVE" ELSE IF x \in S THEN "CLOSED" ELSE Now[x]])
    BY <1>4, <2>2 DEF PlanCapture
  <2> DEFINE want == [x \in Held(index) \cup {r} |-> IF x = r THEN "ACTIVE" ELSE IF x \in S THEN "CLOSED" ELSE Now[x]]
  <2>4. Cardinality(DOMAIN want) <= MaxReceipts
    <3>1. Cardinality(Held(index) \cup {r}) = Cardinality(Held(index)) + 1 BY <1>3, <2>1, FS_AddElement
    <3>2. Cardinality(Held(index)) < MaxReceipts BY <1>4, <2>2 DEF PlanCapture
    <3>3. QED BY <1>3, <2>1, <3>1, <3>2, StorageAssumption
  <2>5. \A s \in S : s \in Held(index) /\ Now[s] = "ACTIVE" BY <2>2 DEF Active
  <2>6. PFun(want, Receipts, Contents) BY <1>3, <2>1 DEF PFun, Contents
  <2>7. \A s \in Held(index) : s \in DOMAIN want /\ (index.entries[s].content = "CONFIRMED" => want[s] = "CONFIRMED")
    BY <1>3, <2>1, <2>5
  <2>8. {r} \in SUBSET Receipts /\ job.op \in Changes BY <2>1 DEF Changes
  <2>9. Plan({r}, want) BY <2>3
  <2> HIDE DEF want
  <2>10. QED BY <2>1, <2>4, <2>6, <2>7, <2>8, <2>9, PlanKeeps
<1>5. CASE PlanContext
  <2>1. job.pc = "loaded" /\ job.op \in {"close", "confirm"} BY <1>5 DEF PlanContext, Loaded
  <2>2. job.seen = index BY <2>1, LoadedKnows
  <2>3. PICK r \in Active : Plan({r}, [Now EXCEPT ![r] = IF job.op = "close" THEN "CLOSED" ELSE "CONFIRMED"])
    BY <1>5 DEF PlanContext
  <2> DEFINE want == [Now EXCEPT ![r] = IF job.op = "close" THEN "CLOSED" ELSE "CONFIRMED"]
  <2>4. r \in Held(index) /\ Now[r] = "ACTIVE" BY <2>2 DEF Active
  <2>5. DOMAIN want = Held(index) /\ PFun(want, Receipts, Contents) BY <1>3, <2>1, <2>4 DEF PFun, Contents
  <2>6. \A s \in Held(index) : s \in DOMAIN want /\ (index.entries[s].content = "CONFIRMED" => want[s] = "CONFIRMED")
    BY <1>3, <2>1, <2>4, <2>5
  <2>7. {r} \in SUBSET Receipts /\ job.op \in Changes BY <1>3, <2>1, <2>4 DEF Changes
  <2>8. Cardinality(DOMAIN want) <= MaxReceipts BY <1>3, <2>1, <2>5
  <2>9. Plan({r}, want) BY <2>3
  <2> HIDE DEF want
  <2>10. QED BY <2>1, <2>5, <2>6, <2>7, <2>8, <2>9, PlanKeeps
<1>6. CASE PlanSettings
  <2>1. job.pc = "loaded" /\ job.op \in Changes /\ Plan({}, Now) BY <1>6 DEF PlanSettings, Loaded, Changes
  <2>2. \A r \in Held(index) : r \in DOMAIN Now /\ (index.entries[r].content = "CONFIRMED" => Now[r] = "CONFIRMED")
    BY <1>3, <2>1
  <2>3. QED BY <1>3, <2>1, <2>2, PlanKeeps
<1>7. CASE PlanRemove
  <2>1. job.pc = "loaded" /\ job.op = "remove" BY <1>7 DEF PlanRemove, Loaded
  <2>2. job.seen = index BY <2>1, LoadedKnows
  <2>3. PICK r \in Receipts : Plan({r}, Without(Now, {r})) \/ (Finish /\ UNCHANGED <<index, vault>>)
    BY <1>7 DEF PlanRemove
  <2>4. CASE Plan({r}, Without(Now, {r}))
    <3>1. DOMAIN Without(Now, {r}) = Held(index) \ {r} BY <1>3, <2>1 DEF Without
    <3>2. Cardinality(Held(index) \ {r}) <= Cardinality(Held(index)) /\ Cardinality(Held(index) \ {r}) \in Nat
      BY <1>3, <2>1, FS_Subset, FS_CardinalityType
    <3>3. Cardinality(DOMAIN Without(Now, {r})) <= MaxReceipts BY <1>3, <2>1, <3>1, <3>2, StorageAssumption
    <3>4. PFun(Without(Now, {r}), Receipts, Contents) BY <1>3, <2>1, WithoutTyped
    <3>5. \A s \in Held(index) : s \in {r} \/ (s \in DOMAIN Without(Now, {r}) /\
            (index.entries[s].content = "CONFIRMED" => Without(Now, {r})[s] = "CONFIRMED"))
      BY <1>3, <2>1, <3>1 DEF Without
    <3>6. {r} \in SUBSET Receipts /\ job.op \in Changes BY <2>1 DEF Changes
    <3>7. QED BY <2>1, <2>4, <3>3, <3>4, <3>5, <3>6, PlanKeeps
  <2>5. QED BY <1>1, <2>3, <2>4
<1>8. QED BY <1>2, <1>4, <1>5, <1>6, <1>7 DEF PlanChange

-----------------------------------------------------------------------------
\* Saving: sign, publish, clean up.

LEMMA OpenSaveKeeps == ASSUME Inv, OpenSave PROVE Inv'
<1> DEFINE f == [r \in Kept |-> job.seen.entries[r]]
<1>1. job.pc = "loaded" /\ job.op \in Changes /\ job.pass = 2 /\ UNCHANGED <<index, vault>>
  BY DEF OpenSave, Loaded
<1>2. /\ job'.pc = "sign" /\ job'.op = job.op /\ job'.pass = job.pass /\ job'.r = job.r /\ job'.seen = job.seen
      /\ job'.want = job.want /\ job'.next = f /\ job'.made = job.made /\ job'.todo = job.todo
      /\ Shape(job')
  <2> HIDE DEF f
  <2> QED BY DEF OpenSave, Inv, Stage, JobTyped, Shape, f
<1>3. /\ job.seen = index /\ index.version = 5 /\ Opens(index, vault) /\ Identified(index, vault) /\ job.made = {}
      /\ PFun(job.want, Receipts, Contents) /\ Cardinality(DOMAIN job.want) <= MaxReceipts /\ Keeps(job, index)
  BY <1>1, LoadedKnows DEF IsChange
<1>4. DOMAIN f = Kept
        /\ \A r \in Kept : /\ r \in Held(index) /\ r \in DOMAIN job.want
                           /\ f[r] = index.entries[r] /\ f[r].content = job.want[r]
  BY <1>3 DEF Kept, Unchanged, Now, Held
<1>5. PFun(f, Receipts, Entries)
  <2>1. Held(index) \subseteq Receipts /\ \A r \in Held(index) : index.entries[r] \in Entries
    BY HeldFinite, EntryTyped DEF Inv
  <2>2. QED BY <1>4, <2>1 DEF PFun
<1> HIDE DEF f
<1>6. JobTyped(job') BY <1>2, <1>5 DEF Inv, Stage, JobTyped, Shape
<1>7. Reads(job', index) BY <1>2, <1>3 DEF Reads, Seeing, Migrating, Publishing, Cleaning
<1>8. Knows(job', index, vault) BY <1>2, <1>3 DEF Knows, Migrating, Publishing, Cleaning
<1>9. Plans(job', index)
  <2>1. Keeps(job', index) BY <1>2, <1>3 DEF Keeps
  <2>2. QED BY <1>1, <1>2, <1>3, <2>1 DEF Plans, Planned, Changes
<1>10. Ready(job', index, vault)
  <2>1. \A r \in DOMAIN job'.next :
          /\ Decrypts(vault, r, job'.next[r])
          /\ r \in DOMAIN job'.want /\ job'.next[r].content = job'.want[r]
          /\ Confirmed(index, r) => vault.blobs[job'.next[r].blob].anchored
    BY <1>2, <1>3, <1>4 DEF Opens, DecryptsAll, Held
  <2>2. QED BY <1>1, <1>2, <2>1 DEF Ready, Migrating
<1>11. Staged(job', index) BY <1>2, <1>3 DEF Staged, Publishing
<1>12. Cleans(job', index) BY <1>2 DEF Cleans, Cleaning
<1>13. QED BY <1>1, <1>6, <1>7, <1>8, <1>9, <1>10, <1>11, <1>12 DEF Inv, Stage

\* While a job signs or publishes, the index is as it was loaded.
LEMMA PublishingKnows ==
  ASSUME Inv, job.pc \in Publishing
  PROVE  /\ job.seen = index /\ index.version = 5 /\ ValidIndex(index) /\ Opens(index, vault)
         /\ job.pass = 2 => Identified(index, vault)
         /\ Ready(job, index, vault)
         /\ \A m \in job.made : m.blob \notin BlobsOf(index) /\ (m.new => m.key \notin KeysOf(index))
BY DEF Inv, IndexOK, Stage, Reads, Knows, Staged, Seeing, Publishing

LEMMA SignKeeps == ASSUME Inv, NEW r \in Receipts, Sign(r) PROVE Inv'
<1> DEFINE known == r \in Held(job.seen)
<1>1. job.pc = "sign" /\ index' = index /\ r \in DOMAIN job.want \ DOMAIN job.next BY DEF Sign
<1>2. /\ job.seen = index /\ index.version = 5 /\ Opens(index, vault) /\ Identified(index, vault)
      /\ Ready(job, index, vault) /\ job.op \in Changes /\ job.pass = 2
      /\ \A m \in job.made : m.blob \notin BlobsOf(index) /\ (m.new => m.key \notin KeysOf(index))
  BY <1>1, PublishingKnows DEF Publishing, Ready
<1>3. PFun(job.want, Receipts, Contents) /\ Cardinality(DOMAIN job.want) <= MaxReceipts /\ Keeps(job, index)
  BY <1>1, <1>2 DEF Inv, Stage, Plans, Cleaning
<1>4. PICK b \in NewIds :
        LET k == IF known THEN job.seen.entries[r].key ELSE b IN
        /\ Put(b, k, r, job.want[r], "LOCAL", IF known THEN SignAnchors(r) ELSE FALSE)
        /\ job' = [job EXCEPT !.next = With(@, r, Entry(b, k, job.want[r], "LOCAL")),
                              !.made = @ \cup {[blob |-> b, key |-> k, new |-> ~known]}]
  BY DEF Sign, SignBlob
<1> DEFINE k == IF known THEN index.entries[r].key ELSE b
           c == job.want[r]
           a == IF known THEN vault.blobs[index.entries[r].blob].anchored ELSE FALSE
           e == Entry(b, k, c, "LOCAL")
           m == [blob |-> b, key |-> k, new |-> ~known]
<1>5. b \in Ids /\ b \notin DOMAIN vault.keys /\ b \notin DOMAIN vault.blobs /\ b \notin BlobsOf(index) /\ b \notin KeysOf(index)
  BY NewIsUnused
<1>6. known => Decrypts(vault, r, index.entries[r]) BY <1>2 DEF Opens, DecryptsAll, Held
<1>7. k \in Ids /\ (k \in DOMAIN vault.keys => vault.keys[k] = r) /\ a \in BOOLEAN
  <2>1. CASE known
    <3>1. index.entries[r].key \in Ids /\ vault.blobs[index.entries[r].blob] \in Blobs
      BY <1>6, <2>1, ArtifactsTyped DEF Inv
    <3>2. QED BY <1>6, <2>1, <3>1 DEF Decrypts, Blobs
  <2>2. CASE ~known BY <1>5, <2>2
  <2>3. QED BY <2>1, <2>2
<1>8. c \in Contents BY <1>1, <1>3 DEF PFun
<1>9. Put(b, k, r, c, "LOCAL", a) /\ job' = [job EXCEPT !.next = With(@, r, e), !.made = @ \cup {m}]
  BY <1>2, <1>4 DEF SignAnchors
<1> HIDE DEF k, a, c
<1>10. IsVault(vault') /\ Preserves(vault, vault') /\ Decrypts(vault', r, e) /\ vault'.blobs[b].anchored = a
  <2>1. "LOCAL" \in Owners BY DEF Owners
  <2>2. QED BY <1>5, <1>7, <1>8, <1>9, <2>1, PutPreserves DEF Inv
<1>11. e \in Entries /\ e.blob = b /\ e.content = c /\ m \in Artifacts BY <1>5, <1>7, <1>8 DEF Entry, Entries, Owners, Artifacts
<1>12. m.blob = b /\ (m.new => m.key = b) BY DEF k
<1> HIDE DEF e, m
<1>13. /\ job'.pc = "sign" /\ job'.op = job.op /\ job'.pass = job.pass /\ job'.r = job.r /\ job'.seen = job.seen
       /\ job'.want = job.want /\ job'.next = With(job.next, r, e) /\ job'.made = job.made \cup {m} /\ job'.todo = job.todo
       /\ Shape(job')
  BY <1>1, <1>9 DEF Inv, Stage, JobTyped, Shape
<1>14. JobTyped(job')
  <2>1. PFun(job'.next, Receipts, Entries) BY <1>11, <1>13, WithTyped DEF Inv, Stage, JobTyped, Shape
  <2>2. QED BY <1>11, <1>13, <2>1 DEF Inv, Stage, JobTyped, Shape
<1>15. Opens(index, vault') BY <1>2, <1>10, PreservesOpen
<1>16. IndexOK(index, vault') BY <1>2, <1>15 DEF Inv, IndexOK
<1>17. Reads(job', index) BY <1>2, <1>13 DEF Reads, Seeing, Migrating, Publishing, Cleaning
<1>18. Knows(job', index, vault')
  BY <1>2, <1>10, <1>13, <1>15 DEF Knows, Migrating, Publishing, Cleaning, Identified, Preserves
<1>19. Plans(job', index)
  <2>1. Keeps(job', index) BY <1>3, <1>13 DEF Keeps
  <2>2. QED BY <1>2, <1>3, <1>13, <2>1 DEF Plans, Planned, Changes
<1>20. Ready(job', index, vault')
  <2>1. ASSUME NEW s \in DOMAIN job'.next
        PROVE  /\ Decrypts(vault', s, job'.next[s])
               /\ s \in DOMAIN job.want /\ job'.next[s].content = job.want[s]
               /\ Confirmed(index, s) => vault'.blobs[job'.next[s].blob].anchored
    <3>1. CASE s = r
      <4>1. job'.next[s] = e BY <1>13, <3>1 DEF With
      <4>2. Confirmed(index, r) => known /\ a
        <5>1. Confirmed(index, r) => r \in Held(index)
          BY <1>1, PublishingKnows DEF Confirmed, ValidIndex, Held, Publishing
        <5>2. QED BY <1>2, <5>1 DEF Opens, a
      <4>3. QED BY <1>1, <1>10, <1>11, <3>1, <4>1, <4>2 DEF c
    <3>2. CASE s # r
      <4>1. s \in DOMAIN job.next /\ job'.next[s] = job.next[s] BY <1>13, <2>1, <3>2 DEF With
      <4>2. Decrypts(vault, s, job.next[s]) BY <1>2, <4>1 DEF Ready
      <4>3. QED BY <1>1, <1>2, <1>10, <4>1, <4>2 DEF Ready, Preserves
    <3>3. QED BY <3>1, <3>2
  <2>2. QED BY <1>2, <1>13, <2>1 DEF Ready, Migrating
<1>21. Staged(job', index) BY <1>2, <1>5, <1>12, <1>13 DEF Staged, Publishing
<1>22. Cleans(job', index) BY <1>13 DEF Cleans, Cleaning
<1>23. QED BY <1>1, <1>10, <1>14, <1>16, <1>17, <1>18, <1>19, <1>20, <1>21, <1>22 DEF Inv, Stage

(* An index of entries that decrypt is readable.                            *)
LEMMA PublishedIsFine ==
  ASSUME Inv, job.pc \in Publishing, IsIndex(index'), index'.version = 5, index'.entries = job.next,
         index'.identity = vault.identity, vault.identity # NoId,
         Cardinality(DOMAIN job.next) <= MaxReceipts, DOMAIN index'.anchors \subseteq DOMAIN job.next,
         \A r \in DOMAIN job.next : Confirmed(index', r) => vault.blobs[job.next[r].blob].anchored
  PROVE  IndexOK(index', vault) /\ Opens(index', vault)
<1>1. \A r \in DOMAIN job.next : Decrypts(vault, r, job.next[r]) BY PublishingKnows DEF Ready
<1>2. \A r, s \in DOMAIN job.next :
        r # s => job.next[r].blob # job.next[s].blob /\ job.next[r].key # job.next[s].key
  BY <1>1, DecryptedAreDistinct
<1>3. ValidIndex(index') BY <1>2 DEF ValidIndex
<1>4. Opens(index', vault) BY <1>1 DEF Opens, DecryptsAll, Held
<1>5. QED BY <1>3, <1>4 DEF IndexOK, Held

LEMMA PublishSaveKeeps == ASSUME Inv, PublishSave PROVE Inv'
<1>1. job.pc = "sign" /\ vault' = vault /\ DOMAIN job.next = DOMAIN job.want BY DEF PublishSave
<1>2. /\ job.seen = index /\ ValidIndex(index) /\ Opens(index, vault) /\ Identified(index, vault)
      /\ Ready(job, index, vault) /\ job.op \in Changes /\ job.pass = 2
  BY <1>1, PublishingKnows DEF Publishing, Ready
<1>3. PFun(job.want, Receipts, Contents) /\ Cardinality(DOMAIN job.want) <= MaxReceipts
  BY <1>1, <1>2 DEF Inv, Stage, Plans
<1> DEFINE anchors == Without(index.anchors, Held(index) \ DOMAIN job.next)
<1>4. index' = [version |-> 5, identity |-> vault.identity, entries |-> job.next, anchors |-> anchors]
  BY <1>2 DEF PublishSave
<1>5. DOMAIN anchors \subseteq DOMAIN job.next /\ PFun(anchors, Receipts, AnchorStates)
        /\ \A r \in DOMAIN anchors : r \in DOMAIN index.anchors /\ anchors[r] = index.anchors[r]
  <2>1. PFun(index.anchors, Receipts, AnchorStates) BY DEF Inv, IsIndex
  <2>2. PFun(anchors, Receipts, AnchorStates) BY <2>1, WithoutTyped
  <2>3. DOMAIN index.anchors \subseteq Held(index) BY <1>2 DEF ValidIndex, Held
  <2>4. QED BY <2>2, <2>3 DEF Without
<1> HIDE DEF anchors
<1>6. IsIndex(index') /\ index'.version = 5 /\ index'.identity = vault.identity /\ index'.entries = job.next
        /\ index'.anchors = anchors
  BY <1>4, <1>5 DEF Inv, IsIndex, IsVault, Stage, JobTyped, Shape
<1>7. \A r \in DOMAIN job.next : Confirmed(index', r) => vault.blobs[job.next[r].blob].anchored
  BY <1>1, <1>2, <1>5, <1>6 DEF Ready, Confirmed
<1>8. IndexOK(index', vault) /\ Opens(index', vault)
  BY <1>1, <1>2, <1>3, <1>5, <1>6, <1>7, PublishedIsFine DEF Publishing, Identified
<1>9. /\ job'.pc = "clean" /\ job'.op = job.op /\ job'.pass = job.pass /\ job'.r = job.r /\ job'.seen = index
      /\ job'.want = job.want /\ job'.next = job.next /\ job'.made = job.made /\ job'.todo = Stale
      /\ Shape(job')
  BY <1>2 DEF PublishSave, Inv, Stage, JobTyped, Shape
<1>10. Stale \subseteq Held(index) /\ Stale \subseteq Receipts
  <2>1. Held(index) \subseteq Receipts BY HeldFinite DEF Inv
  <2>2. QED BY <1>2, <2>1 DEF Stale
<1>11. JobTyped(job') BY <1>9, <1>10 DEF Inv, Stage, JobTyped, Shape
<1>12. \A r \in Stale \cap DOMAIN job.next : index.entries[r].blob \notin BlobsOf(index')
  <2>1. SUFFICES ASSUME NEW r \in Stale \cap DOMAIN job.next, NEW s \in DOMAIN job.next,
                        job.next[s].blob = index.entries[r].blob
                 PROVE FALSE
    BY <1>6 DEF BlobsOf, Held
  <2>2. Decrypts(vault, s, job.next[s]) /\ Decrypts(vault, r, index.entries[r])
    BY <1>2, <1>10 DEF Ready, Opens, DecryptsAll, Held
  <2>3. s = r BY <2>1, <2>2 DEF Decrypts
  <2>4. QED BY <1>2, <2>1, <2>3 DEF Stale
<1>13. Reads(job', index') BY <1>6, <1>9 DEF Reads, Seeing, Migrating, Publishing, Cleaning
<1>14. Knows(job', index', vault) BY <1>8, <1>9 DEF Knows, Migrating, Publishing, Cleaning
<1>15. Plans(job', index') BY <1>2, <1>3, <1>6, <1>9 DEF Plans, Planned, Changes, Cleaning
<1>16. Staged(job', index') BY <1>9 DEF Staged, Migrating, Publishing, Cleaning
<1>17. Cleans(job', index') BY <1>2, <1>6, <1>9, <1>10, <1>12 DEF Cleans, Cleaning, Changes
<1>18. job'.pc \notin Migrating \cup Publishing BY <1>9 DEF Migrating, Publishing
<1>19. QED BY <1>1, <1>6, <1>8, <1>11, <1>13, <1>14, <1>15, <1>16, <1>17, <1>18 DEF Inv, Stage

-----------------------------------------------------------------------------
\* Deleting what the index does not name.

LEMMA CleaningKnows ==
  ASSUME Inv, job.pc \in Cleaning
  PROVE  /\ index.version = 5 /\ Opens(index, vault) /\ index.entries = job.next /\ job.todo \subseteq Held(job.seen)
         /\ \A r \in job.todo \cap DOMAIN job.next : job.seen.entries[r].blob \notin BlobsOf(index)
         /\ job.op = "import" => /\ job.made = {} /\ job.todo \subseteq DOMAIN job.next
                                 /\ \A r \in job.todo : job.seen.entries[r].key \notin KeysOf(index)
BY DEF Inv, Stage, Reads, Knows, Cleans, Cleaning

LEMMA CleanStep ==
  ASSUME Inv, job.pc \in Cleaning, index' = index, IsVault(vault'), Opens(index, vault'), JobTyped(job'),
         job'.pc \in Cleaning, job'.pc = "cleanKey" => job.op = "import",
         job'.op = job.op, job'.pass = job.pass, job'.seen = job.seen, job'.want = job.want,
         job'.next = job.next, job'.made = job.made, job'.todo \subseteq job.todo
  PROVE  Inv'
<1>1. index.version = 5 BY CleaningKnows
<1>2. IndexOK(index, vault') BY <1>1 DEF Inv, IndexOK
<1>3. Reads(job', index) BY <1>1 DEF Reads, Seeing, Migrating, Publishing, Cleaning
<1>4. Knows(job', index, vault') BY DEF Knows, Migrating, Publishing, Cleaning
<1>5. Plans(job', index) /\ ~(job'.op \in Changes /\ job'.pc = "cleanKey")
  BY DEF Inv, Stage, Plans, Planned, Cleaning, Changes
<1>6. Staged(job', index) BY DEF Staged, Migrating, Publishing, Cleaning
<1>7. Cleans(job', index) BY DEF Inv, Stage, Cleans
<1>8. job'.pc \notin Migrating \cup Publishing BY DEF Migrating, Publishing, Cleaning
<1>9. QED BY <1>2, <1>3, <1>4, <1>5, <1>6, <1>7, <1>8 DEF Inv, Stage

\* One artifact or receipt less to clean up.
LEMMA CleanedStep ==
  ASSUME Inv, job.pc \in Cleaning, index' = index, IsVault(vault'), Opens(index, vault'),
         NEW S \in SUBSET job.todo, NEW p \in Cleaning, p = "cleanKey" => job.op = "import",
         job' = [job EXCEPT !.pc = p, !.todo = S]
  PROVE  Inv'
<1>1. /\ job'.pc = p /\ job'.op = job.op /\ job'.pass = job.pass /\ job'.r = job.r /\ job'.seen = job.seen
      /\ job'.want = job.want /\ job'.next = job.next /\ job'.made = job.made /\ job'.todo = S
      /\ Shape(job')
  BY DEF Inv, Stage, JobTyped, Shape
<1>2. JobTyped(job') BY <1>1 DEF Inv, Stage, JobTyped, Shape, Cleaning
<1>3. QED BY <1>1, <1>2, CleanStep

LEMMA CleanSavedKeeps == ASSUME Inv, NEW r \in Receipts, CleanSaved(r) PROVE Inv'
<1>1. job.pc = "clean" /\ r \in job.todo /\ index' = index BY DEF CleanSaved
<1>2. Opens(index, vault) /\ index.entries = job.next
        /\ \A s \in job.todo \cap DOMAIN job.next : job.seen.entries[s].blob \notin BlobsOf(index)
  BY <1>1, CleaningKnows DEF Cleaning
<1>3. job' = [job EXCEPT !.pc = "clean", !.todo = job.todo \ {r}]
  <2>1. job' = [job EXCEPT !.todo = job.todo \ {r}] BY DEF CleanSaved
  <2>2. QED BY <1>1, <2>1 DEF Inv, Stage, JobTyped, Shape
<1>4. IsVault(vault') /\ Opens(index, vault')
  <2>1. CASE r \notin DOMAIN job.next
    <3>1. vault' = DropReceipt(r) BY <2>1 DEF CleanSaved
    <3>2. r \notin Held(index) BY <1>2, <2>1 DEF Held
    <3>3. QED BY <1>2, <3>1, <3>2, ForgetKeepsOpen DEF Inv
  <2>2. CASE r \in DOMAIN job.next
    <3>1. vault' = DropArtifacts({job.seen.entries[r].blob}, {}) BY <2>2 DEF CleanSaved
    <3>2. {job.seen.entries[r].blob} \cap BlobsOf(index) = {} /\ {} \cap KeysOf(index) = {} BY <1>1, <1>2, <2>2
    <3>3. QED BY <1>2, <3>1, <3>2, DropKeepsOpen DEF Inv
  <2>3. QED BY <2>1, <2>2
<1>5. QED BY <1>1, <1>3, <1>4, CleanedStep DEF Cleaning

LEMMA CleanImportedKeeps ==
  ASSUME Inv, NEW r \in Receipts, CleanImportedBlob(r) \/ CleanImportedKey(r) PROVE Inv'
<1>1. job.pc \in Cleaning /\ r \in job.todo /\ index' = index /\ job.op = "import"
  BY DEF CleanImportedBlob, CleanImportedKey, Cleaning, Inv, Stage, Cleans
<1>2. /\ Opens(index, vault) /\ job.seen.entries[r].blob \notin BlobsOf(index)
      /\ job.seen.entries[r].key \notin KeysOf(index)
  BY <1>1, CleaningKnows
<1>3. CASE CleanImportedBlob(r)
  <2>1. vault' = DropArtifacts({job.seen.entries[r].blob}, {}) /\ job' = [job EXCEPT !.pc = "cleanKey"]
    BY <1>3 DEF CleanImportedBlob, Goto
  <2>2. {job.seen.entries[r].blob} \cap BlobsOf(index) = {} /\ {} \cap KeysOf(index) = {} BY <1>2
  <2>3. IsVault(vault') /\ Opens(index, vault') BY <1>2, <2>1, <2>2, DropKeepsOpen DEF Inv
  <2>4. job' = [job EXCEPT !.pc = "cleanKey", !.todo = job.todo] BY <2>1 DEF Inv, Stage, JobTyped, Shape
  <2>5. QED BY <1>1, <2>3, <2>4, CleanedStep DEF Cleaning
<1>4. CASE CleanImportedKey(r)
  <2>1. /\ vault' = DropArtifacts({}, {job.seen.entries[r].key})
        /\ job' = [job EXCEPT !.pc = "clean", !.todo = job.todo \ {r}]
    BY <1>4 DEF CleanImportedKey
  <2>2. {} \cap BlobsOf(index) = {} /\ {job.seen.entries[r].key} \cap KeysOf(index) = {} BY <1>2
  <2>3. IsVault(vault') /\ Opens(index, vault') BY <1>2, <2>1, <2>2, DropKeepsOpen DEF Inv
  <2>4. QED BY <1>1, <2>1, <2>3, CleanedStep DEF Cleaning
<1>5. QED BY <1>3, <1>4

(* The check that ends a save cannot fail: nothing it needs was deleted.    *)
LEMMA SettledKeeps == ASSUME Inv, Settled PROVE Inv'
<1>1. DecryptsAll(index, vault)
  <2>1. job.pc \in Cleaning BY DEF Settled, Cleaning
  <2>2. QED BY <2>1, CleaningKnows DEF Opens
<1>2. Finish /\ UNCHANGED <<index, vault>> BY <1>1 DEF Settled
<1>3. QED BY <1>2, Finishes DEF Inv

LEMMA UndoingKeeps == ASSUME Inv, Undo \/ UndoIgnored PROVE Inv'
<1>1. job.pc = "undo" /\ index' = index BY DEF Undo, UndoIgnored
<1>2. /\ index.version = 5 /\ Opens(index, vault)
      /\ \A m \in job.made : m.blob \notin BlobsOf(index) /\ (m.new => m.key \notin KeysOf(index))
  BY <1>1 DEF Inv, Stage, Reads, Knows, Staged
<1>3. PICK m \in job.made :
        /\ vault' = vault \/ vault' = DropArtifacts({m.blob}, IF m.new THEN {m.key} ELSE {})
        /\ job' = IF job.made = {m} THEN Idle ELSE [job EXCEPT !.made = @ \ {m}]
  BY DEF Undo, UndoIgnored
<1>4. IsVault(vault') /\ Opens(index, vault')
  <2>1. {m.blob} \cap BlobsOf(index) = {} /\ (IF m.new THEN {m.key} ELSE {}) \cap KeysOf(index) = {} BY <1>2
  <2>2. QED BY <1>2, <1>3, <2>1, DropKeepsOpen DEF Inv
<1>5. IndexOK(index, vault') BY <1>2, <1>4 DEF Inv, IndexOK
<1>6. CASE job' = Idle BY <1>1, <1>4, <1>5, <1>6, Finishes DEF Finish, Inv
<1>7. CASE job' = [job EXCEPT !.made = @ \ {m}]
  <2>1. /\ job'.pc = "undo" /\ job'.op = job.op /\ job'.pass = job.pass /\ job'.r = job.r /\ job'.seen = job.seen
        /\ job'.want = job.want /\ job'.next = job.next /\ job'.made = job.made \ {m} /\ job'.todo = job.todo
        /\ Shape(job')
    BY <1>1, <1>7 DEF Inv, Stage, JobTyped, Shape
  <2>2. JobTyped(job') BY <2>1 DEF Inv, Stage, JobTyped, Shape
  <2>3. Reads(job', index) BY <1>2, <2>1 DEF Reads, Seeing, Migrating, Publishing, Cleaning
  <2>4. Knows(job', index, vault') BY <1>4, <2>1 DEF Knows, Migrating, Publishing, Cleaning
  <2>5. Plans(job', index)
    <3>1. Plans(job, index) /\ (Keeps(job, index) => Keeps(job', index)) BY <2>1 DEF Inv, Stage, Keeps
    <3>2. QED BY <1>1, <2>1, <3>1 DEF Plans
  <2>6. Staged(job', index) BY <1>2, <2>1 DEF Staged, Migrating, Publishing, Cleaning
  <2>7. Cleans(job', index) BY <2>1 DEF Cleans, Cleaning
  <2>8. job'.pc \notin Migrating \cup Publishing BY <2>1 DEF Migrating, Publishing
  <2>9. QED BY <1>1, <1>4, <1>5, <2>2, <2>3, <2>4, <2>5, <2>6, <2>7, <2>8 DEF Inv, Stage
<1>8. QED BY <1>3, <1>6, <1>7

-----------------------------------------------------------------------------
\* Imports and anchors: one blob staged, one entry replaced.

\* A job that has put one new blob and is about to publish it.
LEMMA StagedOne ==
  ASSUME Inv, job.pc = "loaded", index' = index, IsVault(vault'), Preserves(vault, vault'),
         NEW r \in Receipts, NEW e \in Entries, Decrypts(vault', r, e), e.blob \notin BlobsOf(index),
         NEW m \in Artifacts, m.blob = e.blob, m.new => m.key \notin KeysOf(index),
         NEW p \in {"publishImport", "publishAnchor", "undo"},
         p = "undo" \/ Cardinality(Held(index) \cup {r}) <= MaxReceipts,
         p = "publishImport" => e.key \notin KeysOf(index), p \in {"publishImport", "undo"} => job.op = "import",
         p = "publishAnchor" => /\ job.op = "anchor" /\ r \in Held(index)
                                /\ e.content = index.entries[r].content /\ vault'.blobs[e.blob].anchored,
         job' = [job EXCEPT !.pc = p, !.r = {r}, !.next = With(index.entries, r, e), !.made = {m}]
  PROVE  Inv'
<1>1. /\ job.seen = index /\ index.version = 5 /\ Opens(index, vault) /\ (job.pass = 2 => Identified(index, vault))
      /\ (job.op = "import" => job.pass = 2)
  BY LoadedKnows
<1>2. /\ job'.pc = p /\ job'.op = job.op /\ job'.pass = job.pass /\ job'.r = {r} /\ job'.seen = index
      /\ job'.want = job.want /\ job'.next = With(index.entries, r, e) /\ job'.made = {m} /\ job'.todo = job.todo
      /\ Shape(job')
  BY <1>1 DEF Inv, Stage, JobTyped, Shape
<1>3. /\ DOMAIN job'.next = Held(index) \cup {r} /\ job'.next[r] = e
      /\ \A s \in DOMAIN job'.next \ {r} : s \in Held(index) /\ job'.next[s] = index.entries[s]
  BY <1>2 DEF With, Held
<1>4. JobTyped(job')
  <2>1. PFun(job'.next, Receipts, Entries) BY <1>2, WithTyped DEF Inv, IsIndex
  <2>2. QED BY <1>2, <2>1 DEF Inv, Stage, JobTyped, Shape
<1>5. Opens(index, vault') BY <1>1, PreservesOpen
<1>6. IndexOK(index, vault') BY <1>1, <1>5 DEF Inv, IndexOK
<1>7. Reads(job', index) BY <1>1, <1>2 DEF Reads, Seeing, Migrating, Publishing, Cleaning
<1>8. Knows(job', index, vault')
  BY <1>1, <1>2, <1>5 DEF Knows, Migrating, Publishing, Cleaning, Identified, Preserves
<1>9. Plans(job', index) BY <1>1, <1>2 DEF Plans, Changes
<1>10. ASSUME NEW s \in DOMAIN job'.next PROVE Decrypts(vault', s, job'.next[s])
  <2>1. CASE s = r BY <1>3, <2>1
  <2>2. CASE s # r
    <3>1. s \in Held(index) /\ job'.next[s] = index.entries[s] BY <1>3, <2>2
    <3>2. QED BY <1>5, <3>1 DEF Opens, DecryptsAll, Held
  <2>3. QED BY <2>1, <2>2
<1>11. p # "undo" => Ready(job', index, vault')
  BY <1>2, <1>3, <1>10 DEF Ready, Migrating
<1>12. Staged(job', index) BY <1>2 DEF Staged, Migrating, Publishing, Cleaning
<1>13. Cleans(job', index) BY <1>2 DEF Cleans, Cleaning
<1>14. p = "undo" => job'.pc \notin Migrating \cup Publishing BY <1>2 DEF Migrating, Publishing
<1>15. QED BY <1>4, <1>6, <1>7, <1>8, <1>9, <1>11, <1>12, <1>13, <1>14 DEF Inv, Stage

LEMMA PutImportedKeeps == ASSUME Inv, PutImported PROVE Inv'
<1>1. job.pc = "loaded" /\ job.op = "import" /\ index' = index BY DEF PutImported, Loaded
<1>2. job.seen = index BY <1>1, LoadedKnows
<1>3. PICK g \in Packages, b \in NewIds :
        /\ Put(b, b, g.receipt, "CLOSED", g.owner, FALSE)
        /\ job' = [job EXCEPT !.r = {g.receipt},
             !.next = With(index.entries, g.receipt, Entry(b, b, "CLOSED", g.owner)),
             !.made = {[blob |-> b, key |-> b, new |-> TRUE]},
             !.pc = IF Cardinality(Held(index) \cup {g.receipt}) > MaxReceipts THEN "undo" ELSE "publishImport"]
  BY <1>2 DEF PutImported
<1> DEFINE r == g.receipt
           e == Entry(b, b, "CLOSED", g.owner)
           m == [blob |-> b, key |-> b, new |-> TRUE]
           p == IF Cardinality(Held(index) \cup {r}) > MaxReceipts THEN "undo" ELSE "publishImport"
<1>4. r \in Receipts /\ g.owner \in Owners /\ "CLOSED" \in Contents BY DEF Packages, Contents
<1>5. b \in Ids /\ b \notin DOMAIN vault.keys /\ b \notin DOMAIN vault.blobs /\ b \notin BlobsOf(index) /\ b \notin KeysOf(index)
  BY NewIsUnused
<1>6. IsVault(vault') /\ Preserves(vault, vault') /\ Decrypts(vault', r, e)
  BY <1>3, <1>4, <1>5, PutPreserves DEF Inv
<1>7. e \in Entries /\ e.blob = b /\ e.key = b /\ m \in Artifacts /\ m.blob = b /\ m.key = b
  BY <1>4, <1>5 DEF Entry, Entries, Artifacts
<1>8. p \in {"undo", "publishImport"} /\ (p = "undo" \/ Cardinality(Held(index) \cup {r}) <= MaxReceipts)
  <2>1. IsFiniteSet(Held(index) \cup {r}) BY HeldFinite, FS_AddElement DEF Inv
  <2>2. Cardinality(Held(index) \cup {r}) \in Nat BY <2>1, FS_CardinalityType
  <2>3. QED BY <2>2, StorageAssumption
<1>9. job' = [job EXCEPT !.pc = p, !.r = {r}, !.next = With(index.entries, r, e), !.made = {m}]
  <2>1. job' = [job EXCEPT !.r = {r}, !.next = With(index.entries, r, e), !.made = {m}, !.pc = p] BY <1>3
  <2> HIDE DEF r, e, m, p
  <2>2. QED BY <2>1 DEF Inv, Stage, JobTyped, Shape
<1> HIDE DEF r, e, m, p
<1>10. QED BY <1>1, <1>4, <1>5, <1>6, <1>7, <1>8, <1>9, StagedOne

LEMMA PutAnchoredKeeps == ASSUME Inv, PutAnchored PROVE Inv'
<1>1. job.pc = "loaded" /\ job.op = "anchor" /\ index' = index BY DEF PutAnchored, Loaded
<1>2. job.seen = index /\ ValidIndex(index) /\ Opens(index, vault) BY <1>1, LoadedKnows
<1>3. PICK r \in DOMAIN index.anchors, b \in NewIds :
        /\ Put(b, index.entries[r].key, r, index.entries[r].content, index.entries[r].owner, TRUE)
        /\ job' = [job EXCEPT !.pc = "publishAnchor", !.r = {r},
             !.next = With(index.entries, r, [index.entries[r] EXCEPT !.blob = b]),
             !.made = {[blob |-> b, key |-> index.entries[r].key, new |-> FALSE]}]
  BY <1>2 DEF PutAnchored
<1> DEFINE o == index.entries[r]
           e == Entry(b, o.key, o.content, o.owner)
           m == [blob |-> b, key |-> o.key, new |-> FALSE]
<1>4. r \in Held(index) /\ r \in Receipts /\ Held(index) \cup {r} = Held(index)
  <2>1. r \in Held(index) BY <1>2 DEF ValidIndex, Held
  <2>2. QED BY <2>1, HeldFinite DEF Inv
<1>5. Decrypts(vault, r, o) BY <1>2, <1>4 DEF Opens, DecryptsAll, Held
<1>6. o \in Entries /\ o.key \in Ids BY <1>4, <1>5, EntryTyped, ArtifactsTyped DEF Inv
<1>7. b \in Ids /\ b \notin DOMAIN vault.blobs /\ b \notin BlobsOf(index) BY NewIsUnused
<1> HIDE DEF o
<1>8. o.content \in Contents /\ o.owner \in Owners /\ [o EXCEPT !.blob = b] = e BY <1>6 DEF Entries, Entry
<1>9. /\ Put(b, o.key, r, o.content, o.owner, TRUE)
      /\ job' = [job EXCEPT !.pc = "publishAnchor", !.r = {r}, !.next = With(index.entries, r, e), !.made = {m}]
  BY <1>3, <1>8 DEF o
<1>10. o.key \in DOMAIN vault.keys => vault.keys[o.key] = r BY <1>5 DEF Decrypts
<1>11. IsVault(vault') /\ Preserves(vault, vault') /\ Decrypts(vault', r, e) /\ vault'.blobs[b].anchored = TRUE
  BY <1>4, <1>6, <1>7, <1>8, <1>9, <1>10, PutPreserves DEF Inv
<1>12. e \in Entries /\ e.blob = b /\ e.content = o.content /\ m \in Artifacts /\ m.blob = b /\ m.new = FALSE
  BY <1>6, <1>7, <1>8 DEF Entry, Entries, Artifacts
<1>13. Cardinality(Held(index) \cup {r}) <= MaxReceipts BY <1>4 DEF Inv, IndexOK
<1> HIDE DEF e, m
<1>14. e.content = index.entries[r].content BY <1>12 DEF o
<1>15. "publishAnchor" \in {"publishImport", "publishAnchor", "undo"} OBVIOUS
<1>16. QED BY <1>1, <1>4, <1>7, <1>9, <1>11, <1>12, <1>13, <1>14, <1>15, StagedOne

\* Publishing that entry.
LEMMA PublishedOne ==
  ASSUME Inv, job.pc \in {"publishImport", "publishAnchor"}, vault' = vault, NEW anchors,
         PFun(anchors, Receipts, AnchorStates), DOMAIN anchors \subseteq DOMAIN index.anchors,
         \A r \in DOMAIN anchors : r \in job.r => job.pc = "publishAnchor",
         \A r \in DOMAIN anchors \ job.r : anchors[r] = index.anchors[r],
         index' = [index EXCEPT !.entries = job.next, !.anchors = anchors],
         NEW made, made = job.made \/ made = {}, job.pc = "publishImport" => made = {},
         NEW todo, todo \subseteq job.r, todo \subseteq Held(index),
         job' = [job EXCEPT !.pc = "clean", !.made = made, !.todo = todo]
  PROVE  Inv'
<1>1. /\ job.pc \in Publishing /\ job.seen = index /\ index.version = 5 /\ ValidIndex(index) /\ Opens(index, vault)
      /\ (job.pass = 2 => Identified(index, vault)) /\ Ready(job, index, vault)
  BY PublishingKnows DEF Publishing
<1>2. /\ Cardinality(DOMAIN job.next) <= MaxReceipts
      /\ Held(index) \subseteq DOMAIN job.next /\ job.r \subseteq DOMAIN job.next
      /\ \A r \in DOMAIN job.next \ job.r : r \in Held(index) /\ job.next[r] = index.entries[r]
      /\ \A r \in job.r : job.next[r].blob \notin BlobsOf(index)
      /\ job.pc = "publishImport" => job.op = "import" /\ \A r \in job.r : job.next[r].key \notin KeysOf(index)
      /\ job.pc = "publishAnchor" =>
           /\ job.op = "anchor" /\ job.r # {} /\ job.r \subseteq Held(index)
           /\ \A r \in job.r : vault.blobs[job.next[r].blob].anchored
  BY <1>1 DEF Ready
<1>3. IsIndex(index') /\ index'.version = 5 /\ index'.identity = index.identity /\ index'.entries = job.next
        /\ index'.anchors = anchors
  BY <1>1 DEF Inv, IsIndex, Stage, JobTyped, Shape
<1>4. Identified(index, vault)
  <2>1. job.op = "import" => job.pass = 2 BY DEF Inv, Stage, Plans
  <2>2. job.r # {} /\ job.r \subseteq Held(index) => Identified(index, vault)
    BY <1>1 DEF Opens, ValidIndex, Identified, Held
  <2>3. QED BY <1>1, <1>2, <2>1, <2>2
<1>5. DOMAIN anchors \subseteq Held(index) BY <1>1 DEF ValidIndex, Held
<1>6. \A r \in DOMAIN job.next : Confirmed(index', r) => vault.blobs[job.next[r].blob].anchored
  <2>1. SUFFICES ASSUME NEW r \in DOMAIN job.next, Confirmed(index', r)
                 PROVE  vault.blobs[job.next[r].blob].anchored
    OBVIOUS
  <2>2. r \in DOMAIN anchors /\ anchors[r] = "CHAIN_EVIDENCE_CONFIRMED" BY <1>3, <2>1 DEF Confirmed
  <2>3. CASE r \in job.r BY <1>2, <2>2, <2>3
  <2>4. CASE r \notin job.r
    <3>1. Confirmed(index, r) /\ r \in Held(index) /\ job.next[r] = index.entries[r]
      BY <1>2, <1>5, <2>2, <2>4 DEF Confirmed
    <3>2. QED BY <1>1, <3>1 DEF Opens
  <2>5. QED BY <2>3, <2>4
<1>7. IndexOK(index', vault) /\ Opens(index', vault)
  <2>1. index'.identity = vault.identity /\ vault.identity # NoId /\ DOMAIN index'.anchors \subseteq DOMAIN job.next
    BY <1>2, <1>3, <1>4, <1>5 DEF Identified
  <2>2. QED BY <1>1, <1>2, <1>3, <1>6, <2>1, PublishedIsFine
<1>8. /\ job'.pc = "clean" /\ job'.op = job.op /\ job'.pass = job.pass /\ job'.r = job.r /\ job'.seen = index
      /\ job'.want = job.want /\ job'.next = job.next /\ job'.made = made /\ job'.todo = todo
      /\ Shape(job')
  BY <1>1 DEF Inv, Stage, JobTyped, Shape
<1>9. JobTyped(job') BY <1>8 DEF Inv, Stage, JobTyped, Shape
<1>10. Reads(job', index') BY <1>3, <1>8 DEF Reads, Seeing, Migrating, Publishing, Cleaning
<1>11. Knows(job', index', vault) BY <1>7, <1>8 DEF Knows, Migrating, Publishing, Cleaning
<1>12. Plans(job', index') BY <1>2, <1>8 DEF Inv, Stage, Plans, Changes
<1>13. Staged(job', index') BY <1>8 DEF Staged, Migrating, Publishing, Cleaning
<1>14. \A r \in todo : index.entries[r].blob \notin BlobsOf(index')
  <2>1. SUFFICES ASSUME NEW r \in todo, NEW s \in DOMAIN job.next, job.next[s].blob = index.entries[r].blob PROVE FALSE
    BY <1>3 DEF BlobsOf, Held
  <2>2. s \in job.r BY <1>1, <1>2, <2>1 DEF ValidIndex, Held
  <2>3. QED BY <1>2, <2>1, <2>2 DEF BlobsOf
<1>15. job.op = "import" => \A r \in todo : index.entries[r].key \notin KeysOf(index')
  <2>1. SUFFICES ASSUME job.op = "import", NEW r \in todo, NEW s \in DOMAIN job.next, job.next[s].key = index.entries[r].key
                 PROVE FALSE
    BY <1>3 DEF KeysOf, Held
  <2>2. job.pc = "publishImport" BY <1>2, <2>1
  <2>3. s \in job.r BY <1>1, <1>2, <2>1 DEF ValidIndex, Held
  <2>4. QED BY <1>2, <2>1, <2>2, <2>3 DEF KeysOf
<1>16. Cleans(job', index')
  <2>1. job.op = "import" => made = {} BY <1>2
  <2>2. QED BY <1>2, <1>3, <1>8, <1>14, <1>15, <2>1 DEF Cleans, Cleaning
<1>17. job'.pc \notin Migrating \cup Publishing BY <1>8 DEF Migrating, Publishing
<1>18. QED BY <1>3, <1>7, <1>9, <1>10, <1>11, <1>12, <1>13, <1>16, <1>17 DEF Inv, Stage

LEMMA PublishImportedKeeps == ASSUME Inv, PublishImported PROVE Inv'
<1> DEFINE anchors == Without(index.anchors, job.r)
<1>1. job.pc = "publishImport" /\ vault' = vault BY DEF PublishImported
<1>2. job.seen = index BY <1>1, PublishingKnows DEF Publishing
<1>3. PFun(index.anchors, Receipts, AnchorStates) BY DEF Inv, IsIndex
<1>4. PFun(anchors, Receipts, AnchorStates) BY <1>3, WithoutTyped
<1>5. /\ DOMAIN anchors \subseteq DOMAIN index.anchors /\ (\A r \in DOMAIN anchors : r \notin job.r)
      /\ \A r \in DOMAIN anchors \ job.r : anchors[r] = index.anchors[r]
  BY DEF Without
<1>6. index' = [index EXCEPT !.entries = job.next, !.anchors = anchors]
  BY <1>2 DEF PublishImported, Inv, IsIndex
<1> HIDE DEF anchors
<1>7. job' = [job EXCEPT !.pc = "clean", !.made = {}, !.todo = job.r \cap Held(index)] BY <1>2 DEF PublishImported
<1>8. QED BY <1>1, <1>4, <1>5, <1>6, <1>7, PublishedOne

LEMMA PublishAnchoredKeeps == ASSUME Inv, PublishAnchored PROVE Inv'
<1> DEFINE anchors == [r \in DOMAIN index.anchors |-> IF r \in job.r THEN "CHAIN_EVIDENCE_CONFIRMED" ELSE index.anchors[r]]
<1>1. job.pc = "publishAnchor" /\ vault' = vault BY DEF PublishAnchored
<1>2. job.seen = index /\ Ready(job, index, vault) BY <1>1, PublishingKnows DEF Publishing
<1>3. PFun(anchors, Receipts, AnchorStates) BY DEF Inv, IsIndex, PFun, AnchorStates
<1>4. DOMAIN anchors = DOMAIN index.anchors /\ \A r \in DOMAIN anchors \ job.r : anchors[r] = index.anchors[r]
  OBVIOUS
<1>5. index' = [index EXCEPT !.entries = job.next, !.anchors = anchors]
  BY <1>2 DEF PublishAnchored, Inv, IsIndex
<1> HIDE DEF anchors
<1>6. job' = [job EXCEPT !.pc = "clean", !.made = job.made, !.todo = job.r]
  BY <1>2 DEF PublishAnchored, Inv, Stage, JobTyped, Shape
<1>7. job.r \subseteq Held(index) BY <1>1, <1>2 DEF Ready
<1>8. QED BY <1>1, <1>3, <1>4, <1>5, <1>6, <1>7, PublishedOne

LEMMA SaveAnchorOperationKeeps == ASSUME Inv, SaveAnchorOperation PROVE Inv'
<1>1. job.pc = "loaded" /\ vault' = vault /\ Finish BY DEF SaveAnchorOperation, Loaded
<1>2. job.seen = index /\ index.version = 5 /\ ValidIndex(index) /\ Opens(index, vault) BY <1>1, LoadedKnows
<1>3. CASE index' = index BY <1>1, <1>3, Finishes DEF Inv
<1>4. ASSUME NEW r \in Held(index), index' = [index EXCEPT !.anchors = With(index.anchors, r, "PENDING")]
      PROVE Inv'
  <2>1. r \in Receipts BY HeldFinite DEF Inv
  <2>2. PFun(With(index.anchors, r, "PENDING"), Receipts, AnchorStates)
    BY <2>1, WithTyped DEF Inv, IsIndex, AnchorStates
  <2>3. IsIndex(index') /\ index'.version = 5 /\ index'.identity = index.identity /\ index'.entries = index.entries
          /\ index'.anchors = With(index.anchors, r, "PENDING")
    BY <1>2, <1>4, <2>2 DEF Inv, IsIndex
  <2>4. DOMAIN index'.anchors \subseteq Held(index) /\ \A s : Confirmed(index', s) => Confirmed(index, s)
    BY <1>2, <2>3 DEF With, Confirmed, ValidIndex, Held
  <2>5. ValidIndex(index') BY <1>2, <2>3, <2>4 DEF ValidIndex, Held
  <2>6. Opens(index', vault) BY <1>2, <2>3, <2>4 DEF Opens, DecryptsAll, Held
  <2>7. IndexOK(index', vault) BY <2>3, <2>5, <2>6 DEF IndexOK, ValidIndex, Held
  <2>8. QED BY <1>1, <2>3, <2>7, Finishes DEF Inv
<1>5. QED BY <1>2, <1>3, <1>4 DEF SaveAnchorOperation

-----------------------------------------------------------------------------
\* Deleting everything, and faults.

LEMMA DeleteAllKeeps == ASSUME Inv, DeleteAll PROVE Inv'
<1>1. IsVault(WipedVault)
  <2>1. PFun(Empty, Ids, Receipts) /\ PFun(Empty, Ids, Blobs) /\ PFun(Empty, Receipts, Entries) BY EmptyTyped
  <2>2. QED BY <2>1 DEF IsVault, WipedVault
<1>2. ASSUME job.pc \in {"wipe", "remove"}, IsIndex(index'), IsVault(vault'), IndexOK(index', vault'),
             NEW p \in {"remove", "reset"}, Goto(p)
      PROVE Inv'
  <2>1. job.op = "deleteAll" /\ job.made = {} /\ DOMAIN job.next = {}
    BY <1>2 DEF Inv, Stage, Plans, Staged, Migrating, Publishing, Cleaning
  <2>2. /\ JobTyped(job') /\ job'.pc = p
        /\ job'.op = job.op /\ job'.pass = job.pass /\ job'.r = job.r /\ job'.seen = job.seen
        /\ job'.want = job.want /\ job'.next = job.next /\ job'.made = job.made /\ job'.todo = job.todo
    BY <1>2, Goes
  <2>3. Reads(job', index') BY <1>2, <2>2 DEF Reads, Seeing, Migrating, Publishing, Cleaning
  <2>4. Knows(job', index', vault') BY <1>2, <2>2 DEF Knows, Migrating, Publishing, Cleaning
  <2>5. Plans(job', index') BY <2>1, <2>2 DEF Plans, Changes
  <2>6. Staged(job', index') BY <1>2, <2>1, <2>2 DEF Staged, Migrating, Publishing, Cleaning
  <2>7. Cleans(job', index') BY <1>2, <2>2 DEF Cleans, Cleaning
  <2>8. job'.pc \notin Migrating \cup Publishing BY <1>2, <2>2 DEF Migrating, Publishing
  <2>9. QED BY <1>2, <2>2, <2>3, <2>4, <2>5, <2>6, <2>7, <2>8 DEF Inv, Stage
<1>3. CASE Wipe
  <2>1. job.pc = "wipe" /\ vault' = WipedVault /\ index' = index /\ Goto("remove") BY <1>3 DEF Wipe
  <2>2. IndexOK(index', vault') BY <2>1 DEF Inv, IndexOK
  <2>3. QED BY <1>1, <1>2, <2>1, <2>2 DEF Inv
<1>4. CASE Remove
  <2>1. job.pc = "remove" /\ vault' = vault /\ index' = NoValue /\ Goto("reset") BY <1>4 DEF Remove
  <2>2. IsIndex(NoValue) BY EmptyTyped DEF IsIndex, NoValue
  <2>3. Held(NoValue) = {} /\ NoValue.version = 0 BY DEF Held, NoValue, Empty
  <2>4. Cardinality(Held(NoValue)) = 0 BY <2>3, FS_EmptySet
  <2>5. IndexOK(index', vault') BY <2>1, <2>3, <2>4, StorageAssumption DEF IndexOK
  <2>6. QED BY <1>2, <2>1, <2>2, <2>5 DEF Inv
<1>5. CASE Reset
  <2>1. vault' = vault /\ index' = [NoValue EXCEPT !.version = 5] /\ Finish BY <1>5 DEF Reset
  <2>2. IsIndex(NoValue) BY EmptyTyped DEF IsIndex, NoValue
  <2>3. IsIndex(index') /\ index'.version = 5 /\ Held(index') = {} /\ DOMAIN index'.anchors = {}
    BY <2>1, <2>2 DEF IsIndex, Held, NoValue, Empty
  <2>4. QED BY <2>1, <2>3, EmptyIsFine, Finishes DEF Inv
<1>6. QED BY <1>3, <1>4, <1>5 DEF DeleteAll

-----------------------------------------------------------------------------
(* After a failed cleanup: the index stays as it is until its receipts all  *)
(* decrypt again or everything is deleted, since no operation gets past its *)
(* load.                                                                    *)

(* All receipts but R decrypt, and whatever decrypts holds the evidence the *)
(* index says is there.                                                     *)
OpensBut(i, v, R) ==
  /\ \A r \in Held(i) \ R : Decrypts(v, r, i.entries[r])
  /\ i.identity = v.identity
  /\ \A r \in Held(i) : Confirmed(i, r) /\ Decrypts(v, r, i.entries[r]) => v.blobs[i.entries[r].blob].anchored
\* The steps an operation takes before it has decrypted what it loaded.
Restarts == {"idle", "read", "unlock", "decrypt", "wipe"}
\* The catch deletes nothing that belongs to another receipt than those in R.
UndoesOnly(j, i, R) ==
  \A m \in j.made : \A r \in Held(i) \ R : i.entries[r].blob # m.blob /\ (m.new => i.entries[r].key # m.key)
Damaged ==
  /\ IsIndex(index) /\ IsVault(vault) /\ index.version = 5 /\ ValidIndex(index) /\ Held(index) # {}
  /\ rolledBack \subseteq Held(index) /\ OpensBut(index, vault, rolledBack)
  /\ JobTyped(job)
  /\ \/ job.pc = "undo" /\ UndoesOnly(job, index, rolledBack)
     \/ job.pc \in Restarts /\ Stage(job, index, vault) /\ ~IsChange
Sound == Inv /\ rolledBack = {}

LEMMA DropKeepsBut ==
  ASSUME NEW i, IsVault(vault), NEW R, OpensBut(i, vault, R), NEW B, NEW K,
         \A r \in Held(i) \ R : i.entries[r].blob \notin B /\ i.entries[r].key \notin K
  PROVE  IsVault(DropArtifacts(B, K)) /\ OpensBut(i, DropArtifacts(B, K), R)
<1> SUFFICES ASSUME NEW w, w = DropArtifacts(B, K) PROVE IsVault(w) /\ OpensBut(i, w, R) OBVIOUS
<1>1. /\ w.keys = Without(vault.keys, K) /\ w.blobs = Without(vault.blobs, B)
      /\ w.identity = vault.identity /\ w.logged = vault.logged /\ w.journal = vault.journal
      /\ w = [identity |-> w.identity, keys |-> w.keys, blobs |-> w.blobs, logged |-> w.logged, journal |-> w.journal]
  BY DEF DropArtifacts, IsVault
<1>2. IsVault(w) BY <1>1, WithoutTyped DEF IsVault
<1>3. ASSUME NEW r \in Held(i) \ R PROVE Decrypts(w, r, i.entries[r])
  BY <1>1, <1>3 DEF Decrypts, Without, OpensBut
<1>4. ASSUME NEW r \in Held(i), Decrypts(w, r, i.entries[r])
      PROVE  /\ Decrypts(vault, r, i.entries[r])
             /\ w.blobs[i.entries[r].blob] = vault.blobs[i.entries[r].blob]
  BY <1>1, <1>4 DEF Decrypts, Without
<1>5. OpensBut(i, w, R) BY <1>1, <1>3, <1>4 DEF OpensBut
<1>6. QED BY <1>2, <1>5

\* The end of an operation that has changed nothing.
LEMMA DamagedRests ==
  ASSUME Damaged, Finish, UNCHANGED <<index, vault, rolledBack>> PROVE Damaged'
<1>1. job' = Idle BY DEF Finish
<1>2. Stage(Idle, index, vault) /\ JobTyped(Idle) BY IdleStage DEF Stage
<1>3. job'.pc = "idle" /\ job'.op = "none" BY <1>1 DEF Idle
<1>4. QED BY <1>1, <1>2, <1>3 DEF Damaged, IsChange, Changes, Restarts

LEMMA DamagedBegins ==
  ASSUME Damaged, NEW op \in Operations, Begin(op) PROVE Damaged'
<1>1. /\ Stage(job', index, vault) /\ UNCHANGED <<index, vault>>
      /\ job'.pc \in {"wipe", "read"} /\ (job'.pass = 2 => job'.op = "import")
  BY BegunStage
<1>2. rolledBack' = rolledBack BY DEF Begin
<1>3. ~IsChange' BY <1>1 DEF IsChange, Changes
<1>4. JobTyped(job') BY <1>1 DEF Stage
<1>5. QED BY <1>1, <1>2, <1>3, <1>4 DEF Damaged, Restarts

\* A load that goes on to unlock and decrypt.
LEMMA DamagedLoads ==
  ASSUME Damaged, job.pc \in {"read", "unlock"}, UNCHANGED <<index, vault, rolledBack>>,
         NEW p \in {"unlock", "decrypt"}, job' = [job EXCEPT !.seen = index, !.pc = p]
  PROVE  Damaged'
<1>1. Stage(job, index, vault) /\ ~IsChange BY DEF Damaged
<1>2. /\ job'.pc = p /\ job'.seen = index
      /\ job'.op = job.op /\ job'.pass = job.pass /\ job'.r = job.r /\ job'.want = job.want
      /\ job'.next = job.next /\ job'.made = job.made /\ job'.todo = job.todo
      /\ Shape(job')
  BY DEF Damaged, JobTyped, Shape
<1>3. JobTyped(job') BY <1>2 DEF Damaged, JobTyped, Shape
<1>4. Reads(job', index) BY <1>2 DEF Damaged, Reads, Seeing, Publishing, Cleaning, Migrating
<1>5. Knows(job', index, vault) BY <1>2 DEF Damaged, Knows, Publishing, Cleaning, Migrating
<1>6. Plans(job', index) BY <1>1, <1>2 DEF Stage, Plans, IsChange
<1>7. Staged(job', index) BY <1>1, <1>2 DEF Stage, Staged, Publishing, Cleaning, Migrating
<1>8. Cleans(job', index) BY <1>2 DEF Cleans, Cleaning
<1>9. Stage(job', index, vault)
  BY <1>2, <1>3, <1>4, <1>5, <1>6, <1>7, <1>8 DEF Stage, Migrating, Publishing
<1>10. ~IsChange' BY <1>1, <1>2 DEF IsChange
<1>11. job'.pc \in Restarts BY <1>2 DEF Restarts
<1>12. QED BY <1>3, <1>9, <1>10, <1>11 DEF Damaged

\* A failure before the receipts are decrypted: nothing is staged.
LEMMA DamagedFails ==
  ASSUME Damaged, job.pc \in Restarts, Fail, UNCHANGED <<index, vault, rolledBack>> PROVE Damaged'
<1>1. job.made = {} BY DEF Damaged, Stage, Staged, Restarts, Publishing, Cleaning
<1>2. Finish BY <1>1 DEF Fail, Finish
<1>3. QED BY <1>2, DamagedRests

\* A load that decrypts all receipts: the catch deleted nothing after all.
LEMMA DamagedDecrypts ==
  ASSUME Damaged, Decrypt PROVE (Sound \/ Damaged)'
<1>1. job.pc = "decrypt" /\ UNCHANGED <<index, vault>> BY DEF Decrypt
<1>2. Stage(job, index, vault) /\ ~IsChange /\ job.seen = index BY <1>1 DEF Damaged, Stage, Reads, Seeing
<1>3. CASE Fail /\ UNCHANGED rolledBack
  <2>1. job.pc \in Restarts BY <1>1 DEF Restarts
  <2>2. QED BY <1>1, <1>3, <2>1, DamagedFails
<1>4. CASE DecryptsAll(index, vault) /\ Goto("loaded") /\ rolledBack' = {}
  <2>1. /\ job'.pc = "loaded" /\ job'.op = job.op /\ job'.pass = job.pass /\ job'.r = job.r
        /\ job'.seen = job.seen /\ job'.want = job.want /\ job'.next = job.next
        /\ job'.made = job.made /\ job'.todo = job.todo /\ Shape(job')
    BY <1>4 DEF Damaged, JobTyped, Shape, Goto
  <2>2. JobTyped(job') BY <2>1 DEF Damaged, JobTyped, Shape
  <2>3. Opens(index, vault) BY <1>4 DEF Damaged, OpensBut, Opens, DecryptsAll, Held
  <2>4. Identified(index, vault) BY DEF Damaged, OpensBut, Identified, ValidIndex, Held
  <2>5. Reads(job', index) BY <1>2, <2>1 DEF Damaged, Reads, Seeing, Publishing, Cleaning, Migrating
  <2>6. Knows(job', index, vault) BY <2>1, <2>3, <2>4 DEF Knows, Publishing, Cleaning, Migrating
  <2>7. Plans(job', index) BY <1>2, <2>1 DEF Stage, Plans, IsChange
  <2>8. Staged(job', index) BY <1>1, <1>2, <2>1 DEF Stage, Staged, Publishing, Cleaning, Migrating
  <2>9. Cleans(job', index) BY <2>1 DEF Cleans, Cleaning
  <2>10. Stage(job', index, vault)
    BY <2>1, <2>2, <2>5, <2>6, <2>7, <2>8, <2>9 DEF Stage, Migrating, Publishing
  <2>11. IndexOK(index, vault) BY <2>3 DEF Damaged, IndexOK, ValidIndex, Held
  <2>12. QED BY <1>1, <1>4, <2>10, <2>11 DEF Damaged, Sound, Inv
<1>5. QED BY <1>2, <1>3, <1>4 DEF Decrypt

\* The vault is gone, and with it what was left of the receipts.
LEMMA DamagedWiped ==
  ASSUME Damaged, Wipe \/ WipeBlocked PROVE Sound'
<1>1. job.pc = "wipe" /\ vault' = WipedVault /\ index' = index /\ rolledBack' = {}
        /\ (Goto("remove") \/ Finish)
  BY DEF Wipe, WipeBlocked
<1>2. IsVault(WipedVault)
  <2>1. PFun(Empty, Ids, Receipts) /\ PFun(Empty, Ids, Blobs) /\ PFun(Empty, Receipts, Entries) BY EmptyTyped
  <2>2. QED BY <2>1 DEF IsVault, WipedVault
<1>3. IndexOK(index, WipedVault) BY DEF Damaged, IndexOK, ValidIndex, Held
<1>4. Stage(job, index, vault) BY <1>1 DEF Damaged
<1>5. CASE Finish
  <2>1. IsIndex(index) BY DEF Damaged
  <2>2. Inv' BY <1>1, <1>2, <1>3, <1>5, <2>1, Finishes
  <2>3. QED BY <1>1, <2>2 DEF Sound
<1>6. CASE Goto("remove")
  <2>1. /\ job'.pc = "remove" /\ job'.op = job.op /\ job'.pass = job.pass /\ job'.r = job.r
        /\ job'.seen = job.seen /\ job'.want = job.want /\ job'.next = job.next
        /\ job'.made = job.made /\ job'.todo = job.todo /\ Shape(job')
    BY <1>6 DEF Damaged, JobTyped, Shape, Goto
  <2>2. JobTyped(job') BY <2>1 DEF Damaged, JobTyped, Shape
  <2>3. job.op = "deleteAll" BY <1>1, <1>4 DEF Stage, Plans
  <2>4. Reads(job', index) /\ Knows(job', index, WipedVault)
    BY <2>1 DEF Reads, Knows, Seeing, Publishing, Cleaning, Migrating
  <2>5. Plans(job', index) BY <2>1, <2>3 DEF Plans, Changes
  <2>6. Staged(job', index) BY <1>1, <1>4, <2>1 DEF Stage, Staged, Publishing, Cleaning, Migrating
  <2>7. Cleans(job', index) BY <2>1 DEF Cleans, Cleaning
  <2>8. Stage(job', index, WipedVault)
    BY <2>1, <2>2, <2>4, <2>5, <2>6, <2>7 DEF Stage, Migrating, Publishing
  <2>9. QED BY <1>1, <1>2, <1>3, <2>8 DEF Damaged, Sound, Inv
<1>7. QED BY <1>1, <1>5, <1>6

\* The catch goes on.
LEMMA DamagedUndoes ==
  ASSUME Damaged, Undo \/ UndoIgnored PROVE Damaged'
<1>1. job.pc = "undo" /\ index' = index /\ rolledBack' = rolledBack BY DEF Undo, UndoIgnored, Step
<1>2. UndoesOnly(job, index, rolledBack) BY <1>1 DEF Damaged, Restarts
<1>3. PICK m \in job.made :
        /\ vault' = vault \/ vault' = DropArtifacts({m.blob}, IF m.new THEN {m.key} ELSE {})
        /\ job' = IF job.made = {m} THEN Idle ELSE [job EXCEPT !.made = @ \ {m}]
  BY DEF Undo, UndoIgnored
<1>4. IsVault(vault') /\ OpensBut(index, vault', rolledBack)
  <2>1. \A r \in Held(index) \ rolledBack :
          index.entries[r].blob \notin {m.blob} /\ index.entries[r].key \notin (IF m.new THEN {m.key} ELSE {})
    BY <1>2 DEF UndoesOnly
  <2>2. QED BY <1>3, <2>1, DropKeepsBut DEF Damaged
<1>5. CASE job' = Idle
  <2>1. Stage(Idle, index, vault') /\ JobTyped(Idle) BY IdleStage DEF Stage
  <2>2. job'.pc = "idle" /\ job'.op = "none" BY <1>5 DEF Idle
  <2>3. QED BY <1>1, <1>4, <1>5, <2>1, <2>2 DEF Damaged, IsChange, Changes, Restarts
<1>6. CASE job' = [job EXCEPT !.made = @ \ {m}]
  <2>1. /\ job'.pc = "undo" /\ job'.op = job.op /\ job'.pass = job.pass /\ job'.r = job.r /\ job'.seen = job.seen
        /\ job'.want = job.want /\ job'.next = job.next /\ job'.made = job.made \ {m} /\ job'.todo = job.todo
        /\ Shape(job')
    BY <1>1, <1>6 DEF Damaged, JobTyped, Shape
  <2>2. JobTyped(job') BY <2>1 DEF Damaged, JobTyped, Shape
  <2>3. UndoesOnly(job', index, rolledBack) BY <1>2, <2>1 DEF UndoesOnly
  <2>4. QED BY <1>1, <1>4, <2>1, <2>2, <2>3 DEF Damaged
<1>7. QED BY <1>3, <1>5, <1>6

\* Whatever happens after a failed cleanup, the index stays as it is.
LEMMA DamagedGoesOn ==
  ASSUME Damaged, Next PROVE (Sound \/ Damaged)' /\ index' = index
<1>1. job.pc \in Restarts \cup {"undo"} BY DEF Damaged
<1>2. CASE \E op \in Operations : Begin(op) BY <1>2, DamagedBegins DEF Begin
<1>3. CASE Run
  <2>1. Read \/ Unlock \/ Decrypt \/ Wipe \/ Undo
    <3>1. job.pc \notin {"install", "adopt", "enroll", "initial", "recordIdentity", "upgrade", "openJournal", "migrate",
                         "log", "dropJournal", "loaded", "sign", "clean", "cleanKey", "publishImport",
                         "publishAnchor", "remove", "reset"}
      BY <1>1 DEF Restarts
    <3>2. CASE Load BY <3>1, <3>2 DEF Load, EnsureIdentity, WriteIdentity, Upgrade
    <3>3. ~Migrate BY <3>1 DEF Migrate, OpenJournal, MigrateReceipt, LogMigrated, PublishMigrated, DropJournal
    <3>4. ~PlanChange
      BY <3>1 DEF PlanChange, Loaded, LoadedOnly, PlanCapture, CaptureRefused, PlanContext, NoContext, PlanSettings,
                  PlanRemove
    <3>5. CASE Save BY <3>1, <3>5 DEF Save, Loaded, OpenSave, Sign, PublishSave, CleanSaved, Settled
    <3>6. ~Import
      BY <3>1 DEF Import, Loaded, ImportRefused, PutImported, PublishImported, CleanImportedBlob, CleanImportedKey
    <3>7. ~Anchor
      BY <3>1 DEF Anchor, Loaded, SaveAnchorOperation, NothingToAnchor, PutAnchored, PublishAnchored
    <3>8. CASE DeleteAll BY <3>1, <3>8 DEF DeleteAll, Remove, Reset
    <3>9. QED BY <1>3, <3>2, <3>3, <3>4, <3>5, <3>6, <3>7, <3>8 DEF Run
  <2>2. CASE Read
    <3>1. job.pc = "read" /\ UNCHANGED <<index, vault, rolledBack>>
          /\ job' = [job EXCEPT !.seen = index, !.pc = "unlock"]
      BY <2>2 DEF Read, Step, Damaged
    <3>2. QED BY <3>1, DamagedLoads
  <2>3. CASE Unlock
    <3>1. job.pc = "unlock" /\ UNCHANGED <<index, vault, rolledBack>> BY <2>3 DEF Unlock, Step
    <3>2. job.seen = index BY <3>1 DEF Damaged, Stage, Reads, Seeing
    <3>3. index.identity # NoId /\ ValidIndex(index) BY DEF Damaged, ValidIndex, Held
    <3>4. CASE Fail
      <4>1. job.pc \in Restarts BY <3>1 DEF Restarts
      <4>2. QED BY <3>1, <3>4, <4>1, DamagedFails
    <3>5. CASE Goto("decrypt")
      <4>1. job' = [job EXCEPT !.seen = index, !.pc = "decrypt"]
        BY <3>2, <3>5 DEF Goto, Damaged, JobTyped, Shape
      <4>2. QED BY <3>1, <4>1, DamagedLoads
    <3>6. QED BY <2>3, <3>1, <3>2, <3>3, <3>4, <3>5 DEF Unlock
  <2>4. CASE Decrypt BY <2>4, DamagedDecrypts DEF Decrypt
  <2>5. CASE Wipe BY <2>5, DamagedWiped DEF Wipe
  <2>6. CASE Undo BY <2>6, DamagedUndoes DEF Undo
  <2>7. QED BY <2>1, <2>2, <2>3, <2>4, <2>5, <2>6
<1>4. CASE Crash BY <1>4, DamagedRests DEF Crash
<1>5. CASE Reject
  <2>1. job.pc = "wipe" /\ Fail /\ UNCHANGED <<index, vault>> /\ rolledBack' = rolledBack \cup RolledBack
    BY <1>1, <1>5 DEF Reject, LoadCalls, StagedCalls, Restarts
  <2>2. job.made = {} BY <2>1 DEF Damaged, Stage, Staged, Publishing, Cleaning
  <2>3. rolledBack' = rolledBack BY <2>1, <2>2 DEF RolledBack
  <2>4. QED BY <2>1, <2>3, DamagedFails DEF Restarts
<1>6. CASE UndoIgnored BY <1>6, DamagedUndoes DEF UndoIgnored
<1>7. CASE WipeBlocked BY <1>7, DamagedWiped DEF WipeBlocked
<1>8. QED BY <1>2, <1>3, <1>4, <1>5, <1>6, <1>7 DEF Next, Faults

-----------------------------------------------------------------------------
\* Faults of a store that is sound.

(* A call rejects after the index was written: the catch will delete what   *)
(* the index names of the receipts this operation encrypted.                *)
LEMMA CleanupRejects ==
  ASSUME Sound, Reject, job.pc \in Cleaning PROVE (Sound \/ Damaged)'
<1>1. Fail /\ UNCHANGED <<index, vault>> /\ rolledBack' = RolledBack BY DEF Reject, Sound
<1>2. /\ index.version = 5 /\ Opens(index, vault) /\ ValidIndex(index) /\ IsIndex(index) /\ IsVault(vault)
  BY CleaningKnows DEF Sound, Inv, IndexOK
<1>3. CASE job.made = {}
  <2>1. Finish BY <1>1, <1>3 DEF Fail, Finish
  <2>2. Inv' BY <1>1, <2>1, Finishes DEF Sound, Inv
  <2>3. QED BY <1>1, <1>3, <2>2 DEF Sound, RolledBack
<1>4. CASE job.made # {} /\ RolledBack = {}
  <2>1. Goto("undo") BY <1>1, <1>4 DEF Fail, Goto
  <2>2. \A m \in job.made : m.blob \notin BlobsOf(index) /\ (m.new => m.key \notin KeysOf(index))
    BY <1>4 DEF RolledBack, BlobsOf, KeysOf
  <2>3. Inv' BY <1>1, <2>1, <2>2, CatchRuns DEF Sound
  <2>4. QED BY <1>1, <1>4, <2>3 DEF Sound
<1>5. CASE job.made # {} /\ RolledBack # {}
  <2>1. Goto("undo") BY <1>1, <1>5 DEF Fail, Goto
  <2>2. JobTyped(job') /\ job'.pc = "undo" /\ job'.made = job.made BY <2>1, Goes DEF Sound
  <2>3. RolledBack \subseteq Held(index) /\ Held(index) # {} BY <1>5 DEF RolledBack
  <2>4. OpensBut(index, vault, RolledBack) BY <1>2, <2>3 DEF Opens, OpensBut, DecryptsAll, Held
  <2>5. UndoesOnly(job', index, RolledBack) BY <2>2 DEF UndoesOnly, RolledBack
  <2>6. QED BY <1>1, <1>2, <2>2, <2>3, <2>4, <2>5 DEF Damaged
<1>6. QED BY <1>3, <1>4, <1>5

LEMMA FaultsKeep == ASSUME Sound, Faults PROVE (Sound \/ Damaged)'
<1>1. CASE Crash BY <1>1, Finishes DEF Crash, Inv, Sound
<1>2. CASE Reject
  <2>1. CASE job.pc \in Cleaning BY <1>2, <2>1, CleanupRejects
  <2>2. CASE job.pc \notin Cleaning
    <3>1. Fail /\ UNCHANGED <<index, vault>> /\ rolledBack' = RolledBack BY <1>2 DEF Reject, Sound
    <3>2. job.pc \notin Cleaning \cup {"undo"} BY <1>2, <2>2 DEF Reject, LoadCalls, StagedCalls, Cleaning
    <3>3. Inv' BY <3>1, <3>2, Fails DEF Sound
    <3>4. \A m \in job.made : m.blob \notin BlobsOf(index) /\ (m.new => m.key \notin KeysOf(index))
      BY <3>2 DEF Sound, Inv, Stage, Staged
    <3>5. RolledBack = {} BY <3>4 DEF RolledBack, BlobsOf, KeysOf
    <3>6. QED BY <3>1, <3>3, <3>5 DEF Sound
  <2>3. QED BY <2>1, <2>2
<1>3. CASE UndoIgnored BY <1>3, UndoingKeeps DEF UndoIgnored, Sound
<1>4. CASE WipeBlocked
  <2>1. vault' = WipedVault /\ index' = index /\ Finish /\ rolledBack' = {} BY <1>4 DEF WipeBlocked
  <2>2. PFun(Empty, Ids, Receipts) /\ PFun(Empty, Ids, Blobs) /\ PFun(Empty, Receipts, Entries) BY EmptyTyped
  <2>3. IsVault(WipedVault) BY <2>2 DEF IsVault, WipedVault
  <2>4. IndexOK(index', vault') BY <2>1 DEF Inv, IndexOK, Sound
  <2>5. QED BY <2>1, <2>3, <2>4, Finishes DEF Inv, Sound
<1>5. QED BY <1>1, <1>2, <1>3, <1>4 DEF Faults

-----------------------------------------------------------------------------
LEMMA InitInv == Init => Inv
<1> SUFFICES ASSUME Init PROVE Inv OBVIOUS
<1>1. Stage(job, index, vault) BY IdleStage DEF Init
<1>2. /\ PFun(Empty, Ids, Receipts) /\ PFun(Empty, Ids, Blobs) /\ PFun(Empty, Receipts, Entries)
      /\ PFun(Empty, Receipts, AnchorStates)
  BY EmptyTyped
<1>3. IsVault(WipedVault) BY <1>2 DEF IsVault, WipedVault
<1>4. IsIndex(NoValue) BY <1>2 DEF IsIndex, NoValue
<1>5. CASE index = NoValue /\ vault = WipedVault
  <2>1. Held(index) = {} /\ index.version = 0 BY <1>5 DEF Held, NoValue, Empty
  <2>2. Cardinality(Held(index)) = 0 BY <2>1, FS_EmptySet
  <2>3. IndexOK(index, vault) BY <1>5, <2>1, <2>2, StorageAssumption DEF IndexOK
  <2>4. QED BY <1>1, <1>3, <1>4, <1>5, <2>3 DEF Inv
<1>6. ASSUME NEW S \in SUBSET Receipts, NEW c \in [S -> Contents], Cardinality(S) <= MaxReceipts,
             index = [NoValue EXCEPT !.version = 3, !.entries = Legacy(S, c)], vault = WipedVault
      PROVE Inv
  <2>1. PFun(Legacy(S, c), Receipts, Entries) /\ DOMAIN Legacy(S, c) = S
    BY DEF Legacy, PFun, Entry, Entries, NoId, Owners
  <2>2. IsIndex(index) /\ index.version = 3 /\ index.entries = Legacy(S, c) /\ index.anchors = Empty
    BY <1>2, <1>6, <2>1 DEF IsIndex, NoValue
  <2>3. IndexOK(index, vault) BY <1>6, <2>1, <2>2 DEF IndexOK, Held, Empty
  <2>4. QED BY <1>1, <1>3, <1>6, <2>2, <2>3 DEF Inv
<1>7. ASSUME NEW r \in Receipts, NEW c \in Contents, NEW n \in Least(Ids),
             index = [NoValue EXCEPT !.version = 4, !.identity = n,
                        !.entries = With(Empty, r, Entry(n, n, c, "LOCAL"))],
             vault = [WipedVault EXCEPT !.identity = n, !.keys = With(Empty, n, r),
                        !.blobs = With(Empty, n, [receipt |-> r, key |-> n, content |-> c,
                                                  owner |-> "LOCAL", anchored |-> FALSE])]
      PROVE Inv
  <2> DEFINE e == Entry(n, n, c, "LOCAL")
             b == [receipt |-> r, key |-> n, content |-> c, owner |-> "LOCAL", anchored |-> FALSE]
  <2>1. n \in Ids /\ n # NoId BY StorageAssumption DEF Least, NoId
  <2>2. e \in Entries /\ b \in Blobs BY <2>1 DEF Entry, Entries, Blobs, Owners
  <2>3. e.blob = n /\ e.key = n /\ e.content = c /\ e.owner = "LOCAL"
          /\ b.receipt = r /\ b.key = n /\ b.content = c /\ b.owner = "LOCAL"
    BY DEF Entry
  <2> HIDE DEF e, b
  <2>4. PFun(With(Empty, r, e), Receipts, Entries) /\ PFun(With(Empty, n, r), Ids, Receipts)
          /\ PFun(With(Empty, n, b), Ids, Blobs)
    BY <1>2, <2>1, <2>2, WithTyped
  <2>5. /\ DOMAIN With(Empty, r, e) = {r} /\ With(Empty, r, e)[r] = e
        /\ DOMAIN With(Empty, n, r) = {n} /\ With(Empty, n, r)[n] = r
        /\ DOMAIN With(Empty, n, b) = {n} /\ With(Empty, n, b)[n] = b
    BY DEF With, Empty
  <2>6. IsIndex(index) /\ index.version = 4 /\ index.identity = n /\ index.entries = With(Empty, r, e)
          /\ index.anchors = Empty
    BY <1>2, <1>7, <2>1, <2>4 DEF IsIndex, NoValue, e
  <2>7. IsVault(vault) /\ vault.identity = n /\ vault.keys = With(Empty, n, r) /\ vault.blobs = With(Empty, n, b)
    BY <1>2, <1>7, <2>1, <2>4 DEF IsVault, WipedVault, b
  <2>8. Held(index) = {r} /\ index.entries[r] = e BY <2>5, <2>6 DEF Held
  <2>9. Cardinality(Held(index)) = 1 BY <2>8, FS_Singleton
  <2>10. Decrypts(vault, r, e) BY <2>3, <2>5, <2>7 DEF Decrypts
  <2>11. Opens(index, vault) BY <2>6, <2>7, <2>8, <2>10 DEF Opens, DecryptsAll, Held, Confirmed, Empty
  <2>12. ValidIndex(index) BY <2>1, <2>6, <2>8, <2>9, StorageAssumption DEF ValidIndex, Held, Empty
  <2>13. IndexOK(index, vault) BY <2>1, <2>6, <2>8, <2>9, <2>11, <2>12, StorageAssumption DEF IndexOK
  <2>14. QED BY <1>1, <2>6, <2>7, <2>13 DEF Inv
<1>8. QED BY <1>5, <1>6, <1>7 DEF Init, InitStores

LEMMA RunKeeps == ASSUME Inv, Run PROVE Inv'
<1>1. ASSUME Finish, UNCHANGED <<index, vault>> PROVE Inv' BY <1>1, Finishes DEF Inv
<1>2. CASE Load
  BY <1>2, ReadKeeps, EnsureIdentityKeeps, WriteIdentityKeeps, UpgradeKeeps, UnlockKeeps, DecryptKeeps DEF Load
<1>3. CASE Migrate
  BY <1>3, OpenJournalKeeps, LogMigratedKeeps, PublishMigratedKeeps, DropJournalKeeps, MigrateReceiptKeeps DEF Migrate
<1>4. CASE PlanChange BY <1>4, PlanChangeKeeps
<1>5. CASE Save
  BY <1>5, OpenSaveKeeps, PublishSaveKeeps, SettledKeeps, UndoingKeeps, SignKeeps, CleanSavedKeeps DEF Save
<1>6. CASE Import
  <2>1. ASSUME ImportRefused PROVE Inv' BY <1>1, <2>1 DEF ImportRefused
  <2>2. QED BY <1>6, <2>1, PutImportedKeeps, PublishImportedKeeps, CleanImportedKeeps DEF Import
<1>7. CASE Anchor
  <2>1. ASSUME NothingToAnchor PROVE Inv' BY <1>1, <2>1 DEF NothingToAnchor
  <2>2. QED BY <1>7, <2>1, SaveAnchorOperationKeeps, PutAnchoredKeeps, PublishAnchoredKeeps DEF Anchor
<1>8. CASE DeleteAll BY <1>8, DeleteAllKeeps
<1>9. QED BY <1>2, <1>3, <1>4, <1>5, <1>6, <1>7, <1>8 DEF Run

\* No step of an operation counts as an operation or a fault, or rolls back.
LEMMA RunCounts == ASSUME Run PROVE UNCHANGED <<ops, faults>> /\ rolledBack' \in {rolledBack, {}}
<1>1. CASE Load BY <1>1 DEF Step, Load, Read, EnsureIdentity, WriteIdentity, Upgrade, Unlock, Decrypt
<1>2. CASE Migrate
  BY <1>2 DEF Step, Migrate, OpenJournal, LogMigrated, PublishMigrated, DropJournal, MigrateReceipt
<1>3. CASE PlanChange
  BY <1>3 DEF Step, PlanChange, LoadedOnly, PlanCapture, CaptureRefused, PlanContext, NoContext, PlanSettings, PlanRemove, Plan
<1>4. CASE Save BY <1>4 DEF Step, Save, OpenSave, PublishSave, Settled, Undo, Sign, CleanSaved
<1>5. CASE Import
  BY <1>5 DEF Step, Import, ImportRefused, PutImported, PublishImported, CleanImportedBlob, CleanImportedKey
<1>6. CASE Anchor BY <1>6 DEF Step, Anchor, SaveAnchorOperation, NothingToAnchor, PutAnchored, PublishAnchored
<1>7. CASE DeleteAll BY <1>7 DEF Step, DeleteAll, Wipe, Remove, Reset
<1>8. QED BY <1>1, <1>2, <1>3, <1>4, <1>5, <1>6, <1>7 DEF Run

(* Every step leaves the store sound or, after a failed cleanup, damaged,   *)
(* and a damaged one keeps its index.                                       *)
LEMMA NextKeeps ==
  ASSUME Sound \/ Damaged, [Next]_vars
  PROVE  (Sound \/ Damaged)' /\ (Sound \/ index' = index)
<1>1. CASE UNCHANGED vars BY <1>1 DEF vars, Inv, Sound, Damaged, IsChange
<1>2. CASE Sound /\ \E op \in Operations : Begin(op) BY <1>2, BeginKeeps DEF Sound, Begin
<1>3. CASE Sound /\ Run BY <1>3, RunKeeps, RunCounts DEF Sound
<1>4. CASE Sound /\ Faults BY <1>4, FaultsKeep
<1>5. CASE Damaged /\ Next BY <1>5, DamagedGoesOn
<1>6. QED BY <1>1, <1>2, <1>3, <1>4, <1>5 DEF Next

LEMMA AlwaysSoundOrDamaged == Spec => [](Sound \/ Damaged)
<1>1. Init => Sound \/ Damaged BY InitInv DEF Init, Sound
<1>2. (Sound \/ Damaged) /\ [Next]_vars => (Sound \/ Damaged)' BY NextKeeps
<1>3. QED BY <1>1, <1>2, PTL DEF Spec

-----------------------------------------------------------------------------
(* For any receipts, identifiers and numbers of operations and faults the   *)
(* stored index, the vault and the running operation keep their types.      *)
THEOREM TypeCorrect == Spec => []TypeOK
<1> DEFINE Counts == ops \in 0..MaxOps /\ faults \in 0..MaxFaults
<1>1. Init => Counts BY StorageAssumption DEF Init
<1>2. Counts /\ [Next]_vars => Counts'
  <2> SUFFICES ASSUME Counts, [Next]_vars PROVE Counts' OBVIOUS
  <2>1. CASE UNCHANGED <<ops, faults>> BY <2>1
  <2>2. CASE Faults
    BY <2>2, StorageAssumption DEF Faults, Crash, Reject, UndoIgnored, WipeBlocked, Fault
  <2>3. CASE \E op \in Operations : Begin(op) BY <2>3, StorageAssumption DEF Begin
  <2>4. CASE Run BY <2>1, <2>4, RunCounts
  <2>5. QED BY <2>1, <2>2, <2>3, <2>4 DEF Next, vars
<1>3. Sound /\ Counts => TypeOK BY DEF Sound, Inv, Stage, JobTyped, Shape, TypeOK
<1>4. Damaged /\ Counts => TypeOK
  <2> SUFFICES ASSUME Damaged, Counts PROVE TypeOK OBVIOUS
  <2>1. rolledBack \subseteq Receipts BY HeldFinite DEF Damaged
  <2>2. QED BY <2>1 DEF Damaged, JobTyped, Shape, TypeOK
<1>5. QED BY AlwaysSoundOrDamaged, <1>1, <1>2, <1>3, <1>4, PTL DEF Spec

(* Wherever the worker stops and whichever call rejects, for any number of  *)
(* operations: an encrypted index names only receipts that decrypt, unless  *)
(* a delete-all got no further than the vault, or a failed cleanup rolled   *)
(* that very receipt back (secure-storage.ts).                              *)
THEOREM StopsLoseNothing == Spec => []IndexIsReadable
<1>1. Sound => IndexIsReadable BY DEF Sound, Inv, IndexOK, Opens, DecryptsAll, Held, IndexIsReadable
<1>2. Damaged => IndexIsReadable BY DEF Damaged, OpensBut, IndexIsReadable
<1>3. QED BY AlwaysSoundOrDamaged, <1>1, <1>2, PTL

(* For any interleaving of captures, confirmations, imports and anchors the *)
(* blob of a receipt whose anchor is confirmed holds the chain evidence     *)
(* (storeVerifiedChainAnchor), with the same two exceptions.                *)
THEOREM EvidenceStays == Spec => []AnchorsAgree
<1>1. Sound => AnchorsAgree
  <2> SUFFICES ASSUME Inv, NEW r \in DOMAIN index.anchors, Confirmed(index, r), vault # WipedVault
               PROVE  vault.blobs[index.entries[r].blob].anchored
    BY DEF AnchorsAgree, Confirmed, Sound
  <2>1. index.version \in {4, 5} BY DEF Inv, IsIndex, IndexOK, NoValue, Empty
  <2>2. QED BY <2>1 DEF Inv, IndexOK, Opens, ValidIndex, Held
<1>2. Damaged => AnchorsAgree
  <2> SUFFICES ASSUME Damaged, NEW r \in DOMAIN index.anchors \ rolledBack, Confirmed(index, r)
               PROVE  vault.blobs[index.entries[r].blob].anchored
    BY DEF AnchorsAgree, Confirmed
  <2>1. r \in Held(index) \ rolledBack BY DEF Damaged, ValidIndex, Held
  <2>2. QED BY <2>1 DEF Damaged, OpensBut
<1>3. QED BY AlwaysSoundOrDamaged, <1>1, <1>2, PTL

(* No step of any operation, fault or catch takes a receipt out of the      *)
(* index or takes back its confirmation there, but the deletion the user    *)
(* asked for and an import of that receipt: what a failed cleanup rolls     *)
(* back keeps its entry.                                                    *)
THEOREM ReceiptsAreKept == Spec => NoReceiptLost
<1> DEFINE Safe == \A r \in Held(index) : Loses(r) =>
                     \/ job.op = "deleteAll"
                     \/ job.op \in {"remove", "import"} /\ r \in job.r
<1>1. Inv /\ [Next]_vars => [Safe]_index
  <2> SUFFICES ASSUME Inv, [Next]_vars, index' # index PROVE Safe OBVIOUS
  <2>1. ASSUME NEW r \in Held(index), r \in Held(index'), index'.entries[r].content = index.entries[r].content
        PROVE  ~Loses(r)
    BY <2>1 DEF Loses
  <2>2. CASE WriteIdentity
    <3>1. index'.entries = job.seen.entries BY <2>2 DEF WriteIdentity
    <3>2. job.seen = index BY <2>2 DEF WriteIdentity, Inv, Stage, Reads, Seeing
    <3>3. QED BY <2>1, <3>1, <3>2 DEF Held
  <2>3. CASE Upgrade
    <3>1. job.seen = index BY <2>3 DEF Upgrade, Inv, Stage, Reads, Seeing
    <3>2. index'.entries = index.entries BY <2>3, <3>1 DEF Upgrade, Inv, IsIndex
    <3>3. QED BY <2>1, <3>2 DEF Held
  <2>4. CASE PublishMigrated
    <3>1. job.pc = "migrate" /\ index'.entries = job.next /\ DOMAIN job.next = Held(job.seen) BY <2>4 DEF PublishMigrated
    <3>2. job.seen = index /\ Ready(job, index, vault) BY <3>1 DEF Inv, Stage, Reads, Seeing, Migrating
    <3>3. QED BY <2>1, <3>1, <3>2 DEF Ready, Migrating, Held
  <2>5. CASE PublishSave
    <3>1. job.pc = "sign" /\ index'.entries = job.next /\ DOMAIN job.next = DOMAIN job.want BY <2>5 DEF PublishSave
    <3>2. Ready(job, index, vault) BY <3>1, PublishingKnows DEF Publishing
    <3>3. job.op \in Changes /\ job.pass = 2 /\ \A r \in DOMAIN job.next : job.next[r].content = job.want[r]
      BY <3>1, <3>2 DEF Ready
    <3>4. Keeps(job, index) BY <3>1, <3>3 DEF Inv, Stage, Plans, Cleaning
    <3>5. QED BY <3>1, <3>3, <3>4 DEF Keeps, Loses, Held
  <2>6. CASE PublishImported \/ PublishAnchored
    <3>1. job.pc \in {"publishImport", "publishAnchor"} BY <2>6 DEF PublishImported, PublishAnchored
    <3>2. job.seen = index /\ Ready(job, index, vault) BY <3>1, PublishingKnows DEF Publishing
    <3>3. index'.entries = job.next BY <2>6, <3>2 DEF PublishImported, PublishAnchored, Inv, IsIndex
    <3>4. ASSUME NEW r \in Held(index), Loses(r) PROVE job.op = "import" /\ r \in job.r
      <4>1. r \in DOMAIN job.next BY <3>1, <3>2 DEF Ready
      <4>2. r \in job.r BY <2>1, <3>1, <3>2, <3>3, <3>4, <4>1 DEF Ready, Held
      <4>3. job.pc # "publishAnchor" BY <2>1, <3>2, <3>3, <3>4, <4>1, <4>2 DEF Ready, Held
      <4>4. QED BY <3>1, <3>2, <4>2, <4>3 DEF Ready
    <3>5. QED BY <3>4
  <2>7. CASE SaveAnchorOperation
    <3>1. job.seen = index BY <2>7, LoadedKnows DEF SaveAnchorOperation, Loaded
    <3>2. index'.entries = index.entries BY <2>7, <3>1 DEF SaveAnchorOperation, Inv, IsIndex
    <3>3. QED BY <2>1, <3>2 DEF Held
  <2>8. CASE Remove \/ Reset BY <2>8 DEF Remove, Reset, Inv, Stage, Plans
  <2>9. CASE Load
    BY <2>2, <2>3, <2>9 DEF Load, Read, EnsureIdentity, Unlock, Decrypt
  <2>10. CASE Migrate
    BY <2>4, <2>10 DEF Migrate, OpenJournal, LogMigrated, DropJournal, MigrateReceipt
  <2>11. CASE PlanChange
    BY <2>11 DEF PlanChange, LoadedOnly, PlanCapture, CaptureRefused, PlanContext, NoContext, PlanSettings, PlanRemove, Plan
  <2>12. CASE Save BY <2>5, <2>12 DEF Save, OpenSave, Settled, Undo, Sign, CleanSaved
  <2>13. CASE Import BY <2>6, <2>13 DEF Import, ImportRefused, PutImported, CleanImportedBlob, CleanImportedKey
  <2>14. CASE Anchor BY <2>6, <2>7, <2>14 DEF Anchor, NothingToAnchor, PutAnchored
  <2>15. CASE DeleteAll BY <2>8, <2>15 DEF DeleteAll, Wipe
  <2>16. CASE Faults BY <2>16 DEF Faults, Crash, Reject, UndoIgnored, WipeBlocked
  <2>17. CASE (\E op \in Operations : Begin(op)) \/ UNCHANGED vars BY <2>17 DEF Begin, vars
  <2>18. QED
    BY <2>9, <2>10, <2>11, <2>12, <2>13, <2>14, <2>15, <2>16, <2>17 DEF Next, Run
<1>2. (Sound \/ Damaged) /\ [Next]_vars => [Safe]_index BY <1>1, NextKeeps DEF Sound
<1>3. QED BY AlwaysSoundOrDamaged, <1>2, PTL DEF Spec, NoReceiptLost

-----------------------------------------------------------------------------
(* What the vault holds while nothing fails: the artifacts that the index  *)
(* names, and those the running operation still owes a deletion or a       *)
(* place in the index.                                                     *)

NamesBlob(i, b) == i.version # 3 /\ \E r \in Held(i) : i.entries[r].blob = b
NamesKey(i, k) == i.version # 3 /\ \E r \in Held(i) : i.entries[r].key = k
\* What a cleanup deletes of a receipt besides its blob.
KeyGoes(j, r) == r \notin DOMAIN j.next \/ j.op = "import"
OwesBlob(j, b) ==
  \/ j.pc \in Migrating /\ \E r \in DOMAIN j.next : j.next[r].blob = b
  \/ j.pc \in Publishing \cup {"undo"} /\ \E m \in j.made : m.blob = b
  \/ j.pc = "clean" /\ \E r \in j.todo : j.seen.entries[r].blob = b
OwesKey(j, k) ==
  \/ j.pc \in Migrating /\ \E r \in DOMAIN j.next : j.next[r].key = k
  \/ j.pc \in Publishing \cup {"undo"} /\ \E m \in j.made : m.new /\ m.key = k
  \/ j.pc \in Cleaning /\ \E r \in j.todo : KeyGoes(j, r) /\ j.seen.entries[r].key = k
Accounts(j, i, v) ==
  /\ \A b : b \in DOMAIN v.blobs <=> NamesBlob(i, b) \/ OwesBlob(j, b)
  /\ \A k : k \in DOMAIN v.keys <=> NamesKey(i, k) \/ OwesKey(j, k)

\* What will be published are entries of the index and artifacts made.
MadeFor(j, i, r, m) ==
  /\ j.next[r].blob = m.blob /\ j.next[r].key = m.key
  /\ m.new => r \notin Held(i) \/ (j.op = "import" /\ r \in j.r)
  /\ ~m.new => r \in Held(i) /\ j.next[r].key = i.entries[r].key
Adds(j, i) ==
  /\ \A r \in DOMAIN j.next :
       \/ r \in Held(i) /\ j.next[r] = i.entries[r]
       \/ \E m \in j.made : MadeFor(j, i, r, m)
  /\ \A m \in j.made : \E r \in DOMAIN j.next : MadeFor(j, i, r, m)
Makes(j) ==
  /\ \A m \in j.made : m.new => m.key = m.blob
  /\ \A m, n \in j.made : m.blob = n.blob => m = n

Tally(j, i, v) ==
  /\ j.pc = "remove" => DOMAIN v.blobs = {} /\ DOMAIN v.keys = {}
  /\ j.pc # "remove" => Accounts(j, i, v)
  /\ v.logged <=> j.pc \in Migrating \cup {"dropJournal"}
  /\ ~v.logged => DOMAIN v.journal = {}
  /\ j.pc \in Migrating => DOMAIN j.want = {}
  /\ j.pc \notin Cleaning => j.todo = {}
  /\ Makes(j)
  /\ j.pc \in Publishing => Adds(j, i)
  /\ j.pc = "clean" => \A r \in j.todo : Decrypts(v, r, j.seen.entries[r])
  /\ j.op = "import" => \A r, s \in j.r \cup j.todo : r = s
  /\ j.pc = "reset" => Held(i) = {}

-----------------------------------------------------------------------------
\* Steps that neither make nor owe anything.

Quiet(p) == p \notin Migrating \cup Publishing \cup Cleaning \cup {"undo", "remove", "reset"}
LEMMA QuietTally ==
  ASSUME Tally(job, index, vault), Quiet(job.pc), Quiet(job'.pc), job'.todo = {}, job'.made = {},
         job'.r = {} \/ (job'.op = job.op /\ job'.r = job.r) \/ job'.op # "import",
         vault'.blobs = vault.blobs, vault'.keys = vault.keys,
         vault'.logged <=> job'.pc = "dropJournal", ~vault'.logged => DOMAIN vault'.journal = {},
         \A b : NamesBlob(index', b) <=> NamesBlob(index, b),
         \A k : NamesKey(index', k) <=> NamesKey(index, k)
  PROVE  Tally(job', index', vault')
<1>1. (\A b : ~OwesBlob(job, b) /\ ~OwesBlob(job', b)) /\ (\A k : ~OwesKey(job, k) /\ ~OwesKey(job', k))
  BY DEF OwesBlob, OwesKey, Quiet, Cleaning
<1>2. Accounts(job', index', vault') BY <1>1 DEF Tally, Accounts, Quiet
<1>3. Makes(job') BY DEF Makes
<1>4. QED BY <1>2, <1>3 DEF Tally, Quiet, Cleaning

LEMMA FinishTally ==
  ASSUME Tally(job, index, vault), Quiet(job.pc), job.pc # "dropJournal", Finish, vault' = vault,
         \A b : NamesBlob(index', b) <=> NamesBlob(index, b),
         \A k : NamesKey(index', k) <=> NamesKey(index, k)
  PROVE  Tally(job', index', vault')
<1>1. job'.pc = "idle" /\ job'.todo = {} /\ job'.made = {} /\ job'.r = {} BY DEF Finish, Idle
<1>2. Quiet(job'.pc) /\ job'.pc # "dropJournal" BY <1>1 DEF Quiet, Migrating, Publishing, Cleaning
<1>3. ~vault.logged /\ DOMAIN vault.journal = {} BY DEF Tally, Quiet
<1>4. QED BY <1>1, <1>2, <1>3, QuietTally

\* The fields of a job that moves on.
LEMMA MovesOn ==
  ASSUME Inv, NEW p, job' = [job EXCEPT !.pc = p] \/ (\E s : job' = [job EXCEPT !.seen = s, !.pc = p])
  PROVE  /\ job'.pc = p
         /\ job'.op = job.op /\ job'.pass = job.pass /\ job'.r = job.r /\ job'.want = job.want
         /\ job'.next = job.next /\ job'.made = job.made /\ job'.todo = job.todo
BY DEF Inv, Stage, JobTyped, Shape

LEMMA BeginTally ==
  ASSUME Inv, Tally(job, index, vault), NEW op \in Operations, Begin(op) PROVE Tally(job', index', vault')
<1>1. job.pc = "idle" /\ UNCHANGED <<index, vault>> BY DEF Begin
<1>2. job'.todo = {} /\ job'.made = {} /\ job'.r = {} /\ job'.pc \in {"wipe", "read"} BY DEF Begin, Idle
<1>3. Quiet(job.pc) /\ Quiet(job'.pc) /\ job'.pc # "dropJournal"
  BY <1>1, <1>2 DEF Quiet, Migrating, Publishing, Cleaning
<1>4. ~vault.logged /\ DOMAIN vault.journal = {} BY <1>1 DEF Tally, Migrating
<1>5. QED BY <1>1, <1>2, <1>3, <1>4, QuietTally

\* While nothing is staged nothing is made or due.
LEMMA QuietMade ==
  ASSUME Inv, Tally(job, index, vault), Quiet(job.pc) PROVE job.made = {} /\ job.todo = {}
BY DEF Inv, Stage, Staged, Tally, Quiet

LEMMA LoadTally ==
  ASSUME Inv, Tally(job, index, vault), Load PROVE Tally(job', index', vault')
<1> DEFINE Here == {"read", "install", "adopt", "enroll", "initial", "recordIdentity", "upgrade", "unlock", "decrypt"}
           There == Here \cup {"loaded", "openJournal"}
<1>1. SUFFICES ASSUME job.pc \in Here, vault'.blobs = vault.blobs, vault'.keys = vault.keys,
                      vault'.logged = vault.logged, vault'.journal = vault.journal,
                      \A b : NamesBlob(index', b) <=> NamesBlob(index, b),
                      \A k : NamesKey(index', k) <=> NamesKey(index, k),
                      \/ Finish /\ vault' = vault
                      \/ /\ job'.pc \in There /\ job'.op = job.op /\ job'.r = job.r
                         /\ job'.made = job.made /\ job'.todo = job.todo
               PROVE  Tally(job', index', vault')
  <2>1. ASSUME Fail, job.pc \in Here PROVE Finish
    <3>1. job.made = {} BY <2>1 DEF Inv, Stage, Staged, Publishing, Cleaning
    <3>2. QED BY <2>1, <3>1 DEF Fail, Finish
  <2>2. CASE Read
    <3> DEFINE p == CASE index.version = 0 -> "install" [] index.version = 3 -> "adopt"
                      [] index.version = 4 -> "upgrade" [] OTHER -> "unlock"
    <3>1. index.version \in {0, 3, 4, 5} BY DEF Inv, IsIndex
    <3>2. p \in There BY <3>1
    <3>3. (\E s : job' = [job EXCEPT !.seen = s, !.pc = p]) /\ job.pc = "read" /\ UNCHANGED <<index, vault>>
      BY <2>2 DEF Read
    <3> HIDE DEF p
    <3>4. job'.pc = p /\ job'.op = job.op /\ job'.r = job.r /\ job'.made = job.made /\ job'.todo = job.todo
      BY <3>3, MovesOn
    <3>5. QED BY <3>2, <3>3, <3>4, <1>1
  <2>3. CASE EnsureIdentity
    <3> DEFINE p == CASE job.pc = "install" -> "initial" [] job.pc = "adopt" -> "openJournal" [] OTHER -> "recordIdentity"
    <3>1. p \in There OBVIOUS
    <3>2. job' = [job EXCEPT !.pc = p] /\ job.pc \in Here /\ index' = index /\ PutIdentityIfAbsent
      BY <2>3 DEF EnsureIdentity, Goto
    <3> HIDE DEF p
    <3>3. job'.pc = p /\ job'.op = job.op /\ job'.r = job.r /\ job'.made = job.made /\ job'.todo = job.todo
      BY <3>2, MovesOn
    <3>4. /\ vault'.blobs = vault.blobs /\ vault'.keys = vault.keys
          /\ vault'.logged = vault.logged /\ vault'.journal = vault.journal
      BY <3>2 DEF PutIdentityIfAbsent, Inv, IsVault
    <3>5. QED BY <3>1, <3>2, <3>3, <3>4, <1>1
  <2>4. ASSUME WriteIdentity \/ Upgrade PROVE Tally(job', index', vault')
    <3>1. job.pc \in {"initial", "recordIdentity", "upgrade"} /\ vault' = vault /\ job.seen = index
      BY <2>4 DEF WriteIdentity, Upgrade, Inv, Stage, Reads, Seeing
    <3>2. index.version \in {0, 4, 5} BY <3>1 DEF Inv, Stage, Reads
    <3>3. index'.version = 5 /\ index'.entries = index.entries
      <4>1. CASE WriteIdentity BY <3>1, <4>1 DEF WriteIdentity
      <4>2. CASE Upgrade BY <3>1, <4>2 DEF Upgrade, Inv, IsIndex
      <4>3. QED BY <2>4, <4>1, <4>2
    <3>4. (\A b : NamesBlob(index', b) <=> NamesBlob(index, b)) /\ (\A k : NamesKey(index', k) <=> NamesKey(index, k))
      BY <3>2, <3>3 DEF NamesBlob, NamesKey, Held
    <3>5. \E s : job' = [job EXCEPT !.seen = s, !.pc = "decrypt"] BY <2>4 DEF WriteIdentity, Upgrade
    <3>6. /\ job'.pc = "decrypt" /\ job'.op = job.op /\ job'.r = job.r /\ job'.made = job.made
          /\ job'.todo = job.todo
      BY <3>5, MovesOn
    <3>7. QED BY <3>1, <3>4, <3>6, <1>1
  <2>5. ASSUME Unlock \/ Decrypt PROVE Tally(job', index', vault')
    <3>1. job.pc \in {"unlock", "decrypt"} /\ UNCHANGED <<index, vault>> BY <2>5 DEF Unlock, Decrypt
    <3>2. Finish \/ \E p \in {"decrypt", "enroll", "loaded"} : job' = [job EXCEPT !.pc = p]
      BY <2>1, <2>5, <3>1 DEF Unlock, Decrypt, Goto
    <3>3. Finish \/ (/\ job'.pc \in {"decrypt", "enroll", "loaded"} /\ job'.op = job.op /\ job'.r = job.r
                     /\ job'.made = job.made /\ job'.todo = job.todo)
      BY <3>2, MovesOn
    <3>4. QED BY <3>1, <3>3, <1>1
  <2>6. QED BY <2>2, <2>3, <2>4, <2>5 DEF Load
<1>2. Quiet(job.pc) /\ job.pc # "dropJournal" BY <1>1 DEF Quiet, Migrating, Publishing, Cleaning
<1>3. ~vault.logged /\ DOMAIN vault.journal = {} BY <1>2 DEF Tally, Quiet
<1>4. CASE Finish /\ vault' = vault BY <1>1, <1>2, <1>4, FinishTally
<1>5. CASE /\ job'.pc \in There /\ job'.op = job.op /\ job'.r = job.r
           /\ job'.made = job.made /\ job'.todo = job.todo
  <2>1. Quiet(job'.pc) /\ job'.pc # "dropJournal" BY <1>5 DEF Quiet, Migrating, Publishing, Cleaning
  <2>2. QED BY <1>1, <1>2, <1>3, <1>5, <2>1, QuietMade, QuietTally
<1>6. QED BY <1>1, <1>4, <1>5

-----------------------------------------------------------------------------
\* What the vault's operations add and take.

LEMMA PutAdds ==
  ASSUME IsVault(vault), NEW b, NEW k, NEW r, NEW c, NEW o, NEW a, Put(b, k, r, c, o, a)
  PROVE  /\ DOMAIN vault'.blobs = DOMAIN vault.blobs \cup {b}
         /\ DOMAIN vault'.keys = DOMAIN vault.keys \cup {k}
         /\ vault'.logged = vault.logged /\ vault'.journal = vault.journal
BY DEF IsVault, Put, With

LEMMA DropTakes ==
  ASSUME IsVault(vault), NEW B, NEW K, vault' = DropArtifacts(B, K)
  PROVE  /\ DOMAIN vault'.blobs = DOMAIN vault.blobs \ B /\ DOMAIN vault'.keys = DOMAIN vault.keys \ K
         /\ \A b \in DOMAIN vault'.blobs : vault'.blobs[b] = vault.blobs[b]
         /\ \A k \in DOMAIN vault'.keys : vault'.keys[k] = vault.keys[k]
         /\ vault'.logged = vault.logged /\ vault'.journal = vault.journal
BY DEF IsVault, DropArtifacts, Without

\* While the journal is open the index is not encrypted: everything in the
\* vault is in the migration's hands.
LEMMA MigratingTally ==
  ASSUME Tally(job, index, vault), index' = index, index.version = 3, job.pc \in Migrating, job'.pc \in Migrating,
         job'.op = job.op, job'.r = job.r, job'.want = job.want, job'.made = job.made, job'.todo = job.todo,
         vault'.logged,
         \A b : b \in DOMAIN vault'.blobs <=> \E r \in DOMAIN job'.next : job'.next[r].blob = b,
         \A k : k \in DOMAIN vault'.keys <=> \E r \in DOMAIN job'.next : job'.next[r].key = k
  PROVE  Tally(job', index', vault')
<1>1. job.todo = {} /\ DOMAIN job.want = {} BY DEF Tally, Migrating, Cleaning
<1>2. \A b : OwesBlob(job', b) <=> \E r \in DOMAIN job'.next : job'.next[r].blob = b
  BY DEF OwesBlob, Migrating, Publishing
<1>3. \A k : OwesKey(job', k) <=> \E r \in DOMAIN job'.next : job'.next[r].key = k
  BY DEF OwesKey, Migrating, Publishing, Cleaning
<1>4. Accounts(job', index', vault') BY <1>2, <1>3 DEF Accounts, NamesBlob, NamesKey
<1>5. Makes(job') BY DEF Tally, Makes
<1>6. QED BY <1>1, <1>4, <1>5 DEF Tally, Migrating, Publishing, Cleaning

LEMMA MigratingOwes ==
  ASSUME Inv, Tally(job, index, vault), job.pc \in Migrating
  PROVE  /\ index.version = 3 /\ job.seen = index /\ job.made = {} /\ job.todo = {} /\ DOMAIN job.want = {}
         /\ vault.logged
         /\ \A b : b \in DOMAIN vault.blobs <=> \E r \in DOMAIN job.next : job.next[r].blob = b
         /\ \A k : k \in DOMAIN vault.keys <=> \E r \in DOMAIN job.next : job.next[r].key = k
<1>1. index.version = 3 /\ job.seen = index /\ job.made = {}
  BY DEF Inv, Stage, Reads, Staged, Seeing, Migrating, Publishing, Cleaning
<1>2. job.todo = {} /\ DOMAIN job.want = {} /\ vault.logged /\ Accounts(job, index, vault)
  BY DEF Tally, Migrating, Cleaning
<1>3. \A b : OwesBlob(job, b) <=> \E r \in DOMAIN job.next : job.next[r].blob = b
  BY DEF OwesBlob, Migrating, Publishing
<1>4. \A k : OwesKey(job, k) <=> \E r \in DOMAIN job.next : job.next[r].key = k
  BY DEF OwesKey, Migrating, Publishing, Cleaning
<1>5. QED BY <1>1, <1>2, <1>3, <1>4 DEF Accounts, NamesBlob, NamesKey

LEMMA OpenJournalTally == ASSUME Inv, Tally(job, index, vault), OpenJournal PROVE Tally(job', index', vault')
<1>1. job.pc = "openJournal" /\ index' = index /\ vault' = [vault EXCEPT !.logged = TRUE, !.journal = Empty]
  BY DEF OpenJournal, PutJournal
<1>2. /\ job'.pc = "migrate" /\ job'.op = job.op /\ job'.r = job.r /\ job'.want = vault.journal
      /\ job'.next = job.next /\ job'.made = job.made /\ job'.todo = job.todo
  BY DEF OpenJournal, Inv, Stage, JobTyped, Shape
<1>3. vault'.blobs = vault.blobs /\ vault'.keys = vault.keys /\ vault'.logged BY <1>1 DEF Inv, IsVault
<1>4. DOMAIN job.next = {} /\ index.version = 3 BY <1>1 DEF Inv, Stage, Staged, Reads, Migrating, Publishing, Cleaning
<1>5. job.todo = {} /\ DOMAIN vault.journal = {} /\ Accounts(job, index, vault)
  BY <1>1 DEF Tally, Migrating, Cleaning
<1>6. (\A b : ~OwesBlob(job, b) /\ ~OwesBlob(job', b)) /\ (\A k : ~OwesKey(job, k) /\ ~OwesKey(job', k))
  BY <1>1, <1>2, <1>4 DEF OwesBlob, OwesKey, Migrating, Publishing, Cleaning
<1>7. Accounts(job', index', vault') BY <1>1, <1>3, <1>5, <1>6 DEF Accounts
<1>8. Makes(job') BY <1>2 DEF Tally, Makes
<1>9. job'.op = "import" => \A r, s \in job'.r \cup job'.todo : r = s BY <1>2 DEF Tally
<1>10. QED BY <1>2, <1>3, <1>5, <1>7, <1>8, <1>9 DEF Tally, Migrating, Publishing, Cleaning

LEMMA LogMigratedTally == ASSUME Inv, Tally(job, index, vault), LogMigrated PROVE Tally(job', index', vault')
<1>1. job.pc = "log" /\ index' = index /\ job' = [job EXCEPT !.pc = "migrate"]
        /\ vault' = [vault EXCEPT !.logged = TRUE, !.journal = job.next]
  BY DEF LogMigrated, PutJournal, Goto
<1>2. /\ job'.pc = "migrate" /\ job'.op = job.op /\ job'.r = job.r /\ job'.want = job.want
      /\ job'.next = job.next /\ job'.made = job.made /\ job'.todo = job.todo
  BY <1>1, MovesOn
<1>3. vault'.blobs = vault.blobs /\ vault'.keys = vault.keys /\ vault'.logged BY <1>1 DEF Inv, IsVault
<1>4. job.pc \in Migrating /\ job'.pc \in Migrating BY <1>1, <1>2 DEF Migrating
<1>5. QED BY <1>1, <1>2, <1>3, <1>4, MigratingOwes, MigratingTally

LEMMA MigrateReceiptTally ==
  ASSUME Inv, Tally(job, index, vault), NEW r \in Receipts, MigrateReceipt(r) PROVE Tally(job', index', vault')
<1>1. job.pc = "migrate" /\ index' = index /\ r \notin DOMAIN job.next BY DEF MigrateReceipt
<1>2. job.pc \in Migrating BY <1>1 DEF Migrating
<1>3. ~Reusable(r) BY <1>2, MigratingOwes DEF Reusable
<1>4. PICK n \in NewIds :
        /\ Put(n, n, r, job.seen.entries[r].content, "LOCAL", FALSE)
        /\ job' = [job EXCEPT !.pc = "log",
                              !.next = With(@, r, Entry(n, n, job.seen.entries[r].content, "LOCAL"))]
  BY <1>3 DEF MigrateReceipt
<1> DEFINE e == Entry(n, n, job.seen.entries[r].content, "LOCAL")
<1>5. e.blob = n /\ e.key = n BY DEF Entry
<1>6. job' = [job EXCEPT !.pc = "log", !.next = With(@, r, e)] BY <1>4
<1> HIDE DEF e
<1>7. /\ job'.pc = "log" /\ job'.op = job.op /\ job'.r = job.r /\ job'.want = job.want
      /\ job'.next = With(job.next, r, e) /\ job'.made = job.made /\ job'.todo = job.todo
  BY <1>6 DEF Inv, Stage, JobTyped, Shape
<1>8. DOMAIN job'.next = DOMAIN job.next \cup {r} /\ job'.next[r] = e
        /\ \A s \in DOMAIN job.next : job'.next[s] = job.next[s]
  BY <1>1, <1>7 DEF With
<1>9. DOMAIN vault'.blobs = DOMAIN vault.blobs \cup {n} /\ DOMAIN vault'.keys = DOMAIN vault.keys \cup {n}
        /\ vault'.logged = vault.logged
  BY <1>4, PutAdds DEF Inv
<1>10. \A b : b \in DOMAIN vault'.blobs <=> \E s \in DOMAIN job'.next : job'.next[s].blob = b
  BY <1>2, <1>5, <1>8, <1>9, MigratingOwes
<1>11. \A k : k \in DOMAIN vault'.keys <=> \E s \in DOMAIN job'.next : job'.next[s].key = k
  BY <1>2, <1>5, <1>8, <1>9, MigratingOwes
<1>12. index.version = 3 /\ vault'.logged BY <1>2, <1>9, MigratingOwes
<1>13. job'.pc \in Migrating BY <1>7 DEF Migrating
<1>14. QED BY <1>1, <1>2, <1>7, <1>10, <1>11, <1>12, <1>13, MigratingTally

LEMMA PublishMigratedTally == ASSUME Inv, Tally(job, index, vault), PublishMigrated PROVE Tally(job', index', vault')
<1>1. job.pc \in Migrating /\ vault' = vault BY DEF PublishMigrated, Migrating
<1>2. index'.version = 5 /\ index'.entries = job.next BY DEF PublishMigrated
<1>3. /\ job'.pc = "dropJournal" /\ job'.op = job.op /\ job'.r = job.r
      /\ job'.next = Empty /\ job'.made = job.made /\ job'.todo = job.todo
  BY DEF PublishMigrated, Inv, Stage, JobTyped, Shape
<1>4. (\A b : ~OwesBlob(job', b)) /\ (\A k : ~OwesKey(job', k))
  BY <1>3 DEF OwesBlob, OwesKey, Migrating, Publishing, Cleaning
<1>5. Accounts(job', index', vault')
  BY <1>1, <1>2, <1>4, MigratingOwes DEF Accounts, NamesBlob, NamesKey, Held
<1>6. Makes(job') BY <1>3 DEF Tally, Makes
<1>7. job'.op = "import" => \A r, s \in job'.r \cup job'.todo : r = s BY <1>3 DEF Tally
<1>8. QED BY <1>1, <1>3, <1>5, <1>6, <1>7, MigratingOwes DEF Tally, Migrating, Publishing, Cleaning

LEMMA DropJournalTally == ASSUME Inv, Tally(job, index, vault), DropJournal PROVE Tally(job', index', vault')
<1>1. job.pc = "dropJournal" /\ index' = index /\ job' = [job EXCEPT !.pc = "loaded"]
        /\ vault' = [vault EXCEPT !.logged = FALSE, !.journal = Empty]
  BY DEF DropJournal, Goto
<1>2. /\ job'.pc = "loaded" /\ job'.op = job.op /\ job'.r = job.r
      /\ job'.made = job.made /\ job'.todo = job.todo
  BY <1>1, MovesOn
<1>3. vault'.blobs = vault.blobs /\ vault'.keys = vault.keys /\ ~vault'.logged /\ DOMAIN vault'.journal = {}
  BY <1>1 DEF Inv, IsVault, Empty
<1>4. Quiet(job.pc) /\ Quiet(job'.pc) /\ job'.pc # "dropJournal"
  BY <1>1, <1>2 DEF Quiet, Migrating, Publishing, Cleaning
<1>5. job.made = {} /\ job.todo = {} BY <1>4, QuietMade
<1>6. QED BY <1>1, <1>2, <1>3, <1>4, <1>5, QuietTally

LEMMA MigrateTally == ASSUME Inv, Tally(job, index, vault), Migrate PROVE Tally(job', index', vault')
BY OpenJournalTally, LogMigratedTally, MigrateReceiptTally, PublishMigratedTally, DropJournalTally DEF Migrate

\* Planning touches neither store.
LEMMA PlanChangeTally == ASSUME Inv, Tally(job, index, vault), PlanChange PROVE Tally(job', index', vault')
<1>1. job.pc = "loaded" BY DEF PlanChange, LoadedOnly, PlanCapture, CaptureRefused, PlanContext, NoContext,
                               PlanSettings, PlanRemove, Loaded
<1>2. Quiet(job.pc) /\ job.pc # "dropJournal" BY <1>1 DEF Quiet, Migrating, Publishing, Cleaning
<1>3. ~vault.logged /\ DOMAIN vault.journal = {} BY <1>1 DEF Tally, Migrating
<1>4. job.made = {} /\ job.todo = {} BY <1>2, QuietMade
<1>5. ASSUME Finish, UNCHANGED <<index, vault>> PROVE Tally(job', index', vault') BY <1>2, <1>5, FinishTally
<1>6. ASSUME job.op # "import", NEW R, NEW want, Plan(R, want) PROVE Tally(job', index', vault')
  <2>1. UNCHANGED <<index, vault>> BY <1>6 DEF Plan
  <2>2. job'.pc = "read" /\ job'.op = job.op /\ job'.made = job.made /\ job'.todo = job.todo
    BY <1>6 DEF Plan, Inv, Stage, JobTyped, Shape
  <2>3. Quiet(job'.pc) /\ job'.pc # "dropJournal" BY <2>2 DEF Quiet, Migrating, Publishing, Cleaning
  <2>4. QED BY <1>2, <1>3, <1>4, <1>6, <2>1, <2>2, <2>3, QuietTally
<1>7. CASE LoadedOnly \/ CaptureRefused \/ NoContext BY <1>5, <1>7 DEF LoadedOnly, CaptureRefused, NoContext
<1>8. CASE PlanCapture \/ PlanContext \/ PlanSettings
  BY <1>6, <1>8 DEF PlanCapture, PlanContext, PlanSettings, Loaded
<1>9. CASE PlanRemove
  <2>1. job.op = "remove" BY <1>9 DEF PlanRemove, Loaded
  <2>2. PICK r \in Receipts : Plan({r}, Without(Now, {r})) \/ (Finish /\ UNCHANGED <<index, vault>>)
    BY <1>9 DEF PlanRemove
  <2>3. QED BY <1>5, <1>6, <2>1, <2>2
<1>10. QED BY <1>7, <1>8, <1>9 DEF PlanChange

-----------------------------------------------------------------------------
\* Signing, publishing and cleaning up.

LEMMA OpenSaveTally == ASSUME Inv, Tally(job, index, vault), OpenSave PROVE Tally(job', index', vault')
<1> DEFINE f == [r \in Kept |-> job.seen.entries[r]]
<1>1. job.pc = "loaded" /\ job.op \in Changes /\ UNCHANGED <<index, vault>> BY DEF OpenSave, Loaded
<1>2. job' = [job EXCEPT !.pc = "sign", !.next = f] BY DEF OpenSave
<1>3. job.seen = index BY <1>1, LoadedKnows
<1>4. \A r \in DOMAIN f : r \in Held(index) /\ f[r] = index.entries[r] BY <1>3 DEF Kept, Unchanged
<1> HIDE DEF f
<1>5. job'.pc = "sign" /\ job'.op = job.op /\ job'.next = f /\ job'.made = job.made /\ job'.todo = job.todo
  BY <1>2 DEF Inv, Stage, JobTyped, Shape
<1>6. job.made = {} /\ job.todo = {} BY <1>1, QuietMade DEF Quiet, Migrating, Publishing, Cleaning
<1>7. (\A b : ~OwesBlob(job, b) /\ ~OwesBlob(job', b)) /\ (\A k : ~OwesKey(job, k) /\ ~OwesKey(job', k))
  BY <1>1, <1>5, <1>6 DEF OwesBlob, OwesKey, Migrating, Publishing, Cleaning
<1>8. Accounts(job', index', vault') BY <1>1, <1>7 DEF Tally, Accounts
<1>9. Makes(job') /\ Adds(job', index') BY <1>1, <1>4, <1>5, <1>6 DEF Makes, Adds
<1>10. job'.op # "import" BY <1>1, <1>5 DEF Changes
<1>11. QED BY <1>1, <1>5, <1>6, <1>8, <1>9, <1>10 DEF Tally, Migrating, Publishing, Cleaning

\* What the vault holds while a job signs or publishes.
LEMMA PublishingOwes ==
  ASSUME Inv, Tally(job, index, vault), job.pc \in Publishing
  PROVE  /\ \A b : b \in DOMAIN vault.blobs <=> b \in BlobsOf(index) \/ \E m \in job.made : m.blob = b
         /\ \A k : k \in DOMAIN vault.keys <=> k \in KeysOf(index) \/ \E m \in job.made : m.new /\ m.key = k
         /\ ~vault.logged /\ DOMAIN vault.journal = {} /\ job.todo = {}
         /\ Makes(job) /\ Adds(job, index)
<1>1. index.version = 5 BY PublishingKnows
<1>2. Accounts(job, index, vault) /\ ~vault.logged /\ DOMAIN vault.journal = {} /\ job.todo = {}
        /\ Makes(job) /\ Adds(job, index)
  BY DEF Tally, Publishing, Migrating, Cleaning
<1>3. \A b : OwesBlob(job, b) <=> \E m \in job.made : m.blob = b BY DEF OwesBlob, Publishing, Migrating
<1>4. \A k : OwesKey(job, k) <=> \E m \in job.made : m.new /\ m.key = k
  BY DEF OwesKey, Publishing, Migrating, Cleaning
<1>5. QED BY <1>1, <1>2, <1>3, <1>4 DEF Accounts, NamesBlob, NamesKey, BlobsOf, KeysOf

\* The converse: a job whose artifacts these are owes nothing else.
LEMMA StagingTally ==
  ASSUME index'.version = 5, job'.pc \in Publishing \cup {"undo"},
         \A b : b \in DOMAIN vault'.blobs <=> b \in BlobsOf(index') \/ \E m \in job'.made : m.blob = b,
         \A k : k \in DOMAIN vault'.keys <=> k \in KeysOf(index') \/ \E m \in job'.made : m.new /\ m.key = k,
         ~vault'.logged, DOMAIN vault'.journal = {}, job'.todo = {}, Makes(job'),
         job'.pc \in Publishing => Adds(job', index'),
         job'.op = "import" => \A r, s \in job'.r : r = s
  PROVE  Tally(job', index', vault')
<1>1. \A b : OwesBlob(job', b) <=> \E m \in job'.made : m.blob = b BY DEF OwesBlob, Publishing, Migrating
<1>2. \A k : OwesKey(job', k) <=> \E m \in job'.made : m.new /\ m.key = k
  BY DEF OwesKey, Publishing, Migrating, Cleaning
<1>3. Accounts(job', index', vault') BY <1>1, <1>2 DEF Accounts, NamesBlob, NamesKey, BlobsOf, KeysOf
<1>4. QED BY <1>3 DEF Tally, Publishing, Migrating, Cleaning

LEMMA SignTally ==
  ASSUME Inv, Tally(job, index, vault), NEW r \in Receipts, Sign(r) PROVE Tally(job', index', vault')
<1> DEFINE known == r \in Held(index)
<1>1. job.pc = "sign" /\ index' = index /\ r \notin DOMAIN job.next BY DEF Sign
<1>2. job.pc \in Publishing BY <1>1 DEF Publishing
<1>3. job.seen = index /\ index.version = 5 /\ job.op \in Changes /\ Opens(index, vault)
  BY <1>1, <1>2, PublishingKnows DEF Ready
<1>4. PICK b \in NewIds :
        LET k == IF known THEN index.entries[r].key ELSE b IN
        /\ Put(b, k, r, job.want[r], "LOCAL", IF known THEN SignAnchors(r) ELSE FALSE)
        /\ job' = [job EXCEPT !.next = With(@, r, Entry(b, k, job.want[r], "LOCAL")),
                              !.made = @ \cup {[blob |-> b, key |-> k, new |-> ~known]}]
  BY <1>3 DEF Sign, SignBlob
<1> DEFINE k == IF known THEN index.entries[r].key ELSE b
           e == Entry(b, k, job.want[r], "LOCAL")
           m == [blob |-> b, key |-> k, new |-> ~known]
<1>5. b \notin DOMAIN vault.blobs /\ b \notin BlobsOf(index) /\ b \notin KeysOf(index) BY NewIsUnused
<1>6. DOMAIN vault'.blobs = DOMAIN vault.blobs \cup {b} /\ DOMAIN vault'.keys = DOMAIN vault.keys \cup {k}
        /\ vault'.logged = vault.logged /\ vault'.journal = vault.journal
  BY <1>4, PutAdds DEF Inv
<1>7. job' = [job EXCEPT !.next = With(@, r, e), !.made = @ \cup {m}] BY <1>4
<1>8. e.blob = m.blob /\ e.key = m.key /\ m.blob = b /\ m.key = k /\ m.new = ~known BY DEF Entry
<1>9. (known => k = index.entries[r].key /\ k \in KeysOf(index)) /\ (~known => k = b)
  BY DEF KeysOf
<1> HIDE DEF e, m, k
<1>10. /\ job'.pc = "sign" /\ job'.op = job.op /\ job'.r = job.r /\ job'.seen = job.seen
       /\ job'.next = With(job.next, r, e) /\ job'.made = job.made \cup {m} /\ job'.todo = job.todo
  BY <1>1, <1>7 DEF Inv, Stage, JobTyped, Shape
<1>11. DOMAIN job'.next = DOMAIN job.next \cup {r} /\ job'.next[r] = e
         /\ \A s \in DOMAIN job.next : s # r /\ job'.next[s] = job.next[s]
  BY <1>1, <1>10 DEF With
<1>12. \A x : x \in DOMAIN vault'.blobs <=> x \in BlobsOf(index') \/ \E n \in job'.made : n.blob = x
  BY <1>1, <1>2, <1>6, <1>8, <1>10, PublishingOwes
<1>13. \A x : x \in DOMAIN vault'.keys <=> x \in KeysOf(index') \/ \E n \in job'.made : n.new /\ n.key = x
  BY <1>1, <1>2, <1>6, <1>8, <1>9, <1>10, PublishingOwes
<1>14. Makes(job')
  <2>1. \A n \in job.made : n.blob # b BY <1>2, <1>5, PublishingOwes
  <2>2. Makes(job) BY <1>2, PublishingOwes
  <2>3. QED BY <1>8, <1>9, <1>10, <2>1, <2>2 DEF Makes
<1>15. Adds(job', index')
  <2>1. MadeFor(job', index, r, m) BY <1>8, <1>9, <1>11 DEF MadeFor
  <2>2. ASSUME NEW s \in DOMAIN job.next, NEW n, MadeFor(job, index, s, n) PROVE MadeFor(job', index, s, n)
    BY <1>10, <1>11, <2>2 DEF MadeFor
  <2>3. Adds(job, index) BY <1>2, PublishingOwes
  <2>4. QED BY <1>1, <1>10, <1>11, <2>1, <2>2, <2>3 DEF Adds
<1>16. job'.op # "import" /\ job'.pc \in Publishing BY <1>3, <1>10 DEF Changes, Publishing
<1>17. ~vault'.logged /\ DOMAIN vault'.journal = {} /\ job'.todo = {} BY <1>2, <1>6, <1>10, PublishingOwes
<1>18. QED BY <1>1, <1>3, <1>12, <1>13, <1>14, <1>15, <1>16, <1>17, StagingTally

\* What the vault holds while a job cleans up.
LEMMA CleaningTally ==
  ASSUME job'.pc \in Cleaning, index'.version = 5, Makes(job'),
         \A b : b \in DOMAIN vault'.blobs <=>
           b \in BlobsOf(index') \/ (job'.pc = "clean" /\ \E r \in job'.todo : job'.seen.entries[r].blob = b),
         \A k : k \in DOMAIN vault'.keys <=>
           k \in KeysOf(index') \/ \E r \in job'.todo : KeyGoes(job', r) /\ job'.seen.entries[r].key = k,
         ~vault'.logged, DOMAIN vault'.journal = {},
         job'.pc = "clean" => \A r \in job'.todo : Decrypts(vault', r, job'.seen.entries[r]),
         job'.op = "import" => \A r, s \in job'.r \cup job'.todo : r = s
  PROVE  Tally(job', index', vault')
<1>1. \A b : OwesBlob(job', b) <=> job'.pc = "clean" /\ \E r \in job'.todo : job'.seen.entries[r].blob = b
  BY DEF OwesBlob, Publishing, Migrating, Cleaning
<1>2. \A k : OwesKey(job', k) <=> \E r \in job'.todo : KeyGoes(job', r) /\ job'.seen.entries[r].key = k
  BY DEF OwesKey, Publishing, Migrating, Cleaning
<1>3. Accounts(job', index', vault') BY <1>1, <1>2 DEF Accounts, NamesBlob, NamesKey, BlobsOf, KeysOf
<1>4. QED BY <1>3 DEF Tally, Publishing, Migrating, Cleaning

LEMMA CleaningOwes ==
  ASSUME Inv, Tally(job, index, vault), job.pc \in Cleaning
  PROVE  /\ \A b : b \in DOMAIN vault.blobs <=>
              b \in BlobsOf(index) \/ (job.pc = "clean" /\ \E r \in job.todo : job.seen.entries[r].blob = b)
         /\ \A k : k \in DOMAIN vault.keys <=>
              k \in KeysOf(index) \/ \E r \in job.todo : KeyGoes(job, r) /\ job.seen.entries[r].key = k
         /\ ~vault.logged /\ DOMAIN vault.journal = {} /\ Makes(job) /\ index.version = 5
<1>1. index.version = 5 BY CleaningKnows
<1>2. Accounts(job, index, vault) /\ ~vault.logged /\ DOMAIN vault.journal = {} /\ Makes(job)
  BY DEF Tally, Migrating, Cleaning
<1>3. \A b : OwesBlob(job, b) <=> job.pc = "clean" /\ \E r \in job.todo : job.seen.entries[r].blob = b
  BY DEF OwesBlob, Publishing, Migrating, Cleaning
<1>4. \A k : OwesKey(job, k) <=> \E r \in job.todo : KeyGoes(job, r) /\ job.seen.entries[r].key = k
  BY DEF OwesKey, Publishing, Migrating, Cleaning
<1>5. QED BY <1>1, <1>2, <1>3, <1>4 DEF Accounts, NamesBlob, NamesKey, BlobsOf, KeysOf

\* Publishing: every artifact of the old index or of the job is one of the
\* new index, or is owed a deletion.
LEMMA PublishTally ==
  ASSUME Inv, Tally(job, index, vault), job.pc \in Publishing, vault' = vault,
         index'.version = 5, index'.entries = job.next,
         job'.pc = "clean", job'.op = job.op, job'.r = job.r, job'.seen = index, job'.next = job.next,
         job'.made = job.made \/ job'.made = {}, job'.todo \subseteq Held(index),
         job.op = "import" => job'.todo \subseteq job.r,
         \A r \in Held(index) :
           r \in job'.todo \/ (r \in DOMAIN job.next /\ job.next[r].blob = index.entries[r].blob),
         \A r \in Held(index) :
           \/ r \in job'.todo /\ KeyGoes(job', r)
           \/ r \in DOMAIN job.next /\ job.next[r].key = index.entries[r].key
  PROVE  Tally(job', index', vault')
<1>1. Adds(job, index) /\ Makes(job) BY PublishingOwes
<1>2. \A r \in DOMAIN job.next :
        \/ r \in Held(index) /\ job.next[r] = index.entries[r]
        \/ \E m \in job.made : job.next[r].blob = m.blob
  BY <1>1 DEF Adds, MadeFor
<1>3. \A r \in DOMAIN job.next :
        \/ r \in Held(index) /\ job.next[r].key = index.entries[r].key
        \/ \E m \in job.made : m.new /\ job.next[r].key = m.key
  <2>1. ASSUME NEW r \in DOMAIN job.next, NEW m \in job.made, MadeFor(job, index, r, m)
        PROVE  (r \in Held(index) /\ job.next[r].key = index.entries[r].key) \/ (m.new /\ job.next[r].key = m.key)
    BY <2>1 DEF MadeFor, Inv, Stage, JobTyped, Artifacts
  <2>2. QED BY <1>1, <2>1 DEF Adds
<1>4. \A m \in job.made : \E r \in DOMAIN job.next : job.next[r].blob = m.blob /\ job.next[r].key = m.key
  BY <1>1 DEF Adds, MadeFor
<1>5. BlobsOf(index') = {job.next[r].blob : r \in DOMAIN job.next}
        /\ KeysOf(index') = {job.next[r].key : r \in DOMAIN job.next}
  BY DEF BlobsOf, KeysOf, Held
<1>6. ASSUME NEW b
      PROVE  b \in DOMAIN vault'.blobs <=>
               b \in BlobsOf(index') \/ \E r \in job'.todo : job'.seen.entries[r].blob = b
  <2>1. b \in DOMAIN vault.blobs <=> b \in BlobsOf(index) \/ \E m \in job.made : m.blob = b BY PublishingOwes
  <2>2. ASSUME b \in BlobsOf(index) PROVE b \in BlobsOf(index') \/ \E r \in job'.todo : job'.seen.entries[r].blob = b
    BY <1>5, <2>2 DEF BlobsOf
  <2>3. ASSUME NEW m \in job.made, m.blob = b PROVE b \in BlobsOf(index') BY <1>4, <1>5, <2>3
  <2>4. ASSUME b \in BlobsOf(index') PROVE b \in BlobsOf(index) \/ \E m \in job.made : m.blob = b
    <3>1. PICK r \in DOMAIN job.next : job.next[r].blob = b BY <1>5, <2>4
    <3>2. CASE r \in Held(index) /\ job.next[r] = index.entries[r] BY <3>1, <3>2 DEF BlobsOf
    <3>3. CASE \E m \in job.made : job.next[r].blob = m.blob BY <3>1, <3>3
    <3>4. QED BY <1>2, <3>1, <3>2, <3>3
  <2>5. ASSUME NEW r \in job'.todo, job'.seen.entries[r].blob = b PROVE b \in BlobsOf(index)
    BY <2>5 DEF BlobsOf
  <2>6. QED BY <2>1, <2>2, <2>3, <2>4, <2>5
<1>7. ASSUME NEW k
      PROVE  k \in DOMAIN vault'.keys <=>
               k \in KeysOf(index') \/ \E r \in job'.todo : KeyGoes(job', r) /\ job'.seen.entries[r].key = k
  <2>1. k \in DOMAIN vault.keys <=> k \in KeysOf(index) \/ \E m \in job.made : m.new /\ m.key = k
    BY PublishingOwes
  <2>2. ASSUME k \in KeysOf(index)
        PROVE k \in KeysOf(index') \/ \E r \in job'.todo : KeyGoes(job', r) /\ job'.seen.entries[r].key = k
    BY <1>5, <2>2 DEF KeysOf
  <2>3. ASSUME NEW m \in job.made, m.key = k PROVE k \in KeysOf(index') BY <1>4, <1>5, <2>3
  <2>4. ASSUME k \in KeysOf(index') PROVE k \in KeysOf(index) \/ \E m \in job.made : m.new /\ m.key = k
    <3>1. PICK r \in DOMAIN job.next : job.next[r].key = k BY <1>5, <2>4
    <3>2. CASE r \in Held(index) /\ job.next[r].key = index.entries[r].key BY <3>1, <3>2 DEF KeysOf
    <3>3. CASE \E m \in job.made : m.new /\ job.next[r].key = m.key BY <3>1, <3>3
    <3>4. QED BY <1>3, <3>1, <3>2, <3>3
  <2>5. ASSUME NEW r \in job'.todo, job'.seen.entries[r].key = k PROVE k \in KeysOf(index)
    BY <2>5 DEF KeysOf
  <2>6. QED BY <2>1, <2>2, <2>3, <2>4, <2>5
<1>8. ~vault'.logged /\ DOMAIN vault'.journal = {} BY PublishingOwes
<1>9. \A r \in job'.todo : Decrypts(vault', r, job'.seen.entries[r])
  BY PublishingKnows DEF Opens, DecryptsAll, Held
<1>10. Makes(job') BY <1>1 DEF Makes
<1>11. job'.op = "import" => \A r, s \in job'.r \cup job'.todo : r = s BY DEF Tally
<1>12. QED BY <1>6, <1>7, <1>8, <1>9, <1>10, <1>11, CleaningTally DEF Cleaning

LEMMA PublishSaveTally == ASSUME Inv, Tally(job, index, vault), PublishSave PROVE Tally(job', index', vault')
<1>1. job.pc = "sign" /\ vault' = vault /\ index'.version = 5 /\ index'.entries = job.next BY DEF PublishSave
<1>2. job.pc \in Publishing BY <1>1 DEF Publishing
<1>3. job.seen = index /\ job.op \in Changes BY <1>1, <1>2, PublishingKnows DEF Ready
<1>4. /\ job'.pc = "clean" /\ job'.op = job.op /\ job'.r = job.r /\ job'.seen = index
      /\ job'.next = job.next /\ job'.made = job.made /\ job'.todo = Stale
  BY <1>3 DEF PublishSave, Inv, Stage, JobTyped, Shape
<1>5. Stale \subseteq Held(index)
        /\ \A r \in Held(index) : r \in Stale \/ (r \in DOMAIN job.next /\ job.next[r].blob = index.entries[r].blob)
  BY <1>3 DEF Stale
<1>6. ASSUME NEW r \in Held(index)
      PROVE  \/ r \in job'.todo /\ KeyGoes(job', r)
             \/ r \in DOMAIN job.next /\ job.next[r].key = index.entries[r].key
  <2>1. CASE r \notin DOMAIN job.next BY <1>4, <1>5, <2>1 DEF KeyGoes
  <2>2. CASE r \in DOMAIN job.next
    <3>1. Adds(job, index) BY <1>2, PublishingOwes
    <3>2. CASE job.next[r] = index.entries[r] BY <2>2, <3>2
    <3>3. CASE \E m \in job.made : MadeFor(job, index, r, m) BY <1>3, <2>2, <3>3 DEF MadeFor, Changes
    <3>4. QED BY <2>2, <3>1, <3>2, <3>3 DEF Adds
  <2>3. QED BY <2>1, <2>2
<1>7. job.op # "import" BY <1>3 DEF Changes
<1>8. QED BY <1>1, <1>2, <1>4, <1>5, <1>6, <1>7, PublishTally

LEMMA CleanSavedTally ==
  ASSUME Inv, Tally(job, index, vault), NEW r \in Receipts, CleanSaved(r) PROVE Tally(job', index', vault')
<1>1. job.pc = "clean" /\ r \in job.todo /\ index' = index /\ job.op \in Changes \cup {"anchor"} BY DEF CleanSaved
<1>2. job.pc \in Cleaning BY <1>1 DEF Cleaning
<1>3. /\ job'.pc = "clean" /\ job'.op = job.op /\ job'.r = job.r /\ job'.seen = job.seen
      /\ job'.next = job.next /\ job'.made = job.made /\ job'.todo = job.todo \ {r}
  BY <1>1 DEF CleanSaved, Inv, Stage, JobTyped, Shape
<1>4. job.op # "import" BY <1>1 DEF Changes
<1> DEFINE old(s) == job.seen.entries[s]
<1>5. \A s \in job.todo : Decrypts(vault, s, old(s)) BY <1>1 DEF Tally
<1>6. /\ Opens(index, vault) /\ index.entries = job.next
      /\ \A s \in job.todo \cap DOMAIN job.next : old(s).blob \notin BlobsOf(index)
  BY <1>2, CleaningKnows
<1>7. \A s \in Held(index) : s \in DOMAIN job.next /\ Decrypts(vault, s, index.entries[s])
  BY <1>6 DEF Opens, DecryptsAll, Held
<1>8. \A b \in BlobsOf(index) : \E s \in DOMAIN job.next : b \in DOMAIN vault.blobs /\ vault.blobs[b].receipt = s
  BY <1>7 DEF BlobsOf, Decrypts
<1>9. \A k \in KeysOf(index) : \E s \in DOMAIN job.next : k \in DOMAIN vault.keys /\ vault.keys[k] = s
  BY <1>7 DEF KeysOf, Decrypts
<1>10. \A s \in job.todo : /\ old(s).blob \in DOMAIN vault.blobs /\ vault.blobs[old(s).blob].receipt = s
                           /\ old(s).key \in DOMAIN vault.keys /\ vault.keys[old(s).key] = s
  BY <1>5 DEF Decrypts
<1>11. \A s : KeyGoes(job', s) <=> s \notin DOMAIN job.next BY <1>3, <1>4 DEF KeyGoes
<1>12. \A s : KeyGoes(job, s) <=> s \notin DOMAIN job.next BY <1>4 DEF KeyGoes
<1>13. SUFFICES /\ vault'.logged = vault.logged /\ vault'.journal = vault.journal
                /\ \A b : b \in DOMAIN vault'.blobs <=>
                     b \in BlobsOf(index) \/ \E s \in job'.todo : old(s).blob = b
                /\ \A k : k \in DOMAIN vault'.keys <=>
                     k \in KeysOf(index) \/ \E s \in job'.todo : s \notin DOMAIN job.next /\ old(s).key = k
                /\ \A s \in job'.todo : Decrypts(vault', s, old(s))
  <2>1. Makes(job') BY <1>2, <1>3, CleaningOwes DEF Makes
  <2>2. index'.version = 5 /\ ~vault'.logged /\ DOMAIN vault'.journal = {} BY <1>1, <1>2, <1>13, CleaningOwes
  <2>3. job'.pc \in Cleaning /\ job'.op # "import" /\ job'.pc = "clean" BY <1>3, <1>4 DEF Cleaning
  <2>4. QED BY <1>1, <1>3, <1>11, <1>13, <2>1, <2>2, <2>3, CleaningTally
<1> HIDE DEF old
<1>14. CASE r \notin DOMAIN job.next
  <2>1. vault' = DropReceipt(r) BY <1>14 DEF CleanSaved
  <2>2. /\ DOMAIN vault'.blobs = {b \in DOMAIN vault.blobs : vault.blobs[b].receipt # r}
        /\ DOMAIN vault'.keys = {k \in DOMAIN vault.keys : vault.keys[k] # r}
        /\ \A b \in DOMAIN vault'.blobs : vault'.blobs[b] = vault.blobs[b]
        /\ \A k \in DOMAIN vault'.keys : vault'.keys[k] = vault.keys[k]
        /\ vault'.logged = vault.logged /\ vault'.journal = vault.journal
    BY <2>1 DEF DropReceipt, Without, Inv, IsVault
  <2>3. ASSUME NEW b
        PROVE  b \in DOMAIN vault'.blobs <=> b \in BlobsOf(index) \/ \E s \in job'.todo : old(s).blob = b
    <3>1. b \in DOMAIN vault.blobs <=> b \in BlobsOf(index) \/ \E s \in job.todo : old(s).blob = b
      BY <1>1, <1>2, CleaningOwes DEF old
    <3>2. QED BY <1>3, <1>8, <1>10, <1>14, <2>2, <3>1
  <2>4. ASSUME NEW k
        PROVE  k \in DOMAIN vault'.keys <=>
                 k \in KeysOf(index) \/ \E s \in job'.todo : s \notin DOMAIN job.next /\ old(s).key = k
    <3>1. k \in DOMAIN vault.keys <=>
            k \in KeysOf(index) \/ \E s \in job.todo : s \notin DOMAIN job.next /\ old(s).key = k
      BY <1>2, <1>12, CleaningOwes DEF old
    <3>2. QED BY <1>3, <1>9, <1>10, <1>14, <2>2, <3>1
  <2>5. ASSUME NEW s \in job'.todo PROVE Decrypts(vault', s, old(s))
    <3>1. s \in job.todo /\ s # r BY <1>3
    <3>2. old(s).blob \in DOMAIN vault'.blobs /\ old(s).key \in DOMAIN vault'.keys BY <1>10, <2>2, <3>1
    <3>3. QED BY <1>5, <2>2, <3>1, <3>2 DEF Decrypts, old
  <2>6. QED BY <2>2, <2>3, <2>4, <2>5
<1>15. CASE r \in DOMAIN job.next
  <2>1. vault' = DropArtifacts({old(r).blob}, {}) BY <1>15 DEF CleanSaved, old
  <2>2. /\ DOMAIN vault'.blobs = DOMAIN vault.blobs \ {old(r).blob} /\ DOMAIN vault'.keys = DOMAIN vault.keys \ {}
        /\ \A b \in DOMAIN vault'.blobs : vault'.blobs[b] = vault.blobs[b]
        /\ \A k \in DOMAIN vault'.keys : vault'.keys[k] = vault.keys[k]
        /\ vault'.logged = vault.logged /\ vault'.journal = vault.journal
    BY <2>1, DropTakes DEF Inv
  <2>3. old(r).blob \notin BlobsOf(index) BY <1>1, <1>6, <1>15 DEF old
  <2>4. \A s \in job'.todo : s \in job.todo /\ old(s).blob # old(r).blob BY <1>1, <1>3, <1>10
  <2>5. ASSUME NEW b
        PROVE  b \in DOMAIN vault'.blobs <=> b \in BlobsOf(index) \/ \E s \in job'.todo : old(s).blob = b
    <3>1. b \in DOMAIN vault.blobs <=> b \in BlobsOf(index) \/ \E s \in job.todo : old(s).blob = b
      BY <1>1, <1>2, CleaningOwes DEF old
    <3>2. QED BY <1>3, <2>2, <2>3, <2>4, <3>1
  <2>6. ASSUME NEW k
        PROVE  k \in DOMAIN vault'.keys <=>
                 k \in KeysOf(index) \/ \E s \in job'.todo : s \notin DOMAIN job.next /\ old(s).key = k
    <3>1. k \in DOMAIN vault.keys <=>
            k \in KeysOf(index) \/ \E s \in job.todo : s \notin DOMAIN job.next /\ old(s).key = k
      BY <1>2, <1>12, CleaningOwes DEF old
    <3>2. QED BY <1>3, <1>15, <2>2, <3>1
  <2>7. ASSUME NEW s \in job'.todo PROVE Decrypts(vault', s, old(s))
    <3>1. s \in job.todo BY <1>3
    <3>2. old(s).blob \in DOMAIN vault'.blobs /\ old(s).key \in DOMAIN vault'.keys BY <1>10, <2>2, <2>4, <3>1
    <3>3. QED BY <1>5, <2>2, <3>1, <3>2 DEF Decrypts, old
  <2>8. QED BY <2>2, <2>5, <2>6, <2>7
<1>16. QED BY <1>14, <1>15

LEMMA CleanImportedTally ==
  ASSUME Inv, Tally(job, index, vault), NEW r \in Receipts, CleanImportedBlob(r) \/ CleanImportedKey(r)
  PROVE  Tally(job', index', vault')
<1>1. job.pc \in Cleaning /\ r \in job.todo /\ index' = index /\ job.op = "import"
  BY DEF CleanImportedBlob, CleanImportedKey, Cleaning, Inv, Stage, Cleans
<1>2. job.seen.entries[r].blob \notin BlobsOf(index) /\ job.seen.entries[r].key \notin KeysOf(index)
  BY <1>1, CleaningKnows
<1>3. job.todo = {r} BY <1>1 DEF Tally
<1>4. \A s : KeyGoes(job, s) BY <1>1 DEF KeyGoes
<1>5. /\ \A b : b \in DOMAIN vault.blobs <=>
           b \in BlobsOf(index) \/ (job.pc = "clean" /\ job.seen.entries[r].blob = b)
      /\ \A k : k \in DOMAIN vault.keys <=> k \in KeysOf(index) \/ job.seen.entries[r].key = k
      /\ ~vault.logged /\ DOMAIN vault.journal = {} /\ Makes(job) /\ index.version = 5
  BY <1>1, <1>3, <1>4, CleaningOwes
<1>6. CASE CleanImportedBlob(r)
  <2>1. job.pc = "clean" /\ vault' = DropArtifacts({job.seen.entries[r].blob}, {}) /\ job' = [job EXCEPT !.pc = "cleanKey"]
    BY <1>6 DEF CleanImportedBlob, Goto
  <2>2. /\ job'.pc = "cleanKey" /\ job'.op = job.op /\ job'.r = job.r /\ job'.seen = job.seen
        /\ job'.next = job.next /\ job'.made = job.made /\ job'.todo = job.todo
    BY <2>1 DEF Inv, Stage, JobTyped, Shape
  <2>3. /\ DOMAIN vault'.blobs = DOMAIN vault.blobs \ {job.seen.entries[r].blob}
        /\ DOMAIN vault'.keys = DOMAIN vault.keys \ {}
        /\ vault'.logged = vault.logged /\ vault'.journal = vault.journal
    BY <2>1, DropTakes DEF Inv
  <2>4. \A s : KeyGoes(job', s) BY <1>1, <2>2 DEF KeyGoes
  <2>5. \A b : b \in DOMAIN vault'.blobs <=> b \in BlobsOf(index) BY <1>2, <1>5, <2>1, <2>3
  <2>6. \A k : k \in DOMAIN vault'.keys <=>
          k \in KeysOf(index) \/ \E s \in job'.todo : KeyGoes(job', s) /\ job'.seen.entries[s].key = k
    BY <1>3, <1>5, <2>2, <2>3, <2>4
  <2>7. Makes(job') BY <1>5, <2>2 DEF Makes
  <2>8. job'.op = "import" => \A s, t \in job'.r \cup job'.todo : s = t BY <2>2 DEF Tally
  <2>9. job'.pc \in Cleaning BY <2>2 DEF Cleaning
  <2>10. QED BY <1>1, <1>5, <2>2, <2>3, <2>5, <2>6, <2>7, <2>8, <2>9, CleaningTally
<1>7. CASE CleanImportedKey(r)
  <2>1. /\ job.pc = "cleanKey" /\ vault' = DropArtifacts({}, {job.seen.entries[r].key})
        /\ job' = [job EXCEPT !.pc = "clean", !.todo = job.todo \ {r}]
    BY <1>7 DEF CleanImportedKey
  <2>2. /\ job'.pc = "clean" /\ job'.op = job.op /\ job'.r = job.r /\ job'.seen = job.seen
        /\ job'.next = job.next /\ job'.made = job.made /\ job'.todo = {}
    BY <1>3, <2>1 DEF Inv, Stage, JobTyped, Shape
  <2>3. /\ DOMAIN vault'.blobs = DOMAIN vault.blobs \ {}
        /\ DOMAIN vault'.keys = DOMAIN vault.keys \ {job.seen.entries[r].key}
        /\ vault'.logged = vault.logged /\ vault'.journal = vault.journal
    BY <2>1, DropTakes DEF Inv
  <2>4. \A b : b \in DOMAIN vault'.blobs <=> b \in BlobsOf(index) BY <1>5, <2>1, <2>3
  <2>5. \A k : k \in DOMAIN vault'.keys <=> k \in KeysOf(index) BY <1>2, <1>5, <2>3
  <2>6. Makes(job') BY <1>5, <2>2 DEF Makes
  <2>7. job'.op = "import" => \A s, t \in job'.r \cup job'.todo : s = t BY <2>2 DEF Tally
  <2>8. job'.pc \in Cleaning BY <2>2 DEF Cleaning
  <2>9. QED BY <1>1, <1>5, <2>2, <2>3, <2>4, <2>5, <2>6, <2>7, <2>8, CleaningTally
<1>8. QED BY <1>6, <1>7

\* A job that has cleaned up, or undone what it made, owes nothing.
LEMMA SettledTally == ASSUME Inv, Tally(job, index, vault), Settled PROVE Tally(job', index', vault')
<1>1. job.pc = "clean" /\ job.todo = {} BY DEF Settled
<1>2. job.pc \in Cleaning BY <1>1 DEF Cleaning
<1>3. DecryptsAll(index, vault) BY <1>2, CleaningKnows DEF Opens
<1>4. UNCHANGED <<index, vault>> /\ job' = Idle BY <1>3 DEF Settled, Finish
<1>5. job'.pc = "idle" /\ job'.todo = {} /\ job'.made = {} /\ job'.op = "none" BY <1>4 DEF Idle
<1>6. (\A b : ~OwesBlob(job, b) /\ ~OwesBlob(job', b)) /\ (\A k : ~OwesKey(job, k) /\ ~OwesKey(job', k))
  BY <1>1, <1>5 DEF OwesBlob, OwesKey, Migrating, Publishing, Cleaning
<1>7. Accounts(job', index', vault') BY <1>1, <1>4, <1>6 DEF Tally, Accounts
<1>8. ~vault.logged /\ DOMAIN vault.journal = {} BY <1>2, CleaningOwes
<1>9. Makes(job') BY <1>5 DEF Makes
<1>10. QED BY <1>4, <1>5, <1>7, <1>8, <1>9 DEF Tally, Migrating, Publishing, Cleaning

LEMMA UndoTally == ASSUME Inv, Tally(job, index, vault), Undo PROVE Tally(job', index', vault')
<1>1. job.pc = "undo" /\ index' = index BY DEF Undo
<1>2. /\ index.version = 5 /\ job.made \subseteq Artifacts
      /\ \A m \in job.made : m.blob \notin BlobsOf(index) /\ (m.new => m.key \notin KeysOf(index))
  BY <1>1 DEF Inv, Stage, Reads, Staged, JobTyped
<1>3. PICK m \in job.made :
        /\ vault' = DropArtifacts({m.blob}, IF m.new THEN {m.key} ELSE {})
        /\ job' = IF job.made = {m} THEN Idle ELSE [job EXCEPT !.made = @ \ {m}]
  BY DEF Undo
<1>4. Makes(job) /\ ~vault.logged /\ DOMAIN vault.journal = {} /\ job.todo = {} /\ Accounts(job, index, vault)
  BY <1>1 DEF Tally, Migrating, Cleaning
<1>5. /\ DOMAIN vault'.blobs = DOMAIN vault.blobs \ {m.blob}
      /\ DOMAIN vault'.keys = DOMAIN vault.keys \ (IF m.new THEN {m.key} ELSE {})
      /\ vault'.logged = vault.logged /\ vault'.journal = vault.journal
  BY <1>3, DropTakes DEF Inv
<1>6. \A b : b \in DOMAIN vault.blobs <=> b \in BlobsOf(index) \/ \E n \in job.made : n.blob = b
  BY <1>1, <1>2, <1>4 DEF Accounts, NamesBlob, BlobsOf, OwesBlob, Migrating
<1>7. \A k : k \in DOMAIN vault.keys <=> k \in KeysOf(index) \/ \E n \in job.made : n.new /\ n.key = k
  BY <1>1, <1>2, <1>4 DEF Accounts, NamesKey, KeysOf, OwesKey, Migrating, Cleaning
<1>8. \A n \in job.made \ {m} : n.blob # m.blob /\ (m.new /\ n.new => n.key # m.key) BY <1>4 DEF Makes
<1>9. \A b : b \in DOMAIN vault'.blobs <=> b \in BlobsOf(index) \/ \E n \in job.made \ {m} : n.blob = b
  BY <1>2, <1>5, <1>6, <1>8
<1>10. \A k : k \in DOMAIN vault'.keys <=> k \in KeysOf(index) \/ \E n \in job.made \ {m} : n.new /\ n.key = k
  <2>1. CASE m.new BY <1>2, <1>5, <1>7, <1>8, <2>1
  <2>2. CASE ~m.new BY <1>5, <1>7, <2>2
  <2>3. QED BY <2>1, <2>2
<1>11. CASE job.made = {m}
  <2>1. job' = Idle BY <1>3, <1>11
  <2>2. job'.pc = "idle" /\ job'.todo = {} /\ job'.made = {} /\ job'.op = "none" BY <2>1 DEF Idle
  <2>3. (\A b : ~OwesBlob(job', b)) /\ (\A k : ~OwesKey(job', k))
    BY <2>2 DEF OwesBlob, OwesKey, Migrating, Publishing, Cleaning
  <2>4. Accounts(job', index', vault')
    BY <1>1, <1>2, <1>9, <1>10, <1>11, <2>3 DEF Accounts, NamesBlob, NamesKey, BlobsOf, KeysOf
  <2>5. Makes(job') BY <2>2 DEF Makes
  <2>6. QED BY <1>4, <1>5, <2>2, <2>4, <2>5 DEF Tally, Migrating, Publishing, Cleaning
<1>12. CASE job.made # {m}
  <2>1. /\ job'.pc = "undo" /\ job'.op = job.op /\ job'.r = job.r
        /\ job'.made = job.made \ {m} /\ job'.todo = job.todo
    BY <1>1, <1>3, <1>12 DEF Inv, Stage, JobTyped, Shape
  <2>2. Makes(job') BY <1>4, <2>1 DEF Makes
  <2>3. job'.op = "import" => \A s, t \in job'.r : s = t BY <2>1 DEF Tally
  <2>4. QED BY <1>1, <1>2, <1>4, <1>5, <1>9, <1>10, <2>1, <2>2, <2>3, StagingTally DEF Publishing
<1>13. QED BY <1>11, <1>12

LEMMA SaveTally == ASSUME Inv, Tally(job, index, vault), Save PROVE Tally(job', index', vault')
BY OpenSaveTally, PublishSaveTally, SettledTally, UndoTally, SignTally, CleanSavedTally DEF Save

-----------------------------------------------------------------------------
\* Imports, anchors and delete-all.

\* One blob staged, and its entry ready to be published.
LEMMA StagedOneTally ==
  ASSUME Inv, Tally(job, index, vault), job.pc = "loaded", index' = index,
         NEW r, NEW e, NEW m \in Artifacts, e.blob = m.blob, e.key = m.key, m.blob \notin BlobsOf(index),
         DOMAIN vault'.blobs = DOMAIN vault.blobs \cup {m.blob},
         DOMAIN vault'.keys = DOMAIN vault.keys \cup {m.key},
         vault'.logged = vault.logged, vault'.journal = vault.journal,
         m.new => m.key = m.blob /\ job.op = "import",
         ~m.new => r \in Held(index) /\ m.key = index.entries[r].key,
         job'.pc \in {"publishImport", "publishAnchor", "undo"}, job'.op = job.op, job'.r = {r},
         job'.next = With(index.entries, r, e), job'.made = {m}, job'.todo = job.todo
  PROVE  Tally(job', index', vault')
<1>1. index.version = 5 BY LoadedKnows
<1>2. job.made = {} /\ job.todo = {} BY QuietMade DEF Quiet, Migrating, Publishing, Cleaning
<1>3. Accounts(job, index, vault) /\ ~vault.logged /\ DOMAIN vault.journal = {} BY DEF Tally, Migrating
<1>4. (\A b : ~OwesBlob(job, b)) /\ (\A k : ~OwesKey(job, k))
  BY DEF OwesBlob, OwesKey, Migrating, Publishing, Cleaning
<1>5. \A b : b \in DOMAIN vault.blobs <=> b \in BlobsOf(index)
  BY <1>1, <1>3, <1>4 DEF Accounts, NamesBlob, BlobsOf
<1>6. \A k : k \in DOMAIN vault.keys <=> k \in KeysOf(index)
  BY <1>1, <1>3, <1>4 DEF Accounts, NamesKey, KeysOf
<1>7. \A b : b \in DOMAIN vault'.blobs <=> b \in BlobsOf(index) \/ \E n \in job'.made : n.blob = b BY <1>5
<1>8. \A k : k \in DOMAIN vault'.keys <=> k \in KeysOf(index) \/ \E n \in job'.made : n.new /\ n.key = k
  BY <1>6 DEF KeysOf
<1>9. Makes(job') BY DEF Makes
<1>10. MadeFor(job', index, r, m) BY DEF MadeFor, With
<1>11. Adds(job', index) BY <1>10 DEF Adds, With, Held
<1>12. QED BY <1>1, <1>2, <1>3, <1>7, <1>8, <1>9, <1>11, StagingTally DEF Publishing

LEMMA PutImportedTally == ASSUME Inv, Tally(job, index, vault), PutImported PROVE Tally(job', index', vault')
<1>1. job.pc = "loaded" /\ job.op = "import" /\ index' = index BY DEF PutImported, Loaded
<1>2. job.seen = index BY <1>1, LoadedKnows
<1>3. PICK g \in Packages, b \in NewIds :
        /\ Put(b, b, g.receipt, "CLOSED", g.owner, FALSE)
        /\ job' = [job EXCEPT !.r = {g.receipt},
             !.next = With(index.entries, g.receipt, Entry(b, b, "CLOSED", g.owner)),
             !.made = {[blob |-> b, key |-> b, new |-> TRUE]},
             !.pc = IF Cardinality(Held(index) \cup {g.receipt}) > MaxReceipts THEN "undo" ELSE "publishImport"]
  BY <1>2 DEF PutImported
<1> DEFINE r == g.receipt
           e == Entry(b, b, "CLOSED", g.owner)
           m == [blob |-> b, key |-> b, new |-> TRUE]
           p == IF Cardinality(Held(index) \cup {r}) > MaxReceipts THEN "undo" ELSE "publishImport"
<1>4. job' = [job EXCEPT !.r = {r}, !.next = With(index.entries, r, e), !.made = {m}, !.pc = p] BY <1>3
<1>5. e.blob = b /\ e.key = b /\ m.blob = b /\ m.key = b /\ m.new = TRUE BY DEF Entry
<1>6. b \notin BlobsOf(index) BY NewIsUnused
<1>7. DOMAIN vault'.blobs = DOMAIN vault.blobs \cup {b} /\ DOMAIN vault'.keys = DOMAIN vault.keys \cup {b}
        /\ vault'.logged = vault.logged /\ vault'.journal = vault.journal
  BY <1>3, PutAdds DEF Inv
<1>8. p \in {"publishImport", "undo"} /\ m \in Artifacts BY NewIsUnused DEF Artifacts
<1> HIDE DEF r, e, m, p
<1>9. /\ job'.pc = p /\ job'.op = job.op /\ job'.r = {r} /\ job'.next = With(index.entries, r, e)
      /\ job'.made = {m} /\ job'.todo = job.todo
  BY <1>4 DEF Inv, Stage, JobTyped, Shape
<1>10. m.new /\ e.blob = m.blob /\ e.key = m.key /\ m.blob \notin BlobsOf(index) /\ m.key = m.blob BY <1>5, <1>6
<1>11. DOMAIN vault'.blobs = DOMAIN vault.blobs \cup {m.blob} /\ DOMAIN vault'.keys = DOMAIN vault.keys \cup {m.key}
  BY <1>5, <1>7
<1>12. job'.pc \in {"publishImport", "publishAnchor", "undo"} BY <1>8, <1>9
<1>13. QED BY <1>1, <1>7, <1>8, <1>9, <1>10, <1>11, <1>12, StagedOneTally

LEMMA PutAnchoredTally == ASSUME Inv, Tally(job, index, vault), PutAnchored PROVE Tally(job', index', vault')
<1>1. job.pc = "loaded" /\ index' = index BY DEF PutAnchored, Loaded
<1>2. job.seen = index /\ ValidIndex(index) BY <1>1, LoadedKnows
<1>3. PICK r \in DOMAIN index.anchors, b \in NewIds :
        /\ Put(b, index.entries[r].key, r, index.entries[r].content, index.entries[r].owner, TRUE)
        /\ job' = [job EXCEPT !.pc = "publishAnchor", !.r = {r},
             !.next = With(index.entries, r, [index.entries[r] EXCEPT !.blob = b]),
             !.made = {[blob |-> b, key |-> index.entries[r].key, new |-> FALSE]}]
  BY <1>2 DEF PutAnchored
<1> DEFINE k == index.entries[r].key
           e == [index.entries[r] EXCEPT !.blob = b]
           m == [blob |-> b, key |-> k, new |-> FALSE]
<1>4. r \in Held(index) BY <1>2 DEF ValidIndex, Held
<1>5. e.blob = b /\ e.key = k BY <1>4, EntryTyped DEF Inv, Entries
<1>6. m.blob = b /\ m.key = k /\ m.new = FALSE /\ k = index.entries[r].key OBVIOUS
<1>7. b \notin BlobsOf(index) /\ m \in Artifacts
  <2>1. Decrypts(vault, r, index.entries[r]) BY <1>1, <1>4, LoadedKnows DEF Opens, DecryptsAll, Held
  <2>2. k \in Ids BY <2>1, ArtifactsTyped DEF Inv
  <2>3. QED BY <2>2, NewIsUnused DEF Artifacts
<1>8. DOMAIN vault'.blobs = DOMAIN vault.blobs \cup {b} /\ DOMAIN vault'.keys = DOMAIN vault.keys \cup {k}
        /\ vault'.logged = vault.logged /\ vault'.journal = vault.journal
  BY <1>3, PutAdds DEF Inv
<1>9. job' = [job EXCEPT !.pc = "publishAnchor", !.r = {r}, !.next = With(index.entries, r, e), !.made = {m}]
  BY <1>3
<1> HIDE DEF k, e, m
<1>10. /\ job'.pc = "publishAnchor" /\ job'.op = job.op /\ job'.r = {r} /\ job'.next = With(index.entries, r, e)
       /\ job'.made = {m} /\ job'.todo = job.todo
  BY <1>9 DEF Inv, Stage, JobTyped, Shape
<1>11. ~m.new /\ e.blob = m.blob /\ e.key = m.key /\ m.blob \notin BlobsOf(index) /\ m.key = index.entries[r].key
  BY <1>5, <1>6, <1>7
<1>12. DOMAIN vault'.blobs = DOMAIN vault.blobs \cup {m.blob} /\ DOMAIN vault'.keys = DOMAIN vault.keys \cup {m.key}
  BY <1>6, <1>8
<1>13. QED BY <1>1, <1>4, <1>7, <1>8, <1>10, <1>11, <1>12, StagedOneTally

LEMMA PublishOneTally ==
  ASSUME Inv, Tally(job, index, vault), PublishImported \/ PublishAnchored PROVE Tally(job', index', vault')
<1>1. job.pc \in {"publishImport", "publishAnchor"} /\ vault' = vault BY DEF PublishImported, PublishAnchored
<1>2. job.pc \in Publishing BY <1>1 DEF Publishing
<1>3. job.seen = index /\ index.version = 5 /\ Ready(job, index, vault) BY <1>2, PublishingKnows
<1>4. Held(index) \subseteq DOMAIN job.next
        /\ \A r \in DOMAIN job.next \ job.r : job.next[r] = index.entries[r]
  BY <1>1, <1>3 DEF Ready
<1>5. index'.version = 5 /\ index'.entries = job.next
  <2>1. CASE PublishImported BY <1>3, <2>1 DEF PublishImported, Inv, IsIndex
  <2>2. CASE PublishAnchored BY <1>3, <2>2 DEF PublishAnchored, Inv, IsIndex
  <2>3. QED BY <2>1, <2>2
<1>6. CASE PublishImported
  <2>1. /\ job'.pc = "clean" /\ job'.op = job.op /\ job'.r = job.r /\ job'.seen = index
        /\ job'.next = job.next /\ job'.made = {} /\ job'.todo = job.r \cap Held(index)
    BY <1>3, <1>6 DEF PublishImported, Inv, Stage, JobTyped, Shape
  <2>2. job.op = "import" BY <1>3, <1>6 DEF Ready, PublishImported
  <2>3. \A r \in Held(index) : r \in job'.todo \/ (r \in DOMAIN job.next /\ job.next[r].blob = index.entries[r].blob)
    BY <1>4, <2>1
  <2>4. \A r \in Held(index) :
          \/ r \in job'.todo /\ KeyGoes(job', r)
          \/ r \in DOMAIN job.next /\ job.next[r].key = index.entries[r].key
    BY <1>4, <2>1, <2>2 DEF KeyGoes
  <2>5. QED BY <1>1, <1>2, <1>5, <2>1, <2>3, <2>4, PublishTally
<1>7. CASE PublishAnchored
  <2>1. /\ job'.pc = "clean" /\ job'.op = job.op /\ job'.r = job.r /\ job'.seen = index
        /\ job'.next = job.next /\ job'.made = job.made /\ job'.todo = job.r
    BY <1>3, <1>7 DEF PublishAnchored, Inv, Stage, JobTyped, Shape
  <2>2. job.op = "anchor" /\ job.r \subseteq Held(index) BY <1>3, <1>7 DEF Ready, PublishAnchored
  <2>3. \A r \in Held(index) : r \in job'.todo \/ (r \in DOMAIN job.next /\ job.next[r].blob = index.entries[r].blob)
    BY <1>4, <2>1
  <2>4. ASSUME NEW r \in Held(index) PROVE r \in DOMAIN job.next /\ job.next[r].key = index.entries[r].key
    <3>1. r \in DOMAIN job.next BY <1>4
    <3>2. Adds(job, index) /\ job.made \subseteq Artifacts BY <1>2, PublishingOwes DEF Inv, Stage, JobTyped
    <3>3. CASE \E m \in job.made : MadeFor(job, index, r, m)
      BY <2>2, <3>1, <3>2, <3>3 DEF MadeFor, Artifacts
    <3>4. QED BY <3>1, <3>2, <3>3 DEF Adds
  <2>5. QED BY <1>1, <1>2, <1>5, <2>1, <2>2, <2>3, <2>4, PublishTally
<1>8. QED BY <1>6, <1>7

LEMMA ImportTally == ASSUME Inv, Tally(job, index, vault), Import PROVE Tally(job', index', vault')
<1>1. CASE ImportRefused
  <2>1. job.pc = "loaded" /\ Finish /\ UNCHANGED <<index, vault>> BY <1>1 DEF ImportRefused, Loaded
  <2>2. Quiet(job.pc) /\ job.pc # "dropJournal" BY <2>1 DEF Quiet, Migrating, Publishing, Cleaning
  <2>3. QED BY <2>1, <2>2, FinishTally
<1>2. QED BY <1>1, PutImportedTally, PublishOneTally, CleanImportedTally DEF Import

LEMMA AnchorTally == ASSUME Inv, Tally(job, index, vault), Anchor PROVE Tally(job', index', vault')
<1>1. CASE SaveAnchorOperation \/ NothingToAnchor
  <2>1. job.pc = "loaded" /\ Finish /\ vault' = vault BY <1>1 DEF SaveAnchorOperation, NothingToAnchor, Loaded
  <2>2. Quiet(job.pc) /\ job.pc # "dropJournal" BY <2>1 DEF Quiet, Migrating, Publishing, Cleaning
  <2>3. index'.version = index.version /\ index'.entries = index.entries
    <3>1. job.seen = index BY <2>1, LoadedKnows
    <3>2. CASE SaveAnchorOperation BY <3>1, <3>2 DEF SaveAnchorOperation, Inv, IsIndex
    <3>3. CASE NothingToAnchor BY <3>3 DEF NothingToAnchor
    <3>4. QED BY <1>1, <3>2, <3>3
  <2>4. (\A b : NamesBlob(index', b) <=> NamesBlob(index, b)) /\ (\A k : NamesKey(index', k) <=> NamesKey(index, k))
    BY <2>3 DEF NamesBlob, NamesKey, Held
  <2>5. QED BY <2>1, <2>2, <2>4, FinishTally
<1>2. QED BY <1>1, PutAnchoredTally, PublishOneTally DEF Anchor

LEMMA DeleteAllTally == ASSUME Inv, Tally(job, index, vault), DeleteAll PROVE Tally(job', index', vault')
<1>1. job.pc \in {"wipe", "remove", "reset"} BY DEF DeleteAll, Wipe, Remove, Reset
<1>2. job.made = {} /\ job.todo = {} /\ ~vault.logged /\ DOMAIN vault.journal = {}
  BY <1>1 DEF Inv, Stage, Staged, Tally, Migrating, Publishing, Cleaning
<1>3. CASE Wipe
  <2>1. job' = [job EXCEPT !.pc = "remove"] /\ vault' = WipedVault BY <1>3 DEF Wipe, Goto
  <2>2. job'.pc = "remove" /\ job'.op = job.op /\ job'.r = job.r /\ job'.made = job.made /\ job'.todo = job.todo
    BY <2>1, MovesOn
  <2>3. DOMAIN vault'.blobs = {} /\ DOMAIN vault'.keys = {} /\ ~vault'.logged /\ DOMAIN vault'.journal = {}
    BY <2>1 DEF WipedVault, Empty
  <2>4. Makes(job') BY <1>2, <2>2 DEF Makes
  <2>5. job'.op = "import" => \A s, t \in job'.r \cup job'.todo : s = t BY <2>2 DEF Tally
  <2>6. QED BY <1>2, <2>2, <2>3, <2>4, <2>5 DEF Tally, Migrating, Publishing, Cleaning
<1>4. CASE Remove
  <2>1. job.pc = "remove" /\ job' = [job EXCEPT !.pc = "reset"] /\ index' = NoValue /\ vault' = vault
    BY <1>4 DEF Remove, Goto
  <2>2. job'.pc = "reset" /\ job'.op = job.op /\ job'.r = job.r /\ job'.made = job.made /\ job'.todo = job.todo
    BY <2>1, MovesOn
  <2>3. Held(index') = {} BY <2>1 DEF NoValue, Held, Empty
  <2>4. DOMAIN vault.blobs = {} /\ DOMAIN vault.keys = {} BY <2>1 DEF Tally
  <2>5. (\A b : ~OwesBlob(job', b)) /\ (\A k : ~OwesKey(job', k))
    BY <2>2 DEF OwesBlob, OwesKey, Migrating, Publishing, Cleaning
  <2>6. Accounts(job', index', vault') BY <2>1, <2>3, <2>4, <2>5 DEF Accounts, NamesBlob, NamesKey
  <2>7. Makes(job') BY <1>2, <2>2 DEF Makes
  <2>8. job'.op = "import" => \A s, t \in job'.r \cup job'.todo : s = t BY <2>2 DEF Tally
  <2>9. QED BY <1>2, <2>1, <2>2, <2>3, <2>6, <2>7, <2>8 DEF Tally, Migrating, Publishing, Cleaning
<1>5. CASE Reset
  <2>1. job.pc = "reset" /\ job' = Idle /\ vault' = vault /\ index'.entries = Empty
    BY <1>5 DEF Reset, Finish, NoValue
  <2>2. job'.pc = "idle" /\ job'.op = "none" /\ job'.made = {} /\ job'.todo = {} BY <2>1 DEF Idle
  <2>3. Held(index') = {} /\ Held(index) = {} BY <2>1 DEF Tally, Held, Empty
  <2>4. (\A b : ~OwesBlob(job, b) /\ ~OwesBlob(job', b)) /\ (\A k : ~OwesKey(job, k) /\ ~OwesKey(job', k))
    BY <2>1, <2>2 DEF OwesBlob, OwesKey, Migrating, Publishing, Cleaning
  <2>5. Accounts(job', index', vault') BY <2>1, <2>3, <2>4 DEF Tally, Accounts, NamesBlob, NamesKey
  <2>6. Makes(job') BY <2>2 DEF Makes
  <2>7. QED BY <1>2, <2>1, <2>2, <2>5, <2>6 DEF Tally, Migrating, Publishing, Cleaning
<1>6. QED BY <1>3, <1>4, <1>5 DEF DeleteAll

LEMMA RunTally == ASSUME Inv, Tally(job, index, vault), Run PROVE Tally(job', index', vault')
BY LoadTally, MigrateTally, PlanChangeTally, SaveTally, ImportTally, AnchorTally, DeleteAllTally DEF Run

LEMMA InitTally == ASSUME Init PROVE Tally(job, index, vault)
<1>1. job.pc = "idle" /\ job.op = "none" /\ job.made = {} /\ job.todo = {} BY DEF Init, Idle
<1>2. (\A b : ~OwesBlob(job, b)) /\ (\A k : ~OwesKey(job, k))
  BY <1>1 DEF OwesBlob, OwesKey, Migrating, Publishing, Cleaning
<1>3. SUFFICES /\ ~vault.logged /\ DOMAIN vault.journal = {}
               /\ \A b : b \in DOMAIN vault.blobs <=> NamesBlob(index, b)
               /\ \A k : k \in DOMAIN vault.keys <=> NamesKey(index, k)
  <2>1. Accounts(job, index, vault) BY <1>2, <1>3 DEF Accounts
  <2>2. Makes(job) BY <1>1 DEF Makes
  <2>3. QED BY <1>1, <1>3, <2>1, <2>2 DEF Tally, Migrating, Publishing, Cleaning
<1>4. CASE vault = WipedVault
  <2>1. index = NoValue \/ index.version = 3
    <3>1. ASSUME NEW n, vault.identity = n, n \in Least(Ids) PROVE FALSE
      BY <1>4, <3>1, StorageAssumption DEF WipedVault, Least, NoId
    <3>2. QED BY <3>1 DEF Init, InitStores, NoValue, WipedVault
  <2>2. (\A b : ~NamesBlob(index, b)) /\ (\A k : ~NamesKey(index, k))
    BY <2>1 DEF NamesBlob, NamesKey, Held, NoValue, Empty
  <2>3. QED BY <1>4, <2>2 DEF WipedVault, Empty
<1>5. CASE vault # WipedVault
  <2>1. PICK r \in Receipts, c \in Contents, n \in Least(Ids) :
          /\ index = [NoValue EXCEPT !.version = 4, !.identity = n,
                        !.entries = With(Empty, r, Entry(n, n, c, "LOCAL"))]
          /\ vault = [WipedVault EXCEPT !.identity = n, !.keys = With(Empty, n, r),
                        !.blobs = With(Empty, n, [receipt |-> r, key |-> n, content |-> c,
                                                  owner |-> "LOCAL", anchored |-> FALSE])]
    BY <1>5 DEF Init, InitStores
  <2>2. index.version = 4 /\ Held(index) = {r} /\ index.entries[r].blob = n /\ index.entries[r].key = n
    BY <2>1 DEF Held, NoValue, With, Empty, Entry
  <2>3. DOMAIN vault.blobs = {n} /\ DOMAIN vault.keys = {n} /\ ~vault.logged /\ DOMAIN vault.journal = {}
    BY <2>1 DEF WipedVault, With, Empty
  <2>4. QED BY <2>2, <2>3 DEF NamesBlob, NamesKey
<1>6. QED BY <1>4, <1>5

(* While no call has failed and the worker has not stopped, an operation    *)
(* leaves in the vault exactly the artifacts the index names: what a save   *)
(* replaced, a delete removed, a refused import staged or a migration       *)
(* logged is gone (secure-storage.ts deletes after the index is written).   *)
THEOREM NothingStays == Spec => []NothingLeaks
<1> DEFINE Neat == faults \in Nat /\ (faults = 0 => Inv /\ Tally(job, index, vault))
<1>1. Init => Neat BY InitInv, InitTally DEF Init
<1>2. Neat /\ [Next]_vars => Neat'
  <2> SUFFICES ASSUME Neat, [Next]_vars PROVE Neat' OBVIOUS
  <2>1. CASE UNCHANGED vars BY <2>1 DEF vars, Inv
  <2>2. CASE \E op \in Operations : Begin(op)
    <3>1. faults' = faults BY <2>2 DEF Begin
    <3>2. QED BY <2>2, <3>1, BeginKeeps, BeginTally
  <2>3. CASE Run
    <3>1. faults' = faults BY <2>3, RunCounts
    <3>2. QED BY <2>3, <3>1, RunKeeps, RunTally
  <2>4. CASE Faults
    <3>1. faults' = faults + 1 BY <2>4 DEF Faults, Crash, Reject, UndoIgnored, WipeBlocked, Fault
    <3>2. QED BY <3>1
  <2>5. QED BY <2>1, <2>2, <2>3, <2>4 DEF Next
<1>3. Neat => NothingLeaks
  <2> SUFFICES ASSUME Inv, Tally(job, index, vault), job.pc = "idle", index.version \in {0, 4, 5}
               PROVE  /\ ~vault.logged
                      /\ DOMAIN vault.blobs = {index.entries[r].blob : r \in Held(index)}
                      /\ DOMAIN vault.keys = {index.entries[r].key : r \in Held(index)}
    BY DEF NothingLeaks
  <2>1. (\A b : ~OwesBlob(job, b)) /\ (\A k : ~OwesKey(job, k))
    BY DEF OwesBlob, OwesKey, Migrating, Publishing, Cleaning
  <2>2. ~vault.logged /\ Accounts(job, index, vault) BY DEF Tally, Migrating
  <2>3. \A b : b \in DOMAIN vault.blobs <=> \E r \in Held(index) : index.entries[r].blob = b
    BY <2>1, <2>2 DEF Accounts, NamesBlob
  <2>4. \A k : k \in DOMAIN vault.keys <=> \E r \in Held(index) : index.entries[r].key = k
    BY <2>1, <2>2 DEF Accounts, NamesKey
  <2>5. QED BY <2>2, <2>3, <2>4
<1>4. QED BY <1>1, <1>2, <1>3, PTL DEF Spec
=============================================================================
