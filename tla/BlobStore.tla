------------------------------ MODULE BlobStore ------------------------------
(***************************************************************************)
(* apps/web/lib/relay/blob-service.ts: encrypted envelopes, kept under the *)
(* identifier their metadata authenticate and under a random public one.   *)
(* An upload looks for the envelope, inserts it, and looks again when the  *)
(* insert violates a unique constraint; each of the three is a statement   *)
(* of its own, and other uploads run in between.                           *)
(*                                                                         *)
(* An upload stands for an envelope and the byte length of its request:    *)
(* the code compares both, and the two together are its content here.      *)
(* Rows are never deleted and their retention state never leaves ACTIVE    *)
(* (nothing in the repository changes it), so neither is modelled.         *)
(***************************************************************************)
EXTENDS BlobTable, Integers

CONSTANT
  Workers     \* requests in flight at the same time

VARIABLE
  job         \* what each worker is doing: position, upload, loop counter

vars == <<rows, job, answers>>

\* for (attempt = 0; attempt < 3; ...)
LastAttempt == 2

Idle == [pc |-> "idle"]
At(w, pc) == job[w].pc = pc
Return(w) == job' = [job EXCEPT ![w] = Idle]
Goto(w, pc, u, attempt) ==
  job' = [job EXCEPT ![w] = [pc |-> pc, upload |-> u, attempt |-> attempt]]

Same(r, u) == r.upload.envelopeId = u.envelopeId
Stored(u) == \E r \in rows : Same(r, u)

\* A row found for the envelope's identifier answers the request: with its
\* locator if it holds the same bytes, with a conflict otherwise.
Locator(r, u) == IF r.upload = u THEN r.publicId ELSE Conflict
AnswerFrom(u) ==
  \E r \in rows : /\ Same(r, u)
                  /\ answers' = answers \cup {[upload |-> u, publicId |-> Locator(r, u)]}

\* get: the envelope behind a locator.
Get(p) == {r.upload : r \in {x \in rows : x.publicId = p}}

\* store, up to the answer of the first SELECT.
Lookup(w, u) ==
  /\ At(w, "idle")
  /\ IF Stored(u) THEN AnswerFrom(u) /\ Return(w)
     ELSE Goto(w, "insert", u, 0) /\ UNCHANGED answers
  /\ UNCHANGED rows

\* The unique constraints on public_id and on envelope_blob_id.
UniqueLocatorOnly(u, p) == \A r \in rows : r.publicId # p          \* broken: migration 0003 missing
Unique(u, p) == \A r \in rows : r.publicId # p /\ r.upload.envelopeId # u.envelopeId

\* The INSERT with the locator p just drawn.
Insert(w, p) ==
  LET u == job[w].upload IN
  /\ At(w, "insert")
  /\ IF Unique(u, p)
     THEN /\ rows' = rows \cup {[upload |-> u, publicId |-> p]}
          /\ answers' = answers \cup {[upload |-> u, publicId |-> p]}
          /\ Return(w)
     ELSE Goto(w, "reread", u, job[w].attempt) /\ UNCHANGED <<rows, answers>>

\* The connection breaks after the INSERT took effect: an error, no answer.
InsertUnanswered(w, p) ==
  LET u == job[w].upload IN
  /\ At(w, "insert")
  /\ Unique(u, p)
  /\ rows' = rows \cup {[upload |-> u, publicId |-> p]}
  /\ Return(w)
  /\ UNCHANGED answers

\* After a unique violation: a concurrent upload of the envelope answers this
\* one; otherwise the locator was taken, and another is drawn at most twice.
Reread(w) ==
  LET u == job[w].upload IN
  /\ At(w, "reread")
  /\ \/ Stored(u) /\ AnswerFrom(u) /\ Return(w)
     \/ ~Stored(u) /\ job[w].attempt < LastAttempt
        /\ Goto(w, "insert", u, job[w].attempt + 1) /\ UNCHANGED answers
     \/ ~Stored(u) /\ job[w].attempt = LastAttempt /\ Return(w) /\ UNCHANGED answers
  /\ UNCHANGED rows

\* A database error or the end of the instance, anywhere.
Fail(w) == ~At(w, "idle") /\ Return(w) /\ UNCHANGED <<rows, answers>>

Init == rows = {} /\ job = [w \in Workers |-> Idle] /\ answers = {}

Next ==
  \E w \in Workers :
    \/ \E u \in Uploads : Lookup(w, u)
    \/ \E p \in PublicIds : Insert(w, p) \/ InsertUnanswered(w, p)
    \/ Reread(w)
    \/ Fail(w)

Spec == Init /\ [][Next]_vars

-----------------------------------------------------------------------------
(* Properties *)

Row == [upload : Uploads, publicId : PublicIds]

\* Every variable has its type: rows hold uploads the clients sent, and a
\* worker past the SELECT of store remembers its upload and the loop counter.
TypeOK ==
  /\ rows \subseteq Row
  /\ job \in [Workers -> {Idle} \cup [pc : {"insert", "reread"}, upload : Uploads,
                                      attempt : 0..2]]
  /\ answers \subseteq [upload : Uploads, publicId : PublicIds \cup {Conflict}]

\* Exact retries, concurrent ones and those whose first answer was lost
\* included, get the locator store gave first, and it still retrieves exactly
\* the bytes the client uploaded.
RetriesAgree ==
  \A a \in answers : a.publicId # Conflict =>
    /\ Get(a.publicId) = {a.upload}
    /\ \A b \in answers : b.upload.envelopeId = a.upload.envelopeId /\ b.publicId # Conflict =>
                            b = a

\* store reports ENCRYPTED_BLOB_CONFLICT only if other bytes are stored under
\* the identifier; an upload refused once is never accepted later.
ConflictsAreReal ==
  \A a \in answers : a.publicId = Conflict =>
    /\ \E r \in rows : Same(r, a.upload) /\ r.upload # a.upload
    /\ \A b \in answers : b.upload = a.upload => b = a
=============================================================================
