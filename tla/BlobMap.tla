------------------------------- MODULE BlobMap -------------------------------
(***************************************************************************)
(* What the blob service promises (docs/RELAY.md, Encrypted blob storage): *)
(* a map from the identifier an envelope authenticates to the envelope and *)
(* to one public locator.  Storing happens at once, or fails without an    *)
(* answer before or after it took effect.                                  *)
(***************************************************************************)
CONSTANTS
  Uploads,    \* [envelopeId, content]: an envelope and its byte length
  PublicIds,  \* locators
  Conflict    \* the answer ENCRYPTED_BLOB_CONFLICT

VARIABLES
  bound,      \* the envelopes stored: [upload, publicId]
  answers     \* every answer given so far: [upload, publicId or Conflict]

vars == <<bound, answers>>

Answer(u, p) == answers' = answers \cup {[upload |-> u, publicId |-> p]}

\* A new envelope is bound to a fresh locator; the answer may get lost.
Bind(u, p) ==
  /\ \A b \in bound : b.upload.envelopeId # u.envelopeId /\ b.publicId # p
  /\ bound' = bound \cup {[upload |-> u, publicId |-> p]}
  /\ Answer(u, p) \/ UNCHANGED answers

\* An exact retry gets the locator of the first one.
Repeat(u) ==
  \E b \in bound : b.upload = u /\ Answer(u, b.publicId) /\ UNCHANGED bound

\* Other bytes under the same identifier are refused.
Refuse(u) ==
  /\ \E b \in bound : b.upload.envelopeId = u.envelopeId /\ b.upload # u
  /\ Answer(u, Conflict)
  /\ UNCHANGED bound

Init == bound = {} /\ answers = {}

Next == \E u \in Uploads : Repeat(u) \/ Refuse(u) \/ \E p \in PublicIds : Bind(u, p)

Spec == Init /\ [][Next]_vars
=============================================================================
