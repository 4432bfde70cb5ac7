------------------------------ MODULE BlobTable ------------------------------
(***************************************************************************)
(* The table relay_encrypted_blobs, what its clients were told of it, and  *)
(* what the two together promise. BlobStore adds the requests that write   *)
(* them.                                                                   *)
(***************************************************************************)
CONSTANTS
  Uploads,    \* [envelopeId, content]
  PublicIds,  \* what randomId may return
  Conflict    \* the answer ENCRYPTED_BLOB_CONFLICT

ASSUME BlobAssumption == Conflict \notin PublicIds

VARIABLES
  rows,       \* relay_encrypted_blobs
  answers     \* history: every answer given, [upload, publicId or Conflict]

\* Look, insert and look again behave as one atomic put-if-absent: what store
\* does implements the map of BlobMap.
Map == INSTANCE BlobMap WITH bound <- rows
AtomicMap == Map!Spec
=============================================================================
