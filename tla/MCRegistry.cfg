SPECIFICATION Spec
CONSTANTS
  r1 = r1  r2 = r2
  h1 = h1  h2 = h2  h3 = h3  h4 = h4  h5 = h5
  k1 = k1  k2 = k2
  Zero = Zero
  ReceiptIds <- MCReceiptIds
  Hashes <- MCHashes
  Keys <- MCKeys
SYMMETRY MCSymmetry
INVARIANTS
  LogIsEventChain
  HashAnchoredOnce
  AgreesWithReceiptCore
  VerifierIsExact
PROPERTY
  ReceiptOnlyGrows
\* Every hash may be used up: the contract then reverts every call.
CHECK_DEADLOCK FALSE
