CONSTANTS
  Zero = Zero
  NoAnchor = NoAnchor
  p1 = p1
  p2 = p2
  a1 = a1
  a2 = a2
  Profiles = {p1, p2}
  Receipts = {"r1"}
  Anchors = {a1, a2}
  Keys = {1, 2, 3, 4}
  MaxPackages = 3
SPECIFICATION Spec
SYMMETRY Symmetric
INVARIANTS OwnerCanGoOn AnchorsAreProved OwnershipIsTrue OneOpenContext
PROPERTIES EvidenceStays
