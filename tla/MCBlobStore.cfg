SPECIFICATION Spec
CONSTANTS
  e1 = e1  e2 = e2  c1 = c1  c2 = c2
  p1 = p1  p2 = p2  p3 = p3
  w1 = w1  w2 = w2  w3 = w3
  Uploads <- MCUploads
  PublicIds = {p1, p2, p3}
  Workers = {w1, w2, w3}
  Conflict = Conflict
PROPERTY
  AtomicMap
