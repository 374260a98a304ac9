SPECIFICATION MCSpec
CONSTANTS
  c1 = c1  c2 = c2  s1 = s1  Nobody = Nobody  id1 = id1  id2 = id2  id3 = id3  id4 = id4
  p1 = p1  p2 = p2  p3 = p3  p4 = p4  q1 = q1  q2 = q2
  proof = proof  bearer = bearer  stray = stray  k0 = k0  k1 = k1  kx = kx
  r1 = r1  r2 = r2  w1 = w1  w2 = w2  d1 = d1  d2 = d2  x1 = x1  x2 = x2
SYMMETRY Swaps
CHECK_DEADLOCK FALSE
INVARIANTS
  TypesOK
  UpgradeSound
  ReportsSound
  TrendingSound
PROPERTIES
  
  CredentialsCurrent
  
  SignInSafe
