SPECIFICATION MCSpec
CONSTANTS
  c1 = c1  c2 = c2  s1 = s1  s2 = s2  Nobody = Nobody  r1 = r1  r2 = r2
  t1 = t1  t2 = t2  w1 = w1  w2 = w2  w3 = w3
  h1 = h1  h2 = h2  alice = alice  bot = bot  NoWorker = NoWorker  k1 = k1  k2 = k2
  m1 = m1  m2 = m2  g1 = g1  p1 = p1  a1 = a1  e1 = e1  e2 = e2  older = older  newer = newer  other = other
SYMMETRY Swaps
CHECK_DEADLOCK FALSE
INVARIANTS
  TypesOK
  ContactSafe
  BundleSafe
  PagesRight
  SocketSafe
  HostSafe

  
  
