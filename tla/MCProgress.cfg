SPECIFICATION MCSpec
CONSTANTS
  alice = alice
  Handoff = {h1}
  Account = {alice}
  TargetOf <- MCTargetOf
  Legacy = {}
  Worker = {w1, w2}
  Publisher = {w1, w2}
  NoWorker = NoWorker
  MaxAttempts = 1
  MaxRenames = 1
  MaxCrashes = 1
  e1 = e1  e2 = e2  r1 = r1  r2 = r2
  proofs = {q1, q2, q3, q4, q5, q6}
  NoOne = NoOne
  s1 = s1
CHECK_DEADLOCK FALSE
INVARIANTS
  TypesOK
  
PROPERTIES
  HandoffSafe
  EveryHandoffSettles
  RegisteredInTheEnd
  QueueDrains
