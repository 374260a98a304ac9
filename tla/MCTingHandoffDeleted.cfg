\* The account of a recipient is deleted while its row is leased.
SPECIFICATION Spec
CONSTANTS
    h1 = h1  h2 = h2  alice = alice  bot = bot  w1 = w1  w2 = w2  w3 = w3
    Handoff = {h1}
    Account = {alice}
    TargetOf <- MCTargetOf
    Legacy = {}
    Worker = {w1, w2}
    Publisher = {w1, w2}
    NoWorker = NoWorker
    MaxAttempts = 1
    MaxRenames = 1
    MaxCrashes = 0
CHECK_DEADLOCK FALSE
INVARIANTS
    WorkersSurvive
