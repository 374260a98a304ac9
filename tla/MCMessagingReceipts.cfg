\* Receipts of two accounts and two devices, in every order, next to another send.
SPECIFICATION Spec
CONSTANTS
    c = c  k1 = k1  k2 = k2  b1 = b1  b2 = b2  g = g
    phone = phone  laptop = laptop  t1 = t1  t2 = t2
    Account = {1, 2, 3}
    Silicon = {3}
    Custodian <- MCCustodian
    Conversation = {c}
    Direct = {c}
    Participants <- Group
    Key = {k1}
    Body = {b1, b2}
    NoBody = NoBody
    Gif = {g}
    NoGif = NoGif
    GifOf <- NoGifs
    Device = {phone, laptop}
    Request <- ReceiptRequests
    NoRequest = NoRequest
    NoMessage = NoMessage
    Tx = {t1, t2}
    MaxMessages = 2
    MaxAttempts = 1
    MaxDraft = 0
    GifLimit = 2
SYMMETRY Slots
CHECK_DEADLOCK FALSE
INVARIANTS
    StreamsContiguous
    AggregateExact
    StatusAnnounced
