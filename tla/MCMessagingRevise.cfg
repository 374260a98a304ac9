\* An edit and a tombstone of one message, and the draft it was sent from.
SPECIFICATION Spec
CONSTANTS
    c = c  k1 = k1  k2 = k2  b1 = b1  b2 = b2  g = g
    phone = phone  laptop = laptop  t1 = t1  t2 = t2
    Account = {1, 3}
    Silicon = {3}
    Custodian <- MCCustodian
    Conversation = {c}
    Direct = {c}
    Participants <- Group
    Key = {k1, k2}
    Body = {b1, b2}
    NoBody = NoBody
    Gif = {g}
    NoGif = NoGif
    GifOf <- NoGifs
    Device = {phone}
    Request <- ReviseRequests
    NoRequest = NoRequest
    NoMessage = NoMessage
    Tx = {t1, t2}
    MaxMessages = 1
    MaxAttempts = 1
    MaxDraft = 2
    GifLimit = 2
SYMMETRY Slots
CHECK_DEADLOCK FALSE
PROPERTIES
    TombstoneFinal
    DraftGuarded
