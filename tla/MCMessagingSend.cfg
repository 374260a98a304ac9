\* Sends with repeated keys, against joining, leaving and deletion.
SPECIFICATION Spec
CONSTANTS
    c = c  k1 = k1  k2 = k2  b1 = b1  b2 = b2  g = g
    phone = phone  laptop = laptop  t1 = t1  t2 = t2
    Account = {1, 3}
    Silicon = {3}
    Custodian <- MCCustodian
    Conversation = {c}
    Direct = {}
    Participants <- Group
    Key = {k1}
    Body = {b1, b2}
    NoBody = NoBody
    Gif = {g}
    NoGif = NoGif
    GifOf <- OneGif
    Device = {phone}
    Request <- SendRequests
    NoRequest = NoRequest
    NoMessage = NoMessage
    Tx = {t1, t2}
    MaxMessages = 2
    MaxAttempts = 2
    MaxDraft = 0
    GifLimit = 2
SYMMETRY Slots
CHECK_DEADLOCK FALSE
INVARIANTS
    TypeOK
    ConversationsContiguous
    ExactlyOnce
    NoMissedMessage
    OutboxNeverRefuses
