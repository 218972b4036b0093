SPECIFICATION ContactSpec
\* Every message and every merge is made once: the system stops when they are.
CHECK_DEADLOCK FALSE
CONSTANTS
    m1 = m1
    lid = lid
    jid = jid
    phone = phone
    Received = {m1, m2, m3}
    Sent = {s1}
    Entered = {}
    Jids = {lid, jid}
    JidOf <- Writes
    PhoneOf <- JidPhone
    EnteredPhone <- NoneByHand
    Operators = {o1}
    NoPhone = NoPhone
    Nobody = Nobody
PROPERTIES
    MergeMovesMessages
