SPECIFICATION Spec
\* Events and requests are bounded: the system stops at the bounds.
CHECK_DEADLOCK FALSE
CONSTANTS
    m1 = m1
    m2 = m2
    r1 = r1
    c1 = c1
    e1 = e1
    n1 = n1
    lid = lid
    jid = jid
    phone = phone
    Profiles = {c1}
    Incoming = {m1, m2}
    Replies = {r1}
    ProfileOf <- OneCustomer
    Workers = {w1, w2}
    MaxRows = 3
    BatchSize = 2
    MaxFaults = 1
    Unsupported = Unsupported
    NoEvent = NoEvent
    Received = {n1, n2}
    Sent = {s1}
    Entered = {e1, e2}
    Jids = {lid, jid}
    JidOf <- Writes
    PhoneOf <- JidPhone
    EnteredPhone <- ByHand
    Operators = {o1, o2}
    NoPhone = NoPhone
    Nobody = Nobody
    Own = {b1}
    Others = {x1}
    MaxChanges = 1
    MaxRetries = 1
INVARIANTS
    RepliesAreStored
    IdentityOwnsThread
    SocialIInv
    ThreadsKeepCustomers
    BubblesAreTrue
    CacheIInv
PROPERTIES
    MessagesArrive
    BubblesFollowMessages
    SocialImplementsLog
