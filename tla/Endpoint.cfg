\* A process or a kernel task receives from two mortal processes and a kernel task.
SPECIFICATION FairSpec
CONSTANTS
    p1 = p1
    p2 = p2
    p3 = p3
    t1 = t1
    t2 = t2
    Nobody = Nobody
    Proc = {p1, p2, p3}
    Task = {t1, t2}
    Sender = {p1, p2, t2}
    Receivers = {{p3}, {t1}}
    Killable = {p1, p2}
    N = 2
    MaxSends = 2
    MaxTotal = 3
CHECK_DEADLOCK FALSE
INVARIANTS
    AnswersMatch
    WaiterIsRecorded
    ReceivedOnce
    DoneMeansReceived
PROPERTIES
    SendCompletes
    OrphanIsWoken
