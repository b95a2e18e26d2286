SPECIFICATION Spec
CONSTANTS
    p1 = p1
    p2 = p2
    Nobody = Nobody
    Proc = {p1, p2}
    Task = {}
    Sender = {p1}
    Receivers = {{p2}}
    Killable = {p2}
    N = 2
    MaxSends = 1
    MaxTotal = 1
CHECK_DEADLOCK FALSE
INVARIANTS
    DoneMeansReceived
