SPECIFICATION Spec
CHECK_DEADLOCK FALSE
CONSTANTS
    User = {u1}
    Permission = {p1}
    Nobody = nobody
    Req = {r1, r2}
    AccessLife = 1
    RefreshLife = 3
    Delay = 1
    MaxTime = 6
    MaxCalls = 3
SYMMETRY Symmetry
INVARIANTS
    Inv
    StalePowerIsBounded
    EndedSessionsDieOut
    DeactivatedDieOut
