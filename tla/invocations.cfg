SPECIFICATION Spec
CONSTANTS
    User = {u1, u2}
    Function = {f1}
    Req = {r1, r2}
    Limit = 2
    MaxCost = 2
    LastMonth = 1
    MaxRuns = 5
SYMMETRY Slots
INVARIANTS TypeOK MonthOvershootBounded OvershootBounded NeverOvercharged
