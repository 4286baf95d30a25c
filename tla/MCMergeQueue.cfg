\* Two uncoordinated clients, two loops, one crash inside an append.
SPECIFICATION Spec
CONSTANTS
    Loops = {l1, l2}
    NoLoop = NoLoop
    Clients = {c1, c2}
    Idle = Idle
    MaxLog = 5
    MaxTorn = 1
SYMMETRY Symmetry
INVARIANTS
    TypeOK
    ReadsJustify
PROPERTY HistorySpec
