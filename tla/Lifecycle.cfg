CONSTANTS
    None = None
    Task = {t1, t2}
    Container = {a, b}
    Default = a
    Child = {p1, p2}

SPECIFICATION FairSpec

INVARIANTS
    TypeOK
    TokMatchesEngine
    OneSelection
    StatusAgrees
    NoOrphan
    IInv
PROPERTY RequestsEnd
