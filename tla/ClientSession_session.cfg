\* The startup and the calls of one page, a region of two cells with three changes.
SPECIFICATION Spec
CONSTANTS
    Actors = {a}
    Cells = {c, d}
    Looks = {x}
    Empty = Empty
    MaxVersion = 3
CHECK_DEADLOCK FALSE
INVARIANTS
    TypeOK
    RepeatedOnce
    ReplayIsExact
PROPERTIES
    StartupEnds
