\* A reader pages by one tile while deltas are written and expire.
SPECIFICATION Spec
CONSTANTS
    Actors = {a}
    Cells = {c, d, e}
    Looks = {x}
    Empty = Empty
    c = c  d = d  e = e
    Readers = {r1}
    Viewports <- WholeAndPart
    MaxTiles = 1
    Retention = TRUE
    MaxVersion = 4
INVARIANTS
    TypeOK
    PassedIsKnown
PROPERTIES
    PagesAdvance
