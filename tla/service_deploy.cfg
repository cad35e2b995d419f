\* Three plays race for the host; commands fail and plays die, three times in all.
SPECIFICATION Spec
SYMMETRY Symmetry
CONSTANTS
    Plays = {p1, p2, p3}
    NoPlay = NoPlay
    Images = {v1, v2}
    NoImage = NoImage
    MaxFailures = 3
INVARIANTS
    TypeOK
    OneOperator
    CutoverIsAllOrNothing
PROPERTY CreatingSurvivesCutover
