CONSTANTS
    Names = {n1}
    Devices = {1, 2, 3}
    Local = 1
    Versions <- ThreeVersions
    Times = {1, 2}
    DeleteRetention = 1
SPECIFICATION Spec
INVARIANTS FlagsExclusive GlobalExists NeedIsRight CountsMatch
