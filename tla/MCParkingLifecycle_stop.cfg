CONSTANTS
    Main = main
    Children = {c1, c2}
    Capacity = 2
    Crashes = TRUE
    MaxId = 12
SYMMETRY ChildrenSymmetry
SPECIFICATION Spec
INVARIANTS
    TypeOK
    StopReleasesAll
    
    RestartAgrees
