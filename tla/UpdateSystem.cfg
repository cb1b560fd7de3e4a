SPECIFICATION Spec
CONSTANTS
    Images = {f1, f2}
    Loaders = {b1}
    Bad = Bad
    None = None
    Maps = {3, 5}
    Parts = {0, 1, 2}
    Requestable = {2}
    Sums = {"MD5"}
    Checks = {"VERCHECK"}
    CounterMax = 2
    MaxTrouble = 1
SYMMETRY ImageSymmetry
INVARIANTS
    TypeOK
    AnsweredOnce
    OkMeansDefault
    SectorZeroSafe
PROPERTIES
    UpgradeVerified
    UpdateTakesEffect
    RunningUntouched
CHECK_DEADLOCK FALSE
