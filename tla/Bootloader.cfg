SPECIFICATION FairSpec
CONSTANTS
    Images = {f1, f2}
    Foreign = {}
    Blank = Blank
    Torn = Torn
    Maps = {2, 5}
    Requestable = {0, 1, 2}
    CounterMax = 3
    MaxTrouble = 1
INVARIANTS
    TypeOK
    StartedIsComplete
    BootableRemains
PROPERTIES
    DefaultIsChecked
    FirstBootSelects
    RequestHonoured
    BootsAgain
