\* Four partitions, at half and at whole megabytes; nothing fails.
SPECIFICATION Spec
CONSTANTS
    Images = {f1}
    Foreign = {}
    Blank = Blank
    Torn = Torn
    Maps = {3, 7}
    Requestable = {0, 1, 2}
    CounterMax = 3
    MaxTrouble = 0
INVARIANTS
    StartedIsComplete
    BootableRemains
PROPERTIES
    DefaultIsChecked
    FirstBootSelects
    RequestHonoured
