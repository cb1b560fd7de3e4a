SPECIFICATION Spec
CONSTANTS
    Images = {f1, f2}
    Foreign = {}
    Blank = Blank
    Torn = Torn
    Maps = {6}
    Requestable = {0, 1, 2}
    CounterMax = 3
    MaxTrouble = 0
INVARIANT BootableRemains
