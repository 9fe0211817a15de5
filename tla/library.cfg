SPECIFICATION LibrarySpec
CONSTANTS
    Names = {a, b}
    Rams = {0, 5}
    Keys = {lang}
    Versions = {w1, w2}
    MinRam = 2
    MaxRam = 4
    DefaultRam = 3
    Starts <- SomeStarts
    Ui = ui
    Torn = torn
    Threads = {launch}
    MaxOps = 3
    MaxFaults = 1
INVARIANTS IndexKept SettingsKept ConfigKept
\* The requests are bounded.
CHECK_DEADLOCK FALSE
