SPECIFICATION Spec
CONSTANTS
    Users = {anna, bert}
    Ui = ui
    Threads = {launch}
    MaxTokens = 3
    MaxFaults = 1
INVARIANTS AccountKept TokenKept LaunchAccount
PROPERTY UiAnswered
