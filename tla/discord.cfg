SPECIFICATION StatusSpec
CONSTANTS
    MaxGames = 2
    MaxLines = 1
    MaxAsks = 1
INVARIANTS FramesWhole StatusTrue
\* The games and the requests are bounded.
CHECK_DEADLOCK FALSE
