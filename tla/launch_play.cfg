SPECIFICATION FairSpec
CONSTANTS
    None = None
    Threads = {t1, t2}
    MaxPending = 1
INVARIANTS OneLaunch GameKnown QuietMeansReady
PROPERTY OverlayEnds
\* A page that stays covered is what OverlayEnds forbids.
CHECK_DEADLOCK FALSE
