SPECIFICATION SSpec
CONSTANTS
    NProc = 3
    W = 4
    SleepArgs = {1}
    AlarmArgs = {}
    SignalArgs = {}
    Frames <- MCFrames
    NoFrame = f0
    SwapFrame = f1
    InitFrame = f2
VIEW Seen
PROPERTY
    ResumesWhole
CHECK_DEADLOCK FALSE
