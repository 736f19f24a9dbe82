SPECIFICATION FairSpec
CONSTANTS
    NProc = 4
    W = 3
    SleepArgs = {1}
    AlarmArgs = {}
    SignalArgs = {}
    Frames <- MCFrames
    NoFrame = f0
    SwapFrame = f1
    InitFrame = f2
PROPERTIES
    ReadyRuns
    SleepEnds
    NoOvertaking
CHECK_DEADLOCK FALSE
