SPECIFICATION FairSpec
CONSTANTS
    NProc = 2
    W = 6
    SleepArgs = {1}
    AlarmArgs = {0, 2}
    SignalArgs = {"SIGALRM", "SIGFPE"}
    Frames <- MCFrames
    NoFrame = f0
    SwapFrame = f1
    InitFrame = f2
PROPERTY
    LoneAlarmFires
CHECK_DEADLOCK FALSE
