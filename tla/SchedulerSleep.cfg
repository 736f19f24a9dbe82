SPECIFICATION CSpec
CONSTANTS
    NProc = 3
    W = 16
    MaxTicks = 3
    SleepArgs = {1, 2}
    AlarmArgs = {0, 1}
    SignalArgs = {"SIGALRM", "SIGFPE"}
    Frames <- MCFrames
    NoFrame = f0
    SwapFrame = f1
    InitFrame = f2
    f3 = f3
INVARIANTS
    CTypeOK
    OneRunning
    SwapperOnlyIdles
    CleanupOnlyWhenDone
    NoOversleep
    StackUnique
PROPERTIES
    NoEarlyWake
    NoResurrection
    TickPreempts
    NoSpuriousAlarm
CHECK_DEADLOCK FALSE
