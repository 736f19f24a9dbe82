---------------------------- MODULE MCScheduler ----------------------------
(* Small instances of the scheduler with its clock. *)
EXTENDS SchedulerClock

CONSTANT f3
MCFrames == {SwapFrame, InitFrame, f3}
=============================================================================
