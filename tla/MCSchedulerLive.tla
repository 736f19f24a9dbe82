-------------------------- MODULE MCSchedulerLive --------------------------
(* Small instances of the scheduler without a bound on the ticks: the u32  *)
(* counters wrap, and a context the wrap wakes may do all a process may.   *)
EXTENDS Scheduler

MCFrames == {SwapFrame, InitFrame}
=============================================================================
