--------------------------- MODULE MCContextSwitch ---------------------------
(* A small instance of ContextSwitch: the frames are gone after the first   *)
(* process, so that clones share frame 0 as OS stack.                       *)
EXTENDS ContextSwitch

(* What decides no later step: the alarm counters, as no handler is there,  *)
(* the registers of unused slots, which do_clone overwrites, and what the   *)
(* running context found when it got the CPU.                               *)
Live == {p \in Procs : state[p] # "UNUSED"}
Seen == <<state, cur, ticks_to_sleep, memVars, mode, cpu, tss,
          [p \in Live |-> regs[p]], [p \in Live \ {cur} |-> want[p]]>>

MCFrames == {SwapFrame, InitFrame}
=============================================================================
