--------------------------- MODULE SchedulerClock ---------------------------
(***************************************************************************)
(* The scheduler with a clock: numticks counts the timer interrupts, as    *)
(* schedule.c does, and due remembers for each sleeper the tick at which   *)
(* its sleep expires.  due is a history variable: no action reads it.      *)
(* MaxTicks bounds a run; as long as it stays below W - 2 no u32 counter   *)
(* can wrap all the way round.                                             *)
(***************************************************************************)
EXTENDS Scheduler

CONSTANT MaxTicks   \* bound on the number of ticks of a behaviour

ASSUME MaxTicksAssumption == MaxTicks \in Nat

VARIABLES numticks, due

cvars == <<vars, numticks, due>>

CTypeOK ==
    /\ TypeOK
    /\ numticks \in 0..MaxTicks
    /\ due \in [Procs -> Nat]

CInit ==
    /\ Init
    /\ numticks = 0
    /\ due = [p \in Procs |-> 0]

CTick ==
    /\ numticks < MaxTicks
    /\ Tick
    /\ numticks' = numticks + 1
    /\ UNCHANGED due

CSleep(n) ==
    /\ Sleep(n)
    /\ due' = [due EXCEPT ![cur] = numticks + n]
    /\ UNCHANGED numticks

(* The steps that neither count time nor start a sleep. *)
COther ==
    /\ \/ Exit
       \/ Clone
       \/ \E signo \in SignalArgs : Signal(signo)
       \/ \E n \in AlarmArgs : Alarm(n)
       \/ \E signo \in SyncSignals : Fault(signo)
       \/ HandlerReturns
    /\ UNCHANGED <<numticks, due>>

CNext == CTick \/ (\E n \in SleepArgs : CSleep(n)) \/ COther

CSpec == CInit /\ [][CNext]_cvars

-----------------------------------------------------------------------------
(* While the machine is up exactly one context is RUNNING and it is the     *)
(* current one: every path of schedule.c that changes the current context  *)
(* also moves the RUNNING mark.                                             *)
OneRunning ==
    mode = "up" => \A p \in Procs : state[p] = "RUNNING" <=> p = cur

(* The swapper is current only when no process can run and some process is *)
(* asleep: tick, exit and sleep between them never idle the CPU while work  *)
(* is ready, and the shutdown in the timer interrupt is unreachable.        *)
SwapperOnlyIdles ==
    mode = "up" /\ cur = 0 =>
        /\ \A p \in Users : state[p] # "READY"
        /\ \E p \in Users : state[p] = "WAITING"

(* The machine is cleaned up only after the last process has exited: never *)
(* under a process that still sleeps or waits for the CPU.                  *)
CleanupOnlyWhenDone ==
    mode = "cleanup" => \A p \in Users : state[p] = "UNUSED"

(* A sleep is never longer than asked: a context still WAITING has ticks    *)
(* of its sleep left.  Holds for arguments of 1 and more.                   *)
NoOversleep ==
    mode = "up" => \A p \in Users : state[p] = "WAITING" => numticks < due[p]

(* A sleep is never shorter than asked: a context leaves WAITING only at    *)
(* the tick its sleep expires.                                              *)
NoEarlyWake ==
    [][\A p \in Users :
          state[p] = "WAITING" /\ state'[p] # "WAITING" => numticks' = due[p]]_cvars

(* An unused slot comes to life only by clone, as the child of the current  *)
(* process: the countdown of all slots at every tick wakes no dead one.     *)
NoResurrection ==
    [][numticks' # numticks =>
          \A p \in Users : state[p] = "UNUSED" => state'[p] = "UNUSED"]_cvars

(* A tick with a process waiting for the CPU takes it from the running one. *)
TickPreempts ==
    [][numticks' # numticks /\ (\E p \in Users \ {cur} : state[p] = "READY")
          => cur' # cur]_cvars

(* A handler is entered at a tick only by a process with an alarm set: a    *)
(* cancelled or never set alarm does not fire.                              *)
NoSpuriousAlarm ==
    [][numticks' # numticks =>
          \A p \in Procs : in_handler'[p] /\ ~in_handler[p] => alarm_config_time[p] > 0]_cvars

(* Two contexts in use never share a page as OS stack, unless both were     *)
(* given frame 0 for want of a free one.                                    *)
StackUnique ==
    \A p, q \in Procs :
        /\ p # q
        /\ state[p] # "UNUSED" /\ state[q] # "UNUSED"
        /\ os_stack_pfn[p] # NoFrame
        => os_stack_pfn[p] # os_stack_pfn[q]

-----------------------------------------------------------------------------
(* What a comment of the code says and the code does not do.                *)

(* context.h: os_stack_pfn "Must be unique for every context".              *)
OwnStack ==
    \A p, q \in Procs :
        p # q /\ state[p] # "UNUSED" /\ state[q] # "UNUSED"
        => os_stack_pfn[p] # os_stack_pfn[q]
=============================================================================
