----------------------------- MODULE Scheduler -----------------------------
(***************************************************************************)
(* The process scheduler of the gemOS kernel, src/Ass3/schedule.c: the     *)
(* timer interrupt, exit, sleep, clone, signal and alarm.                  *)
(*                                                                         *)
(* Every kernel entry (timer, system call, fault) goes through an          *)
(* interrupt gate, so handlers run with interrupts off and one handler is  *)
(* one action.  Context 0 is the swapper, an idle loop that makes no       *)
(* system calls.  The current context and the TSS stack pointer are        *)
(* always switched together and are one variable here.  Saved registers,   *)
(* names and segments carry no scheduling decision and are left out.       *)
(***************************************************************************)
EXTENDS Integers, FiniteSets

CONSTANTS
    NProc,      \* MAX_PROCESSES: contexts are 0..NProc-1
    W,          \* number of values of a u32 counter (2^32 in the kernel)
    SleepArgs,  \* arguments processes pass to sleep()
    AlarmArgs,  \* arguments processes pass to alarm()
    SignalArgs, \* signals processes pass to signal()
    Frames,     \* page frames os_pfn_alloc can hand out as OS stacks
    NoFrame,    \* what it returns when none is left (frame number 0)
    SwapFrame,  \* OS stack of the swapper, set up at boot
    InitFrame   \* OS stack of the first process, set up by exec_init

ASSUME NProcAssumption == NProc \in Nat /\ NProc >= 2
ASSUME WAssumption == W \in Nat /\ W >= 3
ASSUME ArgsAssumption == SleepArgs \subseteq 0..W-1 /\ AlarmArgs \subseteq 0..W-1
                          /\ SignalArgs \subseteq {"SIGSEGV", "SIGFPE", "SIGALRM"}
ASSUME FramesAssumption == /\ SwapFrame \in Frames /\ InitFrame \in Frames
                            /\ SwapFrame # InitFrame /\ NoFrame \notin Frames

Procs == 0..NProc-1
Users == 1..NProc-1
Word  == 0..W-1
States == {"UNUSED", "READY", "RUNNING", "WAITING"}
Signals == {"SIGSEGV", "SIGFPE", "SIGALRM"}
SyncSignals == {"SIGSEGV", "SIGFPE"}

VARIABLES
    state,             \* exec_context.state of every context
    cur,               \* pid of get_current_ctx(), also the TSS stack
    ticks_to_sleep,    \* exec_context.ticks_to_sleep
    alarm_config_time, \* exec_context.alarm_config_time
    ticks_to_alarm,    \* exec_context.ticks_to_alarm
    sighandlers,       \* signals with a non-NULL handler
    in_handler,        \* the user rip was redirected to a handler
    os_stack_pfn,      \* exec_context.os_stack_pfn
    allocated,         \* frames os_pfn_alloc has handed out
    mode               \* "up", "cleanup" (do_cleanup ran), "fault"

clockVars == <<ticks_to_sleep, alarm_config_time, ticks_to_alarm>>
sigVars   == <<sighandlers, in_handler>>
memVars   == <<os_stack_pfn, allocated>>
vars == <<state, cur, clockVars, sigVars, memVars, mode>>

TypeOK ==
    /\ state \in [Procs -> States]
    /\ cur \in Procs
    /\ ticks_to_sleep \in [Procs -> Word]
    /\ alarm_config_time \in [Procs -> Word]
    /\ ticks_to_alarm \in [Procs -> Word]
    /\ sighandlers \in [Procs -> SUBSET Signals]
    /\ in_handler \in [Procs -> BOOLEAN]
    /\ os_stack_pfn \in [Procs -> Frames \cup {NoFrame}]
    /\ allocated \subseteq Frames
    /\ mode \in {"up", "cleanup", "fault"}

(* The init command of the kernel shell: slot 1 runs, the swapper is ready *)
(* to be resumed, every counter of the zeroed context list is 0.           *)
Init ==
    /\ state = [p \in Procs |-> CASE p = 0 -> "READY"
                                  [] p = 1 -> "RUNNING"
                                  [] OTHER -> "UNUSED"]
    /\ cur = 1
    /\ ticks_to_sleep = [p \in Procs |-> 0]
    /\ alarm_config_time = [p \in Procs |-> 0]
    /\ ticks_to_alarm = [p \in Procs |-> 0]
    /\ sighandlers = [p \in Procs |-> {}]
    /\ in_handler = [p \in Procs |-> FALSE]
    /\ os_stack_pfn = [p \in Procs |-> IF p = 1 THEN InitFrame
                                    ELSE IF p = 0 THEN SwapFrame ELSE NoFrame]
    /\ allocated = {SwapFrame, InitFrame}
    /\ mode = "up"

-----------------------------------------------------------------------------
(* u32 arithmetic *)
DecSigned(x) == x - 1  \* mutant: the counter as a plain integer
Dec(x) == IF x = 0 THEN W - 1 ELSE x - 1
Inc(x) == IF x = W - 1 THEN 0 ELSE x + 1

(* The scan j = (current_pid + i) % 16, i = 1..15, skipping the swapper:   *)
(* Dist(c, p) is the i at which the scan from c reaches p.                 *)
Dist(c, p) == IF p > c THEN p - c ELSE p - c + NProc

ReadyTooFew(st, c) ==  \* mutant: the scan stops one context early
    {p \in Users \ {c} : st[p] = "READY" /\ Dist(c, p) < NProc - 1}

Ready(st, c) == {p \in Users \ {c} : st[p] = "READY"}

ScanFromOne(st, c) ==  \* mutant: every scan starts at pid 1
    {p \in Ready(st, c) : \A q \in Ready(st, c) : p <= q}

(* What the scan finds: nothing, or the nearest ready context. *)
Scan(st, c) ==
    {p \in Ready(st, c) : \A q \in Ready(st, c) : Dist(c, p) <= Dist(c, q)}

PickNext(st, c, fallback) ==
    IF Ready(st, c) = {} THEN {fallback} ELSE Scan(st, c)

-----------------------------------------------------------------------------
(* The counting loop at the head of the timer interrupt: every slot counts, *)
(* whatever its state.                                                      *)
CountedCurrent ==  \* mutant: only the interrupted context counts
    [ticks_to_sleep EXCEPT ![cur] = Dec(@)]
Counted == [p \in Procs |-> Dec(ticks_to_sleep[p])]
WokenLate == [p \in Procs |->  \* mutant: wakes at 0
                IF Counted[p] = 0 THEN "READY" ELSE state[p]]
WokenOften == [p \in Procs |->  \* mutant: wakes at 0 and at 1
                IF Counted[p] <= 1 THEN "READY" ELSE state[p]]
Woken   == [p \in Procs |-> IF Counted[p] = 1 THEN "READY" ELSE state[p]]

TickSwitchKeepsState(next) ==  \* mutant: current->state = READY forgotten
    /\ state' = [Woken EXCEPT ![next] = "RUNNING"]
    /\ ticks_to_sleep' = [Counted EXCEPT ![next] = 0]
    /\ cur' = next
    /\ UNCHANGED <<alarm_config_time, ticks_to_alarm, sigVars, memVars, mode>>

(* Another context was found: it is resumed and the interrupted one is     *)
(* ready again.  iretq leaves the handler before the alarm accounting.     *)
TickSwitch(next) ==
    /\ state' = [Woken EXCEPT ![cur] = "READY", ![next] = "RUNNING"]
    /\ ticks_to_sleep' = [Counted EXCEPT ![next] = 0]
    /\ cur' = next
    /\ UNCHANGED <<alarm_config_time, ticks_to_alarm, sigVars, memVars, mode>>

TickStaySilent ==  \* mutant: an expired alarm is reloaded, not delivered
    /\ state' = Woken
    /\ ticks_to_sleep' = Counted
    /\ ticks_to_alarm' = [ticks_to_alarm EXCEPT ![cur] =
                            IF Dec(@) = 0 THEN alarm_config_time[cur] ELSE Dec(@)]
    /\ UNCHANGED <<cur, alarm_config_time, sigVars, memVars, mode>>

(* Nothing else to run: an idle swapper with no sleepers shuts down, any   *)
(* other context goes on, its alarm counts down and may fire.              *)
TickStay ==
    LET left == Dec(ticks_to_alarm[cur])
        stop == cur = 0 /\ \A p \in Procs : Woken[p] # "WAITING"
        fire == left = 0 /\ ~stop
    IN  /\ state' = Woken
        /\ ticks_to_sleep' = Counted
        /\ mode' = IF stop THEN "cleanup" ELSE mode
        /\ ticks_to_alarm' =
             IF stop THEN ticks_to_alarm
             ELSE [ticks_to_alarm EXCEPT ![cur] =
                     IF fire THEN alarm_config_time[cur] ELSE left]
        /\ in_handler' = [in_handler EXCEPT ![cur] =
                            @ \/ (fire /\ "SIGALRM" \in sighandlers[cur])]
        /\ UNCHANGED <<cur, alarm_config_time, sighandlers, memVars>>

(* handle_timer_tick *)
Tick ==
    /\ mode = "up"
    /\ \E next \in PickNext(Woken, cur, cur) :
          IF next # cur THEN TickSwitch(next) ELSE TickStay

-----------------------------------------------------------------------------
(* A process (never the swapper) is executing user code. *)
UserRuns == mode = "up" /\ cur \in Users

ExitForgetsSleepers ==  \* mutant: cleans up when nothing is ready
    LET dead == [state EXCEPT ![cur] = "UNUSED"]
    IN  /\ UNCHANGED <<clockVars, sigVars, memVars>>
        /\ IF \A p \in Users : dead[p] # "READY"
           THEN mode' = "cleanup" /\ state' = dead /\ UNCHANGED cur
           ELSE \E next \in PickNext(dead, cur, 0) :
                  /\ state' = [dead EXCEPT ![next] = "RUNNING"]
                  /\ cur' = next
                  /\ UNCHANGED mode

(* do_exit, also reached from a fault without handler.  The counters and   *)
(* the OS stack of the slot stay as they are.                              *)
ExitCurrent ==
    LET dead == [state EXCEPT ![cur] = "UNUSED"]
    IN  /\ UNCHANGED <<clockVars, sigVars, memVars>>
        /\ IF \A p \in Users : dead[p] = "UNUSED"
           THEN mode' = "cleanup" /\ state' = dead /\ UNCHANGED cur
           ELSE \E next \in PickNext(dead, cur, 0) :
                  /\ state' = [dead EXCEPT ![next] = "RUNNING"]
                  /\ cur' = next
                  /\ UNCHANGED mode

Exit == UserRuns /\ ExitCurrent

SleepOneShort(n) ==  \* mutant: ticks_to_sleep = ticks
    /\ UserRuns
    /\ \E next \in PickNext(state, cur, 0) :
          /\ state' = [state EXCEPT ![cur] = "WAITING", ![next] = "RUNNING"]
          /\ cur' = next
    /\ ticks_to_sleep' = [ticks_to_sleep EXCEPT ![cur] = n]
    /\ UNCHANGED <<alarm_config_time, ticks_to_alarm, sigVars, memVars, mode>>

(* do_sleep *)
Sleep(n) ==
    /\ UserRuns
    /\ \E next \in PickNext(state, cur, 0) :
          /\ state' = [state EXCEPT ![cur] = "WAITING", ![next] = "RUNNING"]
          /\ cur' = next
    /\ ticks_to_sleep' = [ticks_to_sleep EXCEPT ![cur] = Inc(n)]
    /\ UNCHANGED <<alarm_config_time, ticks_to_alarm, sigVars, memVars, mode>>

FreeSlots == {p \in Procs : state[p] = "UNUSED"}

(* os_pfn_alloc: some frame it has not handed out, or frame 0 when the     *)
(* region is empty.  Nothing in the scheduler ever gives a frame back.     *)
FreeFrames == IF Frames \subseteq allocated THEN {NoFrame} ELSE Frames \ allocated

(* What do_clone copies from the parent into the new slot. *)
CopyParent(slot) ==
    /\ state' = [state EXCEPT ![slot] = "READY"]
    /\ ticks_to_sleep' = [ticks_to_sleep EXCEPT ![slot] = ticks_to_sleep[cur]]
    /\ alarm_config_time' = [alarm_config_time EXCEPT ![slot] = alarm_config_time[cur]]
    /\ ticks_to_alarm' = [ticks_to_alarm EXCEPT ![slot] = ticks_to_alarm[cur]]
    /\ sighandlers' = [sighandlers EXCEPT ![slot] = sighandlers[cur]]
    /\ in_handler' = [in_handler EXCEPT ![slot] = FALSE]
    /\ UNCHANGED <<cur, mode>>

CloneSharesStack(slot, frame) ==  \* mutant: os_stack_pfn is copied too
    /\ CopyParent(slot)
    /\ os_stack_pfn' = [os_stack_pfn EXCEPT ![slot] = os_stack_pfn[cur]]
    /\ UNCHANGED allocated

(* do_clone, given the slot and the frame. *)
CloneInto(slot, frame) ==
    /\ CopyParent(slot)
    /\ os_stack_pfn' = [os_stack_pfn EXCEPT ![slot] = frame]
    /\ allocated' = allocated \cup ({frame} \cap Frames)

(* The table is full: get_new_ctx returned NULL and do_clone writes through *)
(* it, which either faults in the kernel or scribbles over low memory.      *)
CloneThroughNull ==
    /\ mode' \in {"up", "fault"}
    /\ UNCHANGED <<state, cur, clockVars, sigVars, memVars>>

(* get_new_ctx returns the first unused slot, os_pfn_alloc some frame. *)
Clone ==
    /\ UserRuns
    /\ IF FreeSlots = {}
       THEN CloneThroughNull
       ELSE \E slot \in FreeSlots, frame \in FreeFrames :
              /\ \A other \in FreeSlots : slot <= other
              /\ CloneInto(slot, frame)

(* do_signal, with a handler or with NULL *)
Signal(signo) ==
    /\ UserRuns
    /\ \/ sighandlers' = [sighandlers EXCEPT ![cur] = @ \cup {signo}]
       \/ sighandlers' = [sighandlers EXCEPT ![cur] = @ \ {signo}]
    /\ UNCHANGED <<state, cur, clockVars, in_handler, memVars, mode>>

AlarmKeepsCount(n) ==  \* mutant: the running count is not reset
    /\ UserRuns
    /\ alarm_config_time' = [alarm_config_time EXCEPT ![cur] = n]
    /\ ticks_to_alarm' = IF n = 0 THEN ticks_to_alarm
                         ELSE [ticks_to_alarm EXCEPT ![cur] = n]
    /\ UNCHANGED <<state, cur, ticks_to_sleep, sigVars, memVars, mode>>

(* do_alarm *)
Alarm(n) ==
    /\ UserRuns
    /\ alarm_config_time' = [alarm_config_time EXCEPT ![cur] = n]
    /\ ticks_to_alarm' = [ticks_to_alarm EXCEPT ![cur] = n]
    /\ UNCHANGED <<state, cur, ticks_to_sleep, sigVars, memVars, mode>>

(* invoke_sync_signal for a division by zero or an invalid access *)
Fault(signo) ==
    /\ UserRuns
    /\ IF signo \in sighandlers[cur]
       THEN /\ in_handler' = [in_handler EXCEPT ![cur] = TRUE]
            /\ UNCHANGED <<state, cur, clockVars, sighandlers, memVars, mode>>
       ELSE ExitCurrent

(* The user handler returns to the address pushed on the user stack. *)
HandlerReturns ==
    /\ UserRuns
    /\ in_handler[cur]
    /\ in_handler' = [in_handler EXCEPT ![cur] = FALSE]
    /\ UNCHANGED <<state, cur, clockVars, sighandlers, memVars, mode>>

Next ==
    \/ Tick
    \/ Exit
    \/ \E n \in SleepArgs : Sleep(n)
    \/ Clone
    \/ \E signo \in SignalArgs : Signal(signo)
    \/ \E n \in AlarmArgs : Alarm(n)
    \/ \E signo \in SyncSignals : Fault(signo)
    \/ HandlerReturns

Spec == Init /\ [][Next]_vars

(* The timer is hardware: as long as the machine is up it keeps ticking.   *)
(* Nothing is assumed of processes.                                        *)
FairSpec == Spec /\ WF_vars(Tick)
-----------------------------------------------------------------------------
(* Round robin: while a process waits for the CPU, the CPU only moves       *)
(* closer to it in the order of pids, so that no process is overtaken       *)
(* twice by another, whatever mix of ticks, sleeps and exits moves it.      *)
NoOvertaking ==
    [][\A p \in Users :
          state[p] = "READY" /\ cur' # cur =>
             cur' = p \/ Dist(cur', p) < Dist(cur, p)]_vars

(* No starvation: a process that waits for the CPU gets it, however long    *)
(* the others would compute, sleep or clone: the timer alone sees to it.    *)
ReadyRuns ==
    \A p \in Users :
        mode = "up" /\ state[p] = "READY" ~> cur = p \/ mode # "up"

(* No lost wakeup: every sleep ends, also while the swapper or other        *)
(* processes have the CPU.                                                  *)
SleepEnds ==
    \A p \in Users :
        mode = "up" /\ state[p] = "WAITING" ~> state[p] # "WAITING" \/ mode # "up"

(* context.h: ticks_to_alarm is the "Remaining ticks before raising         *)
(* SIGALRM": a process that has set an alarm and a handler and computes     *)
(* without a system call is signalled.                                      *)
AlarmArmed(p) ==
    /\ mode = "up"
    /\ state[p] \in {"READY", "RUNNING"}
    /\ alarm_config_time[p] > 0 /\ ticks_to_alarm[p] > 0
    /\ "SIGALRM" \in sighandlers[p]
AlarmFires ==
    \A p \in Users : AlarmArmed(p) ~> in_handler[p] \/ ~AlarmArmed(p)

(* With no second process to take turns with, the alarm does arrive: once   *)
(* the process makes no further call, the timer alone brings it to the      *)
(* handler, whatever calls, faults and cancelled alarms came before.        *)
LoneAlarmFires ==
    (<>[][Tick \/ HandlerReturns]_vars) => AlarmFires
=============================================================================
