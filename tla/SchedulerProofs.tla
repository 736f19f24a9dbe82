-------------------------- MODULE SchedulerProofs --------------------------
(***************************************************************************)
(* Safety of the gemOS scheduler for every number of contexts, every       *)
(* counter width and every horizon that does not let a counter wrap; and,  *)
(* at the end, that the registers of a context survive every switch.       *)
(***************************************************************************)
EXTENDS SchedulerClock, ContextSwitch, TLAPS

(* The horizon leaves the u32 counters no time to wrap around. *)
NoWrap == MaxTicks <= W - 2

(* No process calls sleep(0). *)
PositiveSleeps == 0 \notin SleepArgs

(* What the counters hold: for a sleeper the ticks left and one more, for  *)
(* any other context 0, 1 or a value on its way down from the first wrap.  *)
Countdown ==
    \A p \in Procs :
        IF state[p] = "WAITING"
        THEN /\ p # 0
             /\ due[p] - numticks \in 1..W-1
             /\ ticks_to_sleep[p] = Inc(due[p] - numticks)
        ELSE ticks_to_sleep[p] \in {0, 1} \/ ticks_to_sleep[p] >= W - numticks

(* A context without an alarm counts down from 0 through the wrap. *)
AlarmCountdown ==
    \A p \in Procs :
        alarm_config_time[p] = 0 =>
            ticks_to_alarm[p] = 0 \/ ticks_to_alarm[p] >= W - numticks

SwapperStays == state[0] \in {"READY", "RUNNING"}

StacksAllocated ==
    \A p \in Procs : os_stack_pfn[p] \in allocated \cup {NoFrame}

IInv ==
    /\ CTypeOK
    /\ OneRunning
    /\ SwapperOnlyIdles
    /\ CleanupOnlyWhenDone
    /\ SwapperStays
    /\ mode = "up" => Countdown
    /\ AlarmCountdown
    /\ StacksAllocated
    /\ StackUnique

-----------------------------------------------------------------------------
(* u32 arithmetic *)
LEMMA DecWord == \A x \in Word : Dec(x) \in Word
  BY WAssumption DEF Word, Dec

(* A counter that is incremented stays a word. *)
LEMMA IncWord == \A x \in Word : Inc(x) \in Word
  BY WAssumption DEF Word, Inc

(* The scan picks a ready context other than the current one, or the        *)
(* fallback when there is none.                                             *)
LEMMA PickNextIs ==
  ASSUME NEW st, NEW c, NEW fallback, NEW next \in PickNext(st, c, fallback)
  PROVE  \/ Ready(st, c) = {} /\ next = fallback
         \/ /\ next \in Users /\ next # c /\ st[next] = "READY"
            /\ \A q \in Ready(st, c) : Dist(c, next) <= Dist(c, q)
  BY DEF PickNext, Scan, Ready

(* Moving to the first ready context of the scan never jumps over another.  *)
LEMMA ScanCloser ==
  ASSUME NEW c \in Procs, NEW next \in Users, NEW p \in Users,
         p # c, next # c, next # p, Dist(c, next) <= Dist(c, p)
  PROVE  Dist(next, p) < Dist(c, p)
  BY NProcAssumption DEF Procs, Users, Dist

(* At a tick only a sleeper whose time has come is made ready. *)
LEMMA OnlySleepersWake ==
  ASSUME NoWrap, CTypeOK, Countdown, numticks < MaxTicks, NEW p \in Procs, Counted[p] = 1
  PROVE  state[p] = "WAITING" /\ due[p] = numticks + 1
  BY WAssumption, MaxTicksAssumption
     DEF NoWrap, CTypeOK, TypeOK, Countdown, Counted, Dec, Inc, Word

-----------------------------------------------------------------------------
(* The invariant holds at boot. *)
LEMMA InitIInv == CInit => IInv
<1> SUFFICES ASSUME CInit PROVE IInv
  OBVIOUS
<1> USE NProcAssumption, WAssumption, FramesAssumption, MaxTicksAssumption
<1>1. CTypeOK
  BY DEF CInit, Init, CTypeOK, TypeOK, Procs, States, Word
<1>2. OneRunning /\ SwapperOnlyIdles /\ CleanupOnlyWhenDone /\ SwapperStays
  BY DEF CInit, Init, OneRunning, SwapperOnlyIdles, CleanupOnlyWhenDone, SwapperStays,
         Procs, Users
<1>3. Countdown /\ AlarmCountdown
  BY DEF CInit, Init, Countdown, AlarmCountdown, Procs
<1>4. StacksAllocated /\ StackUnique
  BY DEF CInit, Init, StacksAllocated, StackUnique, Procs
<1> QED
  BY <1>1, <1>2, <1>3, <1>4 DEF IInv

-----------------------------------------------------------------------------
(* Type correctness of one step. *)
LEMMA NextTypeOK == CTypeOK /\ [CNext]_cvars => CTypeOK'
<1> SUFFICES ASSUME CTypeOK, [CNext]_cvars PROVE CTypeOK'
  OBVIOUS
<1> USE NProcAssumption, WAssumption, FramesAssumption, ArgsAssumption,
        MaxTicksAssumption
<1>t. /\ Counted \in [Procs -> Word]
      /\ Woken \in [Procs -> States]
  BY DecWord DEF CTypeOK, TypeOK, Counted, Woken, States
<1>1. CASE CTick
  <2>1. PICK next \in PickNext(Woken, cur, cur) :
              IF next # cur THEN TickSwitch(next) ELSE TickStay
    BY <1>1 DEF CTick, Tick
  <2>2. next \in Procs
    BY PickNextIs DEF CTypeOK, TypeOK, Procs, Users
  <2>3. CASE next # cur
    BY <1>1, <1>t, <2>1, <2>2, <2>3
       DEF TickSwitch, CTick, CTypeOK, TypeOK, States, Word, sigVars, memVars
  <2>4. CASE next = cur
    <3>1. TickStay
      BY <2>1, <2>4
    <3>2. Dec(ticks_to_alarm[cur]) \in Word
      BY DecWord DEF CTypeOK, TypeOK
    <3>3. ticks_to_alarm' \in [Procs -> Word]
      BY <3>1, <3>2 DEF TickStay, CTypeOK, TypeOK
    <3>4. in_handler' \in [Procs -> BOOLEAN]
      BY <3>1 DEF TickStay, CTypeOK, TypeOK
    <3> QED
      BY <1>1, <1>t, <3>1, <3>3, <3>4 DEF TickStay, CTick, CTypeOK, TypeOK, memVars
  <2> QED
    BY <2>3, <2>4
<1>2. ASSUME NEW n \in SleepArgs, CSleep(n) PROVE CTypeOK'
  <2>1. PICK next \in PickNext(state, cur, 0) :
              /\ state' = [state EXCEPT ![cur] = "WAITING", ![next] = "RUNNING"]
              /\ cur' = next
    BY <1>2 DEF CSleep, Sleep
  <2>2. next \in Procs
    BY PickNextIs DEF CTypeOK, TypeOK, Procs, Users
  <2>3. Inc(n) \in Word /\ n \in Nat
    BY IncWord DEF Word
  <2> QED
    BY <1>2, <2>1, <2>2, <2>3
       DEF CSleep, Sleep, CTypeOK, TypeOK, States, sigVars, memVars
<1>3. ASSUME ExitCurrent, UNCHANGED <<numticks, due>> PROVE CTypeOK'
  <2> DEFINE dead == [state EXCEPT ![cur] = "UNUSED"]
  <2>1. CASE \A p \in Users : dead[p] = "UNUSED"
    BY <1>3, <2>1 DEF ExitCurrent, CTypeOK, TypeOK, States, clockVars, sigVars, memVars
  <2>2. CASE ~ \A p \in Users : dead[p] = "UNUSED"
    <3>1. PICK next \in PickNext(dead, cur, 0) :
                /\ state' = [dead EXCEPT ![next] = "RUNNING"]
                /\ cur' = next
                /\ UNCHANGED mode
      BY <1>3, <2>2 DEF ExitCurrent
    <3>2. next \in Procs
      BY PickNextIs DEF Procs, Users
    <3> QED
      BY <1>3, <3>1, <3>2
         DEF ExitCurrent, CTypeOK, TypeOK, States, clockVars, sigVars, memVars
  <2> QED
    BY <2>1, <2>2
<1>4. CASE Clone /\ UNCHANGED <<numticks, due>>
  <2>1. CASE FreeSlots = {}
    BY <1>4, <2>1 DEF Clone, CloneThroughNull, CTypeOK, TypeOK, clockVars, sigVars, memVars
  <2>2. CASE FreeSlots # {}
    <3>1. PICK slot \in FreeSlots, frame \in FreeFrames : CloneInto(slot, frame)
      BY <1>4, <2>2 DEF Clone
    <3>2. slot \in Procs /\ frame \in Frames \cup {NoFrame}
      BY DEF FreeSlots, FreeFrames
    <3> QED
      BY <1>4, <3>1, <3>2 DEF CloneInto, CopyParent, CTypeOK, TypeOK, States
  <2> QED
    BY <2>1, <2>2
<1>5. ASSUME NEW signo \in SignalArgs, Signal(signo), UNCHANGED <<numticks, due>>
      PROVE  CTypeOK'
  <2>1. signo \in Signals
    BY DEF Signals
  <2> QED
    BY <1>5, <2>1 DEF Signal, CTypeOK, TypeOK, clockVars, memVars
<1>6. ASSUME NEW n \in AlarmArgs, Alarm(n), UNCHANGED <<numticks, due>> PROVE CTypeOK'
  BY <1>6 DEF Alarm, CTypeOK, TypeOK, Word, sigVars, memVars
<1>7. ASSUME NEW signo \in SyncSignals, Fault(signo), UNCHANGED <<numticks, due>>
      PROVE  CTypeOK'
  BY <1>3, <1>7 DEF Fault, CTypeOK, TypeOK, clockVars, memVars
<1>8. CASE HandlerReturns /\ UNCHANGED <<numticks, due>>
  BY <1>8 DEF HandlerReturns, CTypeOK, TypeOK, clockVars, memVars
<1>9. CASE UNCHANGED cvars
  BY <1>9 DEF cvars, vars, clockVars, sigVars, memVars, CTypeOK, TypeOK
<1> QED
  BY <1>1, <1>2, <1>3, <1>4, <1>5, <1>6, <1>7, <1>8, <1>9 DEF CNext, COther, Exit

(* The variables keep their types: pids, u32 counters and states. *)
THEOREM TypeCorrect == CSpec => []CTypeOK
<1>1. CInit => CTypeOK
  BY InitIInv DEF IInv
<1> QED
  BY <1>1, NextTypeOK, PTL DEF CSpec

-----------------------------------------------------------------------------
(* One lemma per kind of step: the inductive invariant is preserved. *)

(* A tick keeps it: who is due is woken, and the next one is ready. *)
LEMMA TickIInv == NoWrap /\ IInv /\ CTypeOK' /\ CTick => IInv'
<1> SUFFICES ASSUME NoWrap, IInv, CTypeOK', CTick PROVE IInv'
  OBVIOUS
<1> USE NProcAssumption, WAssumption, MaxTicksAssumption
<1>c. CTypeOK /\ mode = "up" /\ Countdown /\ numticks < MaxTicks
      /\ numticks' = numticks + 1 /\ due' = due
  BY DEF IInv, CTick, Tick
<1>w. \A p \in Procs :
         /\ Counted[p] = Dec(ticks_to_sleep[p])
         /\ Woken[p] = IF Counted[p] = 1 THEN "READY" ELSE state[p]
         /\ Counted[p] = 1 => state[p] = "WAITING" /\ due[p] = numticks + 1
  BY <1>c, OnlySleepersWake DEF Counted, Woken
<1>s. PICK next \in PickNext(Woken, cur, cur) :
            IF next # cur THEN TickSwitch(next) ELSE TickStay
  BY DEF CTick, Tick
<1>n. \/ Ready(Woken, cur) = {} /\ next = cur
      \/ next \in Users /\ next # cur /\ Woken[next] = "READY"
  BY <1>s, PickNextIs
<1>t. /\ Counted \in [Procs -> Word] /\ Woken \in [Procs -> States]
      /\ cur \in Procs /\ next \in Procs
  BY <1>c, <1>n, DecWord DEF CTypeOK, TypeOK, Counted, Woken, States, Users, Procs
<1>r. /\ OneRunning /\ SwapperOnlyIdles /\ CleanupOnlyWhenDone /\ SwapperStays
      /\ AlarmCountdown /\ StacksAllocated /\ StackUnique
  BY DEF IInv
(* A counter that is counted down and not woken stays within Countdown. *)
<1>d. \A p \in Procs :
         IF Woken[p] = "WAITING"
         THEN /\ p # 0
              /\ due[p] - numticks' \in 1..W-1
              /\ Counted[p] = Inc(due[p] - numticks')
         ELSE Counted[p] \in {0, 1} \/ Counted[p] >= W - numticks'
  <2> TAKE p \in Procs
  <2>1. ticks_to_sleep[p] \in 0..W-1 /\ numticks \in 0..MaxTicks /\ due[p] \in Nat
    BY <1>c DEF CTypeOK, TypeOK, Word
  <2>2. CASE state[p] = "WAITING"
    <3>1. /\ p # 0 /\ due[p] - numticks \in 1..W-1
          /\ ticks_to_sleep[p] = Inc(due[p] - numticks)
      BY <1>c, <2>2 DEF Countdown
    <3>2. Counted[p] = due[p] - numticks
      BY <1>w, <2>1, <3>1 DEF Dec, Inc
    <3>3. CASE due[p] - numticks = 1
      BY <1>w, <3>2, <3>3
    <3>4. CASE due[p] - numticks # 1
      <4>1. Woken[p] = "WAITING"
        BY <1>w, <2>2, <3>2, <3>4
      <4>2. due[p] - numticks' = (due[p] - numticks) - 1
        BY <1>c, <2>1
      <4> QED
        BY <3>1, <3>2, <3>4, <4>1, <4>2, <2>1 DEF Inc
    <3> QED
      BY <3>3, <3>4
  <2>3. CASE state[p] # "WAITING"
    BY <1>c, <1>w, <2>1, <2>3 DEF Countdown, Dec, NoWrap
  <2> QED
    BY <2>2, <2>3
<1>1. CASE next # cur
  <2>1. TickSwitch(next)
    BY <1>s, <1>1
  <2>2. /\ state' = [Woken EXCEPT ![cur] = "READY", ![next] = "RUNNING"]
        /\ ticks_to_sleep' = [Counted EXCEPT ![next] = 0]
        /\ cur' = next /\ mode' = mode
        /\ UNCHANGED <<alarm_config_time, ticks_to_alarm, os_stack_pfn, allocated>>
    BY <2>1 DEF TickSwitch, memVars
  <2>3. next \in Users
    BY <1>n, <1>1
  <2>4. OneRunning'
    BY <1>c, <1>r, <1>t, <1>w, <1>1, <2>2 DEF OneRunning
  <2>5. SwapperOnlyIdles' /\ CleanupOnlyWhenDone'
    BY <1>c, <2>2, <2>3 DEF SwapperOnlyIdles, CleanupOnlyWhenDone, Users
  <2>6. SwapperStays'
    BY <1>c, <1>r, <1>t, <1>w, <2>2, <2>3 DEF SwapperStays, Countdown, Users, Procs
  <2>7. Countdown'
    <3> SUFFICES ASSUME NEW p \in Procs
                 PROVE  IF state'[p] = "WAITING"
                        THEN /\ p # 0
                             /\ due'[p] - numticks' \in 1..W-1
                             /\ ticks_to_sleep'[p] = Inc(due'[p] - numticks')
                        ELSE ticks_to_sleep'[p] \in {0, 1}
                             \/ ticks_to_sleep'[p] >= W - numticks'
      BY DEF Countdown
    <3>1. CASE p = next
      BY <1>t, <2>2, <3>1
    <3>2. CASE p = cur
      <4>1. Woken[p] # "WAITING"
        BY <1>c, <1>r, <1>t, <1>w, <3>2 DEF OneRunning
      <4> QED
        BY <1>t, <1>d, <1>1, <2>2, <3>2, <4>1
    <3>3. CASE p # next /\ p # cur
      BY <1>c, <1>t, <1>d, <2>2, <3>3
    <3> QED
      BY <3>1, <3>2, <3>3
  <2>8. AlarmCountdown'
    BY <1>c, <1>r, <2>2 DEF AlarmCountdown, CTypeOK, TypeOK, Word
  <2>9. StacksAllocated'
    BY <1>r, <2>2 DEF StacksAllocated
  <2>10. StackUnique'
    <3>1. \A p \in Procs : state'[p] # "UNUSED" => state[p] # "UNUSED"
      <4> TAKE p \in Procs
      <4>1. CASE p = next
        BY <1>n, <1>1, <1>w, <4>1
      <4>2. CASE p = cur
        BY <1>c, <1>r, <4>2 DEF OneRunning
      <4>3. CASE p # next /\ p # cur
        BY <1>t, <1>w, <2>2, <4>3
      <4> QED
        BY <4>1, <4>2, <4>3
    <3> QED
      BY <1>r, <2>2, <3>1 DEF StackUnique
  <2> QED
    BY <1>c, <2>2, <2>4, <2>5, <2>6, <2>7, <2>8, <2>9, <2>10 DEF IInv
<1>2. CASE next = cur
  <2>1. TickStay /\ Ready(Woken, cur) = {}
    BY <1>s, <1>n, <1>2
  <2>2. /\ state' = Woken /\ ticks_to_sleep' = Counted /\ cur' = cur
        /\ UNCHANGED <<alarm_config_time, os_stack_pfn, allocated>>
    BY <2>1 DEF TickStay, memVars
  <2>3. state[cur] = "RUNNING" /\ Woken[cur] = "RUNNING"
    BY <1>c, <1>r, <1>t, <1>w DEF OneRunning
  <2>4. cur = 0 => \E p \in Users : Woken[p] = "WAITING"
    <3> SUFFICES ASSUME cur = 0 PROVE \E p \in Users : Woken[p] = "WAITING"
      OBVIOUS
    <3>1. PICK p \in Users : state[p] = "WAITING"
      BY <1>c, <1>r DEF SwapperOnlyIdles
    <3>2. Woken[p] # "READY"
      BY <2>1, <3>1 DEF Ready, Users
    <3> QED
      BY <1>w, <3>1, <3>2 DEF Users, Procs
  <2>5. mode' = mode
    BY <2>1, <2>4 DEF TickStay, Users, Procs
  <2>6. OneRunning'
    BY <1>c, <1>r, <1>t, <1>w, <2>2, <2>3 DEF OneRunning
  <2>7. SwapperOnlyIdles'
    BY <2>1, <2>2, <2>4 DEF SwapperOnlyIdles, Ready, Users
  <2>8. CleanupOnlyWhenDone'
    BY <1>c, <2>5 DEF CleanupOnlyWhenDone
  <2>9. SwapperStays'
    BY <1>c, <1>r, <1>w, <2>2 DEF SwapperStays, Countdown, Procs
  <2>10. Countdown'
    BY <1>c, <1>d, <2>2 DEF Countdown
  <2>11. AlarmCountdown'
    <3> SUFFICES ASSUME NEW p \in Procs, alarm_config_time'[p] = 0
                 PROVE  ticks_to_alarm'[p] = 0 \/ ticks_to_alarm'[p] >= W - numticks'
      BY DEF AlarmCountdown
    <3>1. /\ ticks_to_alarm[p] \in 0..W-1 /\ numticks \in 0..MaxTicks
          /\ ticks_to_alarm[p] = 0 \/ ticks_to_alarm[p] >= W - numticks
      BY <1>c, <1>r, <2>2 DEF AlarmCountdown, CTypeOK, TypeOK, Word
    <3>2. ~(cur = 0 /\ \A q \in Procs : Woken[q] # "WAITING")
      BY <2>4 DEF Users, Procs
    <3>3. ticks_to_alarm' = [ticks_to_alarm EXCEPT ![cur] =
                               IF Dec(ticks_to_alarm[cur]) = 0 THEN alarm_config_time[cur]
                               ELSE Dec(ticks_to_alarm[cur])]
      BY <2>1, <3>2 DEF TickStay
    <3>4. CASE p = cur
      BY <1>c, <2>2, <3>1, <3>3, <3>4 DEF Dec, NoWrap, CTypeOK, TypeOK
    <3>5. CASE p # cur
      BY <1>c, <3>1, <3>3, <3>5 DEF CTypeOK, TypeOK
    <3> QED
      BY <3>4, <3>5
  <2>12. StacksAllocated'
    BY <1>r, <2>2 DEF StacksAllocated
  <2>13. StackUnique'
    <3>1. \A p \in Procs : state'[p] # "UNUSED" => state[p] # "UNUSED"
      BY <1>w, <2>2
    <3> QED
      BY <1>r, <2>2, <3>1 DEF StackUnique
  <2> QED
    BY <2>6, <2>7, <2>8, <2>9, <2>10, <2>11, <2>12, <2>13 DEF IInv
<1> QED
  BY <1>1, <1>2

(* A sleep keeps it: the sleeper is due when its ticks have gone by. *)
LEMMA SleepIInv ==
  ASSUME PositiveSleeps, IInv, CTypeOK', NEW n \in SleepArgs, CSleep(n)
  PROVE  IInv'
<1> USE NProcAssumption, WAssumption, ArgsAssumption
<1>c. /\ CTypeOK /\ mode = "up" /\ mode' = "up" /\ cur \in Users
      /\ numticks' = numticks /\ due' = [due EXCEPT ![cur] = numticks + n]
      /\ ticks_to_sleep' = [ticks_to_sleep EXCEPT ![cur] = Inc(n)]
      /\ UNCHANGED <<alarm_config_time, ticks_to_alarm, os_stack_pfn, allocated>>
  BY DEF IInv, CSleep, Sleep, UserRuns, memVars
<1>r. /\ OneRunning /\ SwapperOnlyIdles /\ CleanupOnlyWhenDone /\ SwapperStays
      /\ Countdown /\ AlarmCountdown /\ StacksAllocated /\ StackUnique
  BY <1>c DEF IInv
<1>s. PICK next \in PickNext(state, cur, 0) :
            /\ state' = [state EXCEPT ![cur] = "WAITING", ![next] = "RUNNING"]
            /\ cur' = next
  BY DEF CSleep, Sleep
<1>n. \/ Ready(state, cur) = {} /\ next = 0
      \/ next \in Users /\ next # cur /\ state[next] = "READY"
  BY <1>s, PickNextIs
<1>t. /\ state \in [Procs -> States] /\ next \in Procs /\ cur \in Procs /\ next # cur
      /\ numticks \in Nat /\ due \in [Procs -> Nat] /\ n \in 1..W-1
      /\ ticks_to_sleep \in [Procs -> Word]
      /\ state[cur] = "RUNNING" /\ state[next] # "UNUSED" /\ cur # 0
  BY <1>c, <1>n, <1>r
     DEF CTypeOK, TypeOK, Users, Procs, PositiveSleeps, OneRunning, SwapperStays
<1>1. OneRunning'
  BY <1>c, <1>r, <1>s, <1>t DEF OneRunning
<1>2. SwapperOnlyIdles'
  <2> SUFFICES ASSUME next = 0
               PROVE  /\ \A p \in Users : state'[p] # "READY"
                      /\ \E p \in Users : state'[p] = "WAITING"
    BY <1>s DEF SwapperOnlyIdles
  <2>1. \A p \in Users \ {cur} : state[p] # "READY"
    BY <1>n DEF Ready, Users
  <2>2. state'[cur] = "WAITING"
    BY <1>s, <1>t
  <2> QED
    BY <1>c, <1>s, <1>t, <2>1, <2>2 DEF Users, Procs
<1>3. CleanupOnlyWhenDone' /\ SwapperStays'
  BY <1>c, <1>r, <1>s, <1>t DEF CleanupOnlyWhenDone, SwapperStays, Procs
<1>4. Countdown'
  <2> SUFFICES ASSUME NEW p \in Procs
               PROVE  IF state'[p] = "WAITING"
                      THEN /\ p # 0
                           /\ due'[p] - numticks' \in 1..W-1
                           /\ ticks_to_sleep'[p] = Inc(due'[p] - numticks')
                      ELSE ticks_to_sleep'[p] \in {0, 1}
                           \/ ticks_to_sleep'[p] >= W - numticks'
    BY DEF Countdown
  <2>1. CASE p = cur
    <3>1. due'[p] = numticks + n /\ ticks_to_sleep'[p] = Inc(n) /\ state'[p] = "WAITING"
      BY <1>c, <1>s, <1>t, <2>1
    <3>2. due'[p] - numticks' = n
      BY <1>c, <1>t, <3>1
    <3> QED
      BY <1>t, <2>1, <3>1, <3>2
  <2>2. CASE p # cur
    <3>1. due'[p] = due[p] /\ ticks_to_sleep'[p] = ticks_to_sleep[p]
      BY <1>c, <1>t, <2>2
    <3>2. CASE p = next
      BY <1>c, <1>n, <1>r, <1>s, <1>t, <3>1, <3>2 DEF Countdown, SwapperStays
    <3>3. CASE p # next
      BY <1>c, <1>r, <1>s, <1>t, <2>2, <3>1, <3>3 DEF Countdown
    <3> QED
      BY <3>2, <3>3
  <2> QED
    BY <2>1, <2>2
<1>5. AlarmCountdown' /\ StacksAllocated'
  BY <1>c, <1>r DEF AlarmCountdown, StacksAllocated
<1>6. StackUnique'
  <2>1. \A p \in Procs : state'[p] # "UNUSED" => state[p] # "UNUSED"
    BY <1>s, <1>t
  <2> QED
    BY <1>c, <1>r, <2>1 DEF StackUnique
<1> QED
  BY <1>1, <1>2, <1>3, <1>4, <1>5, <1>6 DEF IInv

(* An exit keeps it. *)
LEMMA ExitIInv ==
  ASSUME IInv, CTypeOK', UserRuns, ExitCurrent, UNCHANGED <<numticks, due>>
  PROVE  IInv'
<1> DEFINE dead == [state EXCEPT ![cur] = "UNUSED"]
<1> USE NProcAssumption
<1>c. /\ CTypeOK /\ mode = "up" /\ cur \in Users /\ numticks' = numticks /\ due' = due
      /\ UNCHANGED <<ticks_to_sleep, alarm_config_time, ticks_to_alarm, os_stack_pfn, allocated>>
  BY DEF IInv, ExitCurrent, UserRuns, memVars, clockVars
<1>r. /\ OneRunning /\ SwapperOnlyIdles /\ CleanupOnlyWhenDone /\ SwapperStays
      /\ Countdown /\ AlarmCountdown /\ StacksAllocated /\ StackUnique
  BY <1>c DEF IInv
<1>t. /\ state \in [Procs -> States] /\ cur \in Procs /\ cur # 0
      /\ dead \in [Procs -> States] /\ state[cur] = "RUNNING" /\ dead[cur] = "UNUSED"
      /\ \A p \in Procs \ {cur} : dead[p] = state[p]
  BY <1>c, <1>r DEF CTypeOK, TypeOK, OneRunning, Users, Procs, States
<1>5. AlarmCountdown' /\ StacksAllocated'
  BY <1>c, <1>r DEF AlarmCountdown, StacksAllocated
<1>1. CASE \A p \in Users : dead[p] = "UNUSED"
  <2>1. mode' = "cleanup" /\ state' = dead /\ cur' = cur
    BY <1>1 DEF ExitCurrent
  <2>2. OneRunning' /\ SwapperOnlyIdles' /\ CleanupOnlyWhenDone' /\ SwapperStays'
    BY <1>1, <1>r, <1>t, <2>1
       DEF OneRunning, SwapperOnlyIdles, CleanupOnlyWhenDone, SwapperStays, Procs
  <2>3. StackUnique'
    BY <1>c, <1>r, <1>t, <2>1 DEF StackUnique
  <2> QED
    BY <1>5, <2>1, <2>2, <2>3 DEF IInv
<1>2. CASE ~ \A p \in Users : dead[p] = "UNUSED"
  <2>1. PICK next \in PickNext(dead, cur, 0) :
              /\ state' = [dead EXCEPT ![next] = "RUNNING"]
              /\ cur' = next
              /\ UNCHANGED mode
    BY <1>2 DEF ExitCurrent
  <2>2. \/ Ready(dead, cur) = {} /\ next = 0
        \/ next \in Users /\ next # cur /\ dead[next] = "READY"
    BY <2>1, PickNextIs
  <2>3. /\ next \in Procs /\ next # cur /\ state[next] \notin {"UNUSED", "WAITING"}
        /\ \A p \in Procs : state'[p] = IF p = next THEN "RUNNING" ELSE dead[p]
    BY <1>r, <1>t, <2>1, <2>2 DEF Users, Procs, SwapperStays
  <2>4. OneRunning'
    BY <1>c, <1>r, <1>t, <2>1, <2>3 DEF OneRunning
  <2>5. SwapperOnlyIdles'
    <3> SUFFICES ASSUME next = 0
                 PROVE  /\ \A p \in Users : state'[p] # "READY"
                        /\ \E p \in Users : state'[p] = "WAITING"
      BY <2>1 DEF SwapperOnlyIdles
    <3>1. \A p \in Users : dead[p] # "READY"
      BY <1>t, <2>2 DEF Ready, Users
    <3>2. PICK p \in Users : dead[p] # "UNUSED"
      BY <1>2
    <3>3. dead[p] = "WAITING"
      BY <1>c, <1>r, <1>t, <3>1, <3>2 DEF OneRunning, Users, Procs, States
    <3> QED
      BY <1>t, <2>3, <3>1, <3>3 DEF Users, Procs
  <2>6. CleanupOnlyWhenDone' /\ SwapperStays'
    BY <1>c, <1>r, <1>t, <2>1, <2>3 DEF CleanupOnlyWhenDone, SwapperStays, Procs
  <2>7. Countdown'
    <3>1. \A p \in Procs : state'[p] = "WAITING" <=> state[p] = "WAITING"
      BY <1>t, <2>3
    <3> QED
      BY <1>c, <1>r, <3>1 DEF Countdown
  <2>8. StackUnique'
    <3>1. \A p \in Procs : state'[p] # "UNUSED" => state[p] # "UNUSED"
      BY <1>t, <2>3
    <3> QED
      BY <1>c, <1>r, <3>1 DEF StackUnique
  <2> QED
    BY <1>5, <2>4, <2>5, <2>6, <2>7, <2>8 DEF IInv
<1> QED
  BY <1>1, <1>2

(* A clone keeps it: the new context is ready and nobody's wake-up moves. *)
LEMMA CloneIInv ==
  ASSUME IInv, CTypeOK', Clone, UNCHANGED <<numticks, due>>
  PROVE  IInv'
<1> USE NProcAssumption
<1>c. /\ CTypeOK /\ mode = "up" /\ cur \in Users /\ numticks' = numticks /\ due' = due
  BY DEF IInv, Clone, UserRuns
<1>r. /\ OneRunning /\ SwapperOnlyIdles /\ CleanupOnlyWhenDone /\ SwapperStays
      /\ Countdown /\ AlarmCountdown /\ StacksAllocated /\ StackUnique
  BY <1>c DEF IInv
<1>1. CASE FreeSlots = {}
  <2>1. /\ UNCHANGED <<state, cur, ticks_to_sleep, alarm_config_time, ticks_to_alarm,
                        os_stack_pfn, allocated>>
        /\ mode' \in {"up", "fault"}
    BY <1>1 DEF Clone, CloneThroughNull, clockVars, memVars
  <2> QED
    BY <1>c, <1>r, <2>1
       DEF IInv, OneRunning, SwapperOnlyIdles, CleanupOnlyWhenDone, SwapperStays,
           Countdown, AlarmCountdown, StacksAllocated, StackUnique
<1>2. CASE FreeSlots # {}
  <2>1. PICK slot \in FreeSlots, frame \in FreeFrames : CloneInto(slot, frame)
    BY <1>2 DEF Clone
  <2>2. /\ slot \in Procs /\ state[slot] = "UNUSED" /\ slot # cur /\ slot # 0
        /\ cur \in Procs /\ state[cur] = "RUNNING"
        /\ frame # NoFrame => frame \in Frames /\ frame \notin allocated
    BY <1>c, <1>r DEF FreeSlots, FreeFrames, OneRunning, SwapperStays, CTypeOK, TypeOK
  <2>3. /\ cur' = cur /\ mode' = mode
        /\ allocated' = allocated \cup ({frame} \cap Frames)
        /\ state'[slot] = "READY"
        /\ ticks_to_sleep'[slot] = ticks_to_sleep[cur]
        /\ alarm_config_time'[slot] = alarm_config_time[cur]
        /\ ticks_to_alarm'[slot] = ticks_to_alarm[cur]
        /\ os_stack_pfn'[slot] = frame
        /\ \A p \in Procs \ {slot} :
             /\ state'[p] = state[p]
             /\ ticks_to_sleep'[p] = ticks_to_sleep[p]
             /\ alarm_config_time'[p] = alarm_config_time[p]
             /\ ticks_to_alarm'[p] = ticks_to_alarm[p]
             /\ os_stack_pfn'[p] = os_stack_pfn[p]
    BY <1>c, <2>1, <2>2 DEF CloneInto, CopyParent, CTypeOK, TypeOK
  <2>4. OneRunning' /\ SwapperOnlyIdles' /\ CleanupOnlyWhenDone' /\ SwapperStays'
    BY <1>c, <1>r, <2>2, <2>3
       DEF OneRunning, SwapperOnlyIdles, CleanupOnlyWhenDone, SwapperStays, Users, Procs
  <2>5. Countdown'
    BY <1>c, <1>r, <2>2, <2>3 DEF Countdown
  <2>6. AlarmCountdown'
    BY <1>c, <1>r, <2>2, <2>3 DEF AlarmCountdown
  <2>7. StacksAllocated'
    BY <1>r, <2>2, <2>3 DEF StacksAllocated
  <2>8. StackUnique'
    BY <1>r, <2>2, <2>3 DEF StackUnique, StacksAllocated
  <2> QED
    BY <2>4, <2>5, <2>6, <2>7, <2>8 DEF IInv
<1> QED
  BY <1>1, <1>2

(* Steps that touch neither states nor sleep counters nor stacks. *)
LEMMA QuietIInv ==
  ASSUME IInv, CTypeOK', AlarmCountdown',
         UNCHANGED <<state, cur, ticks_to_sleep, memVars, mode, numticks, due>>
  PROVE  IInv'
BY DEF IInv, OneRunning, SwapperOnlyIdles, CleanupOnlyWhenDone, SwapperStays, Countdown,
       StacksAllocated, StackUnique, memVars

(* Every step keeps it, if the ticks do not wrap and nobody sleeps for 0. *)
LEMMA NextIInv == NoWrap /\ PositiveSleeps /\ IInv /\ [CNext]_cvars => IInv'
<1> SUFFICES ASSUME NoWrap, PositiveSleeps, IInv, [CNext]_cvars PROVE IInv'
  OBVIOUS
<1>t. CTypeOK /\ CTypeOK' /\ AlarmCountdown
  BY NextTypeOK DEF IInv
<1>1. CASE CTick
  BY <1>1, <1>t, TickIInv
<1>2. ASSUME NEW n \in SleepArgs, CSleep(n) PROVE IInv'
  BY <1>2, <1>t, SleepIInv
<1>3. CASE Exit /\ UNCHANGED <<numticks, due>>
  BY <1>3, <1>t, ExitIInv DEF Exit
<1>4. CASE Clone /\ UNCHANGED <<numticks, due>>
  BY <1>4, <1>t, CloneIInv
<1>5. ASSUME NEW signo \in SignalArgs, Signal(signo), UNCHANGED <<numticks, due>>
      PROVE  IInv'
  <2>1. AlarmCountdown'
    BY <1>5, <1>t DEF Signal, clockVars, AlarmCountdown
  <2> QED
    BY <1>5, <1>t, <2>1, QuietIInv DEF Signal, clockVars
<1>6. ASSUME NEW n \in AlarmArgs, Alarm(n), UNCHANGED <<numticks, due>> PROVE IInv'
  <2>1. AlarmCountdown'
    BY <1>6, <1>t DEF Alarm, AlarmCountdown, CTypeOK, TypeOK
  <2> QED
    BY <1>6, <1>t, <2>1, QuietIInv DEF Alarm
<1>7. ASSUME NEW signo \in SyncSignals, Fault(signo), UNCHANGED <<numticks, due>>
      PROVE  IInv'
  <2>1. CASE signo \in sighandlers[cur]
    <3>1. UNCHANGED <<state, cur, clockVars, sighandlers, memVars, mode>>
      BY <1>7, <2>1 DEF Fault
    <3>2. AlarmCountdown'
      BY <1>7, <1>t, <3>1 DEF clockVars, AlarmCountdown
    <3> QED
      BY <1>7, <1>t, <3>1, <3>2, QuietIInv DEF clockVars
  <2>2. CASE signo \notin sighandlers[cur]
    BY <1>7, <1>t, <2>2, ExitIInv DEF Fault
  <2> QED
    BY <2>1, <2>2
<1>8. CASE HandlerReturns /\ UNCHANGED <<numticks, due>>
  <2>1. AlarmCountdown'
    BY <1>8, <1>t DEF HandlerReturns, clockVars, AlarmCountdown
  <2> QED
    BY <1>8, <1>t, <2>1, QuietIInv DEF HandlerReturns, clockVars
<1>9. CASE UNCHANGED cvars
  <2>1. AlarmCountdown'
    BY <1>9, <1>t DEF cvars, vars, clockVars, AlarmCountdown
  <2> QED
    BY <1>9, <1>t, <2>1, QuietIInv DEF cvars, vars, clockVars
<1> QED
  BY <1>1, <1>2, <1>3, <1>4, <1>5, <1>6, <1>7, <1>8, <1>9 DEF CNext, COther

-----------------------------------------------------------------------------
(* The invariant holds in every behaviour of a process mix that never calls *)
(* sleep(0), as long as no counter wraps.                                   *)
THEOREM Invariance ==
  ASSUME NoWrap, PositiveSleeps
  PROVE  CSpec => []IInv
BY InitIInv, NextIInv, PTL DEF CSpec

(* schedule.c moves the RUNNING mark with the current context on every      *)
(* path: exactly the current context is RUNNING.  Without NoWrap it would   *)
(* not be so: a context that computes for 2^32 ticks is "woken" by its own  *)
(* counter and becomes READY while it runs.                                 *)
THEOREM OneRunsAtATime ==
  ASSUME NoWrap, PositiveSleeps
  PROVE  CSpec => []OneRunning
BY Invariance, PTL DEF IInv

(* The swapper has the CPU only when no process is ready and one sleeps:    *)
(* tick, exit and sleep never idle the CPU while there is work.             *)
THEOREM NoIdlingWithWork ==
  ASSUME NoWrap, PositiveSleeps
  PROVE  CSpec => []SwapperOnlyIdles
BY Invariance, PTL DEF IInv

(* do_cleanup runs only when every process has exited.                      *)
THEOREM NoEarlyCleanup ==
  ASSUME NoWrap, PositiveSleeps
  PROVE  CSpec => []CleanupOnlyWhenDone
BY Invariance, PTL DEF IInv

(* No sleep of one tick or more lasts longer than asked: what a sleeper's   *)
(* counter holds is exactly the rest of its sleep.                          *)
THEOREM SleepsNotTooLong ==
  ASSUME NoWrap, PositiveSleeps
  PROVE  CSpec => []NoOversleep
<1>1. IInv => NoOversleep
  BY WAssumption DEF IInv, Countdown, NoOversleep, CTypeOK, Users, Procs
<1> QED
  BY <1>1, Invariance, PTL

(* A slot keeps its OS stack when its process exits, and so does the        *)
(* allocator: over all slots, used or not, no frame occurs twice.           *)
StacksDistinct ==
    \A p, q \in Procs :
        p # q /\ os_stack_pfn[p] # NoFrame => os_stack_pfn[p] # os_stack_pfn[q]

(* As long as frames are left, every context keeps an OS stack of its own. *)
LEMMA NextStacks ==
  CTypeOK /\ StacksAllocated /\ StacksDistinct /\ [CNext]_cvars
      => StacksAllocated' /\ StacksDistinct'
<1> SUFFICES ASSUME CTypeOK, StacksAllocated, StacksDistinct, [CNext]_cvars
             PROVE  StacksAllocated' /\ StacksDistinct'
  OBVIOUS
<1>1. CASE UNCHANGED memVars
  BY <1>1 DEF memVars, StacksAllocated, StacksDistinct
<1>2. CASE Clone /\ FreeSlots # {}
  <2>1. PICK slot \in FreeSlots, frame \in FreeFrames : CloneInto(slot, frame)
    BY <1>2 DEF Clone
  <2>2. /\ slot \in Procs
        /\ allocated' = allocated \cup ({frame} \cap Frames)
        /\ os_stack_pfn' = [os_stack_pfn EXCEPT ![slot] = frame]
        /\ frame # NoFrame => frame \in Frames /\ frame \notin allocated
    BY <2>1 DEF CloneInto, FreeSlots, FreeFrames
  <2>3. \A p \in Procs : os_stack_pfn'[p] = IF p = slot THEN frame ELSE os_stack_pfn[p]
    BY <2>2 DEF CTypeOK, TypeOK
  <2>4. StacksAllocated'
    BY <2>2, <2>3 DEF StacksAllocated
  <2>5. StacksDistinct'
    BY <2>2, <2>3 DEF StacksAllocated, StacksDistinct
  <2> QED
    BY <2>4, <2>5
<1>3. UNCHANGED memVars \/ (Clone /\ FreeSlots # {})
  <2>1. CTick => UNCHANGED memVars
    BY DEF CTick, Tick, TickSwitch, TickStay, memVars
  <2>2. \A n \in SleepArgs : CSleep(n) => UNCHANGED memVars
    BY DEF CSleep, Sleep, memVars
  <2>3. ExitCurrent => UNCHANGED memVars
    BY DEF ExitCurrent, memVars
  <2>4. COther => UNCHANGED memVars \/ (Clone /\ FreeSlots # {})
    BY <2>3 DEF COther, Exit, Clone, CloneThroughNull, Signal, Alarm, Fault, HandlerReturns,
                memVars
  <2>5. UNCHANGED cvars => UNCHANGED memVars
    BY DEF cvars, vars
  <2> QED
    BY <2>1, <2>2, <2>4, <2>5 DEF CNext
<1> QED
  BY <1>1, <1>2, <1>3

(* No two contexts in use share a page as OS stack, except frame 0 when     *)
(* os_pfn_alloc had none left.  This holds without any hypothesis, also     *)
(* after counters wrapped and slots came back to life.                      *)
THEOREM StacksUnshared == CSpec => []StackUnique
<1>1. CInit => StacksAllocated /\ StacksDistinct
  BY FramesAssumption, NProcAssumption
     DEF CInit, Init, StacksAllocated, StacksDistinct, Procs
<1>2. StacksDistinct => StackUnique
  BY DEF StacksDistinct, StackUnique
<1> QED
  BY <1>1, <1>2, NextStacks, TypeCorrect, PTL DEF CSpec

(* The action properties, step by step.  Closer is the round-robin         *)
(* condition for a process that waits for the CPU across one step.          *)
Closer(p) ==
    state[p] = "READY" /\ cur' # cur => cur' = p \/ Dist(cur', p) < Dist(cur, p)

WakesWhenDue(p) ==
    state[p] = "WAITING" /\ state'[p] # "WAITING" => numticks' = due[p]

(* Whoever is chosen next, a ready context that is passed over comes closer *)
(* to its turn.                                                             *)
LEMMA MoveCloser ==
  ASSUME CTypeOK, NEW st, NEW fallback, NEW next \in PickNext(st, cur, fallback),
         cur' = next,
         NEW p \in Users, p # cur, state[p] = "READY" => st[p] = "READY"
  PROVE  Closer(p)
<1> SUFFICES ASSUME state[p] = "READY", next # p
             PROVE  Dist(next, p) < Dist(cur, p)
  BY DEF Closer
<1>1. p \in Ready(st, cur)
  BY DEF Ready
<1>2. next \in Users /\ next # cur /\ Dist(cur, next) <= Dist(cur, p)
  BY <1>1, PickNextIs
<1> QED
  BY <1>2, ScanCloser DEF CTypeOK, TypeOK

(* A tick brings every ready context closer, wakes who is due, and revives  *)
(* nobody.                                                                  *)
LEMMA TickStep ==
  ASSUME NoWrap, IInv, CTick, NEW p \in Users
  PROVE  Closer(p) /\ WakesWhenDue(p) /\ (state[p] = "UNUSED" => state'[p] = "UNUSED")
<1> USE NProcAssumption
<1>c. /\ CTypeOK /\ mode = "up" /\ Countdown /\ OneRunning /\ numticks < MaxTicks
      /\ numticks' = numticks + 1 /\ p \in Procs
  BY DEF IInv, CTick, Tick, Users, Procs
<1>w. \A q \in Procs :
         /\ Woken[q] = IF Counted[q] = 1 THEN "READY" ELSE state[q]
         /\ Counted[q] = 1 => state[q] = "WAITING" /\ due[q] = numticks + 1
  BY <1>c, OnlySleepersWake DEF Counted, Woken
<1>s. PICK next \in PickNext(Woken, cur, cur) :
            IF next # cur THEN TickSwitch(next) ELSE TickStay
  BY DEF CTick, Tick
<1>n. \/ Ready(Woken, cur) = {} /\ next = cur
      \/ next \in Users /\ next # cur /\ Woken[next] = "READY"
  BY <1>s, PickNextIs
<1>k. cur \in Procs /\ state[cur] = "RUNNING" /\ cur' = next /\ next \in Procs
  BY <1>c, <1>n, <1>s
     DEF OneRunning, CTypeOK, TypeOK, TickSwitch, TickStay, Users, Procs
<1>1. Closer(p)
  <2>1. CASE p = cur
    BY <1>k, <2>1 DEF Closer
  <2>2. CASE p # cur
    BY <1>c, <1>k, <1>s, <1>w, <2>2, MoveCloser
  <2> QED
    BY <2>1, <2>2
<1>2. CASE next = cur
  <2>1. state' = Woken
    BY <1>s, <1>2 DEF TickStay
  <2> QED
    BY <1>1, <1>c, <1>w, <2>1 DEF WakesWhenDue
<1>3. CASE next # cur
  <2>1. /\ state'[cur] = "READY" /\ state'[next] = "RUNNING"
        /\ \A q \in Procs \ {cur, next} : state'[q] = Woken[q]
    BY <1>s, <1>3, <1>k DEF TickSwitch, Woken
  <2> QED
    BY <1>1, <1>c, <1>k, <1>n, <1>w, <1>3, <2>1 DEF WakesWhenDue
<1> QED
  BY <1>2, <1>3

(* An exit brings every ready context closer and wakes nobody early. *)
LEMMA ExitStep ==
  ASSUME IInv, UserRuns, ExitCurrent, NEW p \in Users
  PROVE  Closer(p) /\ WakesWhenDue(p)
<1> DEFINE dead == [state EXCEPT ![cur] = "UNUSED"]
<1> USE NProcAssumption
<1>c. CTypeOK /\ OneRunning /\ mode = "up" /\ SwapperStays /\ p \in Procs
  BY DEF IInv, UserRuns, Users, Procs
<1>k. /\ cur \in Procs /\ state[cur] = "RUNNING" /\ dead[cur] = "UNUSED"
      /\ \A q \in Procs \ {cur} : dead[q] = state[q]
  BY <1>c DEF CTypeOK, TypeOK, OneRunning
<1>1. CASE \A q \in Users : dead[q] = "UNUSED"
  BY <1>1, <1>c, <1>k DEF ExitCurrent, Closer, WakesWhenDue
<1>2. CASE ~ \A q \in Users : dead[q] = "UNUSED"
  <2>1. PICK next \in PickNext(dead, cur, 0) :
              state' = [dead EXCEPT ![next] = "RUNNING"] /\ cur' = next
    BY <1>2 DEF ExitCurrent
  <2>2. next = 0 \/ dead[next] = "READY"
    BY <2>1, PickNextIs
  <2>3. CASE p = cur
    BY <1>k, <2>3 DEF Closer, WakesWhenDue
  <2>4. CASE p # cur
    <3>1. Closer(p)
      BY <1>c, <1>k, <2>1, <2>4, MoveCloser
    <3>2. p = next => dead[p] = "READY"
      BY <2>2 DEF Users
    <3>3. p # next => state'[p] = dead[p]
      BY <1>c, <2>1 DEF CTypeOK, TypeOK
    <3> QED
      BY <1>c, <1>k, <2>4, <3>1, <3>2, <3>3 DEF WakesWhenDue
  <2> QED
    BY <2>3, <2>4
<1> QED
  BY <1>1, <1>2

(* A sleep brings every ready context closer and wakes nobody early. *)
LEMMA SleepStep ==
  ASSUME IInv, NEW n \in SleepArgs, CSleep(n), NEW p \in Users
  PROVE  Closer(p) /\ WakesWhenDue(p)
<1> USE NProcAssumption
<1>c. CTypeOK /\ OneRunning /\ mode = "up" /\ p \in Procs
  BY DEF IInv, CSleep, Sleep, UserRuns, Users, Procs
<1>k. cur \in Procs /\ state[cur] = "RUNNING"
  BY <1>c DEF CTypeOK, TypeOK, OneRunning
<1>1. PICK next \in PickNext(state, cur, 0) :
            /\ state' = [state EXCEPT ![cur] = "WAITING", ![next] = "RUNNING"]
            /\ cur' = next
  BY DEF CSleep, Sleep
<1>2. next = 0 \/ state[next] = "READY"
  BY <1>1, PickNextIs
<1>3. CASE p = cur
  BY <1>k, <1>3 DEF Closer, WakesWhenDue
<1>4. CASE p # cur
  <2>1. Closer(p)
    BY <1>c, <1>1, <1>4, MoveCloser
  <2>2. WakesWhenDue(p)
    BY <1>c, <1>1, <1>2, <1>4 DEF WakesWhenDue, CTypeOK, TypeOK, Users
  <2> QED
    BY <2>1, <2>2
<1> QED
  BY <1>3, <1>4

(* Every step does. *)
LEMMA NextStep ==
  ASSUME NoWrap, IInv, CNext, NEW p \in Users
  PROVE  /\ Closer(p) /\ WakesWhenDue(p)
         /\ numticks' # numticks /\ state[p] = "UNUSED" => state'[p] = "UNUSED"
<1>1. CASE CTick
  BY <1>1, TickStep
<1>2. ASSUME NEW n \in SleepArgs, CSleep(n)
      PROVE  Closer(p) /\ WakesWhenDue(p) /\ numticks' = numticks
  BY <1>2, SleepStep DEF CSleep
<1>3. CASE COther
  <2>1. numticks' = numticks
    BY <1>3 DEF COther
  <2>2. CASE UserRuns /\ ExitCurrent
    BY <2>1, <2>2, ExitStep
  <2>3. CASE Clone
    <3>1. cur' = cur
      BY <2>3 DEF Clone, CloneThroughNull, CloneInto, CopyParent
    <3>2. state[p] = "WAITING" => state'[p] = "WAITING"
      <4>1. CASE FreeSlots = {}
        BY <2>3, <4>1 DEF Clone, CloneThroughNull
      <4>2. CASE FreeSlots # {}
        <5>1. PICK slot \in FreeSlots, frame \in FreeFrames : CloneInto(slot, frame)
          BY <2>3, <4>2 DEF Clone
        <5>2. state[slot] = "UNUSED" /\ state \in [Procs -> States] /\ p \in Procs
          BY DEF FreeSlots, IInv, CTypeOK, TypeOK, Users, Procs
        <5> QED
          BY <5>1, <5>2 DEF CloneInto, CopyParent
      <4> QED
        BY <4>1, <4>2
    <3> QED
      BY <2>1, <3>1, <3>2 DEF Closer, WakesWhenDue
  <2>4. CASE UNCHANGED <<state, cur>>
    BY <2>1, <2>4 DEF Closer, WakesWhenDue
  <2> QED
    BY <1>3, <2>2, <2>3, <2>4 DEF COther, Exit, Signal, Alarm, Fault, HandlerReturns
<1> QED
  BY <1>1, <1>2, <1>3 DEF CNext

(* A context leaves the sleeping state exactly at the tick it asked for: no *)
(* exit, clone, signal or other context's sleep wakes it early.             *)
THEOREM WakesOnTime ==
  ASSUME NoWrap, PositiveSleeps
  PROVE  CSpec => NoEarlyWake
<1>1. IInv /\ [CNext]_cvars =>
        [\A p \in Users :
            state[p] = "WAITING" /\ state'[p] # "WAITING" => numticks' = due[p]]_cvars
  BY NextStep DEF WakesWhenDue
<1> QED
  BY <1>1, Invariance, PTL DEF CSpec, NoEarlyWake

(* The countdown of every slot at every tick never revives an exited one. *)
THEOREM TheDeadStayDead ==
  ASSUME NoWrap, PositiveSleeps
  PROVE  CSpec => NoResurrection
<1>1. IInv /\ [CNext]_cvars =>
        [numticks' # numticks =>
            \A p \in Users : state[p] = "UNUSED" => state'[p] = "UNUSED"]_cvars
  BY NextStep
<1> QED
  BY <1>1, Invariance, PTL DEF CSpec, NoResurrection

(* Round robin: whoever waits for the CPU is never overtaken in pid order,  *)
(* for every number of contexts and every mix of ticks, sleeps and exits.   *)
THEOREM RoundRobin ==
  ASSUME NoWrap, PositiveSleeps
  PROVE  CSpec => NoOvertaking
<1>1. IInv /\ [CNext]_cvars =>
        [\A p \in Users :
            state[p] = "READY" /\ cur' # cur =>
               cur' = p \/ Dist(cur', p) < Dist(cur, p)]_vars
  BY NextStep DEF Closer, cvars
<1> QED
  BY <1>1, Invariance, PTL DEF CSpec, NoOvertaking

(* Preemption: no computing process keeps the CPU over a tick when another  *)
(* is ready, for every number of contexts.                                  *)
THEOREM Preemption == CSpec => TickPreempts
<1>1. ASSUME CTypeOK, CTick, NEW p \in Users \ {cur}, state[p] = "READY"
      PROVE  cur' # cur
  <2>1. PICK next \in PickNext(Woken, cur, cur) :
              IF next # cur THEN TickSwitch(next) ELSE TickStay
    BY <1>1 DEF CTick, Tick
  <2>2. p \in Ready(Woken, cur)
    BY <1>1 DEF Ready, Woken, CTypeOK, TypeOK, Users, Procs
  <2>3. next # cur
    BY <2>2, PickNextIs
  <2> QED
    BY <2>1, <2>3 DEF TickSwitch
<1>2. CTypeOK /\ [CNext]_cvars =>
        [numticks' # numticks /\ (\E p \in Users \ {cur} : state[p] = "READY")
            => cur' # cur]_cvars
  BY <1>1 DEF CNext, CSleep, COther
<1> QED
  BY <1>2, TypeCorrect, PTL DEF CSpec, TickPreempts

(* An alarm that is not set does not fire: cancelling it, or inheriting no  *)
(* alarm through clone, leaves a count that cannot reach 0.                 *)
THEOREM AlarmsOnlyWhenSet ==
  ASSUME NoWrap, PositiveSleeps
  PROVE  CSpec => NoSpuriousAlarm
<1>1. ASSUME IInv, CTick, NEW p \in Procs, in_handler'[p], ~in_handler[p]
      PROVE  alarm_config_time[p] > 0
  <2>1. PICK next \in PickNext(Woken, cur, cur) :
              IF next # cur THEN TickSwitch(next) ELSE TickStay
    BY <1>1 DEF CTick, Tick
  <2>2. CASE next # cur
    BY <1>1, <2>1, <2>2 DEF TickSwitch, sigVars
  <2>3. CASE next = cur
    <3>1. p = cur /\ Dec(ticks_to_alarm[cur]) = 0
      BY <1>1, <2>1, <2>3 DEF TickStay, IInv, CTypeOK, TypeOK
    <3>2. /\ ticks_to_alarm[p] \in 0..W-1 /\ alarm_config_time[p] \in 0..W-1
          /\ numticks \in 0..MaxTicks
          /\ alarm_config_time[p] = 0 =>
               ticks_to_alarm[p] = 0 \/ ticks_to_alarm[p] >= W - numticks
      BY <1>1 DEF IInv, AlarmCountdown, CTypeOK, TypeOK, Word
    <3> QED
      BY <3>1, <3>2, WAssumption, MaxTicksAssumption DEF Dec, NoWrap
  <2> QED
    BY <2>2, <2>3
<1>2. IInv /\ [CNext]_cvars =>
        [numticks' # numticks =>
            \A p \in Procs : in_handler'[p] /\ ~in_handler[p]
                               => alarm_config_time[p] > 0]_cvars
  BY <1>1 DEF CNext, CSleep, COther
<1> QED
  BY <1>2, Invariance, PTL DEF CSpec, NoSpuriousAlarm
-----------------------------------------------------------------------------
(* The registers of the contexts that the scheduler switches.               *)

(* What a register can hold. *)
Tokens == {Junk, Zero} \cup {Segment(p, r) : p \in Procs, r \in Regs}
                       \cup (Procs \X Regs \X {0, 1})

(* Contexts that will be resumed: the CPU was taken from them, or they are  *)
(* clones that have not started.                                            *)
Stopped(p) == p \in Procs /\ p # cur /\ state[p] # "UNUSED"

SwitchTypeOK ==
    /\ state \in [Procs -> States] /\ cur \in Procs
    /\ cpu \in [Regs -> Tokens]
    /\ regs \in [Procs -> [Regs -> Tokens]]
    /\ DOMAIN want = Procs /\ \A p \in Procs : DOMAIN want[p] \subseteq Regs

(* What a switch relies on: the CPU is on the OS stack of the current       *)
(* context, the swapper is never unused, the segments are the context's     *)
(* own, and the saved copy of a stopped context has every register it must  *)
(* find again, except that no switch restores rax.                          *)
SwitchIInv ==
    /\ SwitchTypeOK
    /\ tss = cur
    /\ state[0] # "UNUSED"
    /\ mode = "up" => state[cur] # "UNUSED"
    /\ mode = "up" => \A s \in {"cs", "ss"} : cpu[s] = Segment(cur, s)
    /\ \A p \in Procs : Stopped(p) =>
          \A s \in {"cs", "ss"} : regs[p][s] = Segment(p, s)
    /\ \A p \in Procs : Stopped(p) =>
          \A r \in DOMAIN want[p] \ {"rax"} : regs[p][r] = want[p][r]

(* A segment selector is a token. *)
LEMMA SegmentToken == \A p \in Procs, s \in {"cs", "ss"} : Segment(p, s) \in Tokens
  BY DEF Tokens, Regs, Frame

(* What a process computes is a token. *)
LEMMA ValueToken ==
  \A p \in Procs, r \in Regs, v \in {0, 1} : Value(p, r, v) \in Tokens
<1> TAKE p \in Procs, r \in Regs, v \in {0, 1}
<1>1. CASE r \in {"cs", "ss"}
  BY <1>1, SegmentToken DEF Value
<1>2. CASE r \notin {"cs", "ss"}
  <2>1. Value(p, r, v) = <<p, r, v>>
    BY <1>2 DEF Value
  <2>2. <<p, r, v>> \in Procs \X Regs \X {0, 1}
    OBVIOUS
  <2> QED
    BY <2>1, <2>2 DEF Tokens
<1> QED
  BY <1>1, <1>2

(* So are what nobody knows, and zero. *)
LEMMA JunkToken == Junk \in Tokens /\ Zero \in Tokens
  BY DEF Tokens

(* The timer's frame has every register where the handler looks for it. *)
LEMMA TickSavesAll ==
  ASSUME cpu \in [Regs -> Tokens]
  PROVE  SavedByTick = cpu
<1>1. \A r \in Saved : t1(TickSlots[r]) = cpu[r]
  BY DEF Saved, t1, TickSlots, Pushed
<1>2. \A r \in Frame : t2(FrameSlots[r]) = cpu[r]
  BY DEF Frame, t2, FrameSlots
<1>3. \A r \in Regs : SavedByTick[r] = cpu[r]
  BY <1>1, <1>2 DEF SavedByTick, Regs
<1> QED
  BY <1>3 DEF SavedByTick

(* So has the frame of a system call, as long as the TSS points to the      *)
(* stack of the context that runs; do_sleep does not look for rax.          *)
LEMMA SleepSavesAll ==
  ASSUME tss = cur, NEW r \in Regs \ {"rax", "cs", "ss"}
  PROVE  SavedBySleep[r] = cpu[r]
<1>1. SavedBySleep[r] = cpu[SyscallPushed[SleepSlots[r] + 1]]
  BY DEF SavedBySleep, OsStack
<1>2. SyscallPushed[SleepSlots[r] + 1] = r
  BY DEF SyscallPushed, SleepSlots, Regs, Frame, Saved
<1> QED
  BY <1>1, <1>2

(* The registers that sleep saves are tokens. *)
LEMMA SleepToken ==
  ASSUME SwitchTypeOK, tss = cur
  PROVE  SavedBySleep \in [Regs -> Tokens]
<1>1. ASSUME NEW r \in Regs
      PROVE  SavedBySleep[r] \in Tokens
  <2>1. CASE r \in {"cs", "ss"}
    BY <2>1, SegmentToken DEF SavedBySleep, SwitchTypeOK
  <2>2. CASE r = "rax"
    BY <2>2 DEF SavedBySleep, SwitchTypeOK
  <2>3. CASE r \notin {"rax", "cs", "ss"}
    BY <2>3, SleepSavesAll DEF SwitchTypeOK
  <2> QED
    BY <2>1, <2>2, <2>3
<1> QED
  BY <1>1 DEF SavedBySleep

(* What the moves and the calls before iretq do to the registers. *)
LEMMA MovedIs ==
  ASSUME NEW f \in [Regs -> Tokens]
  PROVE  /\ Moved(f) \in [Regs -> Tokens]
         /\ \A r \in Regs \ {"rax"} : Moved(f)[r] = f[r]
  BY DEF Moved, Regs, Saved, Frame

(* A called function leaves tokens in the registers it may use, and the     *)
(* others alone.                                                            *)
LEMMA CalledIs ==
  ASSUME NEW f \in [Regs -> Tokens]
  PROVE  /\ Called(f) \in [Regs -> Tokens]
         /\ \A r \in Regs \ {"rax", "rdx", "rdi"} : Called(f)[r] = f[r]
  BY JunkToken DEF Called

(* The scan finds a stopped context, or the fallback. *)
LEMMA PickStopped ==
  ASSUME NEW st, NEW c, NEW fallback, NEW next \in PickNext(st, c, fallback)
  PROVE  next = fallback \/ (next \in Users /\ next # c /\ st[next] = "READY")
  BY PickNextIs

(* At boot nobody has been stopped. *)
LEMMA SwitchInit == SInit => SwitchIInv
<1> SUFFICES ASSUME SInit
             PROVE  SwitchIInv
  OBVIOUS
<1>0. 0 \in Procs /\ 1 \in Procs
  BY NProcAssumption DEF Procs
<1>1. SwapperFile \in [Regs -> Tokens]
  BY <1>0, ValueToken, JunkToken DEF SwapperFile, Regs
<1>2. SwitchTypeOK
  <2>1. state \in [Procs -> States] /\ cur \in Procs
    BY <1>0 DEF SInit, Init, States
  <2>2. cpu \in [Regs -> Tokens]
    BY <1>0, ValueToken DEF SInit, File
  <2>3. regs \in [Procs -> [Regs -> Tokens]]
    BY <1>1, JunkToken DEF SInit
  <2>4. DOMAIN want = Procs /\ \A p \in Procs : DOMAIN want[p] \subseteq Regs
    BY DEF SInit, SwapperFile
  <2> QED
    BY <2>1, <2>2, <2>3, <2>4 DEF SwitchTypeOK
<1>3. tss = cur /\ state[0] # "UNUSED" /\ state[cur] # "UNUSED"
  BY <1>0 DEF SInit, Init
<1>4. \A s \in {"cs", "ss"} : cpu[s] = Segment(cur, s)
  BY DEF SInit, Init, File, Value, Regs, Frame
<1>5. \A p \in Procs : Stopped(p) => p = 0
  BY DEF Stopped, SInit, Init
<1>6. regs[0] = SwapperFile /\ want[0] = SwapperFile
  BY <1>0 DEF SInit
<1>7. \A s \in {"cs", "ss"} : SwapperFile[s] = Segment(0, s)
  BY DEF SwapperFile, Value, Regs, Frame
<1> QED
  BY <1>2, <1>3, <1>4, <1>5, <1>6, <1>7 DEF SwitchIInv

(* A switch to a stopped context finds its registers and leaves the         *)
(* invariant, if what it saves of the context it stops is right.            *)
LEMMA SwitchTo ==
  ASSUME SwitchIInv, SwitchTypeOK', Stopped(cur'), tss' = cur',
         state'[0] # "UNUSED", state'[cur'] # "UNUSED",
         cpu' \in {Moved(regs[cur']), Called(Moved(regs[cur']))},
         \A p \in Procs \ {cur} : /\ state'[p] # "UNUSED" => state[p] # "UNUSED"
                                  /\ regs'[p] = regs[p] /\ want'[p] = want[p],
         state'[cur] # "UNUSED" =>
            /\ \A s \in {"cs", "ss"} : regs'[cur][s] = Segment(cur, s)
            /\ \A r \in DOMAIN want'[cur] \ {"rax"} : regs'[cur][r] = want'[cur][r]
  PROVE  /\ SwitchIInv'
         /\ \A r \in DOMAIN want[cur'] \ {"rax", "rdx", "rdi"} : cpu'[r] = want[cur'][r]
         /\ cpu' = Moved(regs[cur']) =>
               \A r \in DOMAIN want[cur'] \ {"rax"} : cpu'[r] = want[cur'][r]
<1> DEFINE to == cur'
           there == regs[to]
           wanted == want[to]
<1>1. there \in [Regs -> Tokens] /\ to \in Procs
  BY DEF SwitchIInv, SwitchTypeOK, Stopped
<1>2. /\ \A s \in {"cs", "ss"} : there[s] = Segment(to, s)
      /\ \A r \in DOMAIN wanted \ {"rax"} : there[r] = wanted[r]
      /\ DOMAIN wanted \subseteq Regs
  BY <1>1 DEF SwitchIInv, SwitchTypeOK, Stopped
<1>3. /\ Moved(there) \in [Regs -> Tokens]
      /\ \A r \in Regs \ {"rax"} : Moved(there)[r] = there[r]
  BY <1>1, MovedIs
<1>4. \A r \in Regs \ {"rax", "rdx", "rdi"} : Called(Moved(there))[r] = Moved(there)[r]
  BY <1>3, CalledIs
<1>5. \A r \in Regs \ {"rax", "rdx", "rdi"} : cpu'[r] = there[r]
  BY <1>3, <1>4
<1>6. \A s \in {"cs", "ss"} : cpu'[s] = Segment(to, s)
  BY <1>2, <1>5 DEF Regs, Frame
<1>7. \A p \in Procs : Stopped(p)' =>
         p = cur \/ (p \in Procs \ {cur} /\ Stopped(p) /\ regs'[p] = regs[p] /\ want'[p] = want[p])
  BY DEF Stopped
<1>8. \A p \in Procs : Stopped(p)' =>
         /\ \A s \in {"cs", "ss"} : regs'[p][s] = Segment(p, s)
         /\ \A r \in DOMAIN want'[p] \ {"rax"} : regs'[p][r] = want'[p][r]
  <2> TAKE p \in Procs
  <2> HAVE Stopped(p)'
  <2>1. CASE p = cur
    BY <2>1 DEF Stopped
  <2>2. CASE p # cur
    <3>1. Stopped(p) /\ regs'[p] = regs[p] /\ want'[p] = want[p]
      BY <2>2, <1>7
    <3> QED
      BY <3>1 DEF SwitchIInv
  <2> QED
    BY <2>1, <2>2
<1>9. SwitchIInv'
  BY <1>6, <1>8 DEF SwitchIInv
<1>10. \A r \in DOMAIN wanted \ {"rax", "rdx", "rdi"} : cpu'[r] = wanted[r]
  BY <1>2, <1>5
<1>11. cpu' = Moved(there) => \A r \in DOMAIN wanted \ {"rax"} : cpu'[r] = wanted[r]
  BY <1>2, <1>3
<1> QED
  BY <1>9, <1>10, <1>11

(* What the property says of a step. *)
Resumption ==
    cur' # cur => \A r \in DOMAIN want[cur'] \ LostBySwitch : Finds(cur', r)

(* The timer interrupt: it saves every register of the context it stops.    *)
LEMMA TickResumes == SwitchIInv /\ STick => SwitchIInv' /\ Resumption
<1> SUFFICES ASSUME SwitchIInv, STick
             PROVE  SwitchIInv' /\ Resumption
  OBVIOUS
<1>1. PICK next \in PickNext(Woken, cur, cur) :
            IF next # cur THEN TickSwitch(next) ELSE TickStay
  BY DEF STick, Tick
<1>2. /\ mode = "up" /\ cur \in Procs /\ state \in [Procs -> States]
      /\ cpu \in [Regs -> Tokens] /\ regs \in [Procs -> [Regs -> Tokens]]
      /\ DOMAIN want = Procs /\ \A p \in Procs : DOMAIN want[p] \subseteq Regs
      /\ 0 \in Procs
  BY NProcAssumption DEF STick, Tick, SwitchIInv, SwitchTypeOK, Procs
<1>3. /\ Woken \in [Procs -> States]
      /\ \A p \in Procs : Woken[p] # "UNUSED" <=> state[p] # "UNUSED"
  <2>1. Woken \in [Procs -> States]
    BY <1>2 DEF Woken, States
  <2>2. \A p \in Procs : Woken[p] = state[p] \/ (Woken[p] = "READY" /\ state[p] = "WAITING")
    BY DEF STick, NoneComesAround, Woken
  <2> QED
    BY <2>1, <2>2
<1>4. CASE next # cur
  <2>1. next \in Users /\ next # cur /\ Woken[next] = "READY"
    BY <1>1, <1>4, PickStopped
  <2>2. TickSwitch(next) /\ cur' = next /\ next \in Procs
    BY <1>1, <1>4, <2>1 DEF TickSwitch, Users, Procs
  <2>3. /\ state' \in [Procs -> States]
        /\ state'[cur] = "READY" /\ state'[next] = "RUNNING"
        /\ \A p \in Procs : state'[p] # "UNUSED" <=> state[p] # "UNUSED" \/ p \in {cur, next}
    BY <1>2, <1>3, <2>1, <2>2 DEF TickSwitch, States
  <2>4. Stopped(cur')
    BY <1>3, <2>1, <2>2 DEF Stopped
  <2>5. /\ regs' = [regs EXCEPT ![cur] = cpu]
        /\ want' = [want EXCEPT ![cur] = cpu]
        /\ cpu' = Called(Moved(regs[cur'])) /\ tss' = cur'
    BY <1>2, <2>2, <1>4, TickSavesAll DEF STick, Enter
  <2>6. cpu' \in [Regs -> Tokens]
    <3>1. regs[cur'] \in [Regs -> Tokens]
      BY <1>2, <2>2
    <3>2. Moved(regs[cur']) \in [Regs -> Tokens]
      BY <3>1, MovedIs
    <3> QED
      BY <3>2, <2>5, CalledIs
  <2>7. SwitchTypeOK'
    BY <1>2, <2>2, <2>3, <2>5, <2>6 DEF SwitchTypeOK
  <2>8. /\ regs'[cur] = cpu /\ want'[cur] = cpu
        /\ \A p \in Procs \ {cur} : regs'[p] = regs[p] /\ want'[p] = want[p]
        /\ \A p \in Procs \ {cur} : state'[p] # "UNUSED" => state[p] # "UNUSED"
    BY <1>2, <2>3, <2>4, <2>5, <2>2 DEF Stopped
  <2>9. \A s \in {"cs", "ss"} : cpu[s] = Segment(cur, s)
    BY <1>2 DEF SwitchIInv
  <2>10. state'[0] # "UNUSED" /\ state'[cur'] # "UNUSED"
    BY <1>2, <2>2, <2>3 DEF SwitchIInv
  <2>11. /\ SwitchIInv'
         /\ \A r \in DOMAIN want[cur'] \ {"rax", "rdx", "rdi"} : cpu'[r] = want[cur'][r]
    BY <2>4, <2>5, <2>7, <2>8, <2>9, <2>10, SwitchTo
  <2> QED
    BY <2>3, <2>11 DEF Resumption, LostBySwitch, Finds
<1>5. CASE next = cur
  <2>1. cur' = cur /\ state' = Woken /\ UNCHANGED <<cpu, regs, tss, want>>
    BY <1>1, <1>5 DEF TickStay, STick
  <2>2. \A p \in Procs : Stopped(p)' <=> Stopped(p)
    BY <1>3, <2>1 DEF Stopped
  <2>3. SwitchTypeOK'
    BY <1>2, <1>3, <2>1 DEF SwitchTypeOK
  <2>4. state'[0] # "UNUSED" /\ state'[cur] # "UNUSED"
    BY <1>2, <1>3, <2>1 DEF SwitchIInv
  <2>5. /\ \A s \in {"cs", "ss"} : cpu[s] = Segment(cur, s)
        /\ \A p \in Procs : Stopped(p) => \A s \in {"cs", "ss"} : regs[p][s] = Segment(p, s)
        /\ \A p \in Procs : Stopped(p) =>
              \A r \in DOMAIN want[p] \ {"rax"} : regs[p][r] = want[p][r]
        /\ tss = cur
    BY <1>2 DEF SwitchIInv
  <2>6. SwitchIInv'
    BY <2>1, <2>2, <2>3, <2>4, <2>5 DEF SwitchIInv
  <2> QED
    BY <2>1, <2>6 DEF Resumption
<1> QED
  BY <1>4, <1>5

(* sleep: it saves every register but rax, which holds the call's number.   *)
LEMMA SleepResumes ==
  ASSUME SwitchIInv, NEW n \in SleepArgs, SSleep(n)
  PROVE  SwitchIInv' /\ Resumption
<1>1. PICK next \in PickNext(state, cur, 0) :
          /\ state' = [state EXCEPT ![cur] = "WAITING", ![next] = "RUNNING"]
          /\ cur' = next
  BY DEF SSleep, Sleep
<1>2. /\ mode = "up" /\ cur \in Users /\ cur \in Procs /\ state \in [Procs -> States]
      /\ cpu \in [Regs -> Tokens] /\ regs \in [Procs -> [Regs -> Tokens]]
      /\ DOMAIN want = Procs /\ \A p \in Procs : DOMAIN want[p] \subseteq Regs
      /\ 0 \in Procs /\ cur # 0 /\ tss = cur
  BY NProcAssumption DEF SSleep, Sleep, UserRuns, SwitchIInv, SwitchTypeOK, Procs, Users
<1>3. next \in Procs /\ Stopped(next)
  <2>1. next = 0 \/ (next \in Users /\ next # cur /\ state[next] = "READY")
    BY PickStopped
  <2>2. state[0] # "UNUSED"
    BY DEF SwitchIInv
  <2> QED
    BY <1>2, <2>1, <2>2 DEF Stopped, Users, Procs
<1>4. /\ regs' = [regs EXCEPT ![cur] = SavedBySleep]
      /\ want' = [want EXCEPT ![cur] = Keep(cpu, Regs \ {"rax"})]
      /\ cpu' = Moved(regs[cur']) /\ tss' = cur'
  BY DEF SSleep, Enter
<1>5. /\ state' \in [Procs -> States] /\ state'[cur] = "WAITING"
      /\ state'[0] # "UNUSED" /\ state'[cur'] # "UNUSED"
      /\ \A p \in Procs \ {cur} : state'[p] # "UNUSED" => state[p] # "UNUSED"
  BY <1>1, <1>2, <1>3 DEF States, Stopped, SwitchIInv
<1>6. SavedBySleep \in [Regs -> Tokens]
  BY SleepToken DEF SwitchIInv
<1>7. cpu' \in [Regs -> Tokens]
  <2>1. regs[cur'] \in [Regs -> Tokens]
    BY <1>1, <1>2, <1>3
  <2> QED
    BY <2>1, <1>4, MovedIs
<1>8. DOMAIN Keep(cpu, Regs \ {"rax"}) = Regs \ {"rax"}
  BY DEF Keep
<1>9. SwitchTypeOK'
  BY <1>1, <1>2, <1>3, <1>4, <1>5, <1>6, <1>7, <1>8 DEF SwitchTypeOK
<1>10. /\ regs'[cur] = SavedBySleep /\ want'[cur] = Keep(cpu, Regs \ {"rax"})
       /\ \A p \in Procs \ {cur} : regs'[p] = regs[p] /\ want'[p] = want[p]
  BY <1>2, <1>4
<1>11. \A s \in {"cs", "ss"} :
          SavedBySleep[s] = Segment(cur, s) /\ cpu[s] = Segment(cur, s)
  BY <1>2 DEF SavedBySleep, SwitchIInv, Regs, Frame
<1>12. \A r \in Regs \ {"rax"} : SavedBySleep[r] = Keep(cpu, Regs \ {"rax"})[r]
  BY <1>2, <1>11, SleepSavesAll DEF Keep
<1>13. /\ SwitchIInv'
       /\ \A r \in DOMAIN want[cur'] \ {"rax"} : cpu'[r] = want[cur'][r]
  BY <1>1, <1>3, <1>4, <1>5, <1>8, <1>9, <1>10, <1>11, <1>12, SwitchTo
<1> QED
  BY <1>5, <1>13 DEF Resumption, LostBySwitch, Finds

(* exit: what it saves is of a context that no step resumes.                *)
LEMMA ExitResumes == SwitchIInv /\ SExit => SwitchIInv' /\ Resumption
<1> SUFFICES ASSUME SwitchIInv, SExit
             PROVE  SwitchIInv' /\ Resumption
  OBVIOUS
<1> DEFINE dead == [state EXCEPT ![cur] = "UNUSED"]
<1>1. /\ mode = "up" /\ cur \in Users /\ cur \in Procs /\ state \in [Procs -> States]
      /\ cpu \in [Regs -> Tokens] /\ regs \in [Procs -> [Regs -> Tokens]]
      /\ DOMAIN want = Procs /\ \A p \in Procs : DOMAIN want[p] \subseteq Regs
      /\ 0 \in Procs /\ cur # 0 /\ tss = cur
  BY NProcAssumption
     DEF SExit, Exit, UserRuns, SwitchIInv, SwitchTypeOK, Procs, Users
<1>2. /\ want' = [want EXCEPT ![cur] = <<>>]
      /\ regs' = IF mode' = "cleanup" THEN regs ELSE [regs EXCEPT ![cur] = SavedByExit]
      /\ IF mode' = "cleanup" THEN UNCHANGED <<cpu, tss>>
                              ELSE cpu' = Called(Moved(regs[cur'])) /\ tss' = cur'
  BY DEF SExit, SwitchAfterExit, Enter
<1>3. /\ DOMAIN want' = Procs /\ \A p \in Procs : DOMAIN want'[p] \subseteq Regs
      /\ \A p \in Procs \ {cur} : want'[p] = want[p]
  <2>1. DOMAIN <<>> = {}
    OBVIOUS
  <2> QED
    BY <1>1, <1>2, <2>1
<1>4. dead \in [Procs -> States] /\ dead[cur] = "UNUSED" /\ dead[0] # "UNUSED"
      /\ \A p \in Procs \ {cur} : dead[p] = state[p]
  BY <1>1 DEF States, SwitchIInv
<1>5. CASE \A p \in Users : dead[p] = "UNUSED"
  <2>1. mode' = "cleanup" /\ state' = dead /\ cur' = cur
    BY <1>5 DEF SExit, Exit, ExitCurrent
  <2>2. UNCHANGED <<cpu, tss, regs>>
    BY <1>2, <2>1
  <2>3. SwitchTypeOK'
    BY <1>1, <1>3, <1>4, <2>1, <2>2 DEF SwitchTypeOK
  <2>4. \A p \in Procs : Stopped(p)' => Stopped(p) /\ p \in Procs \ {cur}
    BY <1>4, <2>1 DEF Stopped
  <2>5. SwitchIInv'
    BY <1>3, <1>4, <2>1, <2>2, <2>3, <2>4 DEF SwitchIInv
  <2> QED
    BY <2>1, <2>5 DEF Resumption
<1>6. CASE ~ \A p \in Users : dead[p] = "UNUSED"
  <2>1. PICK next \in PickNext(dead, cur, 0) :
            /\ state' = [dead EXCEPT ![next] = "RUNNING"]
            /\ cur' = next /\ mode' = mode
    BY <1>6 DEF SExit, Exit, ExitCurrent
  <2>2. next \in Procs /\ next # cur /\ Stopped(next)
    <3>1. next = 0 \/ (next \in Users /\ next # cur /\ dead[next] = "READY")
      BY PickStopped
    <3> QED
      BY <3>1, <1>1, <1>4 DEF Stopped, Users, Procs
  <2>3. /\ regs' = [regs EXCEPT ![cur] = SavedByExit]
        /\ cpu' = Called(Moved(regs[cur'])) /\ tss' = cur'
    BY <1>1, <1>2, <2>1
  <2>4. /\ state' \in [Procs -> States] /\ state'[cur] = "UNUSED"
        /\ state'[0] # "UNUSED" /\ state'[cur'] # "UNUSED"
        /\ \A p \in Procs \ {cur} : state'[p] # "UNUSED" => state[p] # "UNUSED"
    BY <1>1, <1>4, <2>1, <2>2 DEF States, Stopped
  <2>5. SavedByExit \in [Regs -> Tokens]
    BY <1>1, JunkToken DEF SavedByExit
  <2>6. cpu' \in [Regs -> Tokens]
    <3>1. regs[cur'] \in [Regs -> Tokens]
      BY <1>1, <2>1, <2>2
    <3>2. Moved(regs[cur']) \in [Regs -> Tokens]
      BY <3>1, MovedIs
    <3> QED
      BY <3>2, <2>3, CalledIs
  <2>7. SwitchTypeOK'
    BY <1>1, <1>3, <2>1, <2>2, <2>3, <2>4, <2>5, <2>6 DEF SwitchTypeOK
  <2>8. \A p \in Procs \ {cur} : regs'[p] = regs[p]
    BY <1>1, <2>3
  <2>9. /\ SwitchIInv'
        /\ \A r \in DOMAIN want[cur'] \ {"rax", "rdx", "rdi"} : cpu'[r] = want[cur'][r]
    BY <1>3, <2>1, <2>2, <2>3, <2>4, <2>7, <2>8, SwitchTo
  <2> QED
    BY <2>4, <2>9 DEF Resumption, LostBySwitch, Finds
<1> QED
  BY <1>5, <1>6

(* clone: the new context finds its function, its stack and the flags.      *)
LEMMA CloneResumes == SwitchIInv /\ SClone => SwitchIInv' /\ Resumption
<1> SUFFICES ASSUME SwitchIInv, SClone
             PROVE  SwitchIInv' /\ Resumption
  OBVIOUS
<1>1. PICK slot \in Procs :
          IF slot \in FreeSlots /\ state'[slot] = "READY"
          THEN /\ regs' = [regs EXCEPT ![slot] = CloneFile(slot)]
               /\ want' = [want EXCEPT ![slot] = Started(slot)]
          ELSE FreeSlots = {} /\ UNCHANGED <<regs, want>>
  BY DEF SClone
<1>2. /\ mode = "up" /\ cur \in Procs /\ state \in [Procs -> States]
      /\ cpu \in [Regs -> Tokens] /\ regs \in [Procs -> [Regs -> Tokens]]
      /\ DOMAIN want = Procs /\ \A p \in Procs : DOMAIN want[p] \subseteq Regs
      /\ tss = cur /\ UNCHANGED <<cpu, tss>>
      /\ state[0] # "UNUSED" /\ state[cur] # "UNUSED" /\ 0 \in Procs
      /\ \A s \in {"cs", "ss"} : cpu[s] = Segment(cur, s)
  BY NProcAssumption DEF SClone, Clone, UserRuns, SwitchIInv, SwitchTypeOK, Procs
<1>3. CASE FreeSlots = {}
  <2>1. UNCHANGED <<state, cur, regs, want>>
    BY <1>1, <1>3 DEF SClone, Clone, CloneThroughNull
  <2>2. \A p \in Procs : Stopped(p)' <=> Stopped(p)
    BY <2>1 DEF Stopped
  <2>3. SwitchTypeOK'
    BY <1>2, <2>1 DEF SwitchTypeOK
  <2>4. SwitchIInv'
    BY <1>2, <2>1, <2>2, <2>3 DEF SwitchIInv
  <2> QED
    BY <2>1, <2>4 DEF Resumption
<1>4. CASE FreeSlots # {}
  <2>1. PICK free \in FreeSlots, frame \in FreeFrames : CloneInto(free, frame)
    BY <1>4 DEF SClone, Clone
  <2>2. state' = [state EXCEPT ![free] = "READY"] /\ cur' = cur
    BY <2>1 DEF CloneInto, CopyParent
  <2>3. free \in Procs /\ state[free] = "UNUSED" /\ state'[free] = "READY"
    BY <1>2, <2>1, <2>2 DEF FreeSlots
  <2>4. slot = free
    BY <1>1, <1>2, <1>4, <2>2, <2>3 DEF FreeSlots
  <2>5. /\ regs' = [regs EXCEPT ![slot] = CloneFile(slot)]
        /\ want' = [want EXCEPT ![slot] = Started(slot)]
        /\ slot \in Procs /\ slot # cur /\ slot # 0
    BY <1>1, <1>2, <2>3, <2>4, <2>1
  <2>6. OsStack(cur, 2) = cpu["rflags"]
    BY <1>2 DEF OsStack, SyscallPushed
  <2>7. /\ CloneFile(slot) \in [Regs -> Tokens]
        /\ \A s \in {"cs", "ss"} : CloneFile(slot)[s] = Segment(slot, s)
        /\ CloneFile(slot)["rflags"] = cpu["rflags"]
        /\ CloneFile(slot)["rbp"] = Value(slot, "rsp", 0)
        /\ \A r \in {"rip", "rsp"} : CloneFile(slot)[r] = Value(slot, r, 0)
    <3> DEFINE file == regs[cur]
    <3>1. file \in [Regs -> Tokens]
      BY <1>2
    <3>2. \A r \in {"rip", "rsp"} : Value(slot, r, 0) \in Tokens
      BY <2>5, ValueToken DEF Regs, Frame
    <3>3. cpu["rflags"] \in Tokens
      BY <1>2 DEF Regs, Frame
    <3>4. \A s \in {"cs", "ss"} : Segment(slot, s) \in Tokens
      BY <2>5, SegmentToken
    <3> HIDE DEF file
    <3> QED
      BY <2>6, <3>1, <3>2, <3>3, <3>4 DEF CloneFile, file, Regs, Frame
  <2>8. /\ DOMAIN Started(slot) = Frame
        /\ Started(slot)["rflags"] = cpu["rflags"]
        /\ Started(slot)["rbp"] = Value(slot, "rsp", 0)
        /\ \A r \in {"rip", "rsp"} : Started(slot)[r] = Value(slot, r, 0)
        /\ \A s \in {"cs", "ss"} : Started(slot)[s] = Segment(slot, s)
    BY DEF Started, Frame, Value
  <2>9. \A r \in Frame : CloneFile(slot)[r] = Started(slot)[r]
    BY <2>7, <2>8 DEF Frame
  <2>10. /\ \A p \in Procs \ {slot} : regs'[p] = regs[p] /\ want'[p] = want[p]
         /\ \A p \in Procs \ {slot} : state'[p] = state[p]
         /\ regs'[slot] = CloneFile(slot) /\ want'[slot] = Started(slot)
    BY <1>2, <2>2, <2>4, <2>5
  <2>11. SwitchTypeOK'
    <3>1. Frame \subseteq Regs
      BY DEF Regs
    <3>2. state' \in [Procs -> States]
      BY <1>2, <2>2 DEF States
    <3>3. regs' \in [Procs -> [Regs -> Tokens]]
      BY <1>2, <2>5, <2>7
    <3>4. DOMAIN want' = Procs /\ \A p \in Procs : DOMAIN want'[p] \subseteq Regs
      BY <1>2, <2>5, <2>8, <2>10, <3>1
    <3> QED
      BY <1>2, <2>2, <3>2, <3>3, <3>4 DEF SwitchTypeOK
  <2>12. \A p \in Procs : Stopped(p)' =>
            /\ \A s \in {"cs", "ss"} : regs'[p][s] = Segment(p, s)
            /\ \A r \in DOMAIN want'[p] \ {"rax"} : regs'[p][r] = want'[p][r]
    <3> TAKE p \in Procs
    <3> HAVE Stopped(p)'
    <3>1. CASE p = slot
      BY <3>1, <2>7, <2>8, <2>9, <2>10
    <3>2. CASE p # slot
      <4>1. Stopped(p) /\ regs'[p] = regs[p] /\ want'[p] = want[p]
        BY <3>2, <2>2, <2>10 DEF Stopped
      <4> QED
        BY <4>1 DEF SwitchIInv
    <3> QED
      BY <3>1, <3>2
  <2>13. SwitchIInv'
    BY <1>2, <2>2, <2>5, <2>10, <2>11, <2>12 DEF SwitchIInv
  <2> QED
    BY <2>2, <2>13 DEF Resumption
<1> QED
  BY <1>3, <1>4

(* Computing changes the registers, not the segments. *)
LEMMA ComputesResumes == SwitchIInv /\ SComputes => SwitchIInv' /\ Resumption
<1> SUFFICES ASSUME SwitchIInv, SComputes
             PROVE  SwitchIInv' /\ Resumption
  OBVIOUS
<1>1. UNCHANGED <<state, cur, mode, regs, tss, want>> /\ cur \in Procs
  BY DEF SComputes, vars, SwitchIInv, SwitchTypeOK
<1>2. cpu' \in [Regs -> Tokens] /\ \A s \in {"cs", "ss"} : cpu'[s] = Segment(cur, s)
  BY <1>1, ValueToken DEF SComputes, File, Value, Regs, Frame
<1>3. \A p \in Procs : Stopped(p)' <=> Stopped(p)
  BY <1>1 DEF Stopped
<1>4. SwitchTypeOK'
  BY <1>1, <1>2 DEF SwitchTypeOK, SwitchIInv
<1>5. SwitchIInv'
  BY <1>1, <1>2, <1>3, <1>4 DEF SwitchIInv
<1> QED
  BY <1>1, <1>5 DEF Resumption

(* If nothing moves, whoever is resumed later is as it was. *)
LEMMA StutterResumes == SwitchIInv /\ UNCHANGED svars => SwitchIInv'
  BY DEF svars, vars, SwitchIInv, SwitchTypeOK, Stopped

(* Every step keeps the stopped registers, and resumes only whole contexts. *)
LEMMA SwitchNext == SwitchIInv /\ [SNext]_svars => SwitchIInv' /\ [Resumption]_svars
  BY TickResumes, SleepResumes, ExitResumes, CloneResumes, ComputesResumes, StutterResumes
     DEF SNext

(* Whoever gets the CPU finds every register as it was when the CPU was     *)
(* taken from it, but for those the C code of the switch overwrites: for    *)
(* every number of contexts, whoever ran meanwhile and whichever handler    *)
(* brings it back.                                                          *)
THEOREM ContextsResumeWhole == SSpec => ResumesWhole
<1>1. SInit => SwitchIInv
  BY SwitchInit
<1>2. SwitchIInv /\ [SNext]_svars => SwitchIInv' /\ [Resumption]_svars
  BY SwitchNext
<1>3. [Resumption]_svars =>
        [cur' # cur =>
            \A r \in DOMAIN want[cur'] \ LostBySwitch : Finds(cur', r)]_svars
  BY DEF Resumption
<1> QED
  BY <1>1, <1>2, <1>3, PTL DEF SSpec, ResumesWhole
=============================================================================
