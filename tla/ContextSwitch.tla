---------------------------- MODULE ContextSwitch ----------------------------
(***************************************************************************)
(* The registers of the contexts that the scheduler switches: what         *)
(* handle_timer_tick, do_sleep, do_exit and do_clone of                    *)
(* src/Ass3/schedule.c save in exec_context.regs, from which words of      *)
(* which stack, and what they load before iretq.  Each step is one of      *)
(* Scheduler together with what it does to the registers.                  *)
(*                                                                         *)
(* A value is a token <<p, r, v>>: what context p has in register r in its *)
(* v-th computation.  The build does not optimise: the operand of          *)
(*    asm volatile("mov %0,%%reg" : : "r" (init->regs.reg))                *)
(* goes through rax, and the kernel functions called after it use rax, rdx *)
(* and rdi.                                                                *)
(***************************************************************************)
EXTENDS Scheduler, Sequences

VARIABLES
    cpu,    \* registers of the CPU in user mode (or in the swapper's loop)
    regs,   \* exec_context.regs
    tss,    \* context whose OS stack the CPU enters the kernel on
    want    \* history: what each stopped context must find again

svars == <<vars, cpu, regs, tss, want>>

Frame == {"rbp", "rip", "cs", "rflags", "rsp", "ss"}
Saved == {"rax", "rbx", "rcx", "rdx", "rsi", "rdi", "r8", "r9", "r10", "r11",
          "r12", "r13", "r14", "r15"}
Regs  == Frame \cup Saved
Junk  == <<"junk">>
Zero  == <<"0">>

(* Code and stack segments are those of user mode, or the swapper's. *)
Segment(p, r) == <<IF p = 0 THEN "kernel" ELSE "user", r>>
Value(p, r, v) == IF r \in {"cs", "ss"} THEN Segment(p, r) ELSE <<p, r, v>>
File(p, v) == [r \in Regs |-> Value(p, r, v)]
Keep(f, S) == [r \in S |-> f[r]]

(* The swapper was set up to start at its loop; its other registers are 0. *)
SwapperFile == [r \in Regs |-> IF r \in Frame \ {"rbp"} THEN Value(0, r, 0) ELSE Zero]

SInit ==
    /\ Init
    /\ cpu = File(1, 0)
    /\ regs = [p \in Procs |-> IF p = 0 THEN SwapperFile ELSE [r \in Regs |-> Zero]]
    /\ tss = 1
    /\ want = [p \in Procs |-> IF p = 0 THEN SwapperFile ELSE <<>>]

-----------------------------------------------------------------------------
(* The timer interrupt has a stack of its own.  Its handler pushes the      *)
(* registers, t1 points to the last one; t2 points to rbp, above which the  *)
(* CPU has put the rest.                                                    *)
Pushed  == <<"rax", "rbx", "rcx", "rdx", "r8", "r9", "r10", "r11", "r12", "r13",
             "r14", "r15", "rsi", "rdi">>
t1(i)   == cpu[Pushed[Len(Pushed) - i]]
t2(i)   == cpu[<<"rbp", "rip", "cs", "rflags", "rsp", "ss">>[i+1]]

(* The index into t1 or t2 that each register is saved from. *)
TickSlots == [rdi |-> 0, rsi |-> 1, r15 |-> 2, r14 |-> 3, r13 |-> 4, r12 |-> 5, r11 |-> 6,
              r10 |-> 7, r9 |-> 8, r8 |-> 9, rdx |-> 10, rcx |-> 11, rbx |-> 12, rax |-> 13]
FrameSlots == [rbp |-> 0, rip |-> 1, cs |-> 2, rflags |-> 3, rsp |-> 4, ss |-> 5]

SavedByTick ==
    [r \in Regs |-> IF r \in Saved THEN t1(TickSlots[r]) ELSE t2(FrameSlots[r])]

(* A system call enters on the stack of the TSS: the CPU's five words, then *)
(* what handle_syscall pushes.                                              *)
SyscallPushed == <<"ss", "rsp", "rflags", "cs", "rip", "rbx", "rcx", "rdx", "rsi", "rdi",
                   "rbp", "r8", "r9", "r10", "r11", "r12", "r13", "r14", "r15">>

(* The word k below the top of a context's OS stack. *)
OsStack(p, k) == IF os_stack_pfn[tss] = os_stack_pfn[p] THEN cpu[SyscallPushed[k+1]] ELSE Junk

(* The k of each register in do_sleep; rax is the system call's number.     *)
SleepSlotsShifted ==                     \* mutant: one word too far
    [rip |-> 4, rflags |-> 2, rsp |-> 1, rbx |-> 5, rcx |-> 6, rdx |-> 7, rsi |-> 8,
     rdi |-> 9, rbp |-> 10, r8 |-> 11, r9 |-> 12, r10 |-> 13, r11 |-> 14, r12 |-> 15,
     r13 |-> 16, r14 |-> 17, r15 |-> 17]
SleepSlots == [rip |-> 4, rflags |-> 2, rsp |-> 1, rbx |-> 5, rcx |-> 6, rdx |-> 7, rsi |-> 8,
               rdi |-> 9, rbp |-> 10, r8 |-> 11, r9 |-> 12, r10 |-> 13, r11 |-> 14, r12 |-> 15,
               r13 |-> 16, r14 |-> 17, r15 |-> 18]
SavedBySleep ==
    [r \in Regs |-> CASE r \in {"cs", "ss"} -> Segment(cur, r)
                      [] r = "rax" -> regs[cur]["rax"]
                      [] OTHER -> OsStack(cur, SleepSlots[r])]

-----------------------------------------------------------------------------
(* The moves before iretq: rax is loaded like the others, and serves as the *)
(* operand of the moves to rsi and rdi after that.                          *)
Moved(f) == [f EXCEPT !["rax"] = f["rdi"]]

(* set_tss_stack_ptr, set_current_ctx and ack_irq. *)
Called(f) == [f EXCEPT !["rax"] = Junk, !["rdx"] = Junk, !["rdi"] = Junk]

Enter(file) == cpu' = file /\ tss' = cur'

(* The bound: fewer than 2^32 ticks, so that no counter comes around and    *)
(* wakes a context that is not asleep.                                      *)
NoneComesAround == \A p \in Procs : Woken[p] # state[p] => state[p] = "WAITING"

(* A tick that goes on with the interrupted context pops what it pushed.    *)
(* No process installs a handler here: a signal only exchanges two words of *)
(* the frame that it returns through.                                       *)
STick ==
    /\ Tick
    /\ NoneComesAround
    /\ IF cur' # cur
       THEN /\ regs' = [regs EXCEPT ![cur] = SavedByTick]
            /\ want' = [want EXCEPT ![cur] = cpu]
            /\ Enter(Called(Moved(regs[cur'])))
       ELSE UNCHANGED <<cpu, regs, tss, want>>

(* do_exit, also when a fault leads to it, saves words of its own stack     *)
(* into the dead context.                                                   *)
SavedByExit == [r \in Regs |-> IF r \in Frame THEN Junk ELSE regs[cur][r]]
SwitchAfterExit ==
    /\ regs' = IF mode' = "cleanup" THEN regs ELSE [regs EXCEPT ![cur] = SavedByExit]
    /\ want' = [want EXCEPT ![cur] = <<>>]
    /\ IF mode' = "cleanup" THEN UNCHANGED <<cpu, tss>> ELSE Enter(Called(Moved(regs[cur'])))

SExit == Exit /\ SwitchAfterExit

SSleep(n) ==
    /\ Sleep(n)
    /\ regs' = [regs EXCEPT ![cur] = SavedBySleep]
    /\ want' = [want EXCEPT ![cur] = Keep(cpu, Regs \ {"rax"})]
    /\ Enter(Moved(regs[cur']))

(* The clone starts at its function, on its stack, with the segments of     *)
(* user mode and the parent's flags; the rest is what the parent had when   *)
(* it was stopped last.                                                     *)
CloneFile(slot) ==
    [regs[cur] EXCEPT !["cs"] = Segment(slot, "cs"), !["ss"] = Segment(slot, "ss"),
                      !["rflags"] = OsStack(cur, 2),
                      !["rip"] = Value(slot, "rip", 0), !["rsp"] = Value(slot, "rsp", 0),
                      !["rbp"] = Value(slot, "rsp", 0)]
Started(slot) ==
    [r \in Frame |-> CASE r = "rflags" -> cpu["rflags"]
                       [] r = "rbp" -> Value(slot, "rsp", 0)
                       [] OTHER -> Value(slot, r, 0)]
SClone ==
    /\ Clone
    /\ \E slot \in Procs :
          IF slot \in FreeSlots /\ state'[slot] = "READY"
          THEN /\ regs' = [regs EXCEPT ![slot] = CloneFile(slot)]
               /\ want' = [want EXCEPT ![slot] = Started(slot)]
          ELSE FreeSlots = {} /\ UNCHANGED <<regs, want>>
    /\ UNCHANGED <<cpu, tss>>

(* The current context computes. *)
SComputes ==
    /\ mode = "up"
    /\ cpu' = File(cur, 1)
    /\ UNCHANGED <<vars, regs, tss, want>>

SNext == STick \/ SExit \/ SClone \/ SComputes \/ \E n \in SleepArgs : SSleep(n)

SSpec == SInit /\ [][SNext]_svars

-----------------------------------------------------------------------------
(* A context that gets the CPU finds every register, and its mode, as they  *)
(* were when a tick or a sleep took the CPU from it, whoever ran meanwhile  *)
(* and whichever of the three handlers brings it back; a clone starts at    *)
(* its function on its stack with its parent's flags.  LostBySwitch names   *)
(* the registers that C code has used between the moves and iretq: without  *)
(* it the property fails, although context.h calls regs the "Saved copy of  *)
(* user registers".                                                         *)
LostBySwitch == IF state'[cur] = "WAITING" THEN {"rax"} ELSE {"rax", "rdx", "rdi"}
Finds(p, r) == cpu'[r] = want[p][r]
ResumesWhole ==
    [][cur' # cur =>
          \A r \in DOMAIN want[cur'] \ LostBySwitch : Finds(cur', r)]_svars
=============================================================================
