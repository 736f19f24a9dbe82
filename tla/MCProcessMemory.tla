--------------------------- MODULE MCProcessMemory --------------------------
(* Instances of ProcessMemory for TLC: 12 pages, two of the kernel, two for *)
(* each of CODE and RODATA, four for DATA, two for STACK.  The second page *)
(* of DATA and the only usable one of RODATA need new tables, the second   *)
(* of STACK shares those of the first.  Tables and frames suffice for      *)
(* everything a process can touch.                                         *)
EXTENDS ProcessMemory

MCFan        == <<2, 1, 6, 1>>
MCStart      == [CODE |-> 2, RODATA |-> 4, DATA |-> 7, STACK |-> 10]
MCEnd        == [CODE |-> 3, RODATA |-> 5, DATA |-> 9, STACK |-> 11]
MCPtFrames   == 1..14
MCUserFrames == 21..26
(* What the next step depends on: out is only looked at by the properties  *)
(* of steps, which TLC evaluates on every step it generates.               *)
Memory == <<mm, data, tlb, pgd, os_stack, os_pmd, next_free>>
=============================================================================
