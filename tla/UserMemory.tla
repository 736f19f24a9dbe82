----------------------------- MODULE UserMemory -----------------------------
(***************************************************************************)
(* What assignment 2 promises a process (src/Ass2/assignment.pdf): a       *)
(* memory of pages in four segments.  expand and shrink move the limit of  *)
(* RODATA and DATA and give the page they return, or NULL when the limit   *)
(* would leave the segment.  A page below the limit gets memory when it is *)
(* first touched and keeps what is stored until it is given back; any      *)
(* other access ends the process.  write prints what the pages hold, or    *)
(* returns -1 if a page has no memory yet.                                 *)
(***************************************************************************)
EXTENDS Integers, Sequences

CONSTANTS
    Pages,       \* virtual pages of a process
    Start, End,  \* first and last page of a segment, by its name
    CodePages,   \* pages of code that are loaded
    Values,      \* contents of a page
    Old,         \* contents of a page that was not written
    Untouched,   \* no memory yet
    Sizes        \* pages that expand and shrink may be asked for

VARIABLES
    alive,    \* the process runs
    limit,    \* next_free of RODATA and DATA
    content,  \* what each page holds
    out       \* the last step, with its arguments and what it answered

vars == <<alive, limit, content, out>>

Movable  == {"RODATA", "DATA"}
NoLimits == [seg \in Movable |-> Start[seg]]

(* The pages of a segment that a process may use. *)
Usable(seg) == CASE seg = "CODE"     -> Start[seg]..Start[seg]+CodePages-1
                 [] seg \in Movable  -> Start[seg]..limit[seg]-1
                 [] seg = "STACK"    -> Start[seg]..End[seg]
Legal(p, w) == \E seg \in {"CODE", "RODATA", "DATA", "STACK"} :
                  p \in Usable(seg) /\ (w => seg \in {"DATA", "STACK"})

Loaded == Usable("CODE") \cup {Start["DATA"], End["STACK"]}

Init ==
    /\ alive = FALSE
    /\ limit = NoLimits
    /\ content = [p \in Pages |-> Untouched]
    /\ out = <<"exited">>

(* A process starts with its code, the first page of DATA and the top of   *)
(* the stack in memory.                                                    *)
Begin ==
    /\ ~alive
    /\ alive' = TRUE
    /\ limit' = [NoLimits EXCEPT !["DATA"] = @ + 1]
    /\ content' = [p \in Pages |-> IF p \in Loaded THEN Old ELSE Untouched]
    /\ out' = <<"started">>

Gone == /\ alive' = FALSE
        /\ limit' = NoLimits
        /\ content' = [p \in Pages |-> Untouched]

Exit == alive /\ out' = <<"exited">> /\ Gone

Load(p) ==
    /\ alive /\ out' = <<"load", p, content[p]>>
    /\ Legal(p, FALSE) /\ content[p] # Untouched
    /\ UNCHANGED <<alive, limit, content>>

Store(p, v) ==
    /\ alive /\ out' = <<"store", p, v>>
    /\ Legal(p, TRUE) /\ content[p] # Untouched
    /\ content' = [content EXCEPT ![p] = v]
    /\ UNCHANGED <<alive, limit>>

(* The page gets memory, with whatever is in it, when it is used first. *)
Touch(p, w) ==
    /\ alive /\ out' = <<"fault", p, w>>
    /\ content[p] = Untouched /\ Legal(p, w)
    /\ content' = [content EXCEPT ![p] = Old]
    /\ UNCHANGED <<alive, limit>>

Kill(p, w) == alive /\ out' = <<"killed", p, w>> /\ ~Legal(p, w) /\ Gone

Expand(seg, n) ==
    /\ alive
    /\ IF limit[seg] + n > End[seg]
       THEN out' = <<"expand", seg, n, "NULL">> /\ UNCHANGED limit
       ELSE /\ out' = <<"expand", seg, n, "at", limit[seg]>>
            /\ limit' = [limit EXCEPT ![seg] = @ + n]
    /\ UNCHANGED <<alive, content>>

Shrink(seg, n) ==
    /\ alive
    /\ IF limit[seg] - n < Start[seg]
       THEN out' = <<"shrink", seg, n, "NULL">> /\ UNCHANGED <<limit, content>>
       ELSE /\ out' = <<"shrink", seg, n, "at", limit[seg] - n>>
            /\ limit' = [limit EXCEPT ![seg] = @ - n]
            /\ content' = [p \in Pages |-> IF p \in limit[seg]-n..limit[seg]-1
                                           THEN Untouched ELSE content[p]]
    /\ UNCHANGED alive

(* A buffer of at most 1024 bytes lies in one page or in two neighbours. *)
Write(p, q) ==
    /\ alive
    /\ out' = IF Untouched \in {content[p], content[q]} THEN <<"write", p, q, "-1">>
              ELSE <<"write", p, q, "printed", content[p], content[q]>>
    /\ UNCHANGED <<alive, limit, content>>

(* A length above 1024 is refused. *)
WriteLong ==
    /\ alive /\ out' = <<"long", "-1">>
    /\ UNCHANGED <<alive, limit, content>>

(* Of an empty buffer nothing is printed, but its page q and the page p of *)
(* the byte before it must have memory.                                    *)
WriteNothing(p, q) ==
    /\ alive
    /\ out' = <<"nothing", p, q, IF Untouched \in {content[p], content[q]} THEN "-1" ELSE "0">>
    /\ UNCHANGED <<alive, limit, content>>

Next ==
    \/ Begin \/ Exit \/ WriteLong
    \/ \E p \in Pages : Load(p)
    \/ \E p \in Pages, v \in Values : Store(p, v)
    \/ \E p \in Pages, w \in BOOLEAN : Touch(p, w) \/ Kill(p, w)
    \/ \E seg \in Movable, n \in Sizes : Expand(seg, n) \/ Shrink(seg, n)
    \/ \E p \in Pages : \E q \in Pages \cap {p, p+1} : Write(p, q) \/ WriteNothing(p, q)

Spec == Init /\ [][Next]_vars
=============================================================================
