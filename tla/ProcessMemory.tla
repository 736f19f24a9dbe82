--------------------------- MODULE ProcessMemory ----------------------------
(***************************************************************************)
(* The system calls and exceptions of src/Ass2/entry.c: write, expand,     *)
(* shrink, exit, division by zero and page faults, with the page tables,   *)
(* the frames, the TLB and the accesses of the process they serve.  The    *)
(* start and the end of a process (exec_init, do_exit, in object files)    *)
(* are modelled from what they do to the tables.                           *)
(*                                                                         *)
(* Interrupts are off in the kernel, so a handler is one step; the order   *)
(* inside it is kept by composing operators on a machine record [mem, pt,  *)
(* user, at].  Addresses count pages; a level-l table has Fan[l] entries   *)
(* instead of 512, with the segments placed as create_context places them: *)
(* one level-4 entry, one level-3 table, the first entry of which is the   *)
(* kernel's.  Lengths are kept as what the checks tell apart.              *)
(***************************************************************************)
EXTENDS Integers, Sequences, FiniteSets, FiniteSetsExt

CONSTANTS
    PtFrames,     \* frames of OS_PT_REG
    UserFrames,   \* frames of USER_REG
    Fan,          \* entries of a table of level 1 to 4
    W,            \* page numbers are unsigned words: modulo W
    Start, End,   \* first and last page of each segment
    CodePages,    \* CODE_PAGES
    Values,       \* contents of a page
    Old,          \* contents of a page before it is written: code, or what was in the frame
    NoValue,      \* a page without memory
    TlbSize,      \* entries of the TLB
    ExpandArgs,   \* sizes that a process asks expand and shrink for
    ShrinkArgs,
    Watched       \* pages where what the process stores is told apart

Segs    == {"CODE", "RODATA", "DATA", "STACK"}
Movable == {"RODATA", "DATA"}
NPages  == Fan[1] * Fan[2] * Fan[3] * Fan[4]
(* The pages below the first level-3 entry are the kernel's. *)
Pages   == Fan[1] * Fan[2] .. NPages-1
Index   == 0..Max({Fan[l] - 1 : l \in 1..4})

ASSUME FramesAssumption ==
    /\ PtFrames \subseteq Nat \ {0} /\ UserFrames \subseteq Nat \ {0}
    /\ PtFrames \cap UserFrames = {} /\ IsFiniteSet(PtFrames) /\ IsFiniteSet(UserFrames)
ASSUME FanAssumption == Fan \in [1..4 -> Nat \ {0}] /\ W \in Nat /\ W >= NPages
(* The segments of context.h lie below the second level-4 entry, apart.    *)
ASSUME SegsAssumption ==
    /\ Start \in [Segs -> Pages] /\ End \in [Segs -> Pages]
    /\ \A seg \in Segs : Start[seg] < End[seg] /\ End[seg] < Fan[1] * Fan[2] * Fan[3]
    /\ \A a, b \in Segs : a # b => End[a] < Start[b] \/ End[b] < Start[a]
    /\ CodePages \in Nat /\ Start["CODE"] + CodePages - 1 <= End["CODE"]
ASSUME ArgsAssumption == ExpandArgs \subseteq 0..W-1 /\ ShrinkArgs \subseteq 0..W-1
ASSUME ValuesAssumption == Old \in Values /\ NoValue \notin Values /\ TlbSize \in Nat

Span(l)   == CASE l = 1 -> 1 [] l = 2 -> Fan[1] [] l = 3 -> Fan[1] * Fan[2]
               [] l = 4 -> Fan[1] * Fan[2] * Fan[3]
(* (address >> 12 + 9 * (l-1)) & 511 *)
Idx == [p \in 0..NPages-1 |-> [l \in 1..4 |-> (p \div Span(l)) % Fan[l]]]

NoEntry == [p |-> FALSE, w |-> FALSE, u |-> FALSE, f |-> 0]
Entries == [p : BOOLEAN, w : BOOLEAN, u : BOOLEAN, f : {0} \cup PtFrames \cup UserFrames]
(* frame << 12 | 5 | access_flags & MM_WR *)
Entry(f, w) == [p |-> TRUE, w |-> w, u |-> TRUE, f |-> f]
Writable(seg) == seg \in {"DATA", "STACK"}

VARIABLES
    mm,         \* tables and free frames: the machine record
    data,       \* contents of the user frames, Old in a free one
    tlb,        \* translations the CPU holds
    pgd,        \* current->pgd, 0 when no process runs
    os_stack,   \* current->os_stack_pfn
    os_pmd,     \* the kernel's mapping in the process's tables
    next_free,  \* mms[].next_free of RODATA and DATA
    out         \* the last step, with its arguments and what it answered

vars == <<mm, data, tlb, pgd, os_stack, os_pmd, next_free, out>>

Running == pgd # 0

(* Frames are not cleared when they are freed or taken: a page that is     *)
(* mapped holds Old, whatever was there.                                   *)
Contents == data' = [f \in UserFrames |-> IF f \in mm.user \cup mm'.user THEN Old ELSE data[f]]

-----------------------------------------------------------------------------
(* Frames and tables.  os_pfn_alloc takes the lowest free frame and does   *)
(* not clear it; os_pfn_free ignores what is not of the region.            *)
Put(s, t, i, e) == [s EXCEPT !.mem[t][i] = e]
TakePt(s)       == [s EXCEPT !.pt = @ \ {Min(s.pt)}]
TakeUser(s)     == [s EXCEPT !.user = @ \ {Min(s.user)}]
Bzero(s, t)     == [s EXCEPT !.mem[t] = [i \in Index |-> NoEntry]]

Below(s, t, p, l) == s.mem[t][Idx[p][l]]

(* The entries on the way to a page, until one is not present. *)
PathTo(s, root, p) ==
    LET e4 == Below(s, root, p, 4)
        e3 == Below(s, e4.f, p, 3)
        e2 == Below(s, e3.f, p, 2)
    IN  IF ~e4.p THEN <<e4>> ELSE IF ~e3.p THEN <<e4, e3>>
        ELSE IF ~e2.p THEN <<e4, e3, e2>> ELSE <<e4, e3, e2, Below(s, e2.f, p, 1)>>
Mapped(s, root, p) == LET e == PathTo(s, root, p) IN Len(e) = 4 /\ e[4].p

(* isvalid: every level is present. *)
isvalid(p) == Mapped(mm, pgd, p)

(* free1 of each of some pages: the frame of a page that has one is freed  *)
(* and its entry cleared, which changes the way to no other page.          *)
FreedTables(s, root, pages) ==                     \* mutant: the table is freed
    LET gone == {p \in pages : Mapped(s, root, p)}
    IN  [s EXCEPT !.mem = [t \in PtFrames |-> [i \in Index |->
                    IF \E p \in gone : t = PathTo(s, root, p)[3].f /\ i = Idx[p][1]
                    THEN NoEntry ELSE @[t][i]]],
                  !.user = @ \cup {PathTo(s, root, p)[3].f : p \in gone}]
free1(s, root, pages) ==
    LET gone == {p \in pages : Mapped(s, root, p)}
    IN  [s EXCEPT !.mem = [t \in PtFrames |-> [i \in Index |->
                    IF \E p \in gone : t = PathTo(s, root, p)[3].f /\ i = Idx[p][1]
                    THEN NoEntry ELSE @[t][i]]],
                  !.user = @ \cup {PathTo(s, root, p)[4].f : p \in gone}]

-----------------------------------------------------------------------------
(* A process begins and ends (context.o). *)

DirLevel(s, p, l) ==
    LET e   == Below(s, s.at, p, l)
        new == Min(s.pt)
    IN  IF e.p THEN [s EXCEPT !.at = e.f]
        ELSE [Put(Bzero(TakePt(s), new), s.at, Idx[p][l], Entry(new, TRUE)) EXCEPT !.at = new]

(* install_ptable *)
Install(s, root, p, w) ==
    LET d == DirLevel(DirLevel(DirLevel([s EXCEPT !.at = root], p, 4), p, 3), p, 2)
    IN  Put(TakeUser(d), d.at, Idx[p][1], Entry(Min(d.user), w))

(* create_context and exec_init: the OS stack, the level-4 table, code,    *)
(* the first page of DATA, the top page of the stack, the kernel's table.  *)
Exec(s) ==
    LET stack == Min(s.pt)
        s1    == TakePt(s)
        root  == Min(s1.pt)
        load[n \in 0..CodePages] ==
            IF n = 0 THEN Bzero(TakePt(s1), root)
            ELSE Install(load[n-1], root, Start["CODE"] + n - 1, FALSE)
        d     == Install(load[CodePages], root, Start["DATA"], TRUE)
        k     == Install(d, root, End["STACK"], TRUE)
        l3    == k.mem[root][0].f
        pmd   == Min(k.pt)
    IN  [m |-> [Put(Bzero(TakePt(k), pmd), l3, 0,
                    [p |-> TRUE, w |-> TRUE, u |-> FALSE, f |-> pmd]) EXCEPT !.at = 0],
         stack |-> stack, root |-> root, pmd |-> pmd]

(* pt_cleanup: everything present is freed, except the kernel's table,     *)
(* which do_exit frees; the entry of the level-3 table that leads there    *)
(* stays.                                                                  *)
Children(s, tables, first) ==
    {s.mem[e[1]][e[2]].f : e \in {e \in tables \X Index : e[2] >= first /\ s.mem[e[1]][e[2]].p}}

TeardownKeptL1(s, root) ==                         \* mutant: level 1 is not cleared
    LET l3 == Children(s, {root}, 0)
        l2 == Children(s, l3, 1)
        l1 == Children(s, l2, 0)
    IN  [s EXCEPT !.mem = [t \in PtFrames |-> [i \in Index |->
                    IF t \in {root} \cup l2 \/ (t \in l3 /\ i # 0) THEN NoEntry ELSE @[t][i]]],
                  !.pt = @ \cup {root} \cup l3 \cup l2 \cup l1,
                  !.user = @ \cup (Children(s, l1, 0) \cap UserFrames)]
Teardown(s, root) ==
    LET l3 == Children(s, {root}, 0)
        l2 == Children(s, l3, 1)
        l1 == Children(s, l2, 0)
    IN  [s EXCEPT !.mem = [t \in PtFrames |-> [i \in Index |->
                    IF t \in {root} \cup l2 \cup l1 \/ (t \in l3 /\ i # 0) THEN NoEntry
                    ELSE @[t][i]]],
                  !.pt = @ \cup {root} \cup l3 \cup l2 \cup l1,
                  !.user = @ \cup (Children(s, l1, 0) \cap UserFrames)]
-----------------------------------------------------------------------------
Init ==
    /\ mm = [mem |-> [t \in PtFrames |-> [i \in Index |-> NoEntry]],
             pt |-> PtFrames, user |-> UserFrames, at |-> 0]
    /\ data = [f \in UserFrames |-> Old]
    /\ tlb = {} /\ pgd = 0 /\ os_stack = 0 /\ os_pmd = 0
    /\ next_free = [seg \in Movable |-> Start[seg]]
    /\ out = <<"exited">>

ExecInit ==
    /\ ~Running
    /\ LET e == Exec(mm) IN
          /\ mm' = e.m /\ pgd' = e.root /\ os_stack' = e.stack /\ os_pmd' = e.pmd
    /\ Contents
    /\ next_free' = [seg \in Movable |-> IF seg = "DATA" THEN Start[seg] + 1 ELSE Start[seg]]
    /\ tlb' = {}                                  \* CR3 is loaded
    /\ out' = <<"started">>

(* do_exit *)
do_exit(why) ==
    /\ LET t == Teardown(mm, pgd) IN mm' = [t EXCEPT !.pt = @ \cup {os_stack, os_pmd}]
    /\ Contents
    /\ pgd' = 0 /\ os_stack' = 0 /\ os_pmd' = 0
    /\ next_free' = [seg \in Movable |-> Start[seg]]
    /\ tlb' = {}
    /\ out' = why

-----------------------------------------------------------------------------
(* Memory accesses of the process.  The CPU takes the translation from the *)
(* TLB, or walks the tables and keeps what it finds until the entry is     *)
(* replaced or invalidated.                                                *)
Held(p, w)   == {t \in tlb : t.page = p /\ (w => t.w)}
Walks(p, w)  == LET e == PathTo(mm, pgd, p)
                IN  /\ Len(e) = 4
                    /\ \A l \in 1..4 : e[l].p /\ e[l].u /\ (w => e[l].w)
Walked(p)    == LET e == PathTo(mm, pgd, p)
                IN  [page |-> p, f |-> e[4].f, w |-> \A l \in 1..4 : e[l].w]
Translates(p, w) == Held(p, w) # {} \/ Walks(p, w)

Access(p, w, v) ==
    /\ Running /\ Translates(p, w)
    /\ v = Old \/ (w /\ p \in Watched)
    /\ \E t \in IF Held(p, w) # {} THEN Held(p, w) ELSE {Walked(p)} :
          /\ \E kept \in SUBSET {o \in tlb : o.page # p} :
                /\ Cardinality(kept) < TlbSize
                /\ tlb' = kept \cup {t}
          /\ IF w THEN data' = [data EXCEPT ![t.f] = v] /\ out' = <<"store", p, v>>
                  ELSE out' = <<"load", p, data[t.f]>> /\ UNCHANGED data
    /\ UNCHANGED <<mm, pgd, os_stack, os_pmd, next_free>>

(* One level of the walk of handle_page_fault: an entry that is there gets *)
(* the access flags of the segment, a missing one a table that nobody      *)
(* clears.                                                                 *)
FaultLevelNoWrite(s, p, l, w) ==                   \* mutant: a new table without MM_WR
    LET e   == Below(s, s.at, p, l)
        new == Min(s.pt)
    IN  IF e.p
        THEN [Put(s, s.at, Idx[p][l], [e EXCEPT !.w = @ \/ w, !.u = TRUE]) EXCEPT !.at = e.f]
        ELSE [Put(TakePt(s), s.at, Idx[p][l], Entry(new, FALSE)) EXCEPT !.at = new]
FaultLevel(s, p, l, w) ==
    LET e   == Below(s, s.at, p, l)
        new == Min(s.pt)
    IN  IF e.p
        THEN [Put(s, s.at, Idx[p][l], [e EXCEPT !.w = @ \/ w, !.u = TRUE]) EXCEPT !.at = e.f]
        ELSE [Put(TakePt(s), s.at, Idx[p][l], Entry(new, w)) EXCEPT !.at = new]
FaultPath(s, root, p, w) ==
    LET d == FaultLevel(FaultLevel(FaultLevel([s EXCEPT !.at = root], p, 4, w), p, 3, w), p, 2, w)
    IN  [Put(TakeUser(d), d.at, Idx[p][1], Entry(Min(d.user), w)) EXCEPT !.at = 0]

(* Bits 0 and 1 of the error code. *)
Protection(p) == Mapped(mm, pgd, p)

InDataShort(p) ==                                  \* mutant: not the last page granted
    p >= Start["DATA"] /\ p < next_free["DATA"] - 1 /\ ~Protection(p)
InData(p)      == p >= Start["DATA"] /\ p < next_free["DATA"] /\ ~Protection(p)
InRodata(p, w) == p >= Start["RODATA"] /\ p < next_free["RODATA"] /\ ~w /\ ~Protection(p)
InStack(p)     == p >= Start["STACK"] /\ p <= End["STACK"] /\ ~Protection(p)

Resolve(p, w, seg) ==
    /\ mm' = FaultPath(mm, pgd, p, Writable(seg))
    /\ Contents
    /\ out' = <<"fault", p, w>>
    /\ UNCHANGED <<tlb, pgd, os_stack, os_pmd, next_free>>

DataFault(p, w)   == InData(p) /\ Resolve(p, w, "DATA")
RodataFault(p, w) == ~InData(p) /\ InRodata(p, w) /\ Resolve(p, w, "RODATA")
StackFault(p, w)  == ~InData(p) /\ ~InRodata(p, w) /\ InStack(p) /\ Resolve(p, w, "STACK")
BadAccess(p, w)   ==
    ~InData(p) /\ ~InRodata(p, w) /\ ~InStack(p) /\ do_exit(<<"killed", p, w>>)

handle_page_fault(p, w) ==
    /\ Running /\ ~Translates(p, w)
    /\ DataFault(p, w) \/ RodataFault(p, w) \/ StackFault(p, w) \/ BadAccess(p, w)

handle_div_by_zero == Running /\ do_exit(<<"exited">>)

-----------------------------------------------------------------------------
(* System calls.                                                           *)
SyscallExit == Running /\ do_exit(<<"exited">>)

Answer(a) == out' = a /\ UNCHANGED <<mm, data, tlb, pgd, os_stack, os_pmd, next_free>>

(* A buffer with bytes in page p and, if it is longer, in page q.  What    *)
(* the handler reads it reads through the process's translations.  getpid  *)
(* and unknown numbers change nothing and are left out.                    *)
Content(p) == IF Held(p, FALSE) # {} THEN data[(CHOOSE t \in Held(p, FALSE) : TRUE).f]
              ELSE data[PathTo(mm, pgd, p)[4].f]
Buffers == {b \in Pages \X Pages : b[2] \in {b[1], b[1] + 1}}
WriteAnswer(p, q) ==
    IF isvalid(p) /\ isvalid(q) THEN <<"write", p, q, "printed", Content(p), Content(q)>>
    ELSE <<"write", p, q, "-1">>
SyscallWrite == Running /\ \E b \in Buffers : Answer(WriteAnswer(b[1], b[2]))
SyscallWriteLong == Running /\ Answer(<<"long", "-1">>)
(* Length 0: the last byte is the one before the buffer. *)
EmptyAnswer(p, q) == <<"nothing", p, q, IF isvalid(p) /\ isvalid(q) THEN "0" ELSE "-1">>
SyscallWriteNothing == Running /\ \E b \in Buffers : Answer(EmptyAnswer(b[1], b[2]))

BeyondNow(seg, n) == next_free[seg] > End[seg]     \* mutant: the size is not counted
Beyond(seg, n) == (next_free[seg] + n) % W > End[seg]
SyscallExpand(seg, n) ==
    /\ Running
    /\ IF Beyond(seg, n)
       THEN Answer(<<"expand", seg, n, "NULL">>)
       ELSE /\ next_free' = [next_free EXCEPT ![seg] = (@ + n) % W]
            /\ out' = <<"expand", seg, n, "at", next_free[seg]>>
            /\ UNCHANGED <<mm, data, tlb, pgd, os_stack, os_pmd>>

(* The page i below next_free. *)
Back(seg, i) == (next_free[seg] - i) % W
Given(seg, n) == {Back(seg, i) % NPages : i \in 1..n}

NotInvalidated(pages) == tlb                       \* mutant: no invlpg
invlpg(pages) == {t \in tlb : ~(t.page \in pages /\ isvalid(t.page))}
SyscallShrink(seg, n) ==
    /\ Running
    /\ IF Back(seg, n) < Start[seg]
       THEN Answer(<<"shrink", seg, n, "NULL">>)
       ELSE /\ mm' = free1(mm, pgd, Given(seg, n))
            /\ Contents
            /\ tlb' = invlpg(Given(seg, n))
            /\ next_free' = [next_free EXCEPT ![seg] = Back(seg, n)]
            /\ out' = <<"shrink", seg, n, "at", Back(seg, n)>>
            /\ UNCHANGED <<pgd, os_stack, os_pmd>>

-----------------------------------------------------------------------------
Next ==
    \/ ExecInit \/ SyscallExit \/ handle_div_by_zero \/ SyscallWrite \/ SyscallWriteLong
    \/ SyscallWriteNothing
    \/ \E p \in Pages, w \in BOOLEAN :
          (\E v \in Values : Access(p, w, v)) \/ handle_page_fault(p, w)
    \/ \E seg \in Movable : \/ \E n \in ExpandArgs : SyscallExpand(seg, n)
                            \/ \E n \in ShrinkArgs : SyscallShrink(seg, n)

Spec == Init /\ [][Next]_vars

-----------------------------------------------------------------------------
(* Properties.                                                             *)

TypeOK ==
    /\ mm \in [mem : [PtFrames -> [Index -> Entries]], pt : SUBSET PtFrames,
               user : SUBSET UserFrames, at : {0}]
    /\ data \in [UserFrames -> Values]
    /\ tlb \subseteq [page : Pages, f : UserFrames, w : BOOLEAN] /\ Cardinality(tlb) <= TlbSize
    /\ {pgd, os_stack, os_pmd} \subseteq {0} \cup PtFrames
    /\ next_free \in [Movable -> 0..W-1]

(* What the process sees is the memory assignment 2 promises: accesses,    *)
(* faults, expand, shrink and write, in any order and over several         *)
(* processes, do what UserMemory says.                                     *)
UM == INSTANCE UserMemory WITH
        alive <- Running, limit <- next_free, Untouched <- NoValue,
        Sizes <- ExpandArgs \cup ShrinkArgs,
        content <- [p \in Pages |-> LET e == PathTo(mm, pgd, p)
                                    IN  IF Running /\ Len(e) = 4 /\ e[4].p
                                        THEN data[e[4].f] ELSE NoValue]
ImplementsUserMemory == UM!Spec

(* While a process runs the tables still to be handed out are empty, which *)
(* handle_page_fault relies on: it writes one entry into a new table and   *)
(* would take the others for mappings.                                     *)
FreeTablesClean == Running => \A t \in mm.pt, i \in Index : ~mm.mem[t][i].p

L3s == Children(mm, {pgd}, 0)
L2s == Children(mm, L3s, 1)
L1s == Children(mm, L2s, 0)
Edges(tables, first) == {e \in tables \X Index : e[2] >= first /\ mm.mem[e[1]][e[2]].p}
(* Every frame is free and its tables empty, or is the one table, page or  *)
(* stack it was taken for: no two entries share a frame, and exit gives    *)
(* all of them back.                                                       *)
FramesOwnedOnce ==
    /\ FreeTablesClean
    /\ ~Running => mm.pt = PtFrames /\ mm.user = UserFrames
    /\ Running =>
         LET pages == Children(mm, L1s, 0)
             kinds == <<mm.pt, {os_stack}, {pgd}, L3s, {os_pmd}, L2s, L1s>>
         IN  /\ Cardinality(Edges({pgd}, 0)) = Cardinality(L3s)
             /\ Cardinality(Edges(L3s, 1)) = Cardinality(L2s)
             /\ Cardinality(Edges(L2s, 0)) = Cardinality(L1s)
             /\ Cardinality(Edges(L1s, 0)) = Cardinality(pages)
             /\ UNION {kinds[k] : k \in DOMAIN kinds} = PtFrames
             /\ \A j, k \in DOMAIN kinds : j # k => kinds[j] \cap kinds[k] = {}
             /\ mm.user \cap pages = {} /\ mm.user \cup pages = UserFrames

(* The TLB never holds a translation that the tables do not give: a page   *)
(* taken back by shrink is not readable or writable through it.            *)
TlbCoherent == \A t \in tlb : Walks(t.page, t.w) /\ Walked(t.page).f = t.f

(* A fault that is handled lets the same access through; it does not come  *)
(* back.                                                                   *)
FaultResolves ==
    [][\A p \in Pages, w \in BOOLEAN :
         out' = <<"fault", p, w>> /\ handle_page_fault(p, w) => Walks(p, w)']_vars

(* next_free stays between the segment's bounds.                           *)
NextFreeInRange == \A seg \in Movable : next_free[seg] \in Start[seg]..End[seg]
=============================================================================
