----------------------------- MODULE PageTables -----------------------------
(***************************************************************************)
(* The page tables of a new context (assignment 1): prepare_context_mm     *)
(* and cleanup_context_mm in src/Ass1/context_mm.c, which the Makefile     *)
(* builds, and the earlier src/Ass1/actual.c with the same interface.      *)
(* Around them, from the object files that call them: the frame allocator, *)
(* the shell's launch command, the walk that checks the tables before the  *)
(* program starts, the kernel's own mapping and the final count of the     *)
(* free frames.                                                            *)
(*                                                                         *)
(* Every handler runs to its end before another starts, so each is one     *)
(* step; within it the code's order is kept by composing operators on a    *)
(* machine record [mem, pt, user, ptFree, userFree, at].  A table has      *)
(* NIndex entries instead of 512.                                          *)
(***************************************************************************)
EXTENDS Naturals, Sequences, FiniteSets, FiniteSetsExt, Functions

CONSTANTS
    PtFrames,    \* frames of OS_PT_REG, without the one of its bitmap
    UserFrames,  \* frames of USER_REG
    NIndex,      \* entries of a page table
    Layouts,     \* where code, stack and data of a context are
    Versions,    \* which of the two files is compiled
    Boots        \* sets of frames of OS_PT_REG that memory is dirty in at boot

Segs   == {"code", "stack", "data"}
Index  == 0..NIndex-1
Levels == 1..4

ASSUME FramesAssumption == /\ PtFrames \subseteq Nat \ {0} /\ IsFiniteSet(PtFrames)
                           /\ UserFrames \subseteq Nat \ {0} /\ IsFiniteSet(UserFrames)
                           /\ PtFrames \cap UserFrames = {}
                           /\ Cardinality(PtFrames) >= 12
                           /\ Cardinality(UserFrames) >= 3
ASSUME NIndexAssumption == NIndex \in Nat \ {0}
ASSUME LayoutsAssumption == Layouts \subseteq [Segs -> [Levels -> Index]]
(* What create_context's layout has: the segments do not overlap, two of   *)
(* them meet below the level-4 table, the first level-3 table is used but  *)
(* not its first entry, and the data does not meet the code's level-4      *)
(* entry without the stack (context_mm.c:149 adds no flag there).          *)
ASSUME HomesAssumption ==
    \A L \in Layouts :
       /\ \A a, b \in Segs : a # b => L[a] # L[b]
       /\ \E a, b \in Segs : a # b /\ L[a][4] = L[b][4]
       /\ \E a \in Segs : L[a][4] = 0
       /\ \A a \in Segs : L[a][4] = 0 => L[a][3] # 0
       /\ "context_mm" \in Versions /\ L["data"][4] = L["code"][4] => L["stack"][4] = L["code"][4]
ASSUME VersionsAssumption == Versions \subseteq {"context_mm", "actual"}
ASSUME BootsAssumption == Boots \subseteq SUBSET PtFrames

(* access_flags & MM_WR as create_context sets them. *)
Writable(seg) == seg # "code"

NoEntry == [p |-> FALSE, w |-> FALSE, u |-> FALSE, f |-> 0]
Entries == [p : BOOLEAN, w : BOOLEAN, u : BOOLEAN, f : {0} \cup PtFrames \cup UserFrames]
(* frame << 12 | 5 | access flag *)
Entry(f, w) == [p |-> TRUE, w |-> w, u |-> TRUE, f |-> f]

(* What a dirty frame holds: entries that look present. *)
Garbage == Entry(Min(PtFrames), TRUE)

VARIABLES
    mm,        \* page tables and frames: the machine record
    version,   \* the file the kernel was built from
    dirty,     \* the frames that were dirty at boot
    mms,       \* ctx->mms: the index path of the first page of each segment
    pgd,       \* ctx->pgd, 0 before prepare_context_mm
    arg_pfn,   \* ctx->arg_pfn
    os_pmd,    \* os_pmd_pfn: the kernel's mapping, 0 if none
    before,    \* the shell's counts of free frames at launch
    listed,    \* how many frames cleanup put in pfn_os[]
    phase      \* where the launch command is

vars == <<mm, version, dirty, mms, pgd, arg_pfn, os_pmd, before, listed, phase>>

Phases == {"shell", "created", "prepared", "failed", "running", "cleaned", "miscounted"}

-----------------------------------------------------------------------------
(* The frame allocator.  A region is a bitmap; free_pages is a counter of  *)
(* its own.  The lowest free frame is taken (a launch uses fewer frames    *)
(* than one word of the bitmap has) and is never cleared.                  *)
TakePt(s)   == [s EXCEPT !.pt = @ \ {Min(s.pt)}, !.ptFree = @ - 1]
TakeUserUnmarked(s) == [s EXCEPT !.userFree = @ - 1]  \* mutant: the bit is not set
TakeUser(s) == [s EXCEPT !.user = @ \ {Min(s.user)}, !.userFree = @ - 1]

(* os_pfn_free refuses what is outside the region and counts everything    *)
(* else, whether the bit was set or not.                                   *)
FreePt(s, f)   == IF f \in PtFrames
                  THEN [s EXCEPT !.pt = @ \cup {f}, !.ptFree = @ + 1] ELSE s
(* Both lists of frames are given back; an entry outside its region, as 0  *)
(* is, changes nothing.                                                    *)
Hits(list, region) == {k \in DOMAIN list : list[k] \in region}
FreeAll(s, os, usr) ==
    [s EXCEPT !.pt = @ \cup (Range(os) \cap PtFrames),
              !.ptFree = @ + Cardinality(Hits(os, PtFrames)),
              !.user = @ \cup (Range(usr) \cap UserFrames),
              !.userFree = @ + Cardinality(Hits(usr, UserFrames))]

Put(s, t, i, e) == [s EXCEPT !.mem[t][i] = e]

(* reset and clean: the 512 entries of a table. *)
Uncleaned(s, t) == s          \* mutant
Reset(s, t) == [s EXCEPT !.mem[t] = [i \in Index |-> NoEntry]]
Clean(s, t) == [s EXCEPT !.mem[t] = [i \in Index |-> NoEntry]]

-----------------------------------------------------------------------------
(* src/Ass1/context_mm.c *)

(* The level-4 table. *)
Root(s) == [Reset(TakePt(s), Min(s.pt)) EXCEPT !.at = Min(s.pt)]

(* One level of the code's path: a new table below the current one.  The   *)
(* table that is cleared is the given one.                                 *)
CodeLevel(s, cleared, i) ==
    LET new == Min(s.pt)
        s1  == Reset(TakePt(s), cleared)
    IN  [Put(s1, s.at, i, Entry(new, Writable("code"))) EXCEPT !.at = new]

(* The code's path.  For the level-1 table the code clears l2_code_pfn,    *)
(* the current table, a second time.                                       *)
CodePath(s, path) ==
    LET l3 == CodeLevel(s, Min(s.pt), path[4])
        l2 == CodeLevel(l3, Min(l3.pt), path[3])
        l1 == CodeLevel(l2, l2.at, path[2])
    IN  Put(TakeUser(l1), l1.at, path[1], Entry(Min(l1.user), Writable("code")))

(* One level of the stack's or the data's path: an existing table is       *)
(* followed and its entry is given the access flag, or a new one is made.  *)
LevelWithoutGrant(s, i, w, grant) ==      \* mutant: the flag is not added
    LET e   == s.mem[s.at][i]
        new == Min(s.pt)
    IN  IF e.p
        THEN [s EXCEPT !.at = e.f]
        ELSE [Put(Reset(TakePt(s), new), s.at, i, Entry(new, w)) EXCEPT !.at = new]
Level(s, i, w, grant) ==
    LET e   == s.mem[s.at][i]
        new == Min(s.pt)
    IN  IF e.p
        THEN [Put(s, s.at, i, [e EXCEPT !.w = @ \/ grant]) EXCEPT !.at = e.f]
        ELSE [Put(Reset(TakePt(s), new), s.at, i, Entry(new, w)) EXCEPT !.at = new]

StackPath(s, path) ==
    LET w  == Writable("stack")
        l1 == Level(Level(Level(s, path[4], w, w), path[3], w, w), path[2], w, w)
    IN  Put(TakeUser(l1), l1.at, path[1], Entry(Min(l1.user), w))

(* At level 4 the data's flag is not added to an entry that exists: the    *)
(* code ORs the entry with itself.  The page is the one of the arguments.  *)
DataPath(s, path) ==
    LET w  == Writable("data")
        l1 == Level(Level(Level(s, path[4], w, FALSE), path[3], w, w), path[2], w, w)
    IN  Put(l1, l1.at, path[1], Entry(arg_pfn, w))

PrepareMM(s) ==
    LET root == Root(s)
        code == CodePath(root, mms["code"])
        stack == StackPath([code EXCEPT !.at = root.at], mms["stack"])
    IN  DataPath([stack EXCEPT !.at = root.at], mms["data"])

(* The frames on a segment's path, as found by following the entries       *)
(* without a test: level 3 first, the page last.                           *)
Pfns(s, path) ==
    LET l3 == s.mem[pgd][path[4]].f
        l2 == s.mem[l3][path[3]].f
        l1 == s.mem[l2][path[2]].f
    IN  <<l3, l2, l1, s.mem[l1][path[1]].f>>

(* The frames of one level, each once. *)
KeepTwins(c, k, d) ==         \* mutant: the data's frame is not compared
    (IF c # k THEN <<c, k>> ELSE <<c>>) \o <<d>>
Distinct(c, k, d) ==
    (IF c # k THEN <<c, k>> ELSE <<c>>) \o (IF d \notin {c, k} THEN <<d>> ELSE <<>>)

OsList(s) ==
    LET c == Pfns(s, mms["code"])
        k == Pfns(s, mms["stack"])
        d == Pfns(s, mms["data"])
    IN  Distinct(c[1], k[1], d[1]) \o Distinct(c[2], k[2], d[2])
            \o Distinct(c[3], k[3], d[3]) \o <<pgd>>

UserList(s) ==
    Distinct(Pfns(s, mms["code"])[4], Pfns(s, mms["stack"])[4], Pfns(s, mms["data"])[4])

MaxN == 9   \* Max_N, the size of pfn_os[]

CleanupMM(s) == FreeAll(s, OsList(s), UserList(s))

-----------------------------------------------------------------------------
(* src/Ass1/actual.c *)

(* One level of a segment's path. *)
Step(s, i, w) ==
    LET e   == s.mem[s.at][i]
        new == Min(s.pt)
    IN  IF e.p
        THEN [Put(s, s.at, i, IF w THEN Entry(e.f, TRUE) ELSE e) EXCEPT !.at = e.f]
        ELSE [Put(Clean(TakePt(s), new), s.at, i, Entry(new, w)) EXCEPT !.at = new]

(* The body of the loop.  A page that is mapped already is left alone. *)
MapSegment(s, seg) ==
    LET path == mms[seg]
        w    == Writable(seg)
        l1   == Step(Step(Step(s, path[4], w), path[3], w), path[2], w)
    IN  IF l1.mem[l1.at][path[1]].p THEN l1
        ELSE IF seg = "data" THEN Put(l1, l1.at, path[1], Entry(arg_pfn, w))
        ELSE Put(TakeUser(l1), l1.at, path[1], Entry(Min(l1.user), w))

PrepareActual(s) ==
    LET root == Min(s.pt)
        s0   == [Clean(TakePt(s), root) EXCEPT !.at = root]
        s1   == MapSegment(s0, "stack")
        s2   == MapSegment([s1 EXCEPT !.at = root], "code")
    IN  MapSegment([s2 EXCEPT !.at = root], "data")

(* The frames of one level; a frame that was freed for an earlier segment  *)
(* is replaced by 0, and 0 is skipped.                                     *)
Once(a, b, c) ==
    LET b1 == IF b = a THEN 0 ELSE b
        c1 == IF c = a THEN 0 ELSE c
    IN  <<a, b1, IF c1 = b1 THEN 0 ELSE c1>>

(* The entries on the three paths are zeroed. *)
Zeroed(s) ==
    LET slots == UNION {LET path == mms[seg]
                            f    == Pfns(s, path)
                        IN  {<<pgd, path[4]>>, <<f[1], path[3]>>,
                             <<f[2], path[2]>>, <<f[3], path[1]>>} : seg \in Segs}
    IN  [s EXCEPT !.mem = [t \in PtFrames |-> [i \in Index |->
                              IF <<t, i>> \in slots THEN NoEntry ELSE @[t][i]]]]

CleanupActual(s) ==
    LET c == Pfns(s, mms["code"])
        k == Pfns(s, mms["stack"])
        d == Pfns(s, mms["data"])
    IN  FreeAll(Zeroed(s),
                Once(c[3], k[3], d[3]) \o Once(c[2], k[2], d[2])
                    \o Once(c[1], k[1], d[1]) \o <<pgd>>,
                <<c[4], k[4], d[4]>>)

-----------------------------------------------------------------------------
(* The tables as the hardware reads them. *)

Present(s, t, i) == t \in PtFrames /\ s.mem[t][i].p

(* The entry of every level on a path, level 4 first. *)
Walk(s, path) ==
    LET e4 == s.mem[pgd][path[4]]
        e3 == s.mem[e4.f][path[3]]
        e2 == s.mem[e3.f][path[2]]
    IN  <<e4, e3, e2, s.mem[e2.f][path[1]]>>

Walkable(s, path) ==
    /\ Present(s, pgd, path[4])
    /\ LET e4 == s.mem[pgd][path[4]] IN
       /\ Present(s, e4.f, path[3])
       /\ LET e3 == s.mem[e4.f][path[3]] IN
          /\ Present(s, e3.f, path[2])
          /\ Present(s, s.mem[e3.f][path[2]].f, path[1])

(* check_and_launch_context: what the shell accepts. *)
SegmentAccepted(s, seg) ==
    /\ Walkable(s, mms[seg])
    /\ LET e == Walk(s, mms[seg]) IN
       /\ \A l \in 1..4 : e[l].u /\ (Writable(seg) => e[l].w)
       /\ ~Writable(seg) => ~e[4].w
       /\ e[4].f \in UserFrames
       /\ seg = "data" => e[4].f = arg_pfn

Accepted(s) == \A seg \in Segs : SegmentAccepted(s, seg)

(* install_os_pts: the kernel's mapping is put in the first entry of the   *)
(* first level-3 table, unless something is there already.  The new table  *)
(* is cleared; its entries of 2 MB, which users cannot reach, are left out. *)
KernelEntry(f) == [p |-> TRUE, w |-> TRUE, u |-> FALSE, f |-> f]
InstallL3(s) ==
    LET new == Min(s.pt)
    IN  IF s.mem[pgd][0] # NoEntry
        THEN [s EXCEPT !.at = s.mem[pgd][0].f]
        ELSE [Put(TakePt(s), pgd, 0, KernelEntry(new)) EXCEPT !.at = new]
InstallPmd(s) ==
    LET new == Min(s.pt)
    IN  Reset(Put(TakePt(s), s.at, 0, KernelEntry(new)), new)

-----------------------------------------------------------------------------
(* The launch command of the shell. *)

DirtyMem(d) == [t \in PtFrames |-> [i \in Index |->
                   IF t \in d THEN Garbage ELSE NoEntry]]

Init ==
    /\ version \in Versions
    /\ mms \in Layouts
    /\ dirty \in Boots
    /\ mm = [mem |-> DirtyMem(dirty), at |-> 0,
             pt |-> PtFrames, ptFree |-> Cardinality(PtFrames),
             user |-> UserFrames, userFree |-> Cardinality(UserFrames)]
    /\ pgd = 0 /\ arg_pfn = 0 /\ os_pmd = 0
    /\ before = <<0, 0>>
    /\ listed = 0
    /\ phase = "shell"

LaunchFromPt ==      \* mutant: the page comes from the other region
    /\ phase = "shell"
    /\ before' = <<mm.ptFree, mm.userFree>>
    /\ arg_pfn' = Min(mm.pt)
    /\ mm' = TakePt(mm)
    /\ pgd' = 0
    /\ phase' = "created"
    /\ UNCHANGED <<version, dirty, mms, os_pmd, listed>>

(* create_context, the counts, and a page for the arguments. *)
Launch ==
    /\ phase = "shell"
    /\ before' = <<mm.ptFree, mm.userFree>>
    /\ arg_pfn' = Min(mm.user)
    /\ mm' = TakeUser(mm)
    /\ pgd' = 0
    /\ phase' = "created"
    /\ UNCHANGED <<version, dirty, mms, os_pmd, listed>>

(* prepare_context_mm(ctx) *)
Prepare ==
    /\ phase = "created"
    /\ pgd' = Min(mm.pt)
    /\ mm' = [IF version = "actual" THEN PrepareActual(mm) ELSE PrepareMM(mm) EXCEPT !.at = 0]
    /\ phase' = "prepared"
    /\ UNCHANGED <<version, dirty, mms, arg_pfn, os_pmd, before, listed>>

(* check_and_launch_context(ctx): a refused context is left as it is. *)
Check ==
    /\ phase = "prepared"
    /\ LET l3 == InstallL3(mm)
           l2 == InstallPmd(l3)
           old == l3.mem[l3.at][0]
       IN  IF ~Accepted(mm)
           THEN phase' = "failed" /\ UNCHANGED <<mm, os_pmd>>
           ELSE /\ phase' = "running"
                /\ mm' = [IF old = NoEntry THEN l2 ELSE l3 EXCEPT !.at = 0]
                /\ os_pmd' = IF old = NoEntry THEN Min(l3.pt) ELSE os_pmd
    /\ UNCHANGED <<version, dirty, mms, pgd, arg_pfn, before, listed>>

(* The program returns: cleanup_context_mm(ctx). *)
Cleanup ==
    /\ phase = "running"
    /\ mm' = IF version = "actual" THEN CleanupActual(mm) ELSE CleanupMM(mm)
    /\ listed' = IF version = "actual" THEN 0 ELSE Len(OsList(mm))
    /\ phase' = "cleaned"
    /\ UNCHANGED <<version, dirty, mms, pgd, arg_pfn, os_pmd, before>>

(* check_and_cleanup_context: the kernel's own table is freed and the free *)
(* frames are counted again.                                               *)
CheckCleanup ==
    /\ phase = "cleaned"
    /\ LET s == FreePt(mm, os_pmd) IN
       /\ mm' = s
       /\ phase' = IF <<s.ptFree, s.userFree>> = before THEN "shell" ELSE "miscounted"
    /\ UNCHANGED <<version, dirty, mms, pgd, arg_pfn, os_pmd, before, listed>>

Next == Launch \/ Prepare \/ Check \/ Cleanup \/ CheckCleanup

Spec == Init /\ [][Next]_vars

-----------------------------------------------------------------------------
(* Properties *)

(* The machine record has its parts and every entry points somewhere. *)
TypeOK ==
    /\ mm \in [mem : [PtFrames -> [Index -> Entries]], at : {0},
               pt : SUBSET PtFrames, ptFree : Nat,
               user : SUBSET UserFrames, userFree : Nat]
    /\ version \in Versions /\ mms \in Layouts /\ dirty \in Boots
    /\ {pgd, os_pmd} \subseteq {0} \cup PtFrames
    /\ arg_pfn \in {0} \cup UserFrames
    /\ before \in Nat \X Nat /\ listed \in Nat
    /\ phase \in Phases

Mapped == phase \in {"prepared", "running"}

(* The index paths that lead a user somewhere through four present entries *)
(* with the U bit, and the tables on the way. *)
Prefixes == {<<i4, i3, i2, i1>> : i4 \in Index, i3 \in Index, i2 \in Index, i1 \in Index}
Path(q) == <<q[4], q[3], q[2], q[1]>>
UserPages == {q \in Prefixes : /\ Walkable(mm, Path(q))
                               /\ \A l \in 1..4 : Walk(mm, Path(q))[l].u}
Tables(q) == LET e == Walk(mm, Path(q))
             IN  <<pgd, e[1].f, e[2].f, e[3].f>>
Home(seg) == LET path == mms[seg] IN <<path[4], path[3], path[2], path[1]>>

(* The tables that prepare_context_mm builds pass the kernel's walk for    *)
(* every segment: present, reachable and writable as its flags say, on     *)
(* frames of the right regions, also where segments share tables.  And     *)
(* they leave the kernel room for its own mapping: while the program runs, *)
(* the first entry of the first level-3 table leads to a frame of its own. *)
LaunchAccepted ==
    /\ phase # "failed"
    /\ phase = "running" => /\ mm.mem[mm.mem[pgd][0].f][0] = KernelEntry(os_pmd)
                            /\ os_pmd \in PtFrames \ mm.pt

(* Nothing but the three pages can be reached, whatever was in the frames  *)
(* before.  The exception is context_mm.c:74, which leaves the level-1     *)
(* table of the code uncleared: there old entries survive if the frame was *)
(* dirty.                                                                  *)
BelowCodeTable(q) == /\ version = "context_mm"
                     /\ SubSeq(q, 1, 3) = SubSeq(Home("code"), 1, 3)
                     /\ Tables(q)[4] \in dirty
OnlySegmentsMapped ==
    Mapped => \A q \in UserPages : \/ \E seg \in Segs : q = Home(seg)
                                   \/ BelowCodeTable(q)

(* The tables of a context form a tree of allocated frames: two paths meet *)
(* in a table only as long as their indexes agree, no table is the one the *)
(* kernel maps for itself (os_pmd, which before Check is that of the last  *)
(* launch, a free frame again), and the three pages are different          *)
(* allocated frames.                                                       *)
TablesFormTree ==
    Mapped =>
       /\ \A a, b \in Segs : \A i, j \in 1..4 :
             Tables(Home(a))[i] = Tables(Home(b))[j]
                <=> i = j /\ SubSeq(Home(a), 1, i-1) = SubSeq(Home(b), 1, i-1)
       /\ \A a \in Segs : \A i \in 1..4 : LET t == Tables(Home(a))[i] IN
             t \notin mm.pt /\ (phase = "running" => t # os_pmd)
       /\ LET Page(seg) == Walk(mm, mms[seg])[4].f IN
          \A a, b \in Segs : Page(a) \notin mm.user /\ (a # b => Page(a) # Page(b))

(* When a program has returned, every frame is free again and the kernel's *)
(* two counts agree: each frame of the tables, shared or not, was freed    *)
(* exactly once.  cleanup_context_mm collects the tables in an array of    *)
(* Max_N entries, which must hold them all; the ten that three segments    *)
(* without a common table need would not fit.                              *)
FramesReturned ==
    /\ phase # "miscounted"
    /\ phase = "shell" => mm.pt = PtFrames /\ mm.user = UserFrames
    /\ mm.ptFree = Cardinality(mm.pt) /\ mm.userFree = Cardinality(mm.user)
    /\ listed <= MaxN
=============================================================================
