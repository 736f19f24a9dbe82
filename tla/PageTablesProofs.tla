-------------------------- MODULE PageTablesProofs --------------------------
(***************************************************************************)
(* The page tables of a new context for every layout of its segments,      *)
(* every number of frames and entries, and whatever memory holds at boot.  *)
(***************************************************************************)
EXTENDS PageTables, FiniteSetTheorems, SequenceTheorems, TLAPS

-----------------------------------------------------------------------------
(* The machine record: the allocator's counter is the size of its bitmap.   *)
Machines == [mem : [PtFrames -> [Index -> Entries]], at : {0} \cup PtFrames,
             pt : SUBSET PtFrames, ptFree : Nat, user : SUBSET UserFrames, userFree : Nat]
Counted(s) == s.ptFree = Cardinality(s.pt) /\ s.userFree = Cardinality(s.user)
MType(s) == s \in Machines /\ Counted(s)

(* What an entry says.                                                      *)
LEMMA EntryFields ==
  ASSUME NEW f \in PtFrames \cup UserFrames, NEW w \in BOOLEAN
  PROVE  /\ Entry(f, w) \in Entries
         /\ Entry(f, w).p /\ Entry(f, w).u /\ Entry(f, w).f = f /\ Entry(f, w).w = w
         /\ NoEntry \in Entries /\ ~NoEntry.p /\ ~NoEntry.u
  BY DEF Entry, Entries, NoEntry

(* A set of numbers has a least one: otherwise its lower bounds, of which  *)
(* there are finitely many, would go on for ever.                          *)
LEMMA MinIs ==
  ASSUME NEW S \in SUBSET Nat, S # {}
  PROVE  Min(S) \in S /\ \A y \in S : Min(S) <= y
<1> DEFINE Low  == {k \in Nat : \A y \in S : k <= y}
           next == [k \in Low |-> k + 1]
<1>1. SUFFICES ASSUME \A x \in S : \E y \in S : ~(x <= y) PROVE FALSE
  BY DEF Min
<1>2. \A k \in Low : k + 1 \in Low
  BY <1>1
<1>3. PICK m \in S : TRUE
  OBVIOUS
<1>4. IsFiniteSet(Low)
  <2>1. \A k \in Low : k <= m
    OBVIOUS
  <2> QED
    BY <2>1, FS_BoundedSetOfNaturals
<1>5. next \in Injection(Low, Low)
  BY <1>2 DEF Injection, IsInjective
<1>6. next \in Surjection(Low, Low)
  BY <1>4, <1>5, FS_Injection
<1>7. 0 \in Low
  OBVIOUS
<1>8. PICK k \in Low : next[k] = 0
  BY <1>6, <1>7 DEF Surjection
<1> QED
  BY <1>8

(* The three segments have one flag each.                                   *)
LEMMA SegsAre == Segs = {"code", "stack", "data"} /\ \A seg \in Segs : Writable(seg) \in BOOLEAN
  BY DEF Segs, Writable

(* Taking a frame. *)
LEMMA TakePtIs ==
  ASSUME NEW s, MType(s), s.pt # {}
  PROVE  LET r == TakePt(s) n == Min(s.pt) IN
         /\ MType(r) /\ n \in s.pt /\ n \in PtFrames
         /\ r.pt = s.pt \ {n} /\ r.mem = s.mem /\ r.at = s.at /\ r.user = s.user
         /\ Cardinality(r.pt) = Cardinality(s.pt) - 1
<1> DEFINE n == Min(s.pt)
<1>1. s.pt \subseteq PtFrames /\ n \in s.pt
  BY MinIs, FramesAssumption DEF MType, Machines
<1>2. IsFiniteSet(s.pt)
  BY <1>1, FS_Subset, FramesAssumption
<1>3. /\ Cardinality(s.pt \ {n}) = Cardinality(s.pt) - 1
      /\ Cardinality(s.pt) \in Nat /\ Cardinality(s.pt \ {n}) \in Nat
  BY <1>1, <1>2, FS_RemoveElement, FS_CardinalityType
<1> HIDE DEF n
<1>4. TakePt(s) = [s EXCEPT !.pt = @ \ {n}, !.ptFree = @ - 1]
  BY DEF TakePt, n
<1> QED
  BY <1>1, <1>3, <1>4 DEF MType, Machines, Counted, n

(* The same for a frame of the user region.                                 *)
LEMMA TakeUserIs ==
  ASSUME NEW s, MType(s), s.user # {}
  PROVE  LET r == TakeUser(s) n == Min(s.user) IN
         /\ MType(r) /\ n \in s.user /\ n \in UserFrames
         /\ r.user = s.user \ {n} /\ r.mem = s.mem /\ r.at = s.at /\ r.pt = s.pt
         /\ Cardinality(r.user) = Cardinality(s.user) - 1
<1> DEFINE n == Min(s.user)
<1>1. s.user \subseteq UserFrames /\ n \in s.user
  BY MinIs, FramesAssumption DEF MType, Machines
<1>2. IsFiniteSet(s.user)
  BY <1>1, FS_Subset, FramesAssumption
<1>3. /\ Cardinality(s.user \ {n}) = Cardinality(s.user) - 1
      /\ Cardinality(s.user) \in Nat /\ Cardinality(s.user \ {n}) \in Nat
  BY <1>1, <1>2, FS_RemoveElement, FS_CardinalityType
<1> HIDE DEF n
<1>4. TakeUser(s) = [s EXCEPT !.user = @ \ {n}, !.userFree = @ - 1]
  BY DEF TakeUser, n
<1> QED
  BY <1>1, <1>3, <1>4 DEF MType, Machines, Counted, n

(* Writing an entry, clearing a table, moving on. *)
LEMMA PutIs ==
  ASSUME NEW s, MType(s), NEW t \in PtFrames, NEW i \in Index, NEW e \in Entries
  PROVE  LET r == Put(s, t, i, e) IN
         /\ MType(r) /\ r.pt = s.pt /\ r.user = s.user /\ r.at = s.at
         /\ r.mem[t][i] = e
         /\ \A x \in PtFrames, j \in Index : <<x, j>> # <<t, i>> => r.mem[x][j] = s.mem[x][j]
  BY DEF Put, MType, Machines, Counted

(* A table that is cleared, by either name.                                 *)
LEMMA ResetIs ==
  ASSUME NEW s, MType(s), NEW t \in PtFrames
  PROVE  LET r == Reset(s, t) IN
         /\ MType(r) /\ r.pt = s.pt /\ r.user = s.user /\ r.at = s.at
         /\ \A j \in Index : r.mem[t][j] = NoEntry
         /\ \A x \in PtFrames \ {t}, j \in Index : r.mem[x][j] = s.mem[x][j]
         /\ Clean(s, t) = r
  BY DEF Reset, Clean, MType, Machines, Counted, Entries, NoEntry

(* To go to another table changes nothing else.                             *)
LEMMA AtIs ==
  ASSUME NEW s, MType(s), NEW t \in {0} \cup PtFrames
  PROVE  LET r == [s EXCEPT !.at = t] IN
         /\ MType(r) /\ r.pt = s.pt /\ r.user = s.user /\ r.mem = s.mem /\ r.at = t
  BY DEF MType, Machines, Counted

-----------------------------------------------------------------------------
(* One level of a path: from the table s.at over its entry i to the table   *)
(* r.at, which is found there or is new.                                    *)
Goes(s, r, i, w, grant, clean) ==
    LET t == s.at
        e == s.mem[t][i]
        d == r.mem[t][i]
    IN  /\ MType(r) /\ r.user = s.user
        /\ d.p /\ d.u /\ d.f = r.at /\ r.at \in PtFrames
        /\ e.p =>
             /\ r.at = e.f /\ r.pt = s.pt
             /\ (e.w \/ grant) => d.w
             /\ \A x \in PtFrames, j \in Index : <<x, j>> # <<t, i>> => r.mem[x][j] = s.mem[x][j]
        /\ ~e.p =>
             /\ r.at \in s.pt /\ r.pt = s.pt \ {r.at}
             /\ Cardinality(r.pt) = Cardinality(s.pt) - 1
             /\ w => d.w
             /\ \A x \in PtFrames \ {r.at}, j \in Index :
                   <<x, j>> # <<t, i>> => r.mem[x][j] = s.mem[x][j]
             /\ \A j \in Index : r.mem[r.at][j] = IF clean THEN NoEntry ELSE s.mem[r.at][j]

(* A present entry is followed. *)
LEMMA FollowGoes ==
  ASSUME NEW s, MType(s), s.at \in PtFrames, NEW i \in Index,
         s.mem[s.at][i].p, NEW d \in Entries,
         d.p, d.u, d.f = s.mem[s.at][i].f, d.f \in PtFrames, NEW w, NEW grant, NEW clean,
         s.mem[s.at][i].w \/ grant => d.w
  PROVE  Goes(s, [Put(s, s.at, i, d) EXCEPT !.at = s.mem[s.at][i].f], i, w, grant, clean)
<1> DEFINE t == s.at
           f == s.mem[t][i].f
           r1 == Put(s, t, i, d)
           r == [r1 EXCEPT !.at = f]
<1>1. /\ MType(r1) /\ r1.pt = s.pt /\ r1.user = s.user
      /\ r1.mem[t][i] = d
      /\ \A x \in PtFrames, j \in Index : <<x, j>> # <<t, i>> => r1.mem[x][j] = s.mem[x][j]
  BY PutIs
<1>2. f \in {0} \cup PtFrames
  OBVIOUS
<1> HIDE DEF r1
<1>3. MType(r) /\ r.pt = r1.pt /\ r.user = r1.user /\ r.mem = r1.mem /\ r.at = f
  BY <1>1, <1>2, AtIs
<1> HIDE DEF r
<1>4. Goes(s, r, i, w, grant, clean)
  BY <1>1, <1>3 DEF Goes
<1> QED
  BY <1>4 DEF r, r1

(* An absent entry gets a new table, which is cleared.  `cleared` may be    *)
(* the current table instead: then that must be empty already.              *)
LEMMA NewGoes ==
  ASSUME NEW s, MType(s), s.at \in PtFrames \ s.pt, NEW i \in Index, s.pt # {},
         ~s.mem[s.at][i].p, NEW w \in BOOLEAN, NEW grant, NEW clean \in BOOLEAN,
         NEW cleared,
         IF clean THEN cleared = Min(s.pt)
                  ELSE cleared = s.at /\ \A j \in Index : s.mem[s.at][j] = NoEntry
  PROVE  LET new == Min(s.pt) IN
         Goes(s, [Put(Reset(TakePt(s), cleared), s.at, i, Entry(new, w)) EXCEPT !.at = new],
              i, w, grant, clean)
<1> DEFINE t == s.at
           new == Min(s.pt)
           r1 == TakePt(s)
           r2 == Reset(r1, cleared)
           e == Entry(new, w)
           r3 == Put(r2, t, i, e)
           r == [r3 EXCEPT !.at = new]
<1>1. /\ MType(r1) /\ new \in s.pt /\ new \in PtFrames
      /\ r1.pt = s.pt \ {new} /\ r1.mem = s.mem /\ r1.at = s.at /\ r1.user = s.user
      /\ Cardinality(r1.pt) = Cardinality(s.pt) - 1
  BY TakePtIs
<1>2. cleared \in PtFrames /\ t \in PtFrames /\ t # new
  BY <1>1
<1> HIDE DEF r1, new
<1>3. /\ MType(r2) /\ r2.pt = r1.pt /\ r2.user = r1.user
      /\ \A j \in Index : r2.mem[cleared][j] = NoEntry
      /\ \A x \in PtFrames \ {cleared}, j \in Index : r2.mem[x][j] = r1.mem[x][j]
  BY <1>1, <1>2, ResetIs, ZenonT(60)
<1>4. e \in Entries /\ e.p /\ e.u /\ e.f = new /\ e.w = w
  BY <1>1, EntryFields
<1> HIDE DEF r2, e
<1>5. /\ MType(r3) /\ r3.pt = r2.pt /\ r3.user = r2.user
      /\ r3.mem[t][i] = e
      /\ \A x \in PtFrames, j \in Index : <<x, j>> # <<t, i>> => r3.mem[x][j] = r2.mem[x][j]
  BY <1>2, <1>3, <1>4, PutIs
<1> HIDE DEF r3
<1>6. MType(r) /\ r.pt = r3.pt /\ r.user = r3.user /\ r.mem = r3.mem /\ r.at = new
  BY <1>1, <1>5, AtIs
<1> HIDE DEF r
<1>7. \A x \in PtFrames \ {new}, j \in Index :
          <<x, j>> # <<t, i>> => r.mem[x][j] = s.mem[x][j]
  BY <1>1, <1>3, <1>5, <1>6 DEF new
<1>8. \A j \in Index : r.mem[new][j] = IF clean THEN NoEntry ELSE s.mem[new][j]
  BY <1>1, <1>2, <1>3, <1>5, <1>6 DEF new
<1>9. Goes(s, r, i, w, grant, clean)
  BY <1>1, <1>2, <1>3, <1>4, <1>5, <1>6, <1>7, <1>8 DEF Goes
<1> QED
  BY <1>9 DEF r, r3, r2, r1, new, e

(* One level of the stack's or the data's path in context_mm.c.             *)
LEMMA LevelGoes ==
  ASSUME NEW s, MType(s), s.at \in PtFrames \ s.pt, NEW i \in Index, s.pt # {},
         s.mem[s.at][i].p => s.mem[s.at][i].u /\ s.mem[s.at][i].f \in PtFrames,
         NEW w \in BOOLEAN, NEW grant \in BOOLEAN
  PROVE  Goes(s, Level(s, i, w, grant), i, w, grant, TRUE)
<1> DEFINE e == s.mem[s.at][i]
           d == [e EXCEPT !.w = @ \/ grant]
<1>1. e \in Entries
  BY DEF MType, Machines
<1>2. CASE e.p
  <2>1. d \in Entries /\ d.p /\ d.u /\ d.f = e.f /\ (e.w \/ grant => d.w)
    BY <1>1, <1>2 DEF Entries
  <2>2. Level(s, i, w, grant) = [Put(s, s.at, i, d) EXCEPT !.at = e.f]
    BY <1>2 DEF Level
  <2> HIDE DEF d
  <2>3. Goes(s, [Put(s, s.at, i, d) EXCEPT !.at = s.mem[s.at][i].f], i, w, grant, TRUE)
    BY <1>2, <2>1, FollowGoes
  <2> QED
    BY <2>2, <2>3
<1>3. CASE ~e.p
  <2>1. PICK yes \in BOOLEAN : yes = TRUE
    OBVIOUS
  <2>2. Level(s, i, w, grant)
          = [Put(Reset(TakePt(s), Min(s.pt)), s.at, i, Entry(Min(s.pt), w)) EXCEPT !.at = Min(s.pt)]
    BY <1>3 DEF Level
  <2>3. Goes(s, [Put(Reset(TakePt(s), Min(s.pt)), s.at, i, Entry(Min(s.pt), w)) EXCEPT !.at = Min(s.pt)],
             i, w, grant, yes)
    BY <1>3, <2>1, NewGoes
  <2> QED
    BY <2>1, <2>2, <2>3
<1> QED
  BY <1>2, <1>3

(* One level of a path in actual.c.                                         *)
LEMMA StepGoes ==
  ASSUME NEW s, MType(s), s.at \in PtFrames \ s.pt, NEW i \in Index, s.pt # {},
         s.mem[s.at][i].p => s.mem[s.at][i].u /\ s.mem[s.at][i].f \in PtFrames,
         NEW w \in BOOLEAN
  PROVE  Goes(s, Step(s, i, w), i, w, w, TRUE)
<1> DEFINE e == s.mem[s.at][i]
           d == IF w THEN Entry(e.f, TRUE) ELSE e
<1>1. e \in Entries
  BY DEF MType, Machines
<1>2. CASE e.p
  <2>1. d \in Entries /\ d.p /\ d.u /\ d.f = e.f /\ (e.w \/ w => d.w)
    <3>1. CASE w
      BY <1>2, <3>1, EntryFields
    <3>2. CASE ~w
      BY <1>1, <1>2, <3>2
    <3> QED
      BY <3>1, <3>2
  <2>2. Step(s, i, w) = [Put(s, s.at, i, d) EXCEPT !.at = e.f]
    BY <1>2 DEF Step
  <2> HIDE DEF d
  <2>3. Goes(s, [Put(s, s.at, i, d) EXCEPT !.at = s.mem[s.at][i].f], i, w, w, TRUE)
    BY <1>2, <2>1, FollowGoes
  <2> QED
    BY <2>2, <2>3
<1>3. CASE ~e.p
  <2>1. PICK yes \in BOOLEAN : yes = TRUE
    OBVIOUS
  <2>2. Step(s, i, w)
          = [Put(Reset(TakePt(s), Min(s.pt)), s.at, i, Entry(Min(s.pt), w)) EXCEPT !.at = Min(s.pt)]
    BY <1>3 DEF Step, Reset, Clean
  <2>3. Goes(s, [Put(Reset(TakePt(s), Min(s.pt)), s.at, i, Entry(Min(s.pt), w)) EXCEPT !.at = Min(s.pt)],
             i, w, w, yes)
    BY <1>3, <2>1, NewGoes
  <2> QED
    BY <2>1, <2>2, <2>3
<1> QED
  BY <1>2, <1>3

(* The code's path: nothing is there yet. *)
LEMMA CodeLevelGoes ==
  ASSUME NEW s, MType(s), s.at \in PtFrames \ s.pt, NEW i \in Index, s.pt # {},
         ~s.mem[s.at][i].p, NEW clean \in BOOLEAN, NEW cleared,
         IF clean THEN cleared = Min(s.pt)
                  ELSE cleared = s.at /\ \A j \in Index : s.mem[s.at][j] = NoEntry
  PROVE  \E w \in BOOLEAN : w = FALSE /\ Goes(s, CodeLevel(s, cleared, i), i, w, w, clean)
<1>1. PICK w \in BOOLEAN : w = FALSE
  OBVIOUS
<1>2. CodeLevel(s, cleared, i)
        = [Put(Reset(TakePt(s), cleared), s.at, i, Entry(Min(s.pt), w)) EXCEPT !.at = Min(s.pt)]
  BY <1>1 DEF CodeLevel, Writable
<1>3. Goes(s, [Put(Reset(TakePt(s), cleared), s.at, i, Entry(Min(s.pt), w)) EXCEPT !.at = Min(s.pt)],
           i, w, w, clean)
  BY NewGoes
<1> QED
  BY <1>1, <1>2, <1>3
-----------------------------------------------------------------------------
(* A user can go from table t over its entry i. *)
Edge(m, t, i) == m[t][i].p /\ m[t][i].u

(* The tables form a tree: lev is the level of each table, 0 for a frame    *)
(* that is none, an edge leads one level down, no two edges of the levels   *)
(* above the last lead to one frame, and all edges are among C.             *)
Shape(m, lev, C) ==
    /\ m \in [PtFrames -> [Index -> Entries]]
    /\ lev \in [PtFrames -> 0..4]
    /\ \A t \in PtFrames, i \in Index : lev[t] >= 1 /\ Edge(m, t, i) => <<t, i>> \in C
    /\ \A t \in PtFrames, i \in Index : lev[t] >= 2 /\ Edge(m, t, i) =>
          m[t][i].f \in PtFrames /\ lev[m[t][i].f] = lev[t] - 1
    /\ \A t, v \in PtFrames, i, j \in Index :
          lev[t] >= 2 /\ lev[v] >= 2 /\ Edge(m, t, i) /\ Edge(m, v, j) /\ m[t][i].f = m[v][j].f
             => t = v /\ i = j

(* While they are built, their frames are the ones that are taken, and what *)
(* is not an edge is empty.                                                 *)
Building(s, lev, C) ==
    /\ MType(s) /\ Shape(s.mem, lev, C)
    /\ \A t \in PtFrames : lev[t] = 0 <=> t \in s.pt
    /\ \A t \in PtFrames, i \in Index :
          lev[t] >= 1 /\ ~Edge(s.mem, t, i) => s.mem[t][i] = NoEntry

(* What later steps leave of the tables. *)
Keeps(m, lev, n, lev2) ==
    /\ \A t \in PtFrames : lev[t] >= 1 => lev2[t] = lev[t]
    /\ \A t \in PtFrames, i \in Index : lev[t] >= 2 /\ Edge(m, t, i) =>
          Edge(n, t, i) /\ n[t][i].f = m[t][i].f /\ (m[t][i].w => n[t][i].w)

KeepsLeaves(m, lev, n) ==
    \A t \in PtFrames, i \in Index : lev[t] = 1 => n[t][i] = m[t][i]

(* What a frame holds that becomes a level-1 table without being cleared.   *)
Harmless(m, n, C) ==
    \A j \in Index : /\ Edge(m, n, j) => <<n, j>> \in C
                     /\ ~Edge(m, n, j) => m[n][j] = NoEntry

(* An empty entry leads nowhere.                                            *)
LEMMA NoEdge ==
  ASSUME NEW m, NEW t, NEW i, m[t][i] = NoEntry
  PROVE  ~Edge(m, t, i)
  BY DEF NoEntry, Edge

(* Going down one level keeps the tree. *)
LEMMA GoesBuilds ==
  ASSUME NEW s, NEW r, NEW lev, NEW C, Building(s, lev, C),
         s.at \in PtFrames, lev[s.at] >= 2, NEW i \in Index,
         NEW w, NEW grant, NEW clean, Goes(s, r, i, w, grant, clean),
         clean \/ (lev[s.at] = 2 /\ Harmless(s.mem, r.at, C))
  PROVE  \E lev2 :
           /\ Building(r, lev2, C \cup {<<s.at, i>>})
           /\ lev2[r.at] = lev[s.at] - 1 /\ Edge(r.mem, s.at, i) /\ r.mem[s.at][i].f = r.at
           /\ Keeps(s.mem, lev, r.mem, lev2) /\ KeepsLeaves(s.mem, lev, r.mem)
           /\ r.pt = s.pt \ {r.at} /\ r.at \in PtFrames
           /\ lev[r.at] >= 1 \/ (r.at \in s.pt /\ Cardinality(r.pt) = Cardinality(s.pt) - 1)
<1> DEFINE t == s.at
           n == r.at
           l == lev[s.at] - 1
           lev2 == [lev EXCEPT ![n] = l]
           D == C \cup {<<t, i>>}
<1>1. /\ MType(s) /\ Shape(s.mem, lev, C) /\ lev \in [PtFrames -> 0..4]
      /\ s.mem \in [PtFrames -> [Index -> Entries]]
      /\ t \in PtFrames /\ lev[t] \in 2..4 /\ l \in 1..3
      /\ \A x \in PtFrames : lev[x] = 0 <=> x \in s.pt
      /\ \A x \in PtFrames, j \in Index :
            lev[x] >= 1 /\ ~Edge(s.mem, x, j) => s.mem[x][j] = NoEntry
  BY DEF Building, Shape
<1>2. /\ MType(r) /\ r.mem \in [PtFrames -> [Index -> Entries]]
      /\ n \in PtFrames /\ Edge(r.mem, t, i) /\ r.mem[t][i].f = n
  BY DEF Goes, MType, Machines, Edge
<1>3. lev2 \in [PtFrames -> 0..4] /\ lev2[n] = l
      /\ \A x \in PtFrames \ {n} : lev2[x] = lev[x]
  BY <1>1, <1>2
<1>4. CASE s.mem[t][i].p
  <2>1. /\ n = s.mem[t][i].f /\ r.pt = s.pt
        /\ s.mem[t][i].w => r.mem[t][i].w
        /\ \A x \in PtFrames, j \in Index : <<x, j>> # <<t, i>> => r.mem[x][j] = s.mem[x][j]
    BY <1>4 DEF Goes
  <2>2. Edge(s.mem, t, i)
    BY <1>1, <1>4 DEF NoEntry
  <2>3. lev[n] = l /\ lev2 = lev
    <3>1. \A x \in PtFrames, j \in Index : lev[x] >= 2 /\ Edge(s.mem, x, j) =>
             lev[s.mem[x][j].f] = lev[x] - 1
      BY <1>1 DEF Shape
    <3>2. lev[n] = l
      BY <1>1, <2>1, <2>2, <3>1
    <3> QED
      BY <1>1, <1>2, <3>2
  <2>4. \A x \in PtFrames, j \in Index :
           /\ Edge(r.mem, x, j) <=> Edge(s.mem, x, j)
           /\ Edge(s.mem, x, j) => r.mem[x][j].f = s.mem[x][j].f
           /\ s.mem[x][j].w => r.mem[x][j].w
           /\ ~Edge(s.mem, x, j) => r.mem[x][j] = s.mem[x][j]
    BY <1>2, <2>1, <2>2 DEF Edge
  <2>5. Shape(r.mem, lev, D)
    <3> HIDE DEF l, n, t
    <3>1. \A x \in PtFrames, j \in Index : lev[x] >= 1 /\ Edge(r.mem, x, j) => <<x, j>> \in D
      BY <1>1, <2>4 DEF Shape
    <3>2. \A x \in PtFrames, j \in Index : lev[x] >= 2 /\ Edge(r.mem, x, j) =>
             r.mem[x][j].f \in PtFrames /\ lev[r.mem[x][j].f] = lev[x] - 1
      BY <1>1, <2>4 DEF Shape
    <3>3. \A x, v \in PtFrames, j, k \in Index :
             lev[x] >= 2 /\ lev[v] >= 2 /\ Edge(r.mem, x, j) /\ Edge(r.mem, v, k)
                /\ r.mem[x][j].f = r.mem[v][k].f => x = v /\ j = k
      BY <1>1, <2>4 DEF Shape
    <3> HIDE DEF D
    <3> QED
      BY <1>1, <1>2, <3>1, <3>2, <3>3 DEF Shape
  <2>6. Building(r, lev, D)
    BY <1>1, <1>2, <2>1, <2>4, <2>5 DEF Building
  <2>7. Keeps(s.mem, lev, r.mem, lev) /\ KeepsLeaves(s.mem, lev, r.mem)
    BY <1>1, <2>1, <2>4 DEF Keeps, KeepsLeaves
  <2>8. r.pt = s.pt \ {n} /\ lev[n] >= 1
    BY <1>1, <1>2, <2>1, <2>3
  <2> QED
    BY <1>2, <2>3, <2>6, <2>7, <2>8
<1>5. CASE ~s.mem[t][i].p
  <2>1. /\ n \in s.pt /\ r.pt = s.pt \ {n}
        /\ Cardinality(r.pt) = Cardinality(s.pt) - 1
        /\ \A x \in PtFrames \ {n}, j \in Index : <<x, j>> # <<t, i>> => r.mem[x][j] = s.mem[x][j]
        /\ \A j \in Index : r.mem[n][j] = IF clean THEN NoEntry ELSE s.mem[n][j]
    BY <1>5 DEF Goes
  <2>2. lev[n] = 0 /\ n # t
    BY <1>1, <1>2, <2>1
  <2>3. ~Edge(s.mem, t, i)
    BY <1>5 DEF Edge
  <2>4. \A x \in PtFrames, j \in Index : lev[x] >= 1 /\ <<x, j>> # <<t, i>> =>
           r.mem[x][j] = s.mem[x][j] /\ (Edge(r.mem, x, j) <=> Edge(s.mem, x, j))
    BY <2>1, <2>2 DEF Edge
  <2>5. \A j \in Index : /\ Edge(r.mem, n, j) => <<n, j>> \in C /\ ~clean
                         /\ ~Edge(r.mem, n, j) => r.mem[n][j] = NoEntry
    BY <1>2, <2>1, NoEdge DEF Harmless, Edge
  <2>6. lev2[n] >= 2 => clean
    BY <1>1, <1>3
  <2>7. \A x \in PtFrames, j \in Index : lev2[x] >= 2 /\ Edge(r.mem, x, j) =>
           \/ x = t /\ j = i
           \/ lev[x] >= 2 /\ lev2[x] = lev[x] /\ Edge(s.mem, x, j) /\ r.mem[x][j].f = s.mem[x][j].f
    <3> TAKE x \in PtFrames, j \in Index
    <3> HAVE lev2[x] >= 2 /\ Edge(r.mem, x, j)
    <3>1. x # n
      BY <2>5, <2>6
    <3> QED
      BY <1>3, <2>4, <3>1
  <2>8. \A x \in PtFrames, j \in Index : lev[x] >= 2 /\ Edge(s.mem, x, j) =>
           s.mem[x][j].f \in PtFrames /\ lev[s.mem[x][j].f] = lev[x] - 1 /\ s.mem[x][j].f # n
    <3> TAKE x \in PtFrames, j \in Index
    <3> HAVE lev[x] >= 2 /\ Edge(s.mem, x, j)
    <3>1. s.mem[x][j].f \in PtFrames /\ lev[s.mem[x][j].f] = lev[x] - 1
      BY <1>1 DEF Shape
    <3>2. lev[x] \in 0..4
      BY <1>1
    <3>3. lev[s.mem[x][j].f] # 0
      BY <3>1, <3>2
    <3> QED
      BY <2>2, <3>1, <3>3
  <2>9. Shape(r.mem, lev2, D)
    <3>1. \A x \in PtFrames, j \in Index : lev2[x] >= 1 /\ Edge(r.mem, x, j) => <<x, j>> \in D
      <4> TAKE x \in PtFrames, j \in Index
      <4> HAVE lev2[x] >= 1 /\ Edge(r.mem, x, j)
      <4>1. CASE x = n
        BY <4>1, <2>5
      <4>2. CASE x # n /\ <<x, j>> # <<t, i>>
        <5>1. lev[x] >= 1 /\ Edge(s.mem, x, j)
          BY <4>2, <1>3, <2>4
        <5> QED
          BY <5>1, <1>1 DEF Shape
      <4>3. CASE <<x, j>> = <<t, i>>
        BY <4>3
      <4> QED
        BY <4>1, <4>2, <4>3
    <3>2. \A x \in PtFrames, j \in Index : lev2[x] >= 2 /\ Edge(r.mem, x, j) =>
             r.mem[x][j].f \in PtFrames /\ lev2[r.mem[x][j].f] = lev2[x] - 1
      <4> TAKE x \in PtFrames, j \in Index
      <4> HAVE lev2[x] >= 2 /\ Edge(r.mem, x, j)
      <4>1. CASE x = t /\ j = i
        BY <4>1, <1>2, <1>3, <2>2
      <4>2. CASE ~(x = t /\ j = i)
        <5>1. lev[x] >= 2 /\ lev2[x] = lev[x] /\ Edge(s.mem, x, j) /\ r.mem[x][j].f = s.mem[x][j].f
          BY <4>2, <2>7
        <5> QED
          BY <5>1, <1>3, <2>8
      <4> QED
        BY <4>1, <4>2
    <3>3. \A x, v \in PtFrames, j, k \in Index :
             lev2[x] >= 2 /\ lev2[v] >= 2 /\ Edge(r.mem, x, j) /\ Edge(r.mem, v, k)
                /\ r.mem[x][j].f = r.mem[v][k].f => x = v /\ j = k
      <4> TAKE x, v \in PtFrames, j, k \in Index
      <4> HAVE lev2[x] >= 2 /\ lev2[v] >= 2 /\ Edge(r.mem, x, j) /\ Edge(r.mem, v, k)
                /\ r.mem[x][j].f = r.mem[v][k].f
      <4> HIDE DEF n, t, l, lev2, D
      <4>1. \/ x = t /\ j = i
            \/ lev[x] >= 2 /\ Edge(s.mem, x, j) /\ r.mem[x][j].f = s.mem[x][j].f
        BY <2>7
      <4>2. \/ v = t /\ k = i
            \/ lev[v] >= 2 /\ Edge(s.mem, v, k) /\ r.mem[v][k].f = s.mem[v][k].f
        BY <2>7
      <4>3. ~(x = t /\ j = i) /\ v = t /\ k = i => FALSE
        BY <4>1, <2>8, <1>2
      <4>4. ~(v = t /\ k = i) /\ x = t /\ j = i => FALSE
        BY <4>2, <2>8, <1>2
      <4>5. ~(x = t /\ j = i) /\ ~(v = t /\ k = i) => x = v /\ j = k
        BY <4>1, <4>2, <1>1 DEF Shape
      <4> QED
        BY <4>3, <4>4, <4>5
    <3> HIDE DEF lev2, D
    <3> QED
      BY <1>2, <1>3, <3>1, <3>2, <3>3 DEF Shape
  <2>10. \A x \in PtFrames : lev2[x] = 0 <=> x \in r.pt
    BY <1>1, <1>3, <2>1
  <2>11. \A x \in PtFrames, j \in Index :
            lev2[x] >= 1 /\ ~Edge(r.mem, x, j) => r.mem[x][j] = NoEntry
    <3> TAKE x \in PtFrames, j \in Index
    <3> HAVE lev2[x] >= 1 /\ ~Edge(r.mem, x, j)
    <3>1. CASE x = n
      BY <3>1, <2>5
    <3>2. CASE x # n
      <4>1. lev[x] >= 1 /\ <<x, j>> # <<t, i>>
        BY <3>2, <1>2, <1>3
      <4> QED
        BY <4>1, <1>1, <2>4
    <3> QED
      BY <3>1, <3>2
  <2> HIDE DEF lev2, D
  <2>12. Building(r, lev2, D)
    BY <1>2, <2>9, <2>10, <2>11 DEF Building
  <2>13. Keeps(s.mem, lev, r.mem, lev2)
    <3>1. \A x \in PtFrames : lev[x] >= 1 => lev2[x] = lev[x]
      BY <1>3, <2>2
    <3>2. \A x \in PtFrames, j \in Index : lev[x] >= 2 /\ Edge(s.mem, x, j) =>
              Edge(r.mem, x, j) /\ r.mem[x][j] = s.mem[x][j]
      BY <1>1, <2>3, <2>4
    <3> QED
      BY <3>1, <3>2 DEF Keeps
  <2>14. KeepsLeaves(s.mem, lev, r.mem)
    BY <1>1, <2>4 DEF KeepsLeaves
  <2> QED
    BY <1>2, <1>3, <2>1, <2>12, <2>13, <2>14 DEF D
<1> QED
  BY <1>4, <1>5

(* What going down one level gives. *)
Builds(s, lev, C, r, lev2, i) ==
    /\ Building(r, lev2, C \cup {<<s.at, i>>})
    /\ r.at \in PtFrames /\ lev2[r.at] = lev[s.at] - 1
    /\ Edge(r.mem, s.at, i) /\ r.mem[s.at][i].f = r.at
    /\ Keeps(s.mem, lev, r.mem, lev2) /\ KeepsLeaves(s.mem, lev, r.mem)
    /\ r.pt = s.pt \ {r.at} /\ r.user = s.user
    /\ Cardinality(r.pt) >= Cardinality(s.pt) - 1

(* A region with a frame left is not empty.                                 *)
LEMMA CardinalityPt ==
  ASSUME NEW s, MType(s)
  PROVE  /\ Cardinality(s.pt) \in Nat /\ (Cardinality(s.pt) >= 1 => s.pt # {})
         /\ Cardinality(s.user) \in Nat /\ (Cardinality(s.user) >= 1 => s.user # {})
<1>1. IsFiniteSet(s.pt) /\ IsFiniteSet(s.user)
  BY FS_Subset, FramesAssumption DEF MType, Machines
<1> QED
  BY <1>1, FS_CardinalityType, FS_EmptySet

(* A level gone down is a step of the building.                             *)
LEMMA GoesIsBuilds ==
  ASSUME NEW s, NEW r, NEW lev, NEW C, Building(s, lev, C),
         s.at \in PtFrames, lev[s.at] >= 2, NEW i \in Index,
         NEW w, NEW grant, NEW clean, Goes(s, r, i, w, grant, clean),
         clean \/ (lev[s.at] = 2 /\ Harmless(s.mem, r.at, C))
  PROVE  \E lev2 : Builds(s, lev, C, r, lev2, i)
<1>1. PICK lev2 :
           /\ Building(r, lev2, C \cup {<<s.at, i>>})
           /\ lev2[r.at] = lev[s.at] - 1 /\ Edge(r.mem, s.at, i) /\ r.mem[s.at][i].f = r.at
           /\ Keeps(s.mem, lev, r.mem, lev2) /\ KeepsLeaves(s.mem, lev, r.mem)
           /\ r.pt = s.pt \ {r.at} /\ r.at \in PtFrames
           /\ lev[r.at] >= 1 \/ (r.at \in s.pt /\ Cardinality(r.pt) = Cardinality(s.pt) - 1)
  BY GoesBuilds
<1>2. Cardinality(r.pt) >= Cardinality(s.pt) - 1
  <2>1. Cardinality(s.pt) \in Nat
    BY CardinalityPt DEF Building
  <2>2. CASE lev[r.at] >= 1
    <3>1. r.at \notin s.pt
      BY <1>1, <2>2 DEF Building
    <3>2. r.pt = s.pt
      BY <1>1, <3>1
    <3> QED
      BY <2>1, <3>2
  <2> QED
    BY <1>1, <2>1, <2>2
<1>3. r.user = s.user
  BY DEF Goes
<1> QED
  BY <1>1, <1>2, <1>3 DEF Builds

(* What the next level needs. *)
LEMMA BuildingReady ==
  ASSUME NEW s, NEW lev, NEW C, Building(s, lev, C),
         s.at \in PtFrames, lev[s.at] >= 2, NEW i \in Index
  PROVE  /\ MType(s) /\ s.at \in PtFrames \ s.pt
         /\ s.mem[s.at][i].p => s.mem[s.at][i].u /\ s.mem[s.at][i].f \in PtFrames
<1>1. lev \in [PtFrames -> 0..4]
  BY DEF Building, Shape
<1>2. s.at \notin s.pt
  BY <1>1 DEF Building
<1>3. s.mem[s.at][i].p => Edge(s.mem, s.at, i)
  BY <1>1 DEF Building, NoEntry
<1>4. Edge(s.mem, s.at, i) => s.mem[s.at][i].u /\ s.mem[s.at][i].f \in PtFrames
  BY DEF Building, Shape, Edge
<1> QED
  BY <1>2, <1>3, <1>4 DEF Building

(* One level of the stack or the data builds, with the flags granted.       *)
LEMMA LevelBuilds ==
  ASSUME NEW s, NEW lev, NEW C, Building(s, lev, C), Cardinality(s.pt) >= 1,
         s.at \in PtFrames, lev[s.at] >= 2, NEW i \in Index,
         NEW w \in BOOLEAN, NEW grant \in BOOLEAN
  PROVE  LET r == Level(s, i, w, grant) IN
         /\ \E lev2 : Builds(s, lev, C, r, lev2, i)
         /\ w /\ grant => r.mem[s.at][i].w
         /\ w /\ ~s.mem[s.at][i].p => r.mem[s.at][i].w
         /\ s.mem[s.at][i].p /\ s.mem[s.at][i].w => r.mem[s.at][i].w
<1> DEFINE r == Level(s, i, w, grant)
<1>1. s.pt # {}
  BY CardinalityPt DEF Building
<1>2. Goes(s, r, i, w, grant, TRUE)
  BY <1>1, BuildingReady, LevelGoes
<1> HIDE DEF r
<1>3. PICK yes \in BOOLEAN : yes = TRUE
  OBVIOUS
<1>4. Goes(s, r, i, w, grant, yes)
  BY <1>2, <1>3
<1>5. \E lev2 : Builds(s, lev, C, r, lev2, i)
  BY <1>3, <1>4, GoesIsBuilds
<1>6. w /\ grant => r.mem[s.at][i].w
  BY <1>4 DEF Goes
<1>7. w /\ ~s.mem[s.at][i].p => r.mem[s.at][i].w
  BY <1>4 DEF Goes
<1>8. s.mem[s.at][i].p /\ s.mem[s.at][i].w => r.mem[s.at][i].w
  BY <1>4 DEF Goes
<1> QED
  BY <1>5, <1>6, <1>7, <1>8 DEF r

(* One level of a path in actual.c builds.                                  *)
LEMMA StepBuilds ==
  ASSUME NEW s, NEW lev, NEW C, Building(s, lev, C), Cardinality(s.pt) >= 1,
         s.at \in PtFrames, lev[s.at] >= 2, NEW i \in Index, NEW w \in BOOLEAN
  PROVE  LET r == Step(s, i, w) IN
         /\ \E lev2 : Builds(s, lev, C, r, lev2, i)
         /\ w => r.mem[s.at][i].w
<1> DEFINE r == Step(s, i, w)
<1>1. s.pt # {}
  BY CardinalityPt DEF Building
<1>2. Goes(s, r, i, w, w, TRUE)
  BY <1>1, BuildingReady, StepGoes
<1> HIDE DEF r
<1>3. PICK yes \in BOOLEAN : yes = TRUE
  OBVIOUS
<1>4. Goes(s, r, i, w, w, yes)
  BY <1>2, <1>3
<1>5. \E lev2 : Builds(s, lev, C, r, lev2, i)
  BY <1>3, <1>4, GoesIsBuilds
<1>6. w => r.mem[s.at][i].w
  BY <1>4 DEF Goes
<1> QED
  BY <1>5, <1>6 DEF r

-----------------------------------------------------------------------------
(* The tables T on the way of an index path P. *)
Way(m, lev, P, T) ==
    /\ T \in [1..4 -> PtFrames]
    /\ lev[T[4]] = 4 /\ lev[T[3]] = 3 /\ lev[T[2]] = 2 /\ lev[T[1]] = 1
    /\ Edge(m, T[4], P[4]) /\ m[T[4]][P[4]].f = T[3]
    /\ Edge(m, T[3], P[3]) /\ m[T[3]][P[3]].f = T[2]
    /\ Edge(m, T[2], P[2]) /\ m[T[2]][P[2]].f = T[1]

(* Every entry on the way grants writing. *)
WayW(m, P, T) == m[T[4]][P[4]].w /\ m[T[3]][P[3]].w /\ m[T[2]][P[2]].w

Slots(P, T) == {<<T[4], P[4]>>, <<T[3], P[3]>>, <<T[2], P[2]>>}

(* Two ways share a table exactly where their indexes agree above it. *)
LEMMA WaysMeet ==
  ASSUME NEW m, NEW lev, NEW C, Shape(m, lev, C),
         NEW P \in [1..4 -> Index], NEW Q \in [1..4 -> Index], NEW T, NEW V,
         Way(m, lev, P, T), Way(m, lev, Q, V), T[4] = V[4]
  PROVE  /\ T[3] = V[3] <=> P[4] = Q[4]
         /\ T[2] = V[2] <=> P[4] = Q[4] /\ P[3] = Q[3]
         /\ T[1] = V[1] <=> P[4] = Q[4] /\ P[3] = Q[3] /\ P[2] = Q[2]
<1>1. T \in [1..4 -> PtFrames] /\ V \in [1..4 -> PtFrames]
  BY DEF Way
<1>2. /\ T[4] \in PtFrames /\ T[3] \in PtFrames /\ T[2] \in PtFrames
      /\ V[4] \in PtFrames /\ V[3] \in PtFrames /\ V[2] \in PtFrames
      /\ P[4] \in Index /\ P[3] \in Index /\ P[2] \in Index
      /\ Q[4] \in Index /\ Q[3] \in Index /\ Q[2] \in Index
  BY <1>1
<1>3. ASSUME NEW l \in {2, 3, 4},
             NEW t \in PtFrames, NEW v \in PtFrames, NEW i \in Index, NEW j \in Index,
             lev[t] = l, lev[v] = l, Edge(m, t, i), Edge(m, v, j)
      PROVE  m[t][i].f = m[v][j].f => t = v /\ i = j
  BY <1>3 DEF Shape
<1>4. T[3] = V[3] <=> P[4] = Q[4]
  BY <1>2, <1>3 DEF Way
<1>5. T[2] = V[2] <=> T[3] = V[3] /\ P[3] = Q[3]
  BY <1>2, <1>3 DEF Way
<1>6. T[1] = V[1] <=> T[2] = V[2] /\ P[2] = Q[2]
  BY <1>2, <1>3 DEF Way
<1> QED
  BY <1>4, <1>5, <1>6

(* Later building keeps a way and what may be written along it.             *)
LEMMA WayKept ==
  ASSUME NEW m, NEW n, NEW lev, NEW lev2, Keeps(m, lev, n, lev2),
         NEW P \in [1..4 -> Index], NEW T, Way(m, lev, P, T)
  PROVE  Way(n, lev2, P, T) /\ (WayW(m, P, T) => WayW(n, P, T))
<1>1. /\ T \in [1..4 -> PtFrames] /\ P[4] \in Index /\ P[3] \in Index /\ P[2] \in Index
      /\ T[4] \in PtFrames /\ T[3] \in PtFrames /\ T[2] \in PtFrames /\ T[1] \in PtFrames
  BY DEF Way
<1>2. lev2[T[4]] = 4 /\ lev2[T[3]] = 3 /\ lev2[T[2]] = 2 /\ lev2[T[1]] = 1
  BY <1>1 DEF Way, Keeps
<1>3. \A l \in {2, 3, 4} : /\ Edge(n, T[l], P[l]) /\ n[T[l]][P[l]].f = m[T[l]][P[l]].f
                           /\ m[T[l]][P[l]].w => n[T[l]][P[l]].w
  BY <1>1 DEF Way, Keeps
<1> QED
  BY <1>1, <1>2, <1>3 DEF Way, WayW

(* What two stretches of building keep, both together keep.                 *)
LEMMA KeepsTransitive ==
  ASSUME NEW m, NEW n, NEW o, NEW lev, NEW lev2, NEW lev3,
         lev \in [PtFrames -> 0..4],
         Keeps(m, lev, n, lev2), Keeps(n, lev2, o, lev3)
  PROVE  Keeps(m, lev, o, lev3)
<1>1. \A t \in PtFrames : lev[t] >= 1 => lev3[t] = lev[t] /\ lev2[t] = lev[t]
  BY DEF Keeps
<1>2. \A t \in PtFrames, i \in Index : lev[t] >= 2 /\ Edge(m, t, i) =>
          Edge(o, t, i) /\ o[t][i].f = m[t][i].f /\ (m[t][i].w => o[t][i].w)
  BY <1>1 DEF Keeps
<1> QED
  BY <1>1, <1>2 DEF Keeps

(* The same for the level-1 tables.                                         *)
LEMMA KeepsLeavesTransitive ==
  ASSUME NEW m, NEW n, NEW o, NEW lev, NEW lev2, lev \in [PtFrames -> 0..4],
         Keeps(m, lev, n, lev2), KeepsLeaves(m, lev, n), KeepsLeaves(n, lev2, o)
  PROVE  KeepsLeaves(m, lev, o)
<1>1. \A t \in PtFrames : lev[t] = 1 => lev2[t] = 1
  BY DEF Keeps
<1> QED
  BY <1>1 DEF KeepsLeaves

(* Three levels down: the tables of one segment. *)
Descended(s, lev, C, r, lev1, P, T) ==
    /\ Building(r, lev1, C \cup Slots(P, T))
    /\ Way(r.mem, lev1, P, T) /\ T[4] = s.at /\ r.at = T[1]
    /\ Keeps(s.mem, lev, r.mem, lev1) /\ KeepsLeaves(s.mem, lev, r.mem)
    /\ r.pt = s.pt \ {T[3], T[2], T[1]} /\ r.user = s.user
    /\ Cardinality(r.pt) >= Cardinality(s.pt) - 3

(* Three levels down from the root make the way of a segment.               *)
LEMMA Descends ==
  ASSUME NEW s, NEW lev, NEW C, Building(s, lev, C), s.at \in PtFrames, lev[s.at] = 4,
         NEW P \in [1..4 -> Index], NEW r3, NEW lev3, NEW r2, NEW lev2, NEW r1, NEW lev1,
         Builds(s, lev, C, r3, lev3, P[4]),
         Builds(r3, lev3, C \cup {<<s.at, P[4]>>}, r2, lev2, P[3]),
         Builds(r2, lev2, C \cup {<<s.at, P[4]>>} \cup {<<r3.at, P[3]>>}, r1, lev1, P[2])
  PROVE  LET T == <<r1.at, r2.at, r3.at, s.at>> IN
         /\ Descended(s, lev, C, r1, lev1, P, T)
         /\ /\ r3.mem[s.at][P[4]].w /\ r2.mem[r3.at][P[3]].w /\ r1.mem[r2.at][P[2]].w
            => WayW(r1.mem, P, T)
<1> DEFINE T == <<r1.at, r2.at, r3.at, s.at>>
<1>1. /\ lev \in [PtFrames -> 0..4] /\ lev3 \in [PtFrames -> 0..4] /\ lev2 \in [PtFrames -> 0..4]
      /\ MType(s) /\ MType(r3) /\ MType(r2) /\ MType(r1)
  BY DEF Builds, Building, Shape
<1>2. /\ r3.at \in PtFrames /\ r2.at \in PtFrames /\ r1.at \in PtFrames
      /\ lev3[r3.at] = 3 /\ lev2[r2.at] = 2 /\ lev1[r1.at] = 1
  BY DEF Builds
<1>3. /\ Keeps(s.mem, lev, r3.mem, lev3) /\ Keeps(r3.mem, lev3, r2.mem, lev2)
      /\ Keeps(r2.mem, lev2, r1.mem, lev1)
      /\ KeepsLeaves(s.mem, lev, r3.mem) /\ KeepsLeaves(r3.mem, lev3, r2.mem)
      /\ KeepsLeaves(r2.mem, lev2, r1.mem)
  BY DEF Builds
<1>4. Keeps(s.mem, lev, r2.mem, lev2) /\ Keeps(r3.mem, lev3, r1.mem, lev1)
  BY <1>1, <1>3, KeepsTransitive
<1>5. Keeps(s.mem, lev, r1.mem, lev1)
  BY <1>1, <1>3, <1>4, KeepsTransitive
<1>6. KeepsLeaves(s.mem, lev, r1.mem)
  <2>1. KeepsLeaves(s.mem, lev, r2.mem)
    BY <1>1, <1>3, KeepsLeavesTransitive
  <2> QED
    BY <1>1, <1>3, <1>4, <2>1, KeepsLeavesTransitive
<1>7. /\ Edge(r3.mem, s.at, P[4]) /\ r3.mem[s.at][P[4]].f = r3.at
      /\ Edge(r2.mem, r3.at, P[3]) /\ r2.mem[r3.at][P[3]].f = r2.at
      /\ Edge(r1.mem, r2.at, P[2]) /\ r1.mem[r2.at][P[2]].f = r1.at
  BY DEF Builds
<1>8. P[4] \in Index /\ P[3] \in Index /\ P[2] \in Index
  OBVIOUS
<1>9. lev3[s.at] = 4
  BY <1>3 DEF Keeps
<1>10. /\ Edge(r1.mem, s.at, P[4]) /\ r1.mem[s.at][P[4]].f = r3.at
       /\ r3.mem[s.at][P[4]].w => r1.mem[s.at][P[4]].w
       /\ lev1[s.at] = 4 /\ lev1[r3.at] = 3
  BY <1>2, <1>4, <1>7, <1>8, <1>9 DEF Keeps
<1>11. /\ Edge(r1.mem, r3.at, P[3]) /\ r1.mem[r3.at][P[3]].f = r2.at
       /\ r2.mem[r3.at][P[3]].w => r1.mem[r3.at][P[3]].w
       /\ lev1[r2.at] = 2
  <2>1. lev2[r3.at] = 3 /\ lev1[r2.at] = 2
    BY <1>2, <1>3 DEF Keeps
  <2>2. \A t \in PtFrames, i \in Index : lev2[t] >= 2 /\ Edge(r2.mem, t, i) =>
           Edge(r1.mem, t, i) /\ r1.mem[t][i].f = r2.mem[t][i].f
             /\ (r2.mem[t][i].w => r1.mem[t][i].w)
    BY <1>3 DEF Keeps
  <2> QED
    BY <2>1, <2>2, <1>2, <1>7, <1>8
<1>12. T \in [1..4 -> PtFrames] /\ T[1] = r1.at /\ T[2] = r2.at /\ T[3] = r3.at /\ T[4] = s.at
  BY <1>2
<1> HIDE DEF T
<1>13. Way(r1.mem, lev1, P, T)
  BY <1>2, <1>7, <1>10, <1>11, <1>12 DEF Way
<1>14. /\ r3.mem[s.at][P[4]].w /\ r2.mem[r3.at][P[3]].w /\ r1.mem[r2.at][P[2]].w
       => WayW(r1.mem, P, T)
  BY <1>10, <1>11, <1>12 DEF WayW
<1>15. Building(r1, lev1, C \cup Slots(P, T))
  <2>1. Building(r1, lev1, C \cup {<<s.at, P[4]>>} \cup {<<r3.at, P[3]>>} \cup {<<r2.at, P[2]>>})
    BY DEF Builds
  <2>2. C \cup {<<s.at, P[4]>>} \cup {<<r3.at, P[3]>>} \cup {<<r2.at, P[2]>>} = C \cup Slots(P, T)
    BY <1>12 DEF Slots
  <2> QED
    BY <2>1, <2>2
<1>16. r1.pt = s.pt \ {T[3], T[2], T[1]} /\ r1.user = s.user
  BY <1>12 DEF Builds
<1>17. Cardinality(r1.pt) >= Cardinality(s.pt) - 3
  <2>1. /\ Cardinality(s.pt) \in Nat /\ Cardinality(r3.pt) \in Nat
        /\ Cardinality(r2.pt) \in Nat /\ Cardinality(r1.pt) \in Nat
    BY <1>1, CardinalityPt
  <2>2. /\ Cardinality(r3.pt) >= Cardinality(s.pt) - 1
        /\ Cardinality(r2.pt) >= Cardinality(r3.pt) - 1
        /\ Cardinality(r1.pt) >= Cardinality(r2.pt) - 1
    BY DEF Builds
  <2> QED
    BY <2>1, <2>2
<1>18. Descended(s, lev, C, r1, lev1, P, T)
  BY <1>5, <1>6, <1>12, <1>13, <1>15, <1>16, <1>17 DEF Descended
<1> QED
  BY <1>14, <1>18 DEF T

-----------------------------------------------------------------------------
(* A segment is mapped: its tables are T, its page is frame f. *)
SegMapped(m, lev, g, seg, P, T, f) ==
    /\ Way(m, lev, P, T) /\ T[4] = g
    /\ m[T[1]][P[1]] = Entry(f, Writable(seg)) /\ f \in UserFrames
    /\ Writable(seg) => WayW(m, P, T)

AllSlots(P, T) == Slots(P, T) \cup {<<T[1], P[1]>>}

(* Mapping one more segment. *)
Adds(s, lev, C, r, lev2, g, seg, P, T, f) ==
    /\ Building(r, lev2, C \cup AllSlots(P, T))
    /\ SegMapped(r.mem, lev2, g, seg, P, T, f)
    /\ Keeps(s.mem, lev, r.mem, lev2)
    /\ \A t \in PtFrames, i \in Index :
          lev[t] = 1 /\ <<t, i>> # <<T[1], P[1]>> => r.mem[t][i] = s.mem[t][i]
    /\ r.pt = s.pt \ {T[3], T[2], T[1]} /\ Cardinality(r.pt) >= Cardinality(s.pt) - 3
    /\ r.user = s.user \ {f} /\ Cardinality(r.user) >= Cardinality(s.user) - 1

(* The entry of the page. *)
LEMMA LeafBuilds ==
  ASSUME NEW s, NEW lev, NEW C, Building(s, lev, C),
         NEW t \in PtFrames, lev[t] = 1, NEW i \in Index, NEW r, MType(r), r.pt = s.pt,
         NEW f \in UserFrames, NEW w \in BOOLEAN, r.mem[t][i] = Entry(f, w),
         \A x \in PtFrames, j \in Index : <<x, j>> # <<t, i>> => r.mem[x][j] = s.mem[x][j]
  PROVE  /\ Building(r, lev, C \cup {<<t, i>>})
         /\ Keeps(s.mem, lev, r.mem, lev)
<1> DEFINE D == C \cup {<<t, i>>}
           e == Entry(f, w)
<1>1. /\ lev \in [PtFrames -> 0..4] /\ Shape(s.mem, lev, C)
      /\ r.mem \in [PtFrames -> [Index -> Entries]]
      /\ \A x \in PtFrames : lev[x] = 0 <=> x \in s.pt
      /\ \A x \in PtFrames, j \in Index :
            lev[x] >= 1 /\ ~Edge(s.mem, x, j) => s.mem[x][j] = NoEntry
  BY DEF Building, Shape, MType, Machines
<1>2. e.p /\ e.u
  BY EntryFields
<1> HIDE DEF e
<1>3. Edge(r.mem, t, i)
  BY <1>2 DEF Edge, e
<1>4. \A x \in PtFrames, j \in Index : <<x, j>> # <<t, i>> =>
          r.mem[x][j] = s.mem[x][j] /\ (Edge(r.mem, x, j) <=> Edge(s.mem, x, j))
  BY DEF Edge
<1>5. \A x \in PtFrames, j \in Index : lev[x] >= 2 =>
          r.mem[x][j] = s.mem[x][j] /\ (Edge(r.mem, x, j) <=> Edge(s.mem, x, j))
  BY <1>4
<1>6. \A x \in PtFrames, j \in Index : lev[x] >= 1 /\ Edge(r.mem, x, j) => <<x, j>> \in D
  BY <1>1, <1>4 DEF Shape
<1>7. \A x \in PtFrames, j \in Index : lev[x] >= 2 /\ Edge(r.mem, x, j) =>
          r.mem[x][j].f \in PtFrames /\ lev[r.mem[x][j].f] = lev[x] - 1
  BY <1>1, <1>5 DEF Shape
<1>8. \A x, v \in PtFrames, j, k \in Index :
          lev[x] >= 2 /\ lev[v] >= 2 /\ Edge(r.mem, x, j) /\ Edge(r.mem, v, k)
             /\ r.mem[x][j].f = r.mem[v][k].f => x = v /\ j = k
  BY <1>1, <1>5 DEF Shape
<1> HIDE DEF D
<1>9. Shape(r.mem, lev, D)
  BY <1>1, <1>6, <1>7, <1>8 DEF Shape
<1>10. \A x \in PtFrames, j \in Index :
           lev[x] >= 1 /\ ~Edge(r.mem, x, j) => r.mem[x][j] = NoEntry
  BY <1>1, <1>3, <1>4
<1>11. Building(r, lev, D)
  BY <1>1, <1>9, <1>10 DEF Building
<1>12. Keeps(s.mem, lev, r.mem, lev)
  BY <1>5 DEF Keeps
<1> QED
  BY <1>11, <1>12 DEF D

(* The tables of a segment are there; its page is entered. *)
PageReady(s, lev, C, seg, P, l1, lev1, T) ==
    /\ Building(s, lev, C) /\ Descended(s, lev, C, l1, lev1, P, T)
    /\ Writable(seg) => WayW(l1.mem, P, T)

PagePut(l1, r, t, i, seg, f) ==
    /\ f \in UserFrames /\ MType(r) /\ r.pt = l1.pt
    /\ r.mem[t][i] = Entry(f, Writable(seg))
    /\ \A x \in PtFrames, j \in Index : <<x, j>> # <<t, i>> => r.mem[x][j] = l1.mem[x][j]
    /\ r.user = l1.user \ {f} /\ Cardinality(r.user) >= Cardinality(l1.user) - 1

(* A page put at the end of a way adds a segment.                           *)
LEMMA PageAdds ==
  ASSUME NEW s, NEW lev, NEW C, NEW seg \in Segs,
         NEW P \in [1..4 -> Index], NEW l1, NEW lev1, NEW T,
         PageReady(s, lev, C, seg, P, l1, lev1, T),
         NEW f, NEW r, PagePut(l1, r, l1.at, P[1], seg, f)
  PROVE  Adds(s, lev, C, r, lev1, s.at, seg, P, T, f)
<1> DEFINE t == l1.at
           i == P[1]
<1>0. /\ Building(s, lev, C) /\ Descended(s, lev, C, l1, lev1, P, T)
      /\ Writable(seg) => WayW(l1.mem, P, T)
  BY DEF PageReady
<1>p. /\ f \in UserFrames /\ MType(r) /\ r.pt = l1.pt /\ t = l1.at /\ i = P[1]
      /\ r.mem[t][i] = Entry(f, Writable(seg))
      /\ \A x \in PtFrames, j \in Index : <<x, j>> # <<t, i>> => r.mem[x][j] = l1.mem[x][j]
      /\ r.user = l1.user \ {f} /\ Cardinality(r.user) >= Cardinality(l1.user) - 1
  BY DEF PagePut
<1> HIDE DEF t, i
<1>1. /\ Building(l1, lev1, C \cup Slots(P, T)) /\ Way(l1.mem, lev1, P, T)
      /\ T[4] = s.at /\ l1.at = T[1] /\ T \in [1..4 -> PtFrames] /\ lev1[T[1]] = 1
      /\ Keeps(s.mem, lev, l1.mem, lev1) /\ KeepsLeaves(s.mem, lev, l1.mem)
      /\ l1.pt = s.pt \ {T[3], T[2], T[1]} /\ l1.user = s.user
      /\ Cardinality(l1.pt) >= Cardinality(s.pt) - 3
  BY <1>0 DEF Descended, Way
<1>2. t \in PtFrames /\ i \in Index /\ lev1[t] = 1 /\ t = T[1]
  BY <1>1, <1>p
<1>w. PICK w \in BOOLEAN : w = Writable(seg)
  BY SegsAre
<1>e. r.mem[t][i] = Entry(f, w)
  BY <1>w, <1>p
<1>3. /\ Building(r, lev1, C \cup Slots(P, T) \cup {<<t, i>>})
      /\ Keeps(l1.mem, lev1, r.mem, lev1)
  <2> DEFINE D == C \cup Slots(P, T)
  <2>1. Building(l1, lev1, D)
    BY <1>1
  <2> HIDE DEF D
  <2>2. Building(r, lev1, D \cup {<<t, i>>}) /\ Keeps(l1.mem, lev1, r.mem, lev1)
    <3>1. /\ f \in UserFrames /\ MType(r) /\ r.pt = l1.pt
          /\ \A x \in PtFrames, j \in Index : <<x, j>> # <<t, i>> => r.mem[x][j] = l1.mem[x][j]
      BY <1>p
    <3> QED
      BY ONLY <2>1, <1>2, <1>e, <3>1, w \in BOOLEAN, LeafBuilds, SMTT(30)
  <2> QED
    BY <2>2 DEF D
<1>4. C \cup Slots(P, T) \cup {<<t, i>>} = C \cup AllSlots(P, T)
  BY <1>2, <1>p DEF AllSlots
<1>5. Way(r.mem, lev1, P, T) /\ (WayW(l1.mem, P, T) => WayW(r.mem, P, T))
  BY <1>1, <1>3, WayKept
<1>6. SegMapped(r.mem, lev1, s.at, seg, P, T, f)
  BY <1>0, <1>1, <1>2, <1>5, <1>p DEF SegMapped
<1>7. lev \in [PtFrames -> 0..4]
  BY <1>0 DEF Building, Shape
<1>8. Keeps(s.mem, lev, r.mem, lev1)
  BY <1>1, <1>3, <1>7, KeepsTransitive
<1>9. \A x \in PtFrames, j \in Index :
          lev[x] = 1 /\ <<x, j>> # <<T[1], P[1]>> => r.mem[x][j] = s.mem[x][j]
  BY <1>1, <1>2, <1>p DEF KeepsLeaves
<1>10. Building(r, lev1, C \cup AllSlots(P, T))
  BY <1>3, <1>4
<1> QED
  BY <1>1, <1>6, <1>8, <1>9, <1>10, <1>p DEF Adds

(* A page of the user region, or the page of the arguments.                 *)
LEMMA TakenPageAdds ==
  ASSUME NEW s, NEW lev, NEW C, Cardinality(s.user) >= 1, NEW seg \in Segs,
         NEW P \in [1..4 -> Index], NEW l1, NEW lev1, NEW T,
         PageReady(s, lev, C, seg, P, l1, lev1, T)
  PROVE  LET r == Put(TakeUser(l1), l1.at, P[1], Entry(Min(l1.user), Writable(seg))) IN
         \E f \in s.user \cap UserFrames : Adds(s, lev, C, r, lev1, s.at, seg, P, T, f)
<1> DEFINE f == Min(l1.user)
           u == TakeUser(l1)
           t == l1.at
           i == P[1]
           e == Entry(f, Writable(seg))
           r == Put(u, t, i, e)
<1>1. /\ MType(l1) /\ MType(s) /\ l1.user = s.user /\ t \in PtFrames /\ i \in Index
  BY DEF PageReady, Descended, Building, Way
<1>2. l1.user # {}
  BY <1>1, CardinalityPt
<1>3. /\ MType(u) /\ f \in l1.user /\ f \in UserFrames
      /\ u.user = l1.user \ {f} /\ u.mem = l1.mem /\ u.pt = l1.pt
      /\ Cardinality(u.user) = Cardinality(l1.user) - 1
  BY <1>1, <1>2, TakeUserIs
<1> HIDE DEF f, u
<1>4. e \in Entries
  BY <1>3, EntryFields, SegsAre
<1>a. t = l1.at /\ i = P[1] /\ e = Entry(f, Writable(seg))
  OBVIOUS
<1> HIDE DEF e, t, i
<1>5. /\ MType(r) /\ r.pt = u.pt /\ r.user = u.user /\ r.mem[t][i] = e
      /\ \A x \in PtFrames, j \in Index : <<x, j>> # <<t, i>> => r.mem[x][j] = u.mem[x][j]
  <2>1. MType(u)
    BY ONLY <1>3
  <2>2. t \in PtFrames /\ i \in Index
    BY ONLY <1>1
  <2> QED
    BY ONLY <2>1, <2>2, <1>4, PutIs
<1> HIDE DEF r
<1>6. /\ Cardinality(r.user) >= Cardinality(l1.user) - 1
      /\ r.user = l1.user \ {f} /\ r.pt = l1.pt /\ r.mem[t][i] = Entry(f, Writable(seg))
      /\ \A x \in PtFrames, j \in Index : <<x, j>> # <<t, i>> => r.mem[x][j] = l1.mem[x][j]
  <2>1. Cardinality(l1.user) \in Nat
    BY <1>1, CardinalityPt
  <2> QED
    BY <1>3, <1>5, <1>a, <2>1
<1>7. PagePut(l1, r, t, i, seg, f)
  BY <1>3, <1>5, <1>6 DEF PagePut
<1>8. Adds(s, lev, C, r, lev1, s.at, seg, P, T, f)
  BY <1>7, <1>a, PageAdds
<1> QED
  BY <1>1, <1>3, <1>8 DEF r, u, f, e, t, i

(* The page of the arguments, which the shell took before.                  *)
LEMMA GivenPageAdds ==
  ASSUME NEW s, NEW lev, NEW C, NEW seg \in Segs,
         NEW P \in [1..4 -> Index], NEW l1, NEW lev1, NEW T,
         PageReady(s, lev, C, seg, P, l1, lev1, T),
         NEW f \in UserFrames, f \notin s.user
  PROVE  LET r == Put(l1, l1.at, P[1], Entry(f, Writable(seg))) IN
         Adds(s, lev, C, r, lev1, s.at, seg, P, T, f)
<1> DEFINE t == l1.at
           i == P[1]
           e == Entry(f, Writable(seg))
           r == Put(l1, t, i, e)
<1>1. /\ MType(l1) /\ l1.user = s.user /\ t \in PtFrames /\ i \in Index
  BY DEF PageReady, Descended, Building, Way
<1>2. e \in Entries
  BY EntryFields, SegsAre
<1>a. t = l1.at /\ i = P[1] /\ e = Entry(f, Writable(seg))
  OBVIOUS
<1> HIDE DEF e, t, i
<1>3. /\ MType(r) /\ r.pt = l1.pt /\ r.user = l1.user /\ r.mem[t][i] = e
      /\ \A x \in PtFrames, j \in Index : <<x, j>> # <<t, i>> => r.mem[x][j] = l1.mem[x][j]
  BY ONLY <1>1, <1>2, PutIs
<1> HIDE DEF r
<1>4. /\ r.user = l1.user \ {f} /\ Cardinality(r.user) >= Cardinality(l1.user) - 1
      /\ r.mem[t][i] = Entry(f, Writable(seg))
  <2>1. Cardinality(l1.user) \in Nat
    BY <1>1, CardinalityPt
  <2> QED
    BY <1>1, <1>3, <1>a, <2>1
<1>5. PagePut(l1, r, t, i, seg, f)
  BY <1>3, <1>4 DEF PagePut
<1>6. Adds(s, lev, C, r, lev1, s.at, seg, P, T, f)
  BY <1>5, <1>a, PageAdds
<1> QED
  BY <1>6 DEF r, e, t, i

(* Index paths are equal when they agree on every level. *)
LEMMA PathsEqual ==
  ASSUME NEW P \in [1..4 -> Index], NEW Q \in [1..4 -> Index]
  PROVE  P = Q <=> P[4] = Q[4] /\ P[3] = Q[3] /\ P[2] = Q[2] /\ P[1] = Q[1]
<1>1. P = [l \in 1..4 |-> P[l]] /\ Q = [l \in 1..4 |-> Q[l]]
  OBVIOUS
<1> QED
  BY <1>1

(* A segment that is mapped stays so when another one is added.             *)
LEMMA SegKept ==
  ASSUME NEW s, NEW lev, NEW C, lev \in [PtFrames -> 0..4], NEW r, NEW lev2, NEW g,
         NEW a, NEW P \in [1..4 -> Index], NEW T, NEW f,
         SegMapped(s.mem, lev, g, a, P, T, f),
         NEW b, NEW Q \in [1..4 -> Index], NEW V, NEW h,
         Adds(s, lev, C, r, lev2, g, b, Q, V, h), P # Q
  PROVE  SegMapped(r.mem, lev2, g, a, P, T, f)
<1>1. /\ Way(s.mem, lev, P, T) /\ T[4] = g /\ Keeps(s.mem, lev, r.mem, lev2)
      /\ s.mem[T[1]][P[1]] = Entry(f, Writable(a)) /\ f \in UserFrames
      /\ Way(r.mem, lev2, Q, V) /\ V[4] = g
      /\ Shape(r.mem, lev2, C \cup AllSlots(Q, V))
      /\ Writable(a) => WayW(s.mem, P, T)
  BY DEF SegMapped, Adds, Building
<1>2. Way(r.mem, lev2, P, T) /\ (WayW(s.mem, P, T) => WayW(r.mem, P, T))
  BY <1>1, WayKept
<1>3. T[1] = V[1] <=> P[4] = Q[4] /\ P[3] = Q[3] /\ P[2] = Q[2]
  BY <1>1, <1>2, WaysMeet
<1>4. P = Q <=> P[4] = Q[4] /\ P[3] = Q[3] /\ P[2] = Q[2] /\ P[1] = Q[1]
  BY PathsEqual
<1>5. T[1] \in PtFrames /\ lev[T[1]] = 1 /\ P[1] \in Index
  BY <1>1 DEF Way
<1>6. r.mem[T[1]][P[1]] = s.mem[T[1]][P[1]]
  BY <1>3, <1>4, <1>5 DEF Adds
<1> QED
  BY <1>1, <1>2, <1>6 DEF SegMapped
-----------------------------------------------------------------------------
(* Every entry in C is on the way of a segment that was mapped before, and  *)
(* none of those is P.                                                      *)
Charted(m, lev, C, g, P) ==
    \A c \in C : \E Q, V :
       Q \in [1..4 -> Index] /\ Q # P /\ Way(m, lev, Q, V) /\ V[4] = g /\ c \in AllSlots(Q, V)

(* The page of a segment that has a home of its own is not entered yet.     *)
LEMMA LeafFree ==
  ASSUME NEW s, NEW lev, NEW C, NEW P \in [1..4 -> Index], NEW l1, NEW lev1, NEW T,
         Descended(s, lev, C, l1, lev1, P, T), Charted(s.mem, lev, C, s.at, P)
  PROVE  ~l1.mem[l1.at][P[1]].p
<1>1. /\ Building(l1, lev1, C \cup Slots(P, T)) /\ Way(l1.mem, lev1, P, T)
      /\ T[4] = s.at /\ l1.at = T[1] /\ Keeps(s.mem, lev, l1.mem, lev1)
  BY DEF Descended
<1>2. /\ T \in [1..4 -> PtFrames] /\ P[1] \in Index
      /\ lev1[T[4]] = 4 /\ lev1[T[3]] = 3 /\ lev1[T[2]] = 2 /\ lev1[T[1]] = 1
  BY <1>1 DEF Way
<1> SUFFICES ASSUME l1.mem[T[1]][P[1]].p PROVE FALSE
  BY <1>1
<1>3. <<T[1], P[1]>> \in C \cup Slots(P, T)
  <2>1. Edge(l1.mem, T[1], P[1])
    BY <1>1, <1>2 DEF Building, NoEntry
  <2> QED
    BY <1>1, <1>2, <2>1 DEF Building, Shape
<1>4. <<T[1], P[1]>> \in C
  BY <1>2, <1>3 DEF Slots
<1>5. PICK Q, V :
          Q \in [1..4 -> Index] /\ Q # P /\ Way(s.mem, lev, Q, V) /\ V[4] = s.at /\ <<T[1], P[1]>> \in AllSlots(Q, V)
  BY <1>4 DEF Charted
<1>6. Way(l1.mem, lev1, Q, V)
  BY <1>1, <1>5, WayKept
<1>7. T[1] = V[1] /\ P[1] = Q[1]
  BY <1>2, <1>5, <1>6 DEF AllSlots, Slots, Way
<1>8. T[1] = V[1] <=> P[4] = Q[4] /\ P[3] = Q[3] /\ P[2] = Q[2]
  <2>1. Shape(l1.mem, lev1, C \cup Slots(P, T)) /\ T[4] = V[4]
    BY <1>1, <1>5 DEF Building
  <2> QED
    BY <1>1, <1>5, <1>6, <2>1, WaysMeet
<1> QED
  BY <1>5, <1>7, <1>8, PathsEqual

(* A segment added leaves the index path of another one free.               *)
LEMMA ChartedAdds ==
  ASSUME NEW s, NEW lev, NEW C, NEW r, NEW lev2, NEW g, NEW b,
         NEW Q \in [1..4 -> Index], NEW V, NEW h,
         Adds(s, lev, C, r, lev2, g, b, Q, V, h),
         NEW P \in [1..4 -> Index], P # Q, Charted(s.mem, lev, C, g, P)
  PROVE  Charted(r.mem, lev2, C \cup AllSlots(Q, V), g, P)
<1>1. Keeps(s.mem, lev, r.mem, lev2) /\ Way(r.mem, lev2, Q, V) /\ V[4] = g
  BY DEF Adds, SegMapped
<1> SUFFICES ASSUME NEW c \in C \cup AllSlots(Q, V)
             PROVE  \E W, X :
                       W \in [1..4 -> Index] /\ W # P /\ Way(r.mem, lev2, W, X) /\ X[4] = g /\ c \in AllSlots(W, X)
  BY DEF Charted
<1>2. CASE c \in AllSlots(Q, V)
  BY <1>1, <1>2
<1>3. CASE c \in C
  <2>1. PICK W, X :
           W \in [1..4 -> Index] /\ W # P /\ Way(s.mem, lev, W, X) /\ X[4] = g /\ c \in AllSlots(W, X)
    BY <1>3 DEF Charted
  <2>2. Way(r.mem, lev2, W, X)
    BY <1>1, <2>1, WayKept
  <2> QED
    BY <2>1, <2>2
<1> QED
  BY <1>2, <1>3

(* Where the machine stands is of no account. *)
LEMMA BuildingAt ==
  ASSUME NEW s, NEW lev, NEW C, Building(s, lev, C), NEW t \in PtFrames
  PROVE  LET r == [s EXCEPT !.at = t] IN
         /\ Building(r, lev, C)
         /\ r.at = t /\ r.mem = s.mem /\ r.pt = s.pt /\ r.user = s.user
<1> DEFINE r == [s EXCEPT !.at = t]
<1>1. MType(r) /\ r.pt = s.pt /\ r.user = s.user /\ r.mem = s.mem /\ r.at = t
  BY AtIs DEF Building
<1> HIDE DEF r
<1>2. Building(r, lev, C)
  BY <1>1 DEF Building
<1> QED
  BY <1>1, <1>2 DEF r

(* The level-4 table, empty. *)
LEMMA RootBuilds ==
  ASSUME NEW s, MType(s), s.pt = PtFrames, NEW C
  PROVE  LET g == Min(s.pt) r == Root(s) IN
         /\ r = [Clean(TakePt(s), g) EXCEPT !.at = g] /\ g \in PtFrames
         /\ \E lev : Building(r, lev, C) /\ lev[g] = 4
         /\ r.at = g /\ r.pt = PtFrames \ {g} /\ r.user = s.user
         /\ \A j \in Index : r.mem[g][j] = NoEntry
         /\ \A t \in PtFrames \ {g} : r.mem[t] = s.mem[t]
         /\ Cardinality(r.pt) = Cardinality(PtFrames) - 1
<1> DEFINE g == Min(s.pt)
           r1 == TakePt(s)
           r2 == Reset(r1, g)
           r == [r2 EXCEPT !.at = g]
           lev == [t \in PtFrames |-> IF t = g THEN 4 ELSE 0]
<1>1. PtFrames # {}
  BY FS_EmptySet, FramesAssumption
<1>2. /\ MType(r1) /\ g \in s.pt /\ g \in PtFrames
      /\ r1.pt = s.pt \ {g} /\ r1.mem = s.mem /\ r1.user = s.user
      /\ Cardinality(r1.pt) = Cardinality(s.pt) - 1
  BY <1>1, TakePtIs
<1> HIDE DEF r1, g
<1>3. /\ MType(r2) /\ r2.pt = r1.pt /\ r2.user = r1.user
      /\ \A j \in Index : r2.mem[g][j] = NoEntry
      /\ \A x \in PtFrames \ {g}, j \in Index : r2.mem[x][j] = r1.mem[x][j]
      /\ Clean(r1, g) = r2
  BY <1>2, ResetIs, ZenonT(60)
<1>r. r2.mem = [r1.mem EXCEPT ![g] = [i \in Index |-> NoEntry]]
  BY <1>2 DEF Reset, MType, Machines
<1>4. \A t \in PtFrames \ {g} : r2.mem[t] = r1.mem[t]
  BY <1>2, <1>r DEF MType, Machines
<1> HIDE DEF r2
<1>5. MType(r) /\ r.pt = r2.pt /\ r.user = r2.user /\ r.mem = r2.mem /\ r.at = g
  BY <1>2, <1>3, AtIs
<1> HIDE DEF r
<1>6. \A j \in Index : ~Edge(r.mem, g, j)
  BY <1>3, <1>5 DEF NoEntry, Edge
<1>7. lev \in [PtFrames -> 0..4] /\ lev[g] = 4 /\ \A t \in PtFrames : lev[t] # 0 <=> t = g
  BY <1>2
<1> HIDE DEF lev
<1>8. \A t \in PtFrames : lev[t] >= 1 => t = g
  BY <1>7
<1>9. r.mem \in [PtFrames -> [Index -> Entries]]
  BY <1>5 DEF MType, Machines
<1>10. \A t \in PtFrames : lev[t] >= 2 => t = g
  BY <1>7
<1>11. Shape(r.mem, lev, C)
  BY <1>6, <1>7, <1>8, <1>9, <1>10 DEF Shape
<1>12. Building(r, lev, C)
  BY <1>2, <1>3, <1>5, <1>7, <1>8, <1>11 DEF Building
<1>13. Root(s) = r /\ r = [Clean(r1, g) EXCEPT !.at = g]
  BY <1>3 DEF Root, r, r2, r1, g
<1>14. Cardinality(r.pt) = Cardinality(PtFrames) - 1
  BY <1>2, <1>3, <1>5
<1>15. \A t \in PtFrames \ {g} : r.mem[t] = s.mem[t]
  BY <1>2, <1>4, <1>5
<1>16. \A j \in Index : r.mem[g][j] = NoEntry
  BY <1>3, <1>5
<1>17. r.pt = PtFrames \ {g} /\ r.user = s.user /\ r.at = g /\ g \in PtFrames
  BY <1>2, <1>3, <1>5
<1>18. \E lv : Building(r, lv, C) /\ lv[g] = 4
  BY <1>7, <1>12
<1> QED
  BY <1>13, <1>14, <1>15, <1>16, <1>17, <1>18 DEF g, r1

(* One segment in actual.c. *)
LEMMA MapAdds ==
  ASSUME NEW s, NEW lev, NEW C, Building(s, lev, C),
         s.at \in PtFrames, lev[s.at] = 4, Cardinality(s.pt) >= 3,
         NEW seg \in Segs, seg # "data" => Cardinality(s.user) >= 1, mms \in [Segs -> [1..4 -> Index]],
         arg_pfn \in UserFrames \ s.user, Charted(s.mem, lev, C, s.at, mms[seg])
  PROVE  \E lev2, T, f :
           /\ Adds(s, lev, C, MapSegment(s, seg), lev2, s.at, seg, mms[seg], T, f)
           /\ IF seg = "data" THEN f = arg_pfn ELSE f \in s.user
<1>1. PICK P \in [1..4 -> Index] : P = mms[seg]
  OBVIOUS
<1>2. PICK w \in BOOLEAN : w = Writable(seg)
  BY SegsAre
<1> DEFINE r3 == Step(s, P[4], w)
           r2 == Step(r3, P[3], w)
           r1 == Step(r2, P[2], w)
<1>3. /\ Cardinality(s.pt) >= 1 /\ Cardinality(s.pt) \in Nat /\ lev[s.at] >= 2
      /\ P[4] \in Index /\ P[3] \in Index /\ P[2] \in Index
  BY CardinalityPt DEF Building
<1>4. PICK lev3 : Builds(s, lev, C, r3, lev3, P[4])
  BY <1>3, StepBuilds
<1>5. w => r3.mem[s.at][P[4]].w
  BY <1>3, StepBuilds
<1> HIDE DEF r3
<1>6. /\ Building(r3, lev3, C \cup {<<s.at, P[4]>>}) /\ r3.at \in PtFrames /\ lev3[r3.at] = 3
      /\ Cardinality(r3.pt) >= Cardinality(s.pt) - 1
  BY <1>4 DEF Builds
<1>7. Cardinality(r3.pt) >= 2 /\ Cardinality(r3.pt) \in Nat /\ Cardinality(r3.pt) >= 1
      /\ lev3[r3.at] >= 2
  BY <1>3, <1>6, CardinalityPt DEF Building
<1>8. PICK lev2 : Builds(r3, lev3, C \cup {<<s.at, P[4]>>}, r2, lev2, P[3])
  BY <1>3, <1>6, <1>7, StepBuilds
<1>9. w => r2.mem[r3.at][P[3]].w
  BY <1>3, <1>6, <1>7, StepBuilds
<1> HIDE DEF r2
<1>10. /\ Building(r2, lev2, C \cup {<<s.at, P[4]>>} \cup {<<r3.at, P[3]>>})
       /\ r2.at \in PtFrames /\ lev2[r2.at] = 2
       /\ Cardinality(r2.pt) >= Cardinality(r3.pt) - 1
  BY <1>6, <1>8 DEF Builds
<1>11. Cardinality(r2.pt) >= 1 /\ lev2[r2.at] >= 2
  BY <1>7, <1>10, CardinalityPt DEF Building
<1>12. PICK lev1 : Builds(r2, lev2, C \cup {<<s.at, P[4]>>} \cup {<<r3.at, P[3]>>}, r1, lev1, P[2])
  BY <1>3, <1>10, <1>11, StepBuilds
<1>13. w => r1.mem[r2.at][P[2]].w
  BY <1>3, <1>10, <1>11, StepBuilds
<1> HIDE DEF r1
<1>14. PICK T : /\ Descended(s, lev, C, r1, lev1, P, T)
                /\ /\ r3.mem[s.at][P[4]].w /\ r2.mem[r3.at][P[3]].w /\ r1.mem[r2.at][P[2]].w
                   => WayW(r1.mem, P, T)
  BY <1>4, <1>8, <1>12, Descends
<1>15. PageReady(s, lev, C, seg, P, r1, lev1, T)
  BY <1>2, <1>5, <1>9, <1>13, <1>14 DEF PageReady
<1>16. ~r1.mem[r1.at][P[1]].p
  BY <1>1, <1>14, LeafFree
<1>17. MapSegment(s, seg) = IF seg = "data" THEN Put(r1, r1.at, P[1], Entry(arg_pfn, w))
                            ELSE Put(TakeUser(r1), r1.at, P[1], Entry(Min(r1.user), w))
  BY <1>1, <1>2, <1>16 DEF MapSegment, r3, r2, r1
<1>18. CASE seg = "data"
  <2>1. Adds(s, lev, C, Put(r1, r1.at, P[1], Entry(arg_pfn, Writable(seg))), lev1, s.at, seg, P, T, arg_pfn)
    BY <1>15, GivenPageAdds
  <2> QED
    BY <1>1, <1>2, <1>17, <1>18, <2>1
<1>19. CASE seg # "data"
  <2>1. \E f \in s.user \cap UserFrames :
          Adds(s, lev, C, Put(TakeUser(r1), r1.at, P[1], Entry(Min(r1.user), Writable(seg))),
               lev1, s.at, seg, P, T, f)
    BY <1>15, <1>19, TakenPageAdds
  <2> QED
    BY <1>1, <1>2, <1>17, <1>19, <2>1
<1> QED
  BY <1>18, <1>19
-----------------------------------------------------------------------------
(* The tables of all three segments; C holds the entries that were left in  *)
(* a table which was not cleared.                                           *)
AllOf(L, T) == UNION {AllSlots(L[seg], T[seg]) : seg \in Segs}
Used(T)  == {t \in PtFrames : \E seg \in Segs, l \in 1..4 : t = T[seg][l]}
Pages(G) == {f \in UserFrames : \E seg \in Segs : f = G[seg]}

Laid(m, lev, C, g, L, T, G) ==
    /\ Shape(m, lev, C \cup AllOf(L, T))
    /\ \A seg \in Segs : SegMapped(m, lev, g, seg, L[seg], T[seg], G[seg])
    /\ T \in [Segs -> [1..4 -> PtFrames]] /\ G \in [Segs -> UserFrames]
    /\ \A a, b \in Segs : a # b => G[a] # G[b]

Complete(s, lev, C, g, L, T, G) ==
    /\ Laid(s.mem, lev, C, g, L, T, G) /\ Building(s, lev, C \cup AllOf(L, T))
    /\ s.pt = PtFrames \ Used(T) /\ s.pt # {} /\ s.user = UserFrames \ Pages(G)

(* Three segments are mapped one after the other, in any order, from an     *)
(* empty level-4 table.                                                     *)
Chained(L, g, arg, C, s0, lev0, a, s1, lev1, Ta, fa, r1, b, s2, lev2, Tb, fb, r2,
        c, s3, lev3, Tc, fc) ==
    /\ a \in Segs /\ b \in Segs /\ c \in Segs /\ a # b /\ a # c /\ b # c /\ Segs = {a, b, c}
    /\ L \in [Segs -> [1..4 -> Index]] /\ \A x, y \in Segs : x # y => L[x] # L[y]
    /\ Building(s0, lev0, C) /\ s0.pt = PtFrames \ {g} /\ s0.user = UserFrames \ {arg}
    /\ Cardinality(s0.pt) >= 10
    /\ Adds(s0, lev0, C, s1, lev1, g, a, L[a], Ta, fa)
    /\ r1.mem = s1.mem /\ r1.pt = s1.pt /\ r1.user = s1.user
    /\ Adds(r1, lev1, C \cup AllSlots(L[a], Ta), s2, lev2, g, b, L[b], Tb, fb)
    /\ r2.mem = s2.mem /\ r2.pt = s2.pt /\ r2.user = s2.user
    /\ Adds(r2, lev2, C \cup AllSlots(L[a], Ta) \cup AllSlots(L[b], Tb),
            s3, lev3, g, c, L[c], Tc, fc)
    /\ fa # fb /\ fa # fc /\ fb # fc /\ arg \in {fa, fb, fc}

(* Three segments added to an empty root complete the context.              *)
LEMMA ThreeSegments ==
  ASSUME NEW L, NEW g, NEW arg, NEW C, NEW s0, NEW lev0,
         NEW a, NEW s1, NEW lev1, NEW Ta, NEW fa, NEW r1,
         NEW b, NEW s2, NEW lev2, NEW Tb, NEW fb, NEW r2,
         NEW c, NEW s3, NEW lev3, NEW Tc, NEW fc,
         Chained(L, g, arg, C, s0, lev0, a, s1, lev1, Ta, fa, r1, b, s2, lev2, Tb, fb, r2,
                 c, s3, lev3, Tc, fc)
  PROVE  \E T, G : /\ Complete(s3, lev3, C, g, L, T, G)
                   /\ T[a] = Ta /\ T[b] = Tb /\ T[c] = Tc
                   /\ G[a] = fa /\ G[b] = fb /\ G[c] = fc
<1>a. /\ a \in Segs /\ b \in Segs /\ c \in Segs /\ a # b /\ a # c /\ b # c /\ Segs = {a, b, c}
      /\ L \in [Segs -> [1..4 -> Index]] /\ \A x, y \in Segs : x # y => L[x] # L[y]
  BY DEF Chained
<1>b. /\ s0.pt = PtFrames \ {g} /\ s0.user = UserFrames \ {arg}
      /\ r1.mem = s1.mem /\ r1.pt = s1.pt /\ r1.user = s1.user
      /\ r2.mem = s2.mem /\ r2.pt = s2.pt /\ r2.user = s2.user
      /\ fa # fb /\ fa # fc /\ fb # fc /\ arg \in {fa, fb, fc}
  BY DEF Chained
<1>c. /\ Adds(s0, lev0, C, s1, lev1, g, a, L[a], Ta, fa)
      /\ Adds(r1, lev1, C \cup AllSlots(L[a], Ta), s2, lev2, g, b, L[b], Tb, fb)
      /\ Adds(r2, lev2, C \cup AllSlots(L[a], Ta) \cup AllSlots(L[b], Tb),
              s3, lev3, g, c, L[c], Tc, fc)
  BY DEF Chained
<1> DEFINE T == [x \in Segs |-> IF x = a THEN Ta ELSE IF x = b THEN Tb ELSE Tc]
           G == [x \in Segs |-> IF x = a THEN fa ELSE IF x = b THEN fb ELSE fc]
           D == C \cup AllSlots(L[a], Ta) \cup AllSlots(L[b], Tb)
<1>1. T[a] = Ta /\ T[b] = Tb /\ T[c] = Tc /\ G[a] = fa /\ G[b] = fb /\ G[c] = fc
  BY <1>a
<1>2. L[a] \in [1..4 -> Index] /\ L[b] \in [1..4 -> Index] /\ L[c] \in [1..4 -> Index]
      /\ L[a] # L[b] /\ L[a] # L[c] /\ L[b] # L[c]
  BY <1>a
<1>3. SegMapped(s1.mem, lev1, g, a, L[a], Ta, fa)
  BY <1>c DEF Adds
<1>4. SegMapped(s2.mem, lev2, g, b, L[b], Tb, fb)
  BY <1>c DEF Adds
<1>5. SegMapped(s3.mem, lev3, g, c, L[c], Tc, fc)
  BY <1>c DEF Adds
<1>6. lev1 \in [PtFrames -> 0..4] /\ lev2 \in [PtFrames -> 0..4]
  BY <1>c DEF Adds, Building, Shape
<1>7. SegMapped(s2.mem, lev2, g, a, L[a], Ta, fa)
  <2>1. SegMapped(r1.mem, lev1, g, a, L[a], Ta, fa)
    BY <1>b, <1>3
  <2> QED
    BY <1>2, <1>6, <1>c, <2>1, SegKept
<1>8. SegMapped(s3.mem, lev3, g, a, L[a], Ta, fa)
  <2>1. SegMapped(r2.mem, lev2, g, a, L[a], Ta, fa)
    BY <1>b, <1>7
  <2> QED
    BY <1>2, <1>6, <1>c, <2>1, SegKept
<1>9. SegMapped(s3.mem, lev3, g, b, L[b], Tb, fb)
  <2>1. SegMapped(r2.mem, lev2, g, b, L[b], Tb, fb)
    BY <1>b, <1>4
  <2> QED
    BY <1>2, <1>6, <1>c, <2>1, SegKept
<1>10. /\ Ta \in [1..4 -> PtFrames] /\ Tb \in [1..4 -> PtFrames] /\ Tc \in [1..4 -> PtFrames]
       /\ fa \in UserFrames /\ fb \in UserFrames /\ fc \in UserFrames
       /\ Ta[4] = g /\ Tb[4] = g /\ Tc[4] = g
  BY <1>3, <1>4, <1>5 DEF SegMapped, Way
<1>11. AllOf(L, T) = AllSlots(L[a], Ta) \cup AllSlots(L[b], Tb) \cup AllSlots(L[c], Tc)
  <2> HIDE DEF T
  <2> QED
    BY <1>1, <1>a DEF AllOf
<1>12. Building(s3, lev3, C \cup AllOf(L, T))
  <2>1. Building(s3, lev3, D \cup AllSlots(L[c], Tc))
    BY <1>c DEF Adds
  <2>2. D \cup AllSlots(L[c], Tc) = C \cup AllOf(L, T)
    BY <1>11
  <2> QED
    BY <2>1, <2>2
<1>13. T \in [Segs -> [1..4 -> PtFrames]] /\ G \in [Segs -> UserFrames]
  BY <1>a, <1>10
<1> HIDE DEF T, G, D
<1>14. \A x \in Segs : SegMapped(s3.mem, lev3, g, x, L[x], T[x], G[x])
  BY <1>1, <1>a, <1>5, <1>8, <1>9
<1>15. \A x, y \in Segs : x # y => G[x] # G[y]
  BY <1>1, <1>a, <1>b
<1>16. Laid(s3.mem, lev3, C, g, L, T, G)
  BY <1>12, <1>13, <1>14, <1>15 DEF Laid, Building
<1>17. s3.pt = PtFrames \ Used(T)
  <2>1. s3.pt = PtFrames \ {g, Ta[3], Ta[2], Ta[1], Tb[3], Tb[2], Tb[1], Tc[3], Tc[2], Tc[1]}
    BY <1>b, <1>c DEF Adds
  <2>2. \A t \in PtFrames : t \in Used(T)
           <=> t \in {g, Ta[3], Ta[2], Ta[1], Tb[3], Tb[2], Tb[1], Tc[3], Tc[2], Tc[1]}
    BY <1>1, <1>a, <1>10 DEF Used
  <2> QED
    BY <2>1, <2>2
<1>18. s3.user = UserFrames \ Pages(G)
  <2>1. s3.user = UserFrames \ {fa, fb, fc}
    BY <1>b, <1>c DEF Adds
  <2>2. \A f \in UserFrames : f \in Pages(G) <=> f \in {fa, fb, fc}
    BY <1>1, <1>a DEF Pages
  <2> QED
    BY <2>1, <2>2
<1>19. s3.pt # {}
  <2>1. /\ Cardinality(s0.pt) >= 10 /\ Cardinality(s1.pt) >= Cardinality(s0.pt) - 3
        /\ Cardinality(s2.pt) >= Cardinality(s1.pt) - 3
        /\ Cardinality(s3.pt) >= Cardinality(s2.pt) - 3
    BY <1>b, <1>c DEF Adds, Chained
  <2>2. MType(s0) /\ MType(s1) /\ MType(s2) /\ MType(s3)
    BY <1>c DEF Adds, Building, Chained
  <2>3. /\ Cardinality(s0.pt) \in Nat /\ Cardinality(s1.pt) \in Nat
        /\ Cardinality(s2.pt) \in Nat /\ Cardinality(s3.pt) \in Nat
    BY <2>2, CardinalityPt
  <2>4. Cardinality(s3.pt) >= 1
    BY <2>1, <2>3
  <2> QED
    BY <2>2, <2>4, CardinalityPt
<1>20. Complete(s3, lev3, C, g, L, T, G)
  BY <1>12, <1>16, <1>17, <1>18, <1>19 DEF Complete
<1> QED
  BY <1>1, <1>20

(* prepare_context_mm of actual.c. *)
LEMMA ActualPrepares ==
  ASSUME NEW s, MType(s), s.pt = PtFrames, arg_pfn \in UserFrames, s.user = UserFrames \ {arg_pfn},
         Cardinality(s.user) >= 2, mms \in [Segs -> [1..4 -> Index]],
         \A x, y \in Segs : x # y => mms[x] # mms[y]
  PROVE  \E lev, T, G : /\ Complete(PrepareActual(s), lev, {}, Min(s.pt), mms, T, G)
                        /\ G["data"] = arg_pfn
<1> DEFINE g == Min(s.pt)
           s0 == Root(s)
           s1 == MapSegment(s0, "stack")
           r1 == [s1 EXCEPT !.at = g]
           s2 == MapSegment(r1, "code")
           r2 == [s2 EXCEPT !.at = g]
           s3 == MapSegment(r2, "data")
<1>0. /\ "stack" \in Segs /\ "code" \in Segs /\ "data" \in Segs
      /\ Segs = {"stack", "code", "data"}
  BY SegsAre
<1>n. PICK none : none = {}
  OBVIOUS
<1>1. /\ s0 = [Clean(TakePt(s), g) EXCEPT !.at = g] /\ g \in PtFrames
      /\ \E lev : Building(s0, lev, none) /\ lev[g] = 4
      /\ s0.at = g /\ s0.pt = PtFrames \ {g} /\ s0.user = s.user
      /\ Cardinality(s0.pt) = Cardinality(PtFrames) - 1
  BY RootBuilds
<1>2. PrepareActual(s) = s3
  BY <1>1 DEF PrepareActual
<1> HIDE DEF g, s0
<1>3. PICK lev0 : Building(s0, lev0, none) /\ lev0[g] = 4
  BY <1>1
<1>4. /\ s0.at \in PtFrames /\ lev0[s0.at] = 4
      /\ Cardinality(s0.pt) \in Nat /\ Cardinality(s0.pt) >= 11 /\ Cardinality(s0.pt) >= 3
      /\ Cardinality(s0.user) \in Nat /\ Cardinality(s0.user) >= 2 /\ Cardinality(s0.user) >= 1
  <2>1. /\ Cardinality(s0.pt) \in Nat /\ Cardinality(s0.user) \in Nat
        /\ Cardinality(PtFrames) \in Nat
    BY <1>3, CardinalityPt, FramesAssumption, FS_CardinalityType DEF Building
  <2>2. Cardinality(s0.pt) >= 11
    BY <1>1, <2>1, FramesAssumption
  <2>3. Cardinality(s0.user) >= 2
    BY <1>1
  <2>4. s0.at \in PtFrames /\ lev0[s0.at] = 4
    BY <1>1, <1>3
  <2> QED
    BY <2>1, <2>2, <2>3, <2>4
<1>5. \A P \in [1..4 -> Index] : Charted(s0.mem, lev0, none, g, P)
  BY <1>n DEF Charted
<1>6. arg_pfn \in UserFrames \ s0.user
  BY <1>1
<1>7. PICK lev1, Tk, fk : Adds(s0, lev0, none, s1, lev1, g, "stack", mms["stack"], Tk, fk)
                          /\ fk \in s0.user
  <2>1. PICK seg \in Segs : seg = "stack"
    BY <1>0
  <2>2. Charted(s0.mem, lev0, none, s0.at, mms[seg])
    BY <1>1, <1>5
  <2>3. \E lv, T, f : /\ Adds(s0, lev0, none, MapSegment(s0, seg), lv, s0.at, seg, mms[seg], T, f)
                      /\ IF seg = "data" THEN f = arg_pfn ELSE f \in s0.user
    BY <1>3, <1>4, <1>6, <2>2, MapAdds
  <2> QED
    BY <1>1, <2>1, <2>3
<1> HIDE DEF s1
<1>8. /\ Building(s1, lev1, none \cup AllSlots(mms["stack"], Tk))
      /\ lev1[g] = 4 /\ s1.user = s0.user \ {fk}
      /\ Cardinality(s1.pt) >= Cardinality(s0.pt) - 3
      /\ Cardinality(s1.user) >= Cardinality(s0.user) - 1
  BY <1>1, <1>3, <1>7 DEF Adds, Keeps
<1> DEFINE C1 == none \cup AllSlots(mms["stack"], Tk)
<1>9. /\ Building(r1, lev1, C1) /\ r1.at = g /\ r1.mem = s1.mem /\ r1.pt = s1.pt
      /\ r1.user = s1.user
  BY <1>1, <1>8, BuildingAt
<1> HIDE DEF r1
<1>10. /\ Cardinality(r1.pt) \in Nat /\ Cardinality(r1.pt) >= 8 /\ Cardinality(r1.pt) >= 3
       /\ Cardinality(r1.user) \in Nat /\ Cardinality(r1.user) >= 1
  <2>1. Cardinality(r1.pt) \in Nat /\ Cardinality(r1.user) \in Nat
    BY <1>9, CardinalityPt DEF Building
  <2> QED
    BY <1>4, <1>8, <1>9, <2>1
<1>11. /\ Charted(r1.mem, lev1, C1, g, mms["code"])
       /\ Charted(r1.mem, lev1, C1, g, mms["data"])
  <2>1. /\ mms["stack"] \in [1..4 -> Index] /\ mms["code"] \in [1..4 -> Index]
        /\ mms["data"] \in [1..4 -> Index]
        /\ mms["stack"] # mms["code"] /\ mms["stack"] # mms["data"]
    BY <1>0
  <2>2. /\ Charted(s1.mem, lev1, C1, g, mms["code"])
        /\ Charted(s1.mem, lev1, C1, g, mms["data"])
    BY <1>5, <1>7, <2>1, ChartedAdds
  <2> QED
    BY <1>9, <2>2
<1>12. arg_pfn \in UserFrames \ r1.user
  BY <1>6, <1>8, <1>9
<1> HIDE DEF C1
<1>13. PICK lev2, Tc, fc : Adds(r1, lev1, C1, s2, lev2, g, "code", mms["code"], Tc, fc)
                           /\ fc \in r1.user
  <2>1. PICK seg \in Segs : seg = "code"
    BY <1>0
  <2>2. Charted(r1.mem, lev1, C1, r1.at, mms[seg])
    BY <1>9, <1>11, <2>1
  <2>3. r1.at \in PtFrames /\ lev1[r1.at] = 4
    BY <1>1, <1>8, <1>9
  <2>4. \E lv, T, f : /\ Adds(r1, lev1, C1, MapSegment(r1, seg), lv, r1.at, seg, mms[seg], T, f)
                      /\ IF seg = "data" THEN f = arg_pfn ELSE f \in r1.user
    BY <1>9, <1>10, <1>12, <2>2, <2>3, MapAdds
  <2> QED
    BY <1>9, <2>1, <2>4
<1> HIDE DEF s2
<1>14. /\ Building(s2, lev2, C1 \cup AllSlots(mms["code"], Tc))
       /\ lev2[g] = 4 /\ s2.user = r1.user \ {fc}
       /\ Cardinality(s2.pt) >= Cardinality(r1.pt) - 3
       /\ Cardinality(s2.user) >= Cardinality(r1.user) - 1
  BY <1>1, <1>8, <1>13 DEF Adds, Keeps
<1> DEFINE C2 == C1 \cup AllSlots(mms["code"], Tc)
<1>15. /\ Building(r2, lev2, C2) /\ r2.at = g /\ r2.mem = s2.mem /\ r2.pt = s2.pt
       /\ r2.user = s2.user
  BY <1>1, <1>14, BuildingAt
<1> HIDE DEF r2
<1>16. Charted(r2.mem, lev2, C2, g, mms["data"])
  <2>1. /\ mms["code"] \in [1..4 -> Index] /\ mms["data"] \in [1..4 -> Index]
        /\ mms["code"] # mms["data"]
    BY <1>0
  <2>2. Charted(s2.mem, lev2, C2, g, mms["data"])
    BY <1>11, <1>13, <2>1, ChartedAdds
  <2> QED
    BY <1>15, <2>2
<1>17. /\ Cardinality(r2.pt) >= 3 /\ r2.at \in PtFrames /\ lev2[r2.at] = 4
       /\ arg_pfn \in UserFrames \ r2.user
  <2>1. Cardinality(r2.pt) \in Nat
    BY <1>15, CardinalityPt DEF Building
  <2> QED
    BY <1>1, <1>10, <1>12, <1>14, <1>15, <2>1
<1> HIDE DEF C2
<1>18. PICK lev3, Td, fd : Adds(r2, lev2, C2, s3, lev3, g, "data", mms["data"], Td, fd)
                           /\ fd = arg_pfn
  <2>1. PICK seg \in Segs : seg = "data"
    BY <1>0
  <2>2. Charted(r2.mem, lev2, C2, r2.at, mms[seg])
    BY <1>15, <1>16, <2>1
  <2>3. seg # "data" => Cardinality(r2.user) >= 1
    BY <2>1
  <2>4. \E lv, T, f : /\ Adds(r2, lev2, C2, MapSegment(r2, seg), lv, r2.at, seg, mms[seg], T, f)
                      /\ IF seg = "data" THEN f = arg_pfn ELSE f \in r2.user
    BY <1>15, <1>17, <2>2, <2>3, MapAdds
  <2> QED
    BY <1>15, <2>1, <2>4
<1> HIDE DEF s3
<1>19. fk # fc /\ fk # fd /\ fc # fd /\ arg_pfn \in {fk, fc, fd}
  BY <1>1, <1>7, <1>8, <1>9, <1>12, <1>13, <1>15, <1>17, <1>18
<1>20. \E T, G : /\ Complete(s3, lev3, none, g, mms, T, G)
                 /\ T["stack"] = Tk /\ T["code"] = Tc /\ T["data"] = Td
                 /\ G["stack"] = fk /\ G["code"] = fc /\ G["data"] = fd
  <2>1. PICK a \in Segs, b \in Segs, c \in Segs : a = "stack" /\ b = "code" /\ c = "data"
    BY <1>0
  <2>2. a # b /\ a # c /\ b # c /\ Segs = {a, b, c}
    BY <1>0, <2>1
  <2>3. /\ Adds(s0, lev0, none, s1, lev1, g, a, mms[a], Tk, fk)
        /\ Adds(r1, lev1, none \cup AllSlots(mms[a], Tk), s2, lev2, g, b, mms[b], Tc, fc)
        /\ Adds(r2, lev2, none \cup AllSlots(mms[a], Tk) \cup AllSlots(mms[b], Tc),
                s3, lev3, g, c, mms[c], Td, fd)
    BY <1>7, <1>13, <1>18, <2>1 DEF C1, C2
  <2>4. s0.pt = PtFrames \ {g} /\ s0.user = UserFrames \ {arg_pfn} /\ Cardinality(s0.pt) >= 10
    BY <1>1, <1>4
  <2>5. \E T, G : /\ Complete(s3, lev3, none, g, mms, T, G)
                  /\ T[a] = Tk /\ T[b] = Tc /\ T[c] = Td
                  /\ G[a] = fk /\ G[b] = fc /\ G[c] = fd
    <3>1. Building(s0, lev0, none)
      BY <1>3
    <3>2. r1.mem = s1.mem /\ r1.pt = s1.pt /\ r1.user = s1.user
      BY <1>9
    <3>3. r2.mem = s2.mem /\ r2.pt = s2.pt /\ r2.user = s2.user
      BY <1>15
    <3>4. Chained(mms, g, arg_pfn, none, s0, lev0, a, s1, lev1, Tk, fk, r1,
                  b, s2, lev2, Tc, fc, r2, c, s3, lev3, Td, fd)
      BY <3>1, <3>2, <3>3, <1>19, <2>2, <2>3, <2>4 DEF Chained
    <3> QED
      BY <3>4, ThreeSegments
  <2> QED
    BY <2>1, <2>5
<1> QED
  BY <1>2, <1>18, <1>20, <1>n DEF g

-----------------------------------------------------------------------------
(* context_mm.c.  The fourth frame that is taken becomes the level-1 table  *)
(* of the code and is not cleared.                                          *)
Frame1 == Min(PtFrames)
Frame2 == Min(PtFrames \ {Frame1})
Frame3 == Min(PtFrames \ {Frame1, Frame2})
CodeTable == Min(PtFrames \ {Frame1, Frame2, Frame3})

(* The code's path. *)
LEMMA CodeAdds ==
  ASSUME NEW s, MType(s), s.pt = PtFrames, Cardinality(s.user) >= 1,
         mms \in [Segs -> [1..4 -> Index]],
         NEW C, Harmless(s.mem, CodeTable, C), NEW s0, s0 = Root(s)
  PROVE  \E lev0, lev1, T, f :
           /\ Building(s0, lev0, C)
           /\ Adds(s0, lev0, C, CodePath(s0, mms["code"]), lev1, Min(s.pt), "code", mms["code"], T, f)
           /\ f \in s.user /\ T[1] = CodeTable /\ lev1[Min(s.pt)] = 4
<1> DEFINE g == Min(s.pt)
           P == mms["code"]
           r3 == CodeLevel(s0, Min(s0.pt), P[4])
           r2 == CodeLevel(r3, Min(r3.pt), P[3])
           r1 == CodeLevel(r2, r2.at, P[2])
<1>0. "code" \in Segs /\ P \in [1..4 -> Index] /\ P[4] \in Index /\ P[3] \in Index /\ P[2] \in Index
  BY SegsAre
<1>1. /\ g \in PtFrames /\ g = Frame1
      /\ \E lev : Building(s0, lev, C) /\ lev[g] = 4
      /\ s0.at = g /\ s0.pt = PtFrames \ {g} /\ s0.user = s.user
      /\ \A j \in Index : s0.mem[g][j] = NoEntry
      /\ \A t \in PtFrames \ {g} : s0.mem[t] = s.mem[t]
      /\ Cardinality(s0.pt) = Cardinality(PtFrames) - 1
  BY RootBuilds, ZenonT(60) DEF Frame1
<1> HIDE DEF g, P
<1>2. PICK lev0 : Building(s0, lev0, C) /\ lev0[g] = 4
  BY <1>1
<1>3. /\ MType(s0) /\ Cardinality(s0.pt) \in Nat /\ Cardinality(s0.pt) >= 11 /\ s0.pt # {}
      /\ s0.at \in PtFrames \ s0.pt
  <2>1. Cardinality(s0.pt) \in Nat /\ Cardinality(PtFrames) \in Nat
    BY <1>2, CardinalityPt, FramesAssumption, FS_CardinalityType DEF Building
  <2>2. Cardinality(s0.pt) >= 11
    BY <1>1, <2>1, FramesAssumption
  <2>3. MType(s0)
    BY <1>2 DEF Building
  <2>4. s0.pt # {}
    BY <2>2, <2>3, CardinalityPt
  <2> QED
    BY <1>1, <2>1, <2>2, <2>3, <2>4
<1>yes. PICK yes \in BOOLEAN : yes = TRUE
  OBVIOUS
<1>no. PICK no \in BOOLEAN : no = FALSE
  OBVIOUS
(* level 3 *)
<1>4. Goes(s0, r3, P[4], no, no, yes)
  <2>1. ~s0.mem[s0.at][P[4]].p
    BY <1>0, <1>1 DEF NoEntry
  <2>2. PICK m : m = Min(s0.pt)
    OBVIOUS
  <2>3. \E w \in BOOLEAN : w = FALSE /\ Goes(s0, CodeLevel(s0, m, P[4]), P[4], w, w, yes)
    <3>1. IF yes THEN m = Min(s0.pt) ELSE m = s0.at /\ \A j \in Index : s0.mem[s0.at][j] = NoEntry
      BY <1>yes, <2>2
    <3>2. MType(s0) /\ s0.at \in PtFrames \ s0.pt /\ s0.pt # {}
      BY <1>3
    <3>3. P[4] \in Index
      BY <1>0
    <3> QED
      BY ONLY <3>1, <3>2, <3>3, <2>1, yes \in BOOLEAN, CodeLevelGoes
  <2> QED
    BY <1>no, <2>2, <2>3
<1>5. r3.at = Min(s0.pt)
  BY DEF CodeLevel
<1> HIDE DEF r3
<1>6. PICK lev3 : Builds(s0, lev0, C, r3, lev3, P[4])
  <2>1. s0.at \in PtFrames /\ lev0[s0.at] >= 2
    BY <1>1, <1>2
  <2> QED
    BY <1>0, <1>2, <1>4, <1>yes, <2>1, GoesIsBuilds
<1>7. /\ r3.at \in s0.pt /\ r3.pt = s0.pt \ {r3.at} /\ MType(r3) /\ r3.user = s0.user
      /\ \A j \in Index : r3.mem[r3.at][j] = NoEntry
      /\ \A x \in PtFrames \ {r3.at, g}, j \in Index : r3.mem[x][j] = s0.mem[x][j]
      /\ Cardinality(r3.pt) = Cardinality(s0.pt) - 1
  <2>1. ~s0.mem[s0.at][P[4]].p
    BY <1>0, <1>1 DEF NoEntry
  <2>2. \A x \in PtFrames \ {r3.at, g}, j \in Index : <<x, j>> # <<s0.at, P[4]>>
    BY <1>1
  <2> QED
    BY <1>4, <1>yes, <2>1, <2>2 DEF Goes
<1>8. /\ Building(r3, lev3, C \cup {<<s0.at, P[4]>>}) /\ r3.at \in PtFrames /\ lev3[r3.at] = 3
      /\ Cardinality(r3.pt) \in Nat /\ Cardinality(r3.pt) >= 10 /\ r3.pt # {}
  <2>1. /\ Building(r3, lev3, C \cup {<<s0.at, P[4]>>}) /\ r3.at \in PtFrames /\ lev3[r3.at] = 3
    BY <1>1, <1>2, <1>6 DEF Builds
  <2>2. Cardinality(r3.pt) \in Nat /\ MType(r3)
    BY <1>7, CardinalityPt
  <2>3. Cardinality(r3.pt) >= 10 /\ Cardinality(r3.pt) >= 1
    BY <2>2, <1>3, <1>7
  <2> QED
    BY <2>1, <2>2, <2>3, CardinalityPt
(* level 2 *)
<1>9. Goes(r3, r2, P[3], no, no, yes)
  <2>1. ~r3.mem[r3.at][P[3]].p
    BY <1>0, <1>7 DEF NoEntry
  <2>2. PICK m : m = Min(r3.pt)
    OBVIOUS
  <2>3. r3.at \in PtFrames \ r3.pt
    BY <1>7, <1>8
  <2>4. \E w \in BOOLEAN : w = FALSE /\ Goes(r3, CodeLevel(r3, m, P[3]), P[3], w, w, yes)
    <3>1. IF yes THEN m = Min(r3.pt) ELSE m = r3.at /\ \A j \in Index : r3.mem[r3.at][j] = NoEntry
      BY <1>yes, <2>2
    <3>2. MType(r3) /\ r3.at \in PtFrames \ r3.pt /\ r3.pt # {}
      BY <1>7, <1>8, <2>3
    <3>3. P[3] \in Index
      BY <1>0
    <3> QED
      BY ONLY <3>1, <3>2, <3>3, <2>1, yes \in BOOLEAN, CodeLevelGoes
  <2> QED
    BY <1>no, <2>2, <2>4
<1>10. r2.at = Min(r3.pt)
  BY DEF CodeLevel
<1> HIDE DEF r2
<1>11. PICK lev2 : Builds(r3, lev3, C \cup {<<s0.at, P[4]>>}, r2, lev2, P[3])
  <2>1. r3.at \in PtFrames /\ lev3[r3.at] >= 2
    BY <1>8
  <2> QED
    BY <1>0, <1>8, <1>9, <1>yes, <2>1, GoesIsBuilds
<1>12. /\ r2.at \in r3.pt /\ r2.pt = r3.pt \ {r2.at} /\ MType(r2) /\ r2.user = r3.user
       /\ \A j \in Index : r2.mem[r2.at][j] = NoEntry
       /\ \A x \in PtFrames \ {r2.at, r3.at}, j \in Index : r2.mem[x][j] = r3.mem[x][j]
       /\ Cardinality(r2.pt) = Cardinality(r3.pt) - 1
  <2>1. ~r3.mem[r3.at][P[3]].p
    BY <1>0, <1>7 DEF NoEntry
  <2>2. \A x \in PtFrames \ {r2.at, r3.at}, j \in Index : <<x, j>> # <<r3.at, P[3]>>
    OBVIOUS
  <2> QED
    BY <1>9, <1>yes, <2>1, <2>2 DEF Goes
<1>13. /\ Building(r2, lev2, C \cup {<<s0.at, P[4]>>} \cup {<<r3.at, P[3]>>})
       /\ r2.at \in PtFrames /\ lev2[r2.at] = 2
       /\ Cardinality(r2.pt) \in Nat /\ Cardinality(r2.pt) >= 9 /\ r2.pt # {}
  <2>1. /\ Building(r2, lev2, C \cup {<<s0.at, P[4]>>} \cup {<<r3.at, P[3]>>})
        /\ r2.at \in PtFrames /\ lev2[r2.at] = 2
    BY <1>8, <1>11 DEF Builds
  <2>2. Cardinality(r2.pt) \in Nat /\ MType(r2)
    BY <1>12, CardinalityPt
  <2>3. Cardinality(r2.pt) >= 9 /\ Cardinality(r2.pt) >= 1
    BY <2>2, <1>8, <1>12
  <2> QED
    BY <2>1, <2>2, <2>3, CardinalityPt
(* level 1 *)
<1>14. Goes(r2, r1, P[2], no, no, no)
  <2>1. ~r2.mem[r2.at][P[2]].p
    BY <1>0, <1>12 DEF NoEntry
  <2>2. PICK m : m = r2.at
    OBVIOUS
  <2>3. r2.at \in PtFrames \ r2.pt
    BY <1>12, <1>13
  <2>4. \E w \in BOOLEAN : w = FALSE /\ Goes(r2, CodeLevel(r2, m, P[2]), P[2], w, w, no)
    <3>1. IF no THEN m = Min(r2.pt) ELSE m = r2.at /\ \A j \in Index : r2.mem[r2.at][j] = NoEntry
      BY <1>no, <2>2, <1>12
    <3>2. MType(r2) /\ r2.at \in PtFrames \ r2.pt /\ r2.pt # {}
      BY <1>12, <1>13, <2>3
    <3>3. P[2] \in Index
      BY <1>0
    <3> QED
      BY ONLY <3>1, <3>2, <3>3, <2>1, no \in BOOLEAN, CodeLevelGoes
  <2> QED
    BY <1>no, <2>2, <2>4
<1>15. r1.at = Min(r2.pt)
  BY DEF CodeLevel
<1> HIDE DEF r1
<1>16. r1.at = CodeTable /\ CodeTable \in PtFrames /\ CodeTable \notin {g, r3.at, r2.at}
  <2>1. r3.at = Frame2
    BY <1>1, <1>5 DEF Frame2
  <2>2. r3.pt = PtFrames \ {Frame1, Frame2}
    BY <1>1, <1>7, <2>1
  <2>3. r2.at = Frame3
    BY <1>10, <2>2 DEF Frame3
  <2>4. r2.pt = PtFrames \ {Frame1, Frame2, Frame3}
    BY <1>12, <2>2, <2>3
  <2>5. r1.at = CodeTable
    BY <1>15, <2>4 DEF CodeTable
  <2>6. ~r2.mem[r2.at][P[2]].p
    BY <1>0, <1>12 DEF NoEntry
  <2>7. r1.at \in r2.pt
    BY <1>14, <2>6 DEF Goes
  <2> QED
    BY <1>1, <2>1, <2>3, <2>4, <2>5, <2>7
<1>17. Harmless(r2.mem, r1.at, C \cup {<<s0.at, P[4]>>} \cup {<<r3.at, P[3]>>})
  <2>1. \A j \in Index : r2.mem[CodeTable][j] = s.mem[CodeTable][j]
    <3>1. CodeTable \in PtFrames \ {r2.at, r3.at} /\ CodeTable \in PtFrames \ {r3.at, g}
      BY <1>16
    <3> QED
      BY <1>1, <1>7, <1>12, <3>1
  <2> QED
    BY <1>16, <2>1 DEF Harmless, Edge
<1>18. PICK lev1 : Builds(r2, lev2, C \cup {<<s0.at, P[4]>>} \cup {<<r3.at, P[3]>>}, r1, lev1, P[2])
  <2>1. r2.at \in PtFrames /\ lev2[r2.at] >= 2
    BY <1>13
  <2>2. no \/ (lev2[r2.at] = 2 /\ Harmless(r2.mem, r1.at, C \cup {<<s0.at, P[4]>>} \cup {<<r3.at, P[3]>>}))
    BY <1>13, <1>17
  <2> DEFINE D == C \cup {<<s0.at, P[4]>>} \cup {<<r3.at, P[3]>>}
  <2>3. Building(r2, lev2, D) /\ (no \/ (lev2[r2.at] = 2 /\ Harmless(r2.mem, r1.at, D)))
    BY <1>13, <2>2
  <2> HIDE DEF D
  <2>4. \E lv : Builds(r2, lev2, D, r1, lv, P[2])
    BY <1>0, <1>14, <2>1, <2>3, GoesIsBuilds
  <2> QED
    BY <2>4 DEF D
(* the page *)
<1>19. PICK T : Descended(s0, lev0, C, r1, lev1, P, T)
  <2>1. s0.at \in PtFrames /\ lev0[s0.at] = 4
    BY <1>1, <1>2
  <2> QED
    BY <1>0, <1>2, <1>6, <1>11, <1>18, <2>1, Descends
<1>20. PageReady(s0, lev0, C, "code", P, r1, lev1, T)
  BY <1>2, <1>19 DEF PageReady, Writable
<1>21. PICK f \in s0.user \cap UserFrames :
         Adds(s0, lev0, C, Put(TakeUser(r1), r1.at, P[1], Entry(Min(r1.user), Writable("code"))),
              lev1, s0.at, "code", P, T, f)
  <2>1. PICK seg \in Segs : seg = "code"
    BY <1>0
  <2>2. Cardinality(s0.user) >= 1 /\ PageReady(s0, lev0, C, seg, P, r1, lev1, T)
    BY <1>1, <1>20, <2>1
  <2>3. \E f \in s0.user \cap UserFrames :
         Adds(s0, lev0, C, Put(TakeUser(r1), r1.at, P[1], Entry(Min(r1.user), Writable(seg))),
              lev1, s0.at, seg, P, T, f)
    BY <1>0, <2>2, TakenPageAdds
  <2> QED
    BY <2>1, <2>3
<1>22. CodePath(s0, P) = Put(TakeUser(r1), r1.at, P[1], Entry(Min(r1.user), Writable("code")))
  BY DEF CodePath, r1, r2, r3
<1>23. T[1] = CodeTable /\ lev1[g] = 4
  BY <1>1, <1>2, <1>16, <1>19 DEF Descended, Keeps
<1>24. /\ Building(s0, lev0, C)
       /\ Adds(s0, lev0, C, CodePath(s0, P), lev1, g, "code", P, T, f)
       /\ f \in s.user /\ T[1] = CodeTable /\ lev1[g] = 4
  BY <1>1, <1>2, <1>21, <1>22, <1>23
<1> QED
  BY <1>24 DEF g, P

(* The tables of the stack or the data. *)
LEMMA LevelsReady ==
  ASSUME NEW s, NEW lev, NEW C, Building(s, lev, C),
         s.at \in PtFrames, lev[s.at] = 4, Cardinality(s.pt) >= 3,
         NEW seg \in Segs, NEW P \in [1..4 -> Index],
         NEW w \in BOOLEAN, w = Writable(seg), w, NEW grant \in BOOLEAN,
         grant \/ ~s.mem[s.at][P[4]].p \/ s.mem[s.at][P[4]].w
  PROVE  \E lev1, T :
           PageReady(s, lev, C, seg, P,
                     Level(Level(Level(s, P[4], w, grant), P[3], w, w), P[2], w, w), lev1, T)
<1> DEFINE r3 == Level(s, P[4], w, grant)
           r2 == Level(r3, P[3], w, w)
           r1 == Level(r2, P[2], w, w)
<1>3. /\ Cardinality(s.pt) >= 1 /\ Cardinality(s.pt) \in Nat /\ lev[s.at] >= 2
      /\ P[4] \in Index /\ P[3] \in Index /\ P[2] \in Index
  BY CardinalityPt DEF Building
<1>4. PICK lev3 : Builds(s, lev, C, r3, lev3, P[4])
  BY <1>3, LevelBuilds
<1>5. r3.mem[s.at][P[4]].w
  <2>1. /\ w /\ grant => r3.mem[s.at][P[4]].w
        /\ w /\ ~s.mem[s.at][P[4]].p => r3.mem[s.at][P[4]].w
        /\ s.mem[s.at][P[4]].p /\ s.mem[s.at][P[4]].w => r3.mem[s.at][P[4]].w
    BY <1>3, LevelBuilds
  <2> QED
    BY <2>1
<1> HIDE DEF r3
<1>6. /\ Building(r3, lev3, C \cup {<<s.at, P[4]>>}) /\ r3.at \in PtFrames /\ lev3[r3.at] = 3
      /\ Cardinality(r3.pt) >= Cardinality(s.pt) - 1
  BY <1>4 DEF Builds
<1>7. Cardinality(r3.pt) >= 2 /\ Cardinality(r3.pt) \in Nat /\ Cardinality(r3.pt) >= 1
      /\ lev3[r3.at] >= 2
  BY <1>3, <1>6, CardinalityPt DEF Building
<1>8. PICK lev2 : Builds(r3, lev3, C \cup {<<s.at, P[4]>>}, r2, lev2, P[3])
  BY <1>3, <1>6, <1>7, LevelBuilds
<1>9. r2.mem[r3.at][P[3]].w
  <2>1. w /\ w => r2.mem[r3.at][P[3]].w
    BY <1>3, <1>6, <1>7, LevelBuilds
  <2> QED
    BY <2>1
<1> HIDE DEF r2
<1>10. /\ Building(r2, lev2, C \cup {<<s.at, P[4]>>} \cup {<<r3.at, P[3]>>})
       /\ r2.at \in PtFrames /\ lev2[r2.at] = 2
       /\ Cardinality(r2.pt) >= Cardinality(r3.pt) - 1
  BY <1>6, <1>8 DEF Builds
<1>11. Cardinality(r2.pt) >= 1 /\ lev2[r2.at] >= 2
  BY <1>7, <1>10, CardinalityPt DEF Building
<1>12. PICK lev1 : Builds(r2, lev2, C \cup {<<s.at, P[4]>>} \cup {<<r3.at, P[3]>>}, r1, lev1, P[2])
  BY <1>3, <1>10, <1>11, LevelBuilds
<1>13. r1.mem[r2.at][P[2]].w
  <2>1. w /\ w => r1.mem[r2.at][P[2]].w
    BY <1>3, <1>10, <1>11, LevelBuilds
  <2> QED
    BY <2>1
<1> HIDE DEF r1
<1>14. PICK T : /\ Descended(s, lev, C, r1, lev1, P, T)
                /\ /\ r3.mem[s.at][P[4]].w /\ r2.mem[r3.at][P[3]].w /\ r1.mem[r2.at][P[2]].w
                   => WayW(r1.mem, P, T)
  BY <1>4, <1>8, <1>12, Descends
<1>15. PageReady(s, lev, C, seg, P, r1, lev1, T)
  BY <1>5, <1>9, <1>13, <1>14 DEF PageReady
<1> QED
  BY <1>15 DEF r3, r2, r1

(* The stack's path in context_mm.c.                                        *)
LEMMA StackAdds ==
  ASSUME NEW s, NEW lev, NEW C, Building(s, lev, C), NEW g \in PtFrames, s.at = g,
         lev[g] = 4, Cardinality(s.pt) >= 3, Cardinality(s.user) >= 1,
         NEW P \in [1..4 -> Index]
  PROVE  \E lev1, T, f : Adds(s, lev, C, StackPath(s, P), lev1, g, "stack", P, T, f) /\ f \in s.user
<1>1. PICK seg \in Segs : seg = "stack"
  BY SegsAre
<1>2. PICK w \in BOOLEAN : w = Writable(seg) /\ w
  BY <1>1 DEF Writable
<1> DEFINE l1 == Level(Level(Level(s, P[4], w, w), P[3], w, w), P[2], w, w)
<1>3. PICK lev1, T : PageReady(s, lev, C, seg, P, l1, lev1, T)
  BY <1>2, LevelsReady
<1>4. StackPath(s, P) = Put(TakeUser(l1), l1.at, P[1], Entry(Min(l1.user), Writable(seg)))
  BY <1>1, <1>2 DEF StackPath
<1> HIDE DEF l1
<1>5. \E f \in s.user \cap UserFrames :
        Adds(s, lev, C, Put(TakeUser(l1), l1.at, P[1], Entry(Min(l1.user), Writable(seg))),
             lev1, s.at, seg, P, T, f)
  BY <1>3, TakenPageAdds
<1> QED
  BY <1>1, <1>4, <1>5

(* The data's path in context_mm.c, which grants no flag at level 4.        *)
LEMMA DataAdds ==
  ASSUME NEW s, NEW lev, NEW C, Building(s, lev, C), NEW g \in PtFrames, s.at = g,
         lev[g] = 4, Cardinality(s.pt) >= 3,
         arg_pfn \in UserFrames, arg_pfn \notin s.user,
         NEW P \in [1..4 -> Index], ~s.mem[g][P[4]].p \/ s.mem[g][P[4]].w
  PROVE  \E lev1, T : Adds(s, lev, C, DataPath(s, P), lev1, g, "data", P, T, arg_pfn)
<1>1. PICK seg \in Segs : seg = "data"
  BY SegsAre
<1>2. PICK w \in BOOLEAN : w = Writable(seg) /\ w
  BY <1>1 DEF Writable
<1>3. PICK no \in BOOLEAN : no = FALSE
  OBVIOUS
<1> DEFINE l1 == Level(Level(Level(s, P[4], w, no), P[3], w, w), P[2], w, w)
<1>4. PICK lev1, T : PageReady(s, lev, C, seg, P, l1, lev1, T)
  BY <1>2, LevelsReady
<1>5. DataPath(s, P) = Put(l1, l1.at, P[1], Entry(arg_pfn, Writable(seg)))
  BY <1>1, <1>2, <1>3 DEF DataPath
<1> HIDE DEF l1
<1>6. Adds(s, lev, C, Put(l1, l1.at, P[1], Entry(arg_pfn, Writable(seg))), lev1, s.at, seg, P, T, arg_pfn)
  BY <1>4, GivenPageAdds
<1> QED
  BY <1>1, <1>5, <1>6

(* At level 4 the data may meet an entry of the stack, which grants writing *)
(* already, but none of the code alone.                                     *)
LEMMA DataMayWrite ==
  ASSUME NEW s, NEW lev, NEW C, NEW g \in PtFrames, lev[g] = 4,
         NEW P \in [1..4 -> Index], NEW T, NEW Q \in [1..4 -> Index], NEW V, NEW f,
         Building(s, lev, C \cup AllSlots(P, T) \cup AllSlots(Q, V)),
         \A c \in C : c[1] # g, Way(s.mem, lev, P, T),
         SegMapped(s.mem, lev, g, "stack", Q, V, f),
         NEW i \in Index, i = P[4] => i = Q[4]
  PROVE  ~s.mem[g][i].p \/ s.mem[g][i].w
<1> SUFFICES ASSUME s.mem[g][i].p PROVE s.mem[g][i].w
  OBVIOUS
<1>1. Way(s.mem, lev, Q, V) /\ V[4] = g /\ s.mem[g][Q[4]].w
  BY DEF SegMapped, Writable, WayW
<1>2. Edge(s.mem, g, i)
  BY DEF Building, NoEntry
<1>3. <<g, i>> \in C \cup AllSlots(P, T) \cup AllSlots(Q, V)
  BY <1>2 DEF Building, Shape
<1>4. <<g, i>> \notin C
  <2>1. <<g, i>>[1] = g
    OBVIOUS
  <2> QED
    BY <2>1
<1>5. <<g, i>> \in AllSlots(P, T) => i = P[4]
  BY DEF AllSlots, Slots, Way
<1>6. <<g, i>> \in AllSlots(Q, V) => i = Q[4]
  BY <1>1 DEF AllSlots, Slots, Way
<1> QED
  BY <1>1, <1>3, <1>4, <1>5, <1>6

(* prepare_context_mm of context_mm.c. *)
LEMMA MMPrepares ==
  ASSUME NEW s, MType(s), s.pt = PtFrames, arg_pfn \in UserFrames, s.user = UserFrames \ {arg_pfn},
         Cardinality(s.user) >= 2, mms \in [Segs -> [1..4 -> Index]],
         \A x, y \in Segs : x # y => mms[x] # mms[y],
         mms["data"][4] = mms["code"][4] => mms["stack"][4] = mms["code"][4],
         NEW C, C \subseteq {CodeTable} \X Index, Harmless(s.mem, CodeTable, C)
  PROVE  \E lev, T, G : /\ Complete(PrepareMM(s), lev, C, Min(s.pt), mms, T, G)
                        /\ G["data"] = arg_pfn /\ T["code"][1] = CodeTable
<1> DEFINE g == Min(s.pt)
           s0 == Root(s)
           s1 == CodePath(s0, mms["code"])
           r1 == [s1 EXCEPT !.at = g]
           s2 == StackPath(r1, mms["stack"])
           r2 == [s2 EXCEPT !.at = g]
           s3 == DataPath(r2, mms["data"])
<1>0. /\ "stack" \in Segs /\ "code" \in Segs /\ "data" \in Segs
      /\ Segs = {"code", "stack", "data"}
      /\ mms["stack"] \in [1..4 -> Index] /\ mms["code"] \in [1..4 -> Index]
      /\ mms["data"] \in [1..4 -> Index]
  BY SegsAre
<1>1. /\ s0.at = g /\ g \in PtFrames /\ s0.pt = PtFrames \ {g} /\ s0.user = s.user
      /\ Cardinality(s0.pt) = Cardinality(PtFrames) - 1
  BY RootBuilds
<1>2. PrepareMM(s) = s3
  BY <1>1 DEF PrepareMM
<1>3. PICK lev0, lev1, Tc, fc :
         /\ Building(s0, lev0, C)
         /\ Adds(s0, lev0, C, s1, lev1, g, "code", mms["code"], Tc, fc)
         /\ fc \in s.user /\ Tc[1] = CodeTable /\ lev1[g] = 4
  <2>1. Cardinality(s.user) >= 1
    <3>1. Cardinality(s.user) \in Nat
      BY CardinalityPt
    <3> QED
      BY <3>1
  <2>2. PICK q : q = Root(s)
    OBVIOUS
  <2>3. \E lv0, lv1, T, f :
           /\ Building(q, lv0, C)
           /\ Adds(q, lv0, C, CodePath(q, mms["code"]), lv1, Min(s.pt), "code", mms["code"], T, f)
           /\ f \in s.user /\ T[1] = CodeTable /\ lv1[Min(s.pt)] = 4
    BY ONLY <2>1, <2>2, CodeAdds, MType(s), s.pt = PtFrames, mms \in [Segs -> [1..4 -> Index]],
       Harmless(s.mem, CodeTable, C)
  <2> QED
    BY <2>2, <2>3
<1> HIDE DEF g, s0, s1
<1>4. /\ Cardinality(s0.pt) \in Nat /\ Cardinality(s0.pt) >= 11
      /\ Cardinality(s0.user) \in Nat /\ Cardinality(s0.user) >= 2
  <2>1. /\ Cardinality(s0.pt) \in Nat /\ Cardinality(s0.user) \in Nat
        /\ Cardinality(PtFrames) \in Nat
    BY <1>3, CardinalityPt, FramesAssumption, FS_CardinalityType DEF Building
  <2>2. Cardinality(s0.pt) >= 11
    BY <1>1, <2>1, FramesAssumption
  <2>3. Cardinality(s0.user) >= 2
    BY <1>1
  <2> QED
    BY <2>1, <2>2, <2>3
<1>5. /\ Building(s1, lev1, C \cup AllSlots(mms["code"], Tc))
      /\ s1.user = s0.user \ {fc} /\ SegMapped(s1.mem, lev1, g, "code", mms["code"], Tc, fc)
      /\ Cardinality(s1.pt) >= Cardinality(s0.pt) - 3
      /\ Cardinality(s1.user) >= Cardinality(s0.user) - 1
  BY <1>3 DEF Adds
<1> DEFINE C1 == C \cup AllSlots(mms["code"], Tc)
<1>6. /\ Building(r1, lev1, C1) /\ r1.at = g /\ r1.mem = s1.mem /\ r1.pt = s1.pt
      /\ r1.user = s1.user
  BY <1>1, <1>5, BuildingAt
<1> HIDE DEF r1, C1
<1>7. /\ Cardinality(r1.pt) \in Nat /\ Cardinality(r1.pt) >= 8 /\ Cardinality(r1.pt) >= 3
      /\ Cardinality(r1.user) \in Nat /\ Cardinality(r1.user) >= 1
  <2>1. Cardinality(r1.pt) \in Nat /\ Cardinality(r1.user) \in Nat
    BY <1>6, CardinalityPt DEF Building
  <2> QED
    BY <1>4, <1>5, <1>6, <2>1
<1>8. PICK lev2, Tk, fk : Adds(r1, lev1, C1, s2, lev2, g, "stack", mms["stack"], Tk, fk)
                          /\ fk \in r1.user
  BY <1>0, <1>1, <1>3, <1>6, <1>7, StackAdds
<1> HIDE DEF s2
<1>9. /\ Building(s2, lev2, C1 \cup AllSlots(mms["stack"], Tk))
      /\ lev2[g] = 4 /\ s2.user = r1.user \ {fk}
      /\ SegMapped(s2.mem, lev2, g, "stack", mms["stack"], Tk, fk)
      /\ Cardinality(s2.pt) >= Cardinality(r1.pt) - 3
      /\ Keeps(r1.mem, lev1, s2.mem, lev2)
  BY <1>1, <1>3, <1>8 DEF Adds, Keeps
<1> DEFINE C2 == C1 \cup AllSlots(mms["stack"], Tk)
<1>10. /\ Building(r2, lev2, C2) /\ r2.at = g /\ r2.mem = s2.mem /\ r2.pt = s2.pt
       /\ r2.user = s2.user
  BY <1>1, <1>9, BuildingAt
<1> HIDE DEF r2
<1>11. Cardinality(r2.pt) >= 3 /\ arg_pfn \notin r2.user
  <2>1. Cardinality(r2.pt) \in Nat
    BY <1>10, CardinalityPt DEF Building
  <2> QED
    BY <1>1, <1>5, <1>6, <1>7, <1>9, <1>10, <2>1
<1>12. Way(r2.mem, lev2, mms["code"], Tc) /\ SegMapped(r2.mem, lev2, g, "stack", mms["stack"], Tk, fk)
  <2>1. Way(r1.mem, lev1, mms["code"], Tc)
    BY <1>5, <1>6 DEF SegMapped
  <2> QED
    BY <1>0, <1>9, <1>10, <2>1, WayKept
<1>13. \A c \in C : c[1] # g
  <2>1. CodeTable # g
    BY <1>3, <1>5 DEF SegMapped, Way
  <2> QED
    BY <2>1
<1>14. PICK i \in Index : i = mms["data"][4]
  BY <1>0
<1>15. ~r2.mem[g][i].p \/ r2.mem[g][i].w
  <2>1. Building(r2, lev2, C \cup AllSlots(mms["code"], Tc) \cup AllSlots(mms["stack"], Tk))
    BY <1>10 DEF C1, C2
  <2>2. i = mms["code"][4] => i = mms["stack"][4]
    BY <1>14
  <2> QED
    <3>1. g \in PtFrames /\ lev2[g] = 4
      BY <1>1, <1>9
    <3>2. PICK P \in [1..4 -> Index], Q \in [1..4 -> Index] : P = mms["code"] /\ Q = mms["stack"]
      BY <1>0
    <3>3. /\ Building(r2, lev2, C \cup AllSlots(P, Tc) \cup AllSlots(Q, Tk))
          /\ Way(r2.mem, lev2, P, Tc) /\ SegMapped(r2.mem, lev2, g, "stack", Q, Tk, fk)
          /\ i = P[4] => i = Q[4]
      BY <1>12, <2>1, <2>2, <3>2
    <3> QED
      BY ONLY <1>13, <3>1, <3>3, P \in [1..4 -> Index], Q \in [1..4 -> Index], i \in Index,
         DataMayWrite
<1> HIDE DEF C2
<1>16. PICK lev3, Td : Adds(r2, lev2, C2, s3, lev3, g, "data", mms["data"], Td, arg_pfn)
  BY <1>0, <1>1, <1>9, <1>10, <1>11, <1>14, <1>15, DataAdds
<1> HIDE DEF s3
<1>17. fc # fk /\ fc # arg_pfn /\ fk # arg_pfn /\ arg_pfn \in {fc, fk, arg_pfn}
  BY <1>1, <1>3, <1>5, <1>6, <1>8
<1>18. \E T, G : /\ Complete(s3, lev3, C, g, mms, T, G)
                 /\ T["code"] = Tc /\ T["stack"] = Tk /\ T["data"] = Td
                 /\ G["code"] = fc /\ G["stack"] = fk /\ G["data"] = arg_pfn
  <2>1. PICK a \in Segs, b \in Segs, c \in Segs : a = "code" /\ b = "stack" /\ c = "data"
    BY <1>0
  <2>2. a # b /\ a # c /\ b # c /\ Segs = {a, b, c}
    BY <1>0, <2>1
  <2>3. /\ Adds(s0, lev0, C, s1, lev1, g, a, mms[a], Tc, fc)
        /\ Adds(r1, lev1, C \cup AllSlots(mms[a], Tc), s2, lev2, g, b, mms[b], Tk, fk)
        /\ Adds(r2, lev2, C \cup AllSlots(mms[a], Tc) \cup AllSlots(mms[b], Tk),
                s3, lev3, g, c, mms[c], Td, arg_pfn)
    BY <1>3, <1>8, <1>16, <2>1 DEF C1, C2
  <2>4. /\ s0.pt = PtFrames \ {g} /\ s0.user = UserFrames \ {arg_pfn} /\ Building(s0, lev0, C)
        /\ r1.mem = s1.mem /\ r1.pt = s1.pt /\ r1.user = s1.user
        /\ r2.mem = s2.mem /\ r2.pt = s2.pt /\ r2.user = s2.user
        /\ Cardinality(s0.pt) >= 10
    BY <1>1, <1>3, <1>4, <1>6, <1>10
  <2>5. Chained(mms, g, arg_pfn, C, s0, lev0, a, s1, lev1, Tc, fc, r1,
                b, s2, lev2, Tk, fk, r2, c, s3, lev3, Td, arg_pfn)
    BY <1>17, <2>2, <2>3, <2>4 DEF Chained
  <2>6. \E T, G : /\ Complete(s3, lev3, C, g, mms, T, G)
                  /\ T[a] = Tc /\ T[b] = Tk /\ T[c] = Td
                  /\ G[a] = fc /\ G[b] = fk /\ G[c] = arg_pfn
    BY <2>5, ThreeSegments
  <2> QED
    BY <2>1, <2>6
<1> QED
  BY <1>2, <1>3, <1>18 DEF g

-----------------------------------------------------------------------------
(* The page of a segment is reached by a user. *)
LEMMA LeafEdge ==
  ASSUME NEW m, NEW lev, NEW g, NEW seg \in Segs, NEW P, NEW T, NEW f,
         SegMapped(m, lev, g, seg, P, T, f)
  PROVE  Edge(m, T[1], P[1]) /\ m[T[1]][P[1]].f = f /\ m[T[1]][P[1]].w = Writable(seg)
<1>1. m[T[1]][P[1]] = Entry(f, Writable(seg)) /\ f \in PtFrames \cup UserFrames
  BY DEF SegMapped
<1>2. PICK w \in BOOLEAN : w = Writable(seg)
  BY SegsAre
<1>3. Entry(f, w).p /\ Entry(f, w).u /\ Entry(f, w).f = f /\ Entry(f, w).w = w
  BY <1>1, EntryFields
<1> QED
  BY <1>1, <1>2, <1>3 DEF Edge

(* A walk of the hardware stays in the tables, and where a walk is there,   *)
(* it is the hardware's.                                                    *)
LEMMA ShapeDown ==
  ASSUME NEW m, NEW lev, NEW C, Shape(m, lev, C), NEW t \in PtFrames, NEW i \in Index,
         lev[t] >= 2, Edge(m, t, i)
  PROVE  m[t][i].f \in PtFrames /\ lev[m[t][i].f] = lev[t] - 1
  BY DEF Shape

(* What a user can walk is a way of the building.                           *)
LEMMA WalkIsWay ==
  ASSUME NEW s, NEW lev, NEW C, Shape(s.mem, lev, C), pgd \in PtFrames, lev[pgd] = 4,
         NEW P \in [1..4 -> Index], Walkable(s, P), \A l \in 1..4 : Walk(s, P)[l].u
  PROVE  LET T == <<Walk(s, P)[3].f, Walk(s, P)[2].f, Walk(s, P)[1].f, pgd>> IN
         Way(s.mem, lev, P, T) /\ Edge(s.mem, T[1], P[1])
<1>0. P[1] \in Index /\ P[2] \in Index /\ P[3] \in Index /\ P[4] \in Index
  OBVIOUS
<1>e. PICK e4, e3, e2, e1 : /\ e4 = s.mem[pgd][P[4]] /\ e3 = s.mem[e4.f][P[3]]
                            /\ e2 = s.mem[e3.f][P[2]] /\ e1 = s.mem[e2.f][P[1]]
  OBVIOUS
<1> DEFINE T == <<e2.f, e3.f, e4.f, pgd>>
<1>1. Walk(s, P) = <<e4, e3, e2, e1>>
  BY <1>e DEF Walk
<1>w. Walk(s, P)[1] = e4 /\ Walk(s, P)[2] = e3 /\ Walk(s, P)[3] = e2 /\ Walk(s, P)[4] = e1
  BY <1>1
<1>2. e4.u /\ e3.u /\ e2.u /\ e1.u
  <2>1. 1 \in 1..4 /\ 2 \in 1..4 /\ 3 \in 1..4 /\ 4 \in 1..4
    OBVIOUS
  <2> QED
    BY <1>w, <2>1
<1>3. e4.p /\ e3.p /\ e2.p /\ e1.p /\ e4.f \in PtFrames /\ e3.f \in PtFrames /\ e2.f \in PtFrames
  BY <1>e DEF Walkable, Present
<1>4. Edge(s.mem, pgd, P[4]) /\ lev[e4.f] = 3
  <2>1. Edge(s.mem, pgd, P[4])
    BY <1>e, <1>2, <1>3 DEF Edge
  <2>2. lev[pgd] >= 2
    OBVIOUS
  <2>3. lev[s.mem[pgd][P[4]].f] = lev[pgd] - 1
    BY <1>0, <2>1, <2>2, ShapeDown
  <2>4. lev[e4.f] = lev[pgd] - 1
    BY ONLY <1>e, <2>3
  <2> QED
    BY ONLY lev[pgd] = 4, <2>1, <2>4
<1>5. Edge(s.mem, e4.f, P[3]) /\ lev[e3.f] = 2
  <2>1. Edge(s.mem, e4.f, P[3])
    BY <1>e, <1>2, <1>3 DEF Edge
  <2>2. lev[e4.f] >= 2
    BY <1>4
  <2>3. lev[s.mem[e4.f][P[3]].f] = lev[e4.f] - 1
    BY <1>0, <1>3, <2>1, <2>2, ShapeDown
  <2>4. lev[e3.f] = lev[e4.f] - 1
    BY ONLY <1>e, <2>3
  <2> QED
    BY ONLY <1>4, <2>1, <2>4
<1>6. Edge(s.mem, e3.f, P[2]) /\ lev[e2.f] = 1
  <2>1. Edge(s.mem, e3.f, P[2])
    BY <1>e, <1>2, <1>3 DEF Edge
  <2>2. lev[e3.f] >= 2
    BY <1>5
  <2>3. lev[s.mem[e3.f][P[2]].f] = lev[e3.f] - 1
    BY <1>0, <1>3, <2>1, <2>2, ShapeDown
  <2>4. lev[e2.f] = lev[e3.f] - 1
    BY ONLY <1>e, <2>3
  <2> QED
    BY ONLY <1>5, <2>1, <2>4
<1>7. Edge(s.mem, e2.f, P[1])
  BY <1>e, <1>2, <1>3 DEF Edge
<1>8. T \in [1..4 -> PtFrames] /\ T[4] = pgd /\ T[3] = e4.f /\ T[2] = e3.f /\ T[1] = e2.f
  BY <1>3
<1>9. Way(s.mem, lev, P, T) /\ Edge(s.mem, T[1], P[1])
  <2> HIDE DEF T
  <2> QED
    BY <1>e, <1>4, <1>5, <1>6, <1>7, <1>8 DEF Way
<1>10. T = <<Walk(s, P)[3].f, Walk(s, P)[2].f, Walk(s, P)[1].f, pgd>>
  BY <1>w
<1> QED
  BY <1>9, <1>10

WalkIs(s, P, T, f) ==
    /\ Walkable(s, P)
    /\ Walk(s, P) = <<s.mem[T[4]][P[4]], s.mem[T[3]][P[3]], s.mem[T[2]][P[2]], s.mem[T[1]][P[1]]>>
    /\ Walk(s, P)[1].f = T[3] /\ Walk(s, P)[2].f = T[2] /\ Walk(s, P)[3].f = T[1]
    /\ Walk(s, P)[4].f = f

(* A segment's way is what the hardware walks.                              *)
LEMMA WayIsWalk ==
  ASSUME NEW s, NEW lev, NEW seg \in Segs, NEW P \in [1..4 -> Index], NEW T, NEW f,
         SegMapped(s.mem, lev, pgd, seg, P, T, f)
  PROVE  WalkIs(s, P, T, f)
<1>1. /\ T \in [1..4 -> PtFrames] /\ pgd = T[4]
      /\ Edge(s.mem, T[4], P[4]) /\ s.mem[T[4]][P[4]].f = T[3]
      /\ Edge(s.mem, T[3], P[3]) /\ s.mem[T[3]][P[3]].f = T[2]
      /\ Edge(s.mem, T[2], P[2]) /\ s.mem[T[2]][P[2]].f = T[1]
  BY DEF SegMapped, Way
<1>2. Edge(s.mem, T[1], P[1]) /\ s.mem[T[1]][P[1]].f = f
  BY LeafEdge
<1>3. T[4] \in PtFrames /\ T[3] \in PtFrames /\ T[2] \in PtFrames /\ T[1] \in PtFrames
  BY <1>1
<1>4. Walkable(s, P)
  BY <1>1, <1>2, <1>3 DEF Walkable, Present, Edge
<1>5. Walk(s, P) = <<s.mem[T[4]][P[4]], s.mem[T[3]][P[3]], s.mem[T[2]][P[2]], s.mem[T[1]][P[1]]>>
  BY <1>1 DEF Walk
<1> QED
  BY <1>1, <1>2, <1>4, <1>5 DEF WalkIs

(* check_and_launch_context accepts what is laid out. *)
LEMMA LaidAccepted ==
  ASSUME NEW s, NEW lev, NEW C, NEW T, NEW G, Laid(s.mem, lev, C, pgd, mms, T, G),
         mms \in [Segs -> [1..4 -> Index]], G["data"] = arg_pfn
  PROVE  Accepted(s)
<1> SUFFICES ASSUME NEW seg \in Segs PROVE SegmentAccepted(s, seg)
  BY DEF Accepted
<1>1. PICK P, V, f :
         P \in [1..4 -> Index] /\ P = mms[seg] /\ V = T[seg] /\ f = G[seg] /\ SegMapped(s.mem, lev, pgd, seg, P, V, f)
  BY DEF Laid
<1> DEFINE e == Walk(s, P)
<1>s. SegMapped(s.mem, lev, pgd, seg, P, V, f) /\ P \in [1..4 -> Index]
  BY <1>1
<1>2. /\ Walkable(s, P)
      /\ e = <<s.mem[V[4]][P[4]], s.mem[V[3]][P[3]], s.mem[V[2]][P[2]], s.mem[V[1]][P[1]]>>
      /\ e[4].f = f
  <2>1. WalkIs(s, P, V, f)
    BY <1>s, WayIsWalk
  <2> QED
    BY <2>1 DEF WalkIs
<1>3. /\ e[1] = s.mem[V[4]][P[4]] /\ e[2] = s.mem[V[3]][P[3]] /\ e[3] = s.mem[V[2]][P[2]]
      /\ e[4] = s.mem[V[1]][P[1]]
  BY <1>2
<1> HIDE DEF e
<1>4. Edge(s.mem, V[1], P[1]) /\ e[4].w = Writable(seg)
  <2>1. Edge(s.mem, V[1], P[1]) /\ s.mem[V[1]][P[1]].w = Writable(seg)
    BY <1>s, LeafEdge
  <2> QED
    BY <1>3, <2>1
<1>5. e[1].u /\ e[2].u /\ e[3].u /\ e[4].u
  BY <1>1, <1>3, <1>4 DEF SegMapped, Way, Edge
<1>6. Writable(seg) => e[1].w /\ e[2].w /\ e[3].w /\ e[4].w
  BY <1>1, <1>3, <1>4 DEF SegMapped, WayW
<1>7. ~Writable(seg) => ~e[4].w
  BY <1>4
<1>8. f \in UserFrames /\ (seg = "data" => f = arg_pfn)
  BY <1>1 DEF SegMapped
<1>9. \A l \in 1..4 : l = 1 \/ l = 2 \/ l = 3 \/ l = 4
  OBVIOUS
<1>10. \A l \in 1..4 : e[l].u /\ (Writable(seg) => e[l].w)
  BY <1>5, <1>6, <1>9
<1> QED
  BY <1>1, <1>2, <1>7, <1>8, <1>10 DEF SegmentAccepted, e

-----------------------------------------------------------------------------
(* Index paths written from level 4 down, as the properties have them.      *)
LEMMA HomeIs ==
  ASSUME mms \in [Segs -> [1..4 -> Index]], NEW seg \in Segs
  PROVE  /\ Home(seg) \in Seq(Index) /\ Len(Home(seg)) = 4
         /\ Home(seg)[1] = mms[seg][4] /\ Home(seg)[2] = mms[seg][3]
         /\ Home(seg)[3] = mms[seg][2] /\ Home(seg)[4] = mms[seg][1]
         /\ Path(Home(seg)) = mms[seg]
<1>1. PICK P \in [1..4 -> Index] : P = mms[seg]
  OBVIOUS
<1>2. P[1] \in Index /\ P[2] \in Index /\ P[3] \in Index /\ P[4] \in Index
  OBVIOUS
<1>3. Home(seg) = <<P[4], P[3], P[2], P[1]>>
  BY <1>1 DEF Home
<1>4. Path(Home(seg)) = <<P[1], P[2], P[3], P[4]>>
  BY <1>3 DEF Path
<1>5. Path(Home(seg)) \in [1..4 -> Index]
  BY <1>2, <1>4
<1>6. Path(Home(seg)) = P
  <2>1. PICK Q \in [1..4 -> Index] : Q = Path(Home(seg))
    BY <1>5
  <2>2. Q[4] = P[4] /\ Q[3] = P[3] /\ Q[2] = P[2] /\ Q[1] = P[1]
    BY <1>4, <2>1
  <2> QED
    BY <2>1, <2>2, PathsEqual
<1> QED
  BY <1>1, <1>2, <1>3, <1>6

(* The first indexes of a path.                                             *)
LEMMA PrefixOf ==
  ASSUME NEW S, NEW p \in Seq(S), Len(p) = 4, NEW n \in 0..3
  PROVE  /\ SubSeq(p, 1, n) \in Seq(S) /\ Len(SubSeq(p, 1, n)) = n
         /\ \A k \in 1..n : SubSeq(p, 1, n)[k] = p[k]
<1>1. \A i \in 1..n : p[i] \in S
  <2>1. \A i \in 1..n : i \in 1..Len(p)
    OBVIOUS
  <2> QED
    BY <2>1, ElementOfSeq, Zenon
<1>2. 1 \in Int /\ n \in Int
  OBVIOUS
<1>3. /\ SubSeq(p, 1, n) \in Seq(S) /\ Len(SubSeq(p, 1, n)) = IF 1 <= n THEN n-1+1 ELSE 0
      /\ \A i \in 1..n-1+1 : SubSeq(p, 1, n)[i] = p[1+i-1]
  BY <1>1, <1>2, SubSeqProperties
<1>4. (IF 1 <= n THEN n-1+1 ELSE 0) = n /\ n-1+1 = n
  OBVIOUS
<1>5. \A i \in 1..n : 1+i-1 = i
  OBVIOUS
<1> QED
  BY <1>3, <1>4, <1>5

(* Two paths begin alike when their first indexes agree.                    *)
LEMMA PrefixesEqual ==
  ASSUME NEW S, NEW p \in Seq(S), Len(p) = 4, NEW q \in Seq(S), Len(q) = 4, NEW n \in 0..3
  PROVE  SubSeq(p, 1, n) = SubSeq(q, 1, n) <=> \A k \in 1..n : p[k] = q[k]
<1> DEFINE a == SubSeq(p, 1, n)
           b == SubSeq(q, 1, n)
<1>1. a \in Seq(S) /\ Len(a) = n /\ \A k \in 1..n : a[k] = p[k]
  BY PrefixOf
<1>2. b \in Seq(S) /\ Len(b) = n /\ \A k \in 1..n : b[k] = q[k]
  BY PrefixOf
<1> HIDE DEF a, b
<1>3. (\A k \in 1..n : a[k] = b[k]) => a = b
  BY <1>1, <1>2, SeqEqual
<1>4. a = b <=> \A k \in 1..n : p[k] = q[k]
  BY <1>1, <1>2, <1>3
<1> QED
  BY <1>4 DEF a, b

(* A user's path from level 4 down. *)
LEMMA PrefixIs ==
  ASSUME NEW q \in Prefixes
  PROVE  /\ q \in Seq(Index) /\ Len(q) = 4 /\ Path(q) \in [1..4 -> Index]
         /\ Path(q)[4] = q[1] /\ Path(q)[3] = q[2] /\ Path(q)[2] = q[3] /\ Path(q)[1] = q[4]
<1>1. PICK i4 \in Index, i3 \in Index, i2 \in Index, i1 \in Index : q = <<i4, i3, i2, i1>>
  BY DEF Prefixes
<1>2. Path(q) = <<i1, i2, i3, i4>>
  BY <1>1 DEF Path
<1> QED
  BY <1>1, <1>2

(* A path is its four indexes.                                              *)
LEMMA FourIs ==
  ASSUME NEW q, NEW r, NEW S, q \in Seq(S), r \in Seq(S), Len(q) = 4, Len(r) = 4,
         q[1] = r[1], q[2] = r[2], q[3] = r[3], q[4] = r[4]
  PROVE  q = r
<1>1. \A k \in 1..Len(q) : q[k] = r[k]
  <2>1. \A k \in 1..Len(q) : k = 1 \/ k = 2 \/ k = 3 \/ k = 4
    BY SMT
  <2> QED
    BY <2>1
<1> QED
  BY <1>1

(* The entries that no clearing removed. *)
Leftover(ver, d, L) ==
    IF ver # "context_mm" THEN {}
    ELSE {CodeTable} \X (IF CodeTable \in d THEN Index
                         ELSE {L[seg][1] : seg \in {x \in Segs : /\ L[x][4] = L["code"][4]
                                                                /\ L[x][3] = L["code"][3]
                                                                /\ L[x][2] = L["code"][2]}})

Standing(m, lev, ver, d, g, L, T, G, arg) ==
    /\ Laid(m, lev, Leftover(ver, d, L), g, L, T, G) /\ G["data"] = arg
    /\ ver = "context_mm" => T["code"][1] = CodeTable

(* The tables that a walk finds. *)
LEMMA TablesAre ==
  ASSUME NEW lev, NEW C, NEW T, NEW G, Laid(mm.mem, lev, C, pgd, mms, T, G),
         mms \in [Segs -> [1..4 -> Index]], NEW a \in Segs
  PROVE  /\ Tables(Home(a)) = <<T[a][4], T[a][3], T[a][2], T[a][1]>>
         /\ Walk(mm, mms[a])[4].f = G[a]
<1>1. PICK P, V, f :
         P \in [1..4 -> Index] /\ P = mms[a] /\ V = T[a] /\ f = G[a] /\ SegMapped(mm.mem, lev, pgd, a, P, V, f)
  BY DEF Laid
<1>2. WalkIs(mm, P, V, f) /\ V[4] = pgd
  <2>1. SegMapped(mm.mem, lev, pgd, a, P, V, f) /\ P \in [1..4 -> Index]
    BY <1>1
  <2> QED
    BY <2>1, WayIsWalk DEF SegMapped
<1>3. Path(Home(a)) = P
  BY <1>1, HomeIs
<1>4. Tables(Home(a)) = <<pgd, Walk(mm, P)[1].f, Walk(mm, P)[2].f, Walk(mm, P)[3].f>>
  BY <1>3 DEF Tables
<1> QED
  BY <1>1, <1>2, <1>4 DEF WalkIs

(* Tables of two levels differ; tables of one level are the same exactly    *)
(* where the paths agree above.                                             *)
LEMMA LaidForm ==
  ASSUME NEW lev, NEW C, NEW T, NEW G, Laid(mm.mem, lev, C, pgd, mms, T, G),
         mms \in [Segs -> [1..4 -> Index]],
         NEW a \in Segs, NEW b \in Segs, NEW i \in 1..4, NEW j \in 1..4
  PROVE  Tables(Home(a))[i] = Tables(Home(b))[j]
            <=> i = j /\ SubSeq(Home(a), 1, i-1) = SubSeq(Home(b), 1, i-1)
<1>1. PICK P, V, Q, W :
         /\ P \in [1..4 -> Index] /\ Q \in [1..4 -> Index]
         /\ P = mms[a] /\ V = T[a] /\ Q = mms[b] /\ W = T[b]
         /\ Way(mm.mem, lev, P, V) /\ V[4] = pgd /\ Way(mm.mem, lev, Q, W) /\ W[4] = pgd
  BY DEF Laid, SegMapped
<1>2. /\ Tables(Home(a)) = <<V[4], V[3], V[2], V[1]>>
      /\ Tables(Home(b)) = <<W[4], W[3], W[2], W[1]>>
  BY <1>1, TablesAre
<1>3. /\ V[3] = W[3] <=> P[4] = Q[4]
      /\ V[2] = W[2] <=> P[4] = Q[4] /\ P[3] = Q[3]
      /\ V[1] = W[1] <=> P[4] = Q[4] /\ P[3] = Q[3] /\ P[2] = Q[2]
  <2>1. Shape(mm.mem, lev, C \cup AllOf(mms, T)) /\ V[4] = W[4]
    BY <1>1 DEF Laid
  <2> QED
    BY <1>1, <2>1, WaysMeet
<1>4. /\ lev[V[4]] = 4 /\ lev[V[3]] = 3 /\ lev[V[2]] = 2 /\ lev[V[1]] = 1
      /\ lev[W[4]] = 4 /\ lev[W[3]] = 3 /\ lev[W[2]] = 2 /\ lev[W[1]] = 1
  BY <1>1 DEF Way
<1>5. /\ Tables(Home(a))[1] = V[4] /\ Tables(Home(a))[2] = V[3]
      /\ Tables(Home(a))[3] = V[2] /\ Tables(Home(a))[4] = V[1]
      /\ Tables(Home(b))[1] = W[4] /\ Tables(Home(b))[2] = W[3]
      /\ Tables(Home(b))[3] = W[2] /\ Tables(Home(b))[4] = W[1]
  BY <1>2
<1>6. i = 1 \/ i = 2 \/ i = 3 \/ i = 4
  OBVIOUS
<1>7. j = 1 \/ j = 2 \/ j = 3 \/ j = 4
  OBVIOUS
<1>8. i # j => Tables(Home(a))[i] # Tables(Home(b))[j]
  BY <1>4, <1>5, <1>6, <1>7
<1>9. ASSUME i = j
      PROVE  Tables(Home(a))[i] = Tables(Home(b))[i]
                <=> SubSeq(Home(a), 1, i-1) = SubSeq(Home(b), 1, i-1)
  <2> DEFINE p == Home(a)
             q == Home(b)
  <2>1. /\ p \in Seq(Index) /\ Len(p) = 4 /\ q \in Seq(Index) /\ Len(q) = 4
        /\ p[1] = P[4] /\ p[2] = P[3] /\ p[3] = P[2]
        /\ q[1] = Q[4] /\ q[2] = Q[3] /\ q[3] = Q[2]
    BY <1>1, HomeIs
  <2> HIDE DEF p, q
  <2>2. PICK n \in 0..3 : n = i - 1
    OBVIOUS
  <2>3. SubSeq(p, 1, n) = SubSeq(q, 1, n) <=> \A k \in 1..n : p[k] = q[k]
    BY <2>1, PrefixesEqual
  <2>4. CASE i = 1
    <3>1. \A k \in 1..n : FALSE
      BY <2>2, <2>4
    <3> QED
      BY <1>1, <1>5, <2>2, <2>3, <2>4, <3>1 DEF p, q
  <2>5. CASE i = 2
    <3>1. \A k : k \in 1..n <=> k = 1
      BY <2>2, <2>5
    <3> QED
      BY <1>3, <1>5, <2>1, <2>2, <2>3, <2>5, <3>1 DEF p, q
  <2>6. CASE i = 3
    <3>1. \A k : k \in 1..n <=> k = 1 \/ k = 2
      BY <2>2, <2>6
    <3> QED
      BY <1>3, <1>5, <2>1, <2>2, <2>3, <2>6, <3>1 DEF p, q
  <2>7. CASE i = 4
    <3>1. \A k : k \in 1..n <=> k = 1 \/ k = 2 \/ k = 3
      BY <2>2, <2>7
    <3> QED
      BY <1>3, <1>5, <2>1, <2>2, <2>3, <2>7, <3>1 DEF p, q
  <2> QED
    BY <1>6, <2>4, <2>5, <2>6, <2>7
<1> QED
  BY <1>8, <1>9

(* Nothing but the pages and what was left in the code's table is reached.  *)
LEMMA LaidOnly ==
  ASSUME NEW lev, NEW T, NEW G, Standing(mm.mem, lev, version, dirty, pgd, mms, T, G, arg_pfn),
         mms \in [Segs -> [1..4 -> Index]], pgd \in PtFrames, NEW q \in UserPages
  PROVE  (\E seg \in Segs : q = Home(seg)) \/ BelowCodeTable(q)
<1> DEFINE C == Leftover(version, dirty, mms)
           P == Path(q)
           V == <<Walk(mm, P)[3].f, Walk(mm, P)[2].f, Walk(mm, P)[1].f, pgd>>
<1>1. /\ Laid(mm.mem, lev, C, pgd, mms, T, G) /\ Shape(mm.mem, lev, C \cup AllOf(mms, T))
      /\ version = "context_mm" => T["code"][1] = CodeTable
  BY DEF Standing, Laid
<1>2. /\ q \in Seq(Index) /\ Len(q) = 4 /\ P \in [1..4 -> Index]
      /\ P[4] = q[1] /\ P[3] = q[2] /\ P[2] = q[3] /\ P[1] = q[4]
  BY PrefixIs DEF UserPages
<1>3. Walkable(mm, P) /\ \A l \in 1..4 : Walk(mm, P)[l].u
  BY DEF UserPages
<1>4. Tables(q)[4] = V[1]
  BY DEF Tables
<1>5. "code" \in Segs
  BY SegsAre
<1>6. \A seg \in Segs : /\ Way(mm.mem, lev, mms[seg], T[seg]) /\ T[seg][4] = pgd
                        /\ mms[seg] \in [1..4 -> Index]
  BY <1>1 DEF Laid, SegMapped
<1>7. lev[pgd] = 4
  BY <1>5, <1>6 DEF Way
<1> HIDE DEF C
<1>8. Way(mm.mem, lev, P, V) /\ Edge(mm.mem, V[1], P[1])
  <2> HIDE DEF P
  <2> QED
    BY <1>1, <1>2, <1>3, <1>7, WalkIsWay
<1>9. V[4] = pgd
  OBVIOUS
<1> HIDE DEF P, V
<1>10. V[1] \in PtFrames /\ lev[V[1]] = 1 /\ P[1] \in Index
  BY <1>2, <1>8 DEF Way
<1>11. \A seg \in Segs :
          V[1] = T[seg][1] <=> P[4] = mms[seg][4] /\ P[3] = mms[seg][3] /\ P[2] = mms[seg][2]
  <2> TAKE seg \in Segs
  <2>1. PICK Q, W : /\ Q \in [1..4 -> Index] /\ Q = mms[seg] /\ W = T[seg]
                                        /\ Way(mm.mem, lev, Q, W) /\ V[4] = W[4]
    BY <1>6, <1>9
  <2>2. V[1] = W[1] <=> P[4] = Q[4] /\ P[3] = Q[3] /\ P[2] = Q[2]
    BY <1>1, <1>2, <1>8, <2>1, WaysMeet
  <2> QED
    BY <2>1, <2>2
<1>12. \A seg \in Segs : V[1] = T[seg][1] /\ P[1] = mms[seg][1] => q = Home(seg)
  <2> TAKE seg \in Segs
  <2> HAVE V[1] = T[seg][1] /\ P[1] = mms[seg][1]
  <2>1. /\ Home(seg) \in Seq(Index) /\ Len(Home(seg)) = 4
        /\ Home(seg)[1] = mms[seg][4] /\ Home(seg)[2] = mms[seg][3]
        /\ Home(seg)[3] = mms[seg][2] /\ Home(seg)[4] = mms[seg][1]
    BY HomeIs
  <2>2. P[4] = mms[seg][4] /\ P[3] = mms[seg][3] /\ P[2] = mms[seg][2]
    BY <1>11
  <2>3. q[1] = Home(seg)[1] /\ q[2] = Home(seg)[2] /\ q[3] = Home(seg)[3] /\ q[4] = Home(seg)[4]
    BY <1>2, <2>1, <2>2
  <2> QED
    BY <1>2, <2>1, <2>3, FourIs
<1>13. <<V[1], P[1]>> \in C \cup AllOf(mms, T)
  BY <1>1, <1>8, <1>10 DEF Shape
<1>14. CASE <<V[1], P[1]>> \in AllOf(mms, T)
  <2>1. PICK seg \in Segs : <<V[1], P[1]>> \in AllSlots(mms[seg], T[seg])
    BY <1>14 DEF AllOf
  <2>2. V[1] = T[seg][1] /\ P[1] = mms[seg][1]
    BY <1>6, <1>10, <2>1 DEF AllSlots, Slots, Way
  <2> QED
    BY <1>12, <2>2
<1>15. CASE <<V[1], P[1]>> \in C
  <2>1. version = "context_mm" /\ V[1] = CodeTable
    BY <1>15 DEF C, Leftover
  <2>2. V[1] = T["code"][1]
    BY <1>1, <2>1
  <2>3. P[4] = mms["code"][4] /\ P[3] = mms["code"][3] /\ P[2] = mms["code"][2]
    BY <1>5, <1>11, <2>2
  <2>4. CASE CodeTable \in dirty
    <3>1. /\ Home("code") \in Seq(Index) /\ Len(Home("code")) = 4
          /\ Home("code")[1] = mms["code"][4] /\ Home("code")[2] = mms["code"][3]
          /\ Home("code")[3] = mms["code"][2]
      BY <1>5, HomeIs
    <3>2. PICK n \in 0..3 : n = 3
      OBVIOUS
    <3>3. \A k \in 1..n : q[k] = Home("code")[k]
      <4>1. \A k \in 1..n : k = 1 \/ k = 2 \/ k = 3
        BY <3>2
      <4> QED
        BY <1>2, <2>3, <3>1, <4>1
    <3>4. SubSeq(q, 1, n) = SubSeq(Home("code"), 1, n)
      BY <1>2, <3>1, <3>3, PrefixesEqual
    <3> QED
      BY <1>4, <2>1, <2>4, <3>2, <3>4 DEF BelowCodeTable
  <2>5. CASE CodeTable \notin dirty
    <3>1. PICK seg \in Segs : /\ P[1] = mms[seg][1] /\ mms[seg][4] = mms["code"][4]
                              /\ mms[seg][3] = mms["code"][3] /\ mms[seg][2] = mms["code"][2]
      BY <1>15, <2>1, <2>5 DEF C, Leftover
    <3>2. V[1] = T[seg][1]
      BY <1>11, <2>3, <3>1
    <3> QED
      BY <1>12, <3>1, <3>2
  <2> QED
    BY <2>4, <2>5
<1> QED
  BY <1>13, <1>14, <1>15

-----------------------------------------------------------------------------
(* The lists of frames that cleanup gives back: of a region they hold S,    *)
(* each frame once.                                                         *)
Frees(list, region, S) ==
    /\ list \in Seq(Nat)
    /\ \A k \in 1..Len(list) : list[k] \in region => list[k] \in S
    /\ \A f \in S : f \in region /\ \E k \in 1..Len(list) : list[k] = f
    /\ \A j, k \in 1..Len(list) : list[j] \in region /\ list[j] = list[k] => j = k

(* Lists of different frames may be joined.                                 *)
LEMMA FreesJoin ==
  ASSUME NEW a, NEW b, NEW R, NEW S, NEW Q, Frees(a, R, S), Frees(b, R, Q), S \cap Q = {}
  PROVE  Frees(a \o b, R, S \cup Q) /\ Len(a \o b) = Len(a) + Len(b)
<1> DEFINE c == a \o b
           m == Len(a)
           n == Len(b)
<1>1. /\ a \in Seq(Nat) /\ b \in Seq(Nat) /\ m \in Nat /\ n \in Nat
      /\ \A k \in 1..m : a[k] \in R => a[k] \in S
      /\ \A k \in 1..n : b[k] \in R => b[k] \in Q
      /\ \A f \in S : f \in R /\ \E k \in 1..m : a[k] = f
      /\ \A f \in Q : f \in R /\ \E k \in 1..n : b[k] = f
      /\ \A j, k \in 1..m : a[j] \in R /\ a[j] = a[k] => j = k
      /\ \A j, k \in 1..n : b[j] \in R /\ b[j] = b[k] => j = k
  BY DEF Frees
<1>2. /\ c \in Seq(Nat) /\ Len(c) = m + n
      /\ \A i \in 1..m+n : c[i] = IF i <= m THEN a[i] ELSE b[i - m]
  BY <1>1, ConcatProperties
<1> HIDE DEF c, m, n
<1>3. \A i \in 1..m+n : \/ i \in 1..m /\ c[i] = a[i]
                        \/ i - m \in 1..n /\ i \notin 1..m /\ c[i] = b[i - m]
  BY <1>1, <1>2, SMTT(30)
<1>4. \A k \in 1..m : k \in 1..m+n /\ c[k] = a[k]
  BY <1>1, <1>2
<1>5. \A k \in 1..n : m + k \in 1..m+n /\ c[m + k] = b[k]
  <2> TAKE k \in 1..n
  <2>1. m + k \in 1..m+n /\ ~(m + k <= m) /\ (m + k) - m = k
    BY <1>1
  <2> QED
    BY <1>2, <2>1
<1>6. \A k \in 1..m+n : c[k] \in R => c[k] \in S \cup Q
  BY <1>1, <1>3
<1>7. \A f \in S \cup Q : f \in R /\ \E k \in 1..m+n : c[k] = f
  <2> TAKE f \in S \cup Q
  <2>1. CASE f \in S
    <3>1. f \in R /\ \E k \in 1..m : a[k] = f
      BY <1>1, <2>1
    <3> QED
      BY <1>4, <3>1
  <2>2. CASE f \in Q
    <3>1. f \in R
      BY <1>1, <2>2
    <3>2. PICK k \in 1..n : b[k] = f
      BY <1>1, <2>2
    <3>3. m + k \in 1..m+n /\ c[m + k] = f
      BY <1>5, <3>2
    <3> QED
      BY <3>1, <3>3
  <2> QED
    BY <2>1, <2>2
<1>8. \A j, k \in 1..m+n : c[j] \in R /\ c[j] = c[k] => j = k
  <2> TAKE j, k \in 1..m+n
  <2> HAVE c[j] \in R /\ c[j] = c[k]
  <2>1. CASE j \in 1..m /\ k \in 1..m
    BY <1>1, <1>4, <2>1
  <2>2. CASE j \notin 1..m /\ k \notin 1..m
    <3>1. /\ j - m \in 1..n /\ k - m \in 1..n /\ c[j] = b[j - m] /\ c[k] = b[k - m]
      BY <1>3, <2>2
    <3>2. j - m = k - m
      BY <1>1, <3>1
    <3> QED
      BY <1>1, <3>2
  <2>3. CASE j \in 1..m /\ k \notin 1..m
    <3>1. c[j] \in S /\ c[k] \in Q
      BY <1>1, <1>3, <2>3
    <3> QED
      BY <3>1
  <2>4. CASE j \notin 1..m /\ k \in 1..m
    <3>1. c[j] \in Q /\ c[k] \in S
      BY <1>1, <1>3, <2>4
    <3> QED
      BY <3>1
  <2> QED
    BY <2>1, <2>2, <2>3, <2>4
<1> QED
  BY <1>2, <1>6, <1>7, <1>8 DEF Frees, c, m, n

(* A list is counted as often as it has frames.                             *)
LEMMA HitsCount ==
  ASSUME NEW list, NEW R, NEW S, Frees(list, R, S)
  PROVE  Cardinality(Hits(list, R)) = Cardinality(S) /\ Range(list) \cap R = S
<1> DEFINE H == Hits(list, R)
           F == [k \in H |-> list[k]]
<1>1. /\ list \in Seq(Nat) /\ Len(list) \in Nat /\ DOMAIN list = 1..Len(list)
      /\ \A k \in 1..Len(list) : list[k] \in R => list[k] \in S
      /\ \A f \in S : f \in R /\ \E k \in 1..Len(list) : list[k] = f
      /\ \A j, k \in 1..Len(list) : list[j] \in R /\ list[j] = list[k] => j = k
  BY DEF Frees
<1>2. H = {k \in 1..Len(list) : list[k] \in R}
  BY <1>1 DEF Hits
<1>3. IsFiniteSet(H)
  <2>1. IsFiniteSet(1..Len(list))
    BY <1>1, FS_Interval
  <2> QED
    BY <1>2, <2>1, FS_Subset
<1> HIDE DEF H
<1>4. F \in [H -> S]
  BY <1>1, <1>2
<1>5. \A j, k \in H : F[j] = F[k] => j = k
  BY <1>1, <1>2
<1>6. \A f \in S : \E k \in H : F[k] = f
  BY <1>1, <1>2
<1> HIDE DEF F
<1>7. F \in Bijection(H, S)
  BY <1>4, <1>5, <1>6 DEF Bijection, Injection, Surjection, IsInjective
<1>8. ExistsBijection(H, S)
  BY <1>7 DEF ExistsBijection
<1>9. Cardinality(S) = Cardinality(H)
  BY <1>3, <1>8, FS_Bijection
<1>10. Range(list) \cap R = S
  BY <1>1 DEF Range
<1> QED
  BY <1>9, <1>10 DEF H

(* What is freed was taken: bitmap and counter still agree.                 *)
LEMMA FreeAllIs ==
  ASSUME NEW s, MType(s), NEW os, NEW S, Frees(os, PtFrames, S), S \cap s.pt = {},
         NEW usr, NEW U, Frees(usr, UserFrames, U), U \cap s.user = {}
  PROVE  LET r == FreeAll(s, os, usr) IN
         /\ MType(r) /\ r.pt = s.pt \cup S /\ r.user = s.user \cup U
         /\ r.mem = s.mem /\ r.at = s.at
<1>1. Cardinality(Hits(os, PtFrames)) = Cardinality(S) /\ Range(os) \cap PtFrames = S
  BY HitsCount
<1>2. Cardinality(Hits(usr, UserFrames)) = Cardinality(U) /\ Range(usr) \cap UserFrames = U
  BY HitsCount
<1> DEFINE x == Cardinality(S)
           y == Cardinality(U)
<1>3. FreeAll(s, os, usr) = [s EXCEPT !.pt = @ \cup S, !.ptFree = @ + x,
                                      !.user = @ \cup U, !.userFree = @ + y]
  BY <1>1, <1>2 DEF FreeAll
<1>4. S \subseteq PtFrames /\ U \subseteq UserFrames
  BY DEF Frees
<1>5. s.pt \subseteq PtFrames /\ s.user \subseteq UserFrames
  BY DEF MType, Machines
<1>6. IsFiniteSet(S) /\ IsFiniteSet(U) /\ IsFiniteSet(s.pt) /\ IsFiniteSet(s.user)
  BY <1>4, <1>5, FS_Subset, FramesAssumption
<1>7. /\ x \in Nat /\ y \in Nat /\ Cardinality(s.pt) \in Nat /\ Cardinality(s.user) \in Nat
      /\ Cardinality({}) = 0
  BY <1>6, FS_CardinalityType, FS_EmptySet
<1>8. /\ Cardinality(s.pt \cup S) = Cardinality(s.pt) + x
      /\ Cardinality(s.user \cup U) = Cardinality(s.user) + y
  <2>1. /\ Cardinality(s.pt \cup S) = Cardinality(s.pt) + Cardinality(S) - Cardinality(s.pt \cap S)
        /\ Cardinality(s.user \cup U)
              = Cardinality(s.user) + Cardinality(U) - Cardinality(s.user \cap U)
    BY <1>6, FS_Union
  <2>2. s.pt \cap S = {} /\ s.user \cap U = {}
    OBVIOUS
  <2>3. Cardinality(s.pt \cap S) = 0 /\ Cardinality(s.user \cap U) = 0
    BY <1>7, <2>2
  <2>4. Cardinality(S) = x /\ Cardinality(U) = y
    OBVIOUS
  <2> HIDE DEF x, y
  <2> QED
    BY <1>7, <2>1, <2>3, <2>4
<1> HIDE DEF x, y
<1> DEFINE r == [s EXCEPT !.pt = @ \cup S, !.ptFree = @ + x, !.user = @ \cup U, !.userFree = @ + y]
<1>9. /\ r.pt = s.pt \cup S /\ r.user = s.user \cup U /\ r.mem = s.mem /\ r.at = s.at
      /\ r.ptFree = s.ptFree + x /\ r.userFree = s.userFree + y
  BY DEF MType, Machines
<1>10. r \in Machines
  <2>1. s.pt \cup S \in SUBSET PtFrames /\ s.user \cup U \in SUBSET UserFrames
    BY <1>4, <1>5
  <2>2. s.ptFree + x \in Nat /\ s.userFree + y \in Nat
    BY <1>7 DEF MType, Machines
  <2> QED
    BY <2>1, <2>2 DEF MType, Machines
<1> HIDE DEF r
<1>11. Counted(r)
  BY <1>8, <1>9 DEF MType, Counted
<1> QED
  BY <1>3, <1>9, <1>10, <1>11 DEF MType, r

(* The comparisons of context_mm.c list each table of a level once.         *)
LEMMA DistinctFrees ==
  ASSUME NEW R \in SUBSET Nat, NEW c \in R, NEW k \in R, NEW d \in R
  PROVE  /\ Frees(Distinct(c, k, d), R, {c, k, d})
         /\ Len(Distinct(c, k, d)) \in 1..3
         /\ c = k \/ c = d \/ k = d => Len(Distinct(c, k, d)) <= 2
<1> DEFINE l == Distinct(c, k, d)
<1>1. CASE c # k /\ d \notin {c, k}
  <2>1. l \in Seq(Nat) /\ Len(l) = 3 /\ l[1] = c /\ l[2] = k /\ l[3] = d
    <3>1. l = <<c, k>> \o <<d>>
      BY <1>1 DEF Distinct
    <3>2. PICK x, y : x = <<c, k>> /\ y = <<d>>
      OBVIOUS
    <3>3. /\ x \in Seq(Nat) /\ Len(x) = 2 /\ x[1] = c /\ x[2] = k
          /\ y \in Seq(Nat) /\ Len(y) = 1 /\ y[1] = d
      BY <3>2
    <3>4. l = x \o y
      BY <3>1, <3>2
    <3>5. /\ x \o y \in Seq(Nat) /\ Len(x \o y) = Len(x) + Len(y)
          /\ \A i \in 1..Len(x) + Len(y) :
               (x \o y)[i] = IF i <= Len(x) THEN x[i] ELSE y[i - Len(x)]
      BY <3>3, ConcatProperties, Zenon
    <3>6. l \in Seq(Nat) /\ Len(l) = 3 /\ l[1] = c /\ l[2] = k /\ l[3] = d
      <4> HIDE DEF l
      <4> QED
        BY <3>3, <3>4, <3>5
    <3> QED
      BY <3>6
  <2> HIDE DEF l
  <2>2. l \in Seq(Nat) /\ Len(l) = 3 /\ l[1] = c /\ l[2] = k /\ l[3] = d
    BY <2>1
  <2>3. \A i \in 1..3 : i = 1 \/ i = 2 \/ i = 3
    OBVIOUS
  <2>4. 1 \in 1..3 /\ 2 \in 1..3 /\ 3 \in 1..3
    OBVIOUS
  <2>5. Frees(l, R, {c, k, d})
    BY <1>1, <2>2, <2>3, <2>4 DEF Frees
  <2> QED
    BY <1>1, <2>2, <2>5 DEF l
<1>2. CASE (c # k /\ d \in {c, k}) \/ (c = k /\ d # c)
  <2>1. PICK x \in R, y \in R : /\ l \in Seq(Nat) /\ Len(l) = 2 /\ l[1] = x /\ l[2] = y
                               /\ x # y /\ {c, k, d} = {x, y}
    <3>1. CASE c # k /\ d \in {c, k}
      <4>1. l = <<c, k>> \o <<>> /\ {c, k, d} = {c, k}
        BY <3>1 DEF Distinct
      <4>2. <<c, k>> \o <<>> = <<c, k>>
        OBVIOUS
      <4>3. l \in Seq(Nat) /\ Len(l) = 2 /\ l[1] = c /\ l[2] = k /\ {c, k, d} = {c, k}
        <5>1. l = <<c, k>>
          BY <4>1, <4>2
        <5> HIDE DEF l
        <5> QED
          BY <4>1, <5>1
      <4> QED
        BY <3>1, <4>3
    <3>2. CASE c = k /\ d # c
      <4>1. l = <<c>> \o <<d>> /\ {c, k, d} = {c, d}
        BY <3>2 DEF Distinct
      <4>2. PICK x, y : x = <<c>> /\ y = <<d>>
        OBVIOUS
      <4>3. x \in Seq(Nat) /\ Len(x) = 1 /\ x[1] = c /\ y \in Seq(Nat) /\ Len(y) = 1 /\ y[1] = d
        BY <4>2
      <4>4. l = x \o y
        BY <4>1, <4>2
      <4>5. /\ x \o y \in Seq(Nat) /\ Len(x \o y) = Len(x) + Len(y)
            /\ \A i \in 1..Len(x) + Len(y) :
                 (x \o y)[i] = IF i <= Len(x) THEN x[i] ELSE y[i - Len(x)]
        BY <4>3, ConcatProperties, Zenon
      <4>6. l \in Seq(Nat) /\ Len(l) = 2 /\ l[1] = c /\ l[2] = d
        <5> HIDE DEF l
        <5> QED
          BY <4>3, <4>4, <4>5
      <4> QED
        BY <3>2, <4>1, <4>6
    <3> QED
      BY <1>2, <3>1, <3>2
  <2> HIDE DEF l
  <2>2. l \in Seq(Nat) /\ Len(l) = 2 /\ l[1] = x /\ l[2] = y
    BY <2>1
  <2>3. \A i \in 1..2 : i = 1 \/ i = 2
    OBVIOUS
  <2>4. 1 \in 1..2 /\ 2 \in 1..2
    OBVIOUS
  <2>5. Frees(l, R, {x, y})
    BY <2>1, <2>2, <2>3, <2>4 DEF Frees
  <2>6. {c, k, d} = {x, y}
    BY <2>1
  <2>7. Frees(l, R, {c, k, d})
    BY <2>5, <2>6
  <2>8. Len(l) \in 1..3 /\ Len(l) <= 2
    BY <2>2
  <2> QED
    BY <2>7, <2>8 DEF l
<1>3. CASE c = k /\ d = c
  <2>1. l = <<c>>
    <3>1. l = <<c>> \o <<>>
      BY <1>3 DEF Distinct
    <3>2. PICK x : x = <<c>>
      OBVIOUS
    <3>3. x \in Seq(Nat)
      BY <3>2
    <3>4. x \o <<>> = x
      BY <3>3, ConcatEmptySeq
    <3> QED
      BY <3>1, <3>2, <3>4
  <2> HIDE DEF l
  <2>2. l \in Seq(Nat) /\ Len(l) = 1 /\ l[1] = c
    BY <2>1
  <2>3. \A i \in 1..1 : i = 1
    OBVIOUS
  <2>4. 1 \in 1..1
    OBVIOUS
  <2>5. Frees(l, R, {c, k, d})
    BY <1>3, <2>2, <2>3, <2>4 DEF Frees
  <2> QED
    BY <2>2, <2>5 DEF l
<1> QED
  BY <1>1, <1>2, <1>3

(* The zeros of actual.c list each table of a level once.                   *)
LEMMA OnceFrees ==
  ASSUME NEW R \in SUBSET Nat, 0 \notin R, NEW a \in R, NEW b \in R, NEW c \in R
  PROVE  Frees(Once(a, b, c), R, {a, b, c})
<1> DEFINE l == Once(a, b, c)
           b1 == IF b = a THEN 0 ELSE b
           c1 == IF c = a THEN 0 ELSE c
           c2 == IF c1 = b1 THEN 0 ELSE c1
<1>1. l = <<a, b1, c2>>
  BY DEF Once
<1>2. /\ b1 \in Nat /\ c2 \in Nat
      /\ b1 \in R => b1 = b /\ b # a
      /\ c2 \in R => c2 = c /\ c # a /\ c # b
      /\ b = a \/ b1 = b
      /\ c = a \/ c = b \/ c2 = c
  OBVIOUS
<1> HIDE DEF l, b1, c2
<1>3. l \in Seq(Nat) /\ Len(l) = 3 /\ l[1] = a /\ l[2] = b1 /\ l[3] = c2
  BY <1>1, <1>2
<1>4. \A i \in 1..3 : i = 1 \/ i = 2 \/ i = 3
  OBVIOUS
<1>5. 1 \in 1..3 /\ 2 \in 1..3 /\ 3 \in 1..3
  OBVIOUS
<1>6. \A f \in {a, b, c} : f \in R /\ \E i \in 1..3 : l[i] = f
  BY <1>2, <1>3, <1>5
<1>7. \A i \in 1..3 : l[i] \in R => l[i] \in {a, b, c}
  BY <1>2, <1>3, <1>4
<1>8. \A i, j \in 1..3 : l[i] \in R /\ l[i] = l[j] => i = j
  BY <1>2, <1>3, <1>4
<1>9. Frees(l, R, {a, b, c})
  BY <1>3, <1>6, <1>7, <1>8 DEF Frees
<1> QED
  BY <1>9 DEF l

(* A list of one frame.                                                     *)
LEMMA OneFrees ==
  ASSUME NEW R \in SUBSET Nat, NEW f \in R
  PROVE  Frees(<<f>>, R, {f}) /\ Len(<<f>>) = 1
<1> DEFINE l == <<f>>
<1>1. l \in Seq(Nat) /\ Len(l) = 1 /\ l[1] = f
  OBVIOUS
<1> HIDE DEF l
<1>2. \A i \in 1..1 : i = 1
  OBVIOUS
<1>3. 1 \in 1..1
  OBVIOUS
<1>4. Frees(l, R, {f})
  BY <1>1, <1>2, <1>3 DEF Frees
<1> QED
  BY <1>1, <1>4 DEF l

(* A list of three different frames.                                        *)
LEMMA ThreeFrees ==
  ASSUME NEW R \in SUBSET Nat, NEW a \in R, NEW b \in R, NEW c \in R, a # b, a # c, b # c
  PROVE  Frees(<<a, b, c>>, R, {a, b, c})
<1> DEFINE l == <<a, b, c>>
<1>1. l \in Seq(Nat) /\ Len(l) = 3 /\ l[1] = a /\ l[2] = b /\ l[3] = c
  OBVIOUS
<1> HIDE DEF l
<1>2. \A i \in 1..3 : i = 1 \/ i = 2 \/ i = 3
  OBVIOUS
<1>3. 1 \in 1..3 /\ 2 \in 1..3 /\ 3 \in 1..3
  OBVIOUS
<1>4. Frees(l, R, {a, b, c})
  BY <1>1, <1>2, <1>3 DEF Frees
<1> QED
  BY <1>4 DEF l

-----------------------------------------------------------------------------
(* What the two versions of cleanup give back.                              *)

(* The tables of a context, level by level; no table is at two levels.      *)
OfLevel(T, l) == {T["code"][l], T["stack"][l], T["data"][l]}

(* The tables in use are those of the four levels.                          *)
LEMMA UsedIs ==
  ASSUME NEW m, NEW lev, NEW C, NEW g, NEW L, NEW T, NEW G, Laid(m, lev, C, g, L, T, G)
  PROVE  /\ Used(T) = OfLevel(T, 3) \cup OfLevel(T, 2) \cup OfLevel(T, 1) \cup {g}
         /\ \A l \in 1..4 : OfLevel(T, l) \subseteq PtFrames
         /\ \A l \in 1..3 : \A t \in OfLevel(T, l) : lev[t] = l
         /\ g \in PtFrames /\ lev[g] = 4
         /\ \A seg \in Segs : T[seg] \in [1..4 -> PtFrames] /\ T[seg][4] = g /\ G[seg] \in UserFrames
<1>1. \A seg \in Segs :
         /\ T[seg] \in [1..4 -> PtFrames] /\ T[seg][4] = g /\ G[seg] \in UserFrames
         /\ lev[T[seg][4]] = 4 /\ lev[T[seg][3]] = 3 /\ lev[T[seg][2]] = 2 /\ lev[T[seg][1]] = 1
  BY DEF Laid, SegMapped, Way
<1>2. Segs = {"code", "stack", "data"} /\ "code" \in Segs /\ "stack" \in Segs /\ "data" \in Segs
  BY DEF Segs
<1>3. \A l \in 1..4 : OfLevel(T, l) \subseteq PtFrames
  BY <1>1, <1>2 DEF OfLevel
<1>4. \A l \in 1..3 : \A t \in OfLevel(T, l) : lev[t] = l
  <2> TAKE l \in 1..3
  <2> TAKE t \in OfLevel(T, l)
  <2>1. l = 1 \/ l = 2 \/ l = 3
    OBVIOUS
  <2>2. PICK seg \in Segs : t = T[seg][l]
    BY <1>2 DEF OfLevel
  <2> QED
    BY <1>1, <2>1, <2>2
<1>5. g \in PtFrames /\ lev[g] = 4
  BY <1>1, <1>2
<1>6. \A l \in 1..4 : l = 1 \/ l = 2 \/ l = 3 \/ l = 4
  OBVIOUS
<1>7. 1 \in 1..4 /\ 2 \in 1..4 /\ 3 \in 1..4 /\ 4 \in 1..4
  OBVIOUS
<1>8. \A l \in 1..4 : \A t : t \in OfLevel(T, l) <=> \E seg \in Segs : t = T[seg][l]
  BY <1>2 DEF OfLevel
<1>9. OfLevel(T, 4) = {g}
  BY <1>1, <1>2 DEF OfLevel
<1>10. Used(T) = {t \in PtFrames : \E l \in 1..4 : t \in OfLevel(T, l)}
  BY <1>8 DEF Used
<1>11. Used(T) = OfLevel(T, 1) \cup OfLevel(T, 2) \cup OfLevel(T, 3) \cup OfLevel(T, 4)
  BY <1>3, <1>6, <1>7, <1>10
<1> QED
  BY <1>1, <1>3, <1>4, <1>5, <1>9, <1>11

(* Four lists, one for each level, together free every table once.          *)
LEMMA LevelsFree ==
  ASSUME NEW m, NEW lev, NEW C, NEW g, NEW L, NEW T, NEW G, Laid(m, lev, C, g, L, T, G),
         NEW x \in 1..3, NEW y \in 1..3, NEW z \in 1..3, {x, y, z} = 1..3,
         NEW a, NEW b, NEW c, Frees(a, PtFrames, OfLevel(T, x)),
         Frees(b, PtFrames, OfLevel(T, y)), Frees(c, PtFrames, OfLevel(T, z))
  PROVE  LET l == a \o b \o c \o <<g>> IN
         Frees(l, PtFrames, Used(T)) /\ Len(l) = Len(a) + Len(b) + Len(c) + 1
<1>1. /\ Used(T) = OfLevel(T, 3) \cup OfLevel(T, 2) \cup OfLevel(T, 1) \cup {g}
      /\ \A l \in 1..3 : \A t \in OfLevel(T, l) : lev[t] = l
      /\ g \in PtFrames /\ lev[g] = 4
  BY UsedIs
<1>2. x # y /\ x # z /\ y # z
  OBVIOUS
<1>3. OfLevel(T, x) \cap OfLevel(T, y) = {}
  BY <1>1, <1>2
<1>4. (OfLevel(T, x) \cup OfLevel(T, y)) \cap OfLevel(T, z) = {}
  BY <1>1, <1>2
<1>5. (OfLevel(T, x) \cup OfLevel(T, y) \cup OfLevel(T, z)) \cap {g} = {}
  BY <1>1
<1>6. Frees(a \o b, PtFrames, OfLevel(T, x) \cup OfLevel(T, y)) /\ Len(a \o b) = Len(a) + Len(b)
  BY <1>3, FreesJoin
<1>7. /\ Frees(a \o b \o c, PtFrames, OfLevel(T, x) \cup OfLevel(T, y) \cup OfLevel(T, z))
      /\ Len(a \o b \o c) = Len(a \o b) + Len(c)
  BY <1>4, <1>6, FreesJoin
<1>8. PtFrames \in SUBSET Nat
  BY FramesAssumption
<1>9. Frees(<<g>>, PtFrames, {g}) /\ Len(<<g>>) = 1
  BY <1>1, <1>8, OneFrees
<1>10. /\ Frees(a \o b \o c \o <<g>>, PtFrames,
                OfLevel(T, x) \cup OfLevel(T, y) \cup OfLevel(T, z) \cup {g})
       /\ Len(a \o b \o c \o <<g>>) = Len(a \o b \o c) + Len(<<g>>)
  BY <1>5, <1>7, <1>9, FreesJoin
<1>11. OfLevel(T, x) \cup OfLevel(T, y) \cup OfLevel(T, z) \cup {g} = Used(T)
  <2>1. \A l \in 1..3 : l = x \/ l = y \/ l = z
    OBVIOUS
  <2>2. 1 \in 1..3 /\ 2 \in 1..3 /\ 3 \in 1..3
    OBVIOUS
  <2>3. \A l \in 1..3 : l = 1 \/ l = 2 \/ l = 3
    OBVIOUS
  <2>4. \A t : (\E l \in 1..3 : t \in OfLevel(T, l))
                 <=> t \in OfLevel(T, x) \cup OfLevel(T, y) \cup OfLevel(T, z)
    BY <2>1
  <2>5. \A t : (\E l \in 1..3 : t \in OfLevel(T, l))
                 <=> t \in OfLevel(T, 3) \cup OfLevel(T, 2) \cup OfLevel(T, 1)
    BY <2>2, <2>3
  <2> QED
    BY <1>1, <2>4, <2>5
<1>12. Len(a \o b \o c \o <<g>>) = Len(a) + Len(b) + Len(c) + 1
  BY <1>6, <1>7, <1>9, <1>10
<1> QED
  BY <1>10, <1>11, <1>12

(* The frames that are found by following the entries of a segment.         *)
Finds(s, P, V, f) ==
    /\ Pfns(s, P)[1] = V[3] /\ Pfns(s, P)[2] = V[2] /\ Pfns(s, P)[3] = V[1] /\ Pfns(s, P)[4] = f

(* They are the tables and the page that were put there.                    *)
LEMMA PfnsOf ==
  ASSUME NEW s, NEW lev, NEW C, NEW T, NEW G, Laid(s.mem, lev, C, pgd, mms, T, G),
         mms \in [Segs -> [1..4 -> Index]], NEW seg \in Segs
  PROVE  Finds(s, mms[seg], T[seg], G[seg])
<1>1. PICK P, V, f, p : P = mms[seg] /\ V = T[seg] /\ f = G[seg] /\ p = Pfns(s, mms[seg])
  OBVIOUS
<1>2. SegMapped(s.mem, lev, pgd, seg, P, V, f)
  BY <1>1 DEF Laid
<1>3. /\ s.mem[pgd][P[4]].f = V[3] /\ s.mem[V[3]][P[3]].f = V[2] /\ s.mem[V[2]][P[2]].f = V[1]
      /\ s.mem[V[1]][P[1]].f = f
  BY <1>2 DEF SegMapped, Way, Entry
<1>4. Pfns(s, P) = <<V[3], V[2], V[1], f>>
  BY <1>3 DEF Pfns
<1>5. p = <<V[3], V[2], V[1], f>>
  BY <1>1, <1>4
<1>6. p[1] = V[3] /\ p[2] = V[2] /\ p[3] = V[1] /\ p[4] = f
  BY <1>5
<1> QED
  BY <1>1, <1>6 DEF Finds

(* Where two segments meet below the root, at most nine tables are listed.  *)
LEMMA OsListFrees ==
  ASSUME NEW s, NEW lev, NEW C, NEW T, NEW G, Laid(s.mem, lev, C, pgd, mms, T, G),
         mms \in [Segs -> [1..4 -> Index]],
         \E a, b \in Segs : a # b /\ mms[a][4] = mms[b][4]
  PROVE  Frees(OsList(s), PtFrames, Used(T)) /\ Len(OsList(s)) <= MaxN
<1>1. Segs = {"code", "stack", "data"} /\ "code" \in Segs /\ "stack" \in Segs /\ "data" \in Segs
  BY DEF Segs
<1>2. \A seg \in Segs : SegMapped(s.mem, lev, pgd, seg, mms[seg], T[seg], G[seg])
  BY DEF Laid
<1>3. \A seg \in Segs : /\ Pfns(s, mms[seg])[1] = T[seg][3] /\ Pfns(s, mms[seg])[2] = T[seg][2]
                        /\ Pfns(s, mms[seg])[3] = T[seg][1]
  <2>1. \A seg \in Segs : Finds(s, mms[seg], T[seg], G[seg])
    BY PfnsOf
  <2> QED
    BY <2>1 DEF Finds
<1> DEFINE D(l) == Distinct(T["code"][l], T["stack"][l], T["data"][l])
<1>4. OsList(s) = D(3) \o D(2) \o D(1) \o <<pgd>>
  BY <1>1, <1>3 DEF OsList
<1>6. \A l \in 1..3 : T["code"][l] \in PtFrames /\ T["stack"][l] \in PtFrames /\ T["data"][l] \in PtFrames
  <2>1. \A seg \in Segs : T[seg] \in [1..4 -> PtFrames]
    BY UsedIs
  <2>2. \A l \in 1..3 : l \in 1..4
    OBVIOUS
  <2> QED
    BY <1>1, <2>1, <2>2
<1>7. PtFrames \in SUBSET Nat
  BY FramesAssumption
<1>8. \A l \in 1..3 : /\ Frees(D(l), PtFrames, OfLevel(T, l)) /\ Len(D(l)) \in 1..3
                      /\ T["code"][l] = T["stack"][l] \/ T["code"][l] = T["data"][l]
                            \/ T["stack"][l] = T["data"][l] => Len(D(l)) <= 2
  BY <1>6, <1>7, DistinctFrees DEF OfLevel
<1>9. T["code"][3] = T["stack"][3] \/ T["code"][3] = T["data"][3] \/ T["stack"][3] = T["data"][3]
  <2>1. PICK a, b : a \in Segs /\ b \in Segs /\ a # b /\ mms[a][4] = mms[b][4]
    OBVIOUS
  <2>2. /\ Way(s.mem, lev, mms[a], T[a]) /\ T[a][4] = pgd
        /\ Way(s.mem, lev, mms[b], T[b]) /\ T[b][4] = pgd
    BY <1>2, <2>1 DEF SegMapped
  <2>3. T[a][3] = T[b][3]
    BY <2>1, <2>2 DEF Way
  <2> QED
    BY <1>1, <2>1, <2>3
<1> HIDE DEF D
<1>10. 1 \in 1..3 /\ 2 \in 1..3 /\ 3 \in 1..3 /\ {3, 2, 1} = 1..3
  OBVIOUS
<1>11. /\ Frees(D(3) \o D(2) \o D(1) \o <<pgd>>, PtFrames, Used(T))
       /\ Len(D(3) \o D(2) \o D(1) \o <<pgd>>) = Len(D(3)) + Len(D(2)) + Len(D(1)) + 1
  BY <1>8, <1>10, LevelsFree
<1>12. Len(D(3)) \in 1..3 /\ Len(D(2)) \in 1..3 /\ Len(D(1)) \in 1..3 /\ Len(D(3)) <= 2
  BY <1>8, <1>9, <1>10
<1>13. Len(D(3)) + Len(D(2)) + Len(D(1)) + 1 <= 9
  <2>1. PICK x, y, z : x = Len(D(3)) /\ y = Len(D(2)) /\ z = Len(D(1))
    OBVIOUS
  <2>2. x \in 1..3 /\ y \in 1..3 /\ z \in 1..3 /\ x <= 2
    BY <1>12, <2>1
  <2>3. x + y + z + 1 <= 9
    BY <2>2
  <2> QED
    BY <2>1, <2>3
<1> QED
  BY <1>4, <1>11, <1>13 DEF MaxN

(* The three pages, as either version lists them.                           *)
LEMMA PagesFree ==
  ASSUME NEW m, NEW lev, NEW C, NEW g, NEW L, NEW T, NEW G, Laid(m, lev, C, g, L, T, G)
  PROVE  /\ Frees(Distinct(G["code"], G["stack"], G["data"]), UserFrames, Pages(G))
         /\ Frees(<<G["code"], G["stack"], G["data"]>>, UserFrames, Pages(G))
<1>1. Segs = {"code", "stack", "data"} /\ "code" \in Segs /\ "stack" \in Segs /\ "data" \in Segs
  BY DEF Segs
<1>2. /\ G["code"] \in UserFrames /\ G["stack"] \in UserFrames /\ G["data"] \in UserFrames
      /\ G["code"] # G["stack"] /\ G["code"] # G["data"] /\ G["stack"] # G["data"]
  BY <1>1 DEF Laid
<1>3. Pages(G) = {G["code"], G["stack"], G["data"]}
  BY <1>1, <1>2 DEF Pages
<1>4. UserFrames \in SUBSET Nat
  BY FramesAssumption
<1>5. /\ Frees(Distinct(G["code"], G["stack"], G["data"]), UserFrames,
               {G["code"], G["stack"], G["data"]})
      /\ Frees(<<G["code"], G["stack"], G["data"]>>, UserFrames,
               {G["code"], G["stack"], G["data"]})
  <2>1. PICK c, k, d : c = G["code"] /\ k = G["stack"] /\ d = G["data"]
    OBVIOUS
  <2>2. c \in UserFrames /\ k \in UserFrames /\ d \in UserFrames /\ c # k /\ c # d /\ k # d
    BY <1>2, <2>1
  <2>3. Frees(Distinct(c, k, d), UserFrames, {c, k, d})
    BY <1>4, <2>2, DistinctFrees
  <2>4. Frees(<<c, k, d>>, UserFrames, {c, k, d})
    BY <1>4, <2>2, ThreeFrees
  <2> QED
    BY <2>1, <2>3, <2>4
<1> QED
  BY <1>3, <1>5

(* The pages that the two versions find are those that were put.            *)
LEMMA UserListFrees ==
  ASSUME NEW s, NEW lev, NEW C, NEW T, NEW G, Laid(s.mem, lev, C, pgd, mms, T, G),
         mms \in [Segs -> [1..4 -> Index]]
  PROVE  /\ Frees(UserList(s), UserFrames, Pages(G))
         /\ Frees(<<Pfns(s, mms["code"])[4], Pfns(s, mms["stack"])[4], Pfns(s, mms["data"])[4]>>,
                  UserFrames, Pages(G))
<1>1. "code" \in Segs /\ "stack" \in Segs /\ "data" \in Segs
  BY DEF Segs
<1>3. \A seg \in Segs : Pfns(s, mms[seg])[4] = G[seg]
  <2>1. \A seg \in Segs : Finds(s, mms[seg], T[seg], G[seg])
    BY PfnsOf
  <2> QED
    BY <2>1 DEF Finds
<1>4. /\ Pfns(s, mms["code"])[4] = G["code"] /\ Pfns(s, mms["stack"])[4] = G["stack"]
      /\ Pfns(s, mms["data"])[4] = G["data"]
  BY <1>1, <1>3
<1> QED
  BY <1>4, PagesFree DEF UserList

(* The tables and the pages are free again, each once.                      *)
Returned(s, r, T, G) ==
    MType(r) /\ r.pt = s.pt \cup Used(T) /\ r.user = s.user \cup Pages(G) /\ r.at = s.at

(* cleanup_context_mm in context_mm.c.                                      *)
LEMMA CleansMM ==
  ASSUME NEW s, MType(s), NEW lev, NEW C, NEW T, NEW G, Laid(s.mem, lev, C, pgd, mms, T, G),
         mms \in [Segs -> [1..4 -> Index]],
         \E a, b \in Segs : a # b /\ mms[a][4] = mms[b][4],
         s.pt \cap Used(T) = {}, s.user \cap Pages(G) = {}
  PROVE  /\ Returned(s, CleanupMM(s), T, G) /\ CleanupMM(s).mem = s.mem
         /\ Len(OsList(s)) <= MaxN
<1>1. Frees(OsList(s), PtFrames, Used(T)) /\ Len(OsList(s)) <= MaxN
  BY OsListFrees
<1>2. Frees(UserList(s), UserFrames, Pages(G))
  BY UserListFrees
<1>3. PICK os, usr : os = OsList(s) /\ usr = UserList(s)
  OBVIOUS
<1>4. PICK r : r = FreeAll(s, os, usr)
  OBVIOUS
<1>5. CleanupMM(s) = r
  BY <1>3, <1>4 DEF CleanupMM
<1>6. MType(r) /\ r.pt = s.pt \cup Used(T) /\ r.user = s.user \cup Pages(G) /\ r.mem = s.mem /\ r.at = s.at
  BY <1>1, <1>2, <1>3, <1>4, FreeAllIs
<1> QED
  BY <1>1, <1>5, <1>6 DEF Returned

(* Zeroing entries frees nothing.                                           *)
LEMMA ZeroedIs ==
  ASSUME NEW s, MType(s)
  PROVE  LET r == Zeroed(s) IN
         MType(r) /\ r.pt = s.pt /\ r.user = s.user /\ r.at = s.at
<1>1. PICK slots : Zeroed(s) = [s EXCEPT !.mem = [t \in PtFrames |-> [i \in Index |->
                              IF <<t, i>> \in slots THEN NoEntry ELSE @[t][i]]]]
  BY DEF Zeroed
<1>2. NoEntry \in Entries
  BY DEF NoEntry, Entries
<1>3. s \in Machines /\ Counted(s)
  BY DEF MType
<1>4. s.mem \in [PtFrames -> [Index -> Entries]]
  BY <1>3 DEF Machines
<1> DEFINE m == [t \in PtFrames |-> [i \in Index |->
                     IF <<t, i>> \in slots THEN NoEntry ELSE s.mem[t][i]]]
<1>5. m \in [PtFrames -> [Index -> Entries]]
  BY <1>2, <1>4
<1>6. Zeroed(s) = [s EXCEPT !.mem = m]
  BY <1>1
<1> HIDE DEF m
<1>7. PICK r : r = [s EXCEPT !.mem = m]
  OBVIOUS
<1>8. /\ r \in Machines /\ r.pt = s.pt /\ r.user = s.user /\ r.at = s.at
      /\ r.ptFree = s.ptFree /\ r.userFree = s.userFree
  BY <1>3, <1>5, <1>7 DEF Machines
<1>9. Counted(r)
  BY <1>3, <1>8 DEF Counted
<1> QED
  BY <1>6, <1>7, <1>8, <1>9 DEF MType

(* cleanup_context_mm in actual.c.                                          *)
LEMMA CleansActual ==
  ASSUME NEW s, MType(s), NEW lev, NEW C, NEW T, NEW G, Laid(s.mem, lev, C, pgd, mms, T, G),
         mms \in [Segs -> [1..4 -> Index]],
         s.pt \cap Used(T) = {}, s.user \cap Pages(G) = {}
  PROVE  Returned(s, CleanupActual(s), T, G)
<1>1. "code" \in Segs /\ "stack" \in Segs /\ "data" \in Segs
  BY DEF Segs
<1>2. \A seg \in Segs : Finds(s, mms[seg], T[seg], G[seg])
  BY PfnsOf
<1>3. PICK c, k, d : c = Pfns(s, mms["code"]) /\ k = Pfns(s, mms["stack"]) /\ d = Pfns(s, mms["data"])
  OBVIOUS
<1>4. /\ c[1] = T["code"][3] /\ c[2] = T["code"][2] /\ c[3] = T["code"][1]
      /\ k[1] = T["stack"][3] /\ k[2] = T["stack"][2] /\ k[3] = T["stack"][1]
      /\ d[1] = T["data"][3] /\ d[2] = T["data"][2] /\ d[3] = T["data"][1]
  BY <1>1, <1>2, <1>3 DEF Finds
<1>5. Frees(<<c[4], k[4], d[4]>>, UserFrames, Pages(G))
  BY <1>3, UserListFrees
<1>6. PtFrames \in SUBSET Nat /\ 0 \notin PtFrames
  BY FramesAssumption
<1>7. /\ OfLevel(T, 1) = {c[3], k[3], d[3]} /\ OfLevel(T, 2) = {c[2], k[2], d[2]}
      /\ OfLevel(T, 3) = {c[1], k[1], d[1]}
  BY <1>4 DEF OfLevel
<1>8. /\ OfLevel(T, 1) \subseteq PtFrames /\ OfLevel(T, 2) \subseteq PtFrames
      /\ OfLevel(T, 3) \subseteq PtFrames
  <2>1. \A l \in 1..4 : OfLevel(T, l) \subseteq PtFrames
    BY UsedIs
  <2>2. 1 \in 1..4 /\ 2 \in 1..4 /\ 3 \in 1..4
    OBVIOUS
  <2> QED
    BY <2>1, <2>2
<1>9. PICK a1, a2, a3 : /\ a1 = Once(c[3], k[3], d[3]) /\ a2 = Once(c[2], k[2], d[2])
                        /\ a3 = Once(c[1], k[1], d[1])
  OBVIOUS
<1>every. \A x, y, z \in PtFrames : Frees(Once(x, y, z), PtFrames, {x, y, z})
  BY <1>6, OnceFrees
<1>10. Frees(a1, PtFrames, OfLevel(T, 1))
  <2>1. c[3] \in PtFrames /\ k[3] \in PtFrames /\ d[3] \in PtFrames
    BY <1>7, <1>8
  <2> QED
    BY <1>7, <1>9, <1>every, <2>1
<1>11. Frees(a2, PtFrames, OfLevel(T, 2))
  <2>1. c[2] \in PtFrames /\ k[2] \in PtFrames /\ d[2] \in PtFrames
    BY <1>7, <1>8
  <2> QED
    BY <1>7, <1>9, <1>every, <2>1
<1>12. Frees(a3, PtFrames, OfLevel(T, 3))
  <2>1. c[1] \in PtFrames /\ k[1] \in PtFrames /\ d[1] \in PtFrames
    BY <1>7, <1>8
  <2> QED
    BY <1>7, <1>9, <1>every, <2>1
<1>13. 1 \in 1..3 /\ 2 \in 1..3 /\ 3 \in 1..3 /\ {1, 2, 3} = 1..3
  OBVIOUS
<1>14. Frees(a1 \o a2 \o a3 \o <<pgd>>, PtFrames, Used(T))
  BY <1>10, <1>11, <1>12, <1>13, LevelsFree
<1>15. PICK z, os, usr : z = Zeroed(s) /\ os = a1 \o a2 \o a3 \o <<pgd>> /\ usr = <<c[4], k[4], d[4]>>
  OBVIOUS
<1>16. MType(z) /\ z.pt = s.pt /\ z.user = s.user /\ z.at = s.at
  BY <1>15, ZeroedIs
<1>17. PICK r : r = FreeAll(z, os, usr)
  OBVIOUS
<1>18. CleanupActual(s) = r
  BY <1>3, <1>9, <1>15, <1>17 DEF CleanupActual
<1>19. MType(r) /\ r.pt = z.pt \cup Used(T) /\ r.user = z.user \cup Pages(G) /\ r.at = z.at
  <2>1. Frees(os, PtFrames, Used(T)) /\ Frees(usr, UserFrames, Pages(G))
    BY <1>5, <1>14, <1>15
  <2>2. Used(T) \cap z.pt = {} /\ Pages(G) \cap z.user = {}
    BY <1>16
  <2> QED
    BY <1>16, <1>17, <2>1, <2>2, FreeAllIs
<1> QED
  BY <1>16, <1>18, <1>19 DEF Returned

-----------------------------------------------------------------------------
(* What the steps of the launch command keep.                               *)

(* The fourth frame exists.                                                 *)
LEMMA CodeTableIs == CodeTable \in PtFrames
<1>1. IsFiniteSet(PtFrames) /\ Cardinality(PtFrames) >= 12 /\ PtFrames \in SUBSET Nat
  BY FramesAssumption
<1>2. Cardinality(PtFrames) \in Nat
  BY <1>1, FS_CardinalityType
<1>3. PtFrames # {}
  BY <1>1, FS_EmptySet
<1>4. Frame1 \in PtFrames
  BY <1>1, <1>3, MinIs DEF Frame1
<1> DEFINE S1 == PtFrames \ {Frame1}
           S2 == S1 \ {Frame2}
           S3 == S2 \ {Frame3}
<1>5. IsFiniteSet(S1) /\ Cardinality(S1) = Cardinality(PtFrames) - 1 /\ S1 \in SUBSET Nat
  BY <1>1, <1>4, FS_RemoveElement
<1>6. S1 # {}
  <2> HIDE DEF S1
  <2> QED
    BY <1>1, <1>2, <1>5, FS_EmptySet
<1>7. Frame2 \in S1
  <2>1. Frame2 = Min(S1)
    BY DEF Frame2
  <2> HIDE DEF S1
  <2> QED
    BY <1>5, <1>6, <2>1, MinIs
<1>8. IsFiniteSet(S2) /\ Cardinality(S2) = Cardinality(S1) - 1 /\ S2 \in SUBSET Nat
  <2> HIDE DEF S1
  <2> QED
    BY <1>5, <1>7, FS_RemoveElement
<1>9. S2 # {}
  <2> HIDE DEF S1, S2
  <2> QED
    BY <1>1, <1>2, <1>5, <1>8, FS_EmptySet
<1>10. Frame3 \in S2
  <2>1. PtFrames \ {Frame1, Frame2} = S2
    OBVIOUS
  <2>2. Frame3 = Min(S2)
    BY <2>1 DEF Frame3
  <2> HIDE DEF S2
  <2> QED
    BY <1>8, <1>9, <2>2, MinIs
<1>11. IsFiniteSet(S3) /\ Cardinality(S3) = Cardinality(S2) - 1 /\ S3 \in SUBSET Nat
  <2> HIDE DEF S2
  <2> QED
    BY <1>8, <1>10, FS_RemoveElement
<1>12. S3 # {}
  <2> HIDE DEF S1, S2, S3
  <2> QED
    BY <1>1, <1>2, <1>5, <1>8, <1>11, FS_EmptySet
<1>13. CodeTable \in S3
  <2>1. PtFrames \ {Frame1, Frame2, Frame3} = S3
    OBVIOUS
  <2>2. CodeTable = Min(S3)
    BY <2>1 DEF CodeTable
  <2> HIDE DEF S3
  <2> QED
    BY <1>11, <1>12, <2>2, MinIs
<1> QED
  BY <1>13

(* At boot a frame holds nothing, or entries that look present throughout.  *)
LEMMA BootHarmless ==
  ASSUME NEW d, NEW L, NEW m, m = DirtyMem(d)
  PROVE  Harmless(m, CodeTable, Leftover("context_mm", d, L))
<1>1. \A j \in Index : m[CodeTable][j] = IF CodeTable \in d THEN Garbage ELSE NoEntry
  BY CodeTableIs DEF DirtyMem
<1>2. Garbage.p /\ Garbage.u
  BY DEF Garbage, Entry
<1>3. ~NoEntry.p
  BY DEF NoEntry
<1>4. CASE CodeTable \in d
  <2>1. Leftover("context_mm", d, L) = {CodeTable} \X Index
    BY <1>4 DEF Leftover
  <2> QED
    BY <1>1, <1>2, <1>4, <2>1 DEF Harmless, Edge
<1>5. CASE CodeTable \notin d
  BY <1>1, <1>3, <1>5 DEF Harmless, Edge
<1> QED
  BY <1>4, <1>5

(* What prepare_context_mm leaves in the code's level-1 table may be there  *)
(* again at the next launch.                                                *)
LEMMA HarmlessKept ==
  ASSUME NEW s, NEW lev, NEW d, NEW g, NEW L, NEW T, NEW G, L \in [Segs -> [1..4 -> Index]],
         Complete(s, lev, Leftover("context_mm", d, L), g, L, T, G), T["code"][1] = CodeTable
  PROVE  Harmless(s.mem, CodeTable, Leftover("context_mm", d, L))
<1> DEFINE C == Leftover("context_mm", d, L)
<1>1. "code" \in Segs
  BY DEF Segs
<1>2. \A seg \in Segs : Way(s.mem, lev, L[seg], T[seg]) /\ T[seg][4] = g
  BY DEF Complete, Laid, SegMapped
<1>3. Shape(s.mem, lev, C \cup AllOf(L, T)) /\ Building(s, lev, C \cup AllOf(L, T))
  BY DEF Complete, Laid
<1>4. CodeTable \in PtFrames /\ lev[CodeTable] = 1
  BY <1>1, <1>2, CodeTableIs DEF Way
<1> SUFFICES ASSUME NEW j \in Index
             PROVE  /\ Edge(s.mem, CodeTable, j) => <<CodeTable, j>> \in C
                    /\ ~Edge(s.mem, CodeTable, j) => s.mem[CodeTable][j] = NoEntry
  BY DEF Harmless
<1>5. ~Edge(s.mem, CodeTable, j) => s.mem[CodeTable][j] = NoEntry
  <2> HIDE DEF C
  <2> QED
    BY <1>3, <1>4 DEF Building
<1>6. ASSUME Edge(s.mem, CodeTable, j)
      PROVE  <<CodeTable, j>> \in C
  <2>1. <<CodeTable, j>> \in C \cup AllOf(L, T)
    <3> HIDE DEF C
    <3> QED
      BY <1>3, <1>4, <1>6 DEF Shape
  <2>2. ASSUME NEW seg \in Segs, <<CodeTable, j>> \in AllSlots(L[seg], T[seg])
        PROVE  <<CodeTable, j>> \in C
    <3>1. CodeTable = T[seg][1] /\ j = L[seg][1]
      BY <1>2, <1>4, <2>2 DEF AllSlots, Slots, Way
    <3>2. PICK P, V, Q, W : P = L[seg] /\ V = T[seg] /\ Q = L["code"] /\ W = T["code"]
      OBVIOUS
    <3>3. /\ P \in [1..4 -> Index] /\ Q \in [1..4 -> Index]
          /\ Way(s.mem, lev, P, V) /\ Way(s.mem, lev, Q, W) /\ V[4] = W[4] /\ V[1] = W[1]
      BY <1>1, <1>2, <3>1, <3>2
    <3>4. P[4] = Q[4] /\ P[3] = Q[3] /\ P[2] = Q[2]
      <4> HIDE DEF C
      <4> QED
        BY <1>3, <3>3, WaysMeet
    <3>5. j \in {L[x][1] : x \in {y \in Segs : /\ L[y][4] = L["code"][4]
                                               /\ L[y][3] = L["code"][3]
                                               /\ L[y][2] = L["code"][2]}}
      BY <3>1, <3>2, <3>4
    <3> QED
      BY <3>5 DEF Leftover
  <2> HIDE DEF C
  <2> QED
    BY <2>1, <2>2 DEF AllOf
<1> HIDE DEF C
<1> QED
  BY <1>5, <1>6

(* A context is complete wherever the machine last went.                    *)
LEMMA CompleteAt ==
  ASSUME NEW s, NEW lev, NEW C, NEW g, NEW L, NEW T, NEW G, Complete(s, lev, C, g, L, T, G),
         NEW r, r = [s EXCEPT !.at = 0]
  PROVE  Complete(r, lev, C, g, L, T, G) /\ MType(r) /\ r.at = 0 /\ r.mem = s.mem
<1>1. MType(s)
  BY DEF Complete, Building
<1>2. MType(r) /\ r.pt = s.pt /\ r.user = s.user /\ r.mem = s.mem /\ r.at = 0
  BY <1>1, AtIs
<1> QED
  BY <1>2 DEF Complete, Building

(* Entries that no user follows may change.                                 *)
LEMMA LaidKept ==
  ASSUME NEW m, NEW lev, NEW C, NEW g, NEW L, NEW T, NEW G, Laid(m, lev, C, g, L, T, G),
         L \in [Segs -> [1..4 -> Index]],
         NEW n \in [PtFrames -> [Index -> Entries]],
         \A t \in PtFrames, i \in Index : lev[t] >= 1 =>
            n[t][i] = m[t][i] \/ (~Edge(m, t, i) /\ ~Edge(n, t, i))
  PROVE  Laid(n, lev, C, g, L, T, G)
<1>1. Shape(m, lev, C \cup AllOf(L, T))
  BY DEF Laid
<1>2. \A t \in PtFrames, i \in Index :
         lev[t] >= 1 => /\ Edge(n, t, i) <=> Edge(m, t, i)
                        /\ Edge(m, t, i) => n[t][i] = m[t][i]
  BY DEF Edge
<1>3. lev \in [PtFrames -> 0..4]
  BY <1>1 DEF Shape
<1>4. \A t \in PtFrames : lev[t] >= 2 => lev[t] >= 1
  BY <1>3
<1>5. Shape(n, lev, C \cup AllOf(L, T))
  <2>1. \A t \in PtFrames, i \in Index : lev[t] >= 1 /\ Edge(n, t, i) => <<t, i>> \in C \cup AllOf(L, T)
    BY <1>1, <1>2 DEF Shape
  <2>2. \A t \in PtFrames, i \in Index : lev[t] >= 2 /\ Edge(n, t, i) =>
          n[t][i].f \in PtFrames /\ lev[n[t][i].f] = lev[t] - 1
    BY <1>1, <1>2, <1>4 DEF Shape
  <2>3. \A t, v \in PtFrames, i, j \in Index :
          lev[t] >= 2 /\ lev[v] >= 2 /\ Edge(n, t, i) /\ Edge(n, v, j) /\ n[t][i].f = n[v][j].f
             => t = v /\ i = j
    BY <1>1, <1>2, <1>4 DEF Shape
  <2> QED
    BY <1>3, <2>1, <2>2, <2>3 DEF Shape
<1>6. \A seg \in Segs : SegMapped(n, lev, g, seg, L[seg], T[seg], G[seg])
  <2> TAKE seg \in Segs
  <2>1. PICK P, V, f : P = L[seg] /\ V = T[seg] /\ f = G[seg]
    OBVIOUS
  <2>2. SegMapped(m, lev, g, seg, P, V, f) /\ P \in [1..4 -> Index]
    BY <2>1 DEF Laid
  <2>3. Edge(m, V[1], P[1])
    BY <2>2, LeafEdge
  <2>4. /\ V \in [1..4 -> PtFrames]
        /\ P[1] \in Index /\ P[2] \in Index /\ P[3] \in Index /\ P[4] \in Index
        /\ V[1] \in PtFrames /\ V[2] \in PtFrames /\ V[3] \in PtFrames /\ V[4] \in PtFrames
        /\ lev[V[1]] >= 1 /\ lev[V[2]] >= 1 /\ lev[V[3]] >= 1 /\ lev[V[4]] >= 1
    BY <2>2 DEF SegMapped, Way
  <2>5. /\ n[V[1]][P[1]] = m[V[1]][P[1]]
        /\ n[V[2]][P[2]] = m[V[2]][P[2]] /\ n[V[3]][P[3]] = m[V[3]][P[3]]
        /\ n[V[4]][P[4]] = m[V[4]][P[4]]
    BY <1>2, <2>2, <2>3, <2>4 DEF SegMapped, Way
  <2>6. SegMapped(n, lev, g, seg, P, V, f)
    BY <2>2, <2>5 DEF SegMapped, Way, WayW, Edge
  <2> QED
    BY <2>1, <2>6
<1> QED
  BY <1>5, <1>6 DEF Laid

(* The first level-3 table is in use, its first entry is not.               *)
LEMMA FirstFree ==
  ASSUME NEW s, NEW lev, NEW ver, NEW d, NEW g, NEW L, NEW T, NEW G, L \in [Segs -> [1..4 -> Index]],
         Complete(s, lev, Leftover(ver, d, L), g, L, T, G),
         ver = "context_mm" => T["code"][1] = CodeTable,
         \E seg \in Segs : L[seg][4] = 0, \A seg \in Segs : L[seg][4] = 0 => L[seg][3] # 0
  PROVE  LET h == s.mem[g][0].f IN
         /\ g \in PtFrames /\ lev[g] = 4 /\ s.mem[g][0] # NoEntry
         /\ h \in PtFrames /\ lev[h] = 3 /\ s.mem[h][0] = NoEntry /\ ~Edge(s.mem, h, 0)
<1> DEFINE C == Leftover(ver, d, L)
           h == s.mem[g][0].f
<1>1. "code" \in Segs /\ 0 \in Index
  BY NIndexAssumption DEF Segs, Index
<1>2. \A seg \in Segs : Way(s.mem, lev, L[seg], T[seg]) /\ T[seg][4] = g
  BY DEF Complete, Laid, SegMapped
<1>3. Shape(s.mem, lev, C \cup AllOf(L, T)) /\ Building(s, lev, C \cup AllOf(L, T))
  BY DEF Complete, Laid
<1>4. PICK a \in Segs : L[a][4] = 0
  OBVIOUS
<1>5. /\ g \in PtFrames /\ lev[g] = 4 /\ h = T[a][3] /\ h \in PtFrames /\ lev[h] = 3
      /\ Edge(s.mem, g, 0)
  BY <1>2, <1>4 DEF Way
<1>6. s.mem[g][0] # NoEntry
  BY <1>5 DEF Edge, NoEntry
<1>7. <<h, 0>> \notin C
  <2>1. ASSUME <<h, 0>> \in C
        PROVE  FALSE
    <3>1. ver = "context_mm" /\ h = CodeTable
      BY <2>1 DEF Leftover
    <3>2. lev[h] = 1
      BY <1>1, <1>2, <3>1 DEF Way
    <3> QED
      BY <1>5, <3>2
  <2> QED
    BY <2>1
<1>8. <<h, 0>> \notin AllOf(L, T)
  <2>1. ASSUME NEW seg \in Segs, <<h, 0>> \in AllSlots(L[seg], T[seg])
        PROVE  FALSE
    <3>1. h = T[seg][3] /\ L[seg][3] = 0
      BY <1>2, <1>5, <2>1 DEF AllSlots, Slots, Way
    <3>2. PICK P, V, Q, W : P = L[seg] /\ V = T[seg] /\ Q = L[a] /\ W = T[a]
      OBVIOUS
    <3>3. /\ P \in [1..4 -> Index] /\ Q \in [1..4 -> Index]
          /\ Way(s.mem, lev, P, V) /\ Way(s.mem, lev, Q, W) /\ V[4] = W[4] /\ V[3] = W[3]
      BY <1>2, <1>4, <1>5, <3>1, <3>2
    <3>4. P[4] = Q[4]
      <4> HIDE DEF C
      <4> QED
        BY <1>3, <3>3, WaysMeet
    <3> QED
      BY <1>4, <3>1, <3>2, <3>4
  <2> QED
    BY <2>1 DEF AllOf
<1> HIDE DEF C, h
<1>9. ~Edge(s.mem, h, 0)
  BY <1>1, <1>3, <1>5, <1>7, <1>8 DEF Shape
<1>10. s.mem[h][0] = NoEntry
  BY <1>1, <1>3, <1>5, <1>9 DEF Building
<1> QED
  BY <1>5, <1>6, <1>9, <1>10 DEF h

(* install_os_pts puts the kernel's table there.                            *)
Installs(s, r, lev, g, new) ==
    /\ MType(r) /\ r.at = 0
    /\ new \in s.pt /\ r.pt = s.pt \ {new} /\ r.user = s.user
    /\ r.mem[r.mem[g][0].f][0] = KernelEntry(new)
    /\ \A t \in PtFrames, i \in Index : lev[t] >= 1 =>
          r.mem[t][i] = s.mem[t][i] \/ (~Edge(s.mem, t, i) /\ ~Edge(r.mem, t, i))
    /\ KeepsLeaves(s.mem, lev, r.mem)

(* The kernel's mapping takes one more frame and no user entry.             *)
LEMMA InstallIs ==
  ASSUME NEW s, MType(s), s.pt # {}, NEW lev, lev \in [PtFrames -> 0..4],
         \A t \in PtFrames : lev[t] = 0 <=> t \in s.pt,
         pgd \in PtFrames, lev[pgd] = 4, s.mem[pgd][0] # NoEntry,
         NEW h, h = s.mem[pgd][0].f, h \in PtFrames, lev[h] = 3,
         s.mem[h][0] = NoEntry, ~Edge(s.mem, h, 0)
  PROVE  LET l3 == InstallL3(s) IN
         /\ l3.mem[l3.at][0] = NoEntry /\ Min(l3.pt) = Min(s.pt)
         /\ Installs(s, [InstallPmd(l3) EXCEPT !.at = 0], lev, pgd, Min(s.pt))
<1>1. 0 \in Index
  BY NIndexAssumption DEF Index
<1>2. PICK l3 : l3 = InstallL3(s)
  OBVIOUS
<1>3. l3 = [s EXCEPT !.at = h]
  BY <1>2 DEF InstallL3
<1>4. MType(l3) /\ l3.pt = s.pt /\ l3.user = s.user /\ l3.mem = s.mem /\ l3.at = h
  BY <1>3, AtIs
<1>5. PICK new : new = Min(l3.pt)
  OBVIOUS
<1>6. PICK t1 : t1 = TakePt(l3)
  OBVIOUS
<1>7. /\ MType(t1) /\ new \in s.pt /\ new \in PtFrames
      /\ t1.pt = s.pt \ {new} /\ t1.mem = s.mem /\ t1.user = s.user
  BY <1>4, <1>5, <1>6, TakePtIs
<1>8. KernelEntry(new) \in Entries /\ ~KernelEntry(new).u
  BY <1>7 DEF KernelEntry, Entries
<1>9. PICK z, e : z = 0 /\ e = KernelEntry(new)
  OBVIOUS
<1>a. MType(t1) /\ h \in PtFrames /\ z \in Index /\ e \in Entries
  BY <1>1, <1>7, <1>8, <1>9
<1> DEFINE t2 == Put(t1, h, z, e)
<1>b. /\ MType(t2) /\ t2.pt = t1.pt /\ t2.user = t1.user /\ t2.mem[h][z] = e
      /\ \A x \in PtFrames, j \in Index : <<x, j>> # <<h, z>> => t2.mem[x][j] = t1.mem[x][j]
  BY ONLY <1>a, PutIs
<1>c. t2 = Put(t1, h, 0, KernelEntry(new))
  BY <1>9
<1> HIDE DEF t2
<1>10. /\ MType(t2) /\ t2.pt = t1.pt /\ t2.user = t1.user
       /\ t2.mem[h][0] = KernelEntry(new)
       /\ \A x \in PtFrames, j \in Index : <<x, j>> # <<h, 0>> => t2.mem[x][j] = t1.mem[x][j]
  BY <1>9, <1>b
<1> DEFINE t3 == Reset(t2, new)
<1>12. /\ MType(t3) /\ t3.pt = t2.pt /\ t3.user = t2.user
       /\ \A x \in PtFrames \ {new}, j \in Index : t3.mem[x][j] = t2.mem[x][j]
  <2>1. MType(t2) /\ new \in PtFrames
    BY <1>7, <1>10
  <2> QED
    BY ONLY <2>1, ResetIs
<1>13. InstallPmd(l3) = t3
  BY <1>4, <1>5, <1>6, <1>c DEF InstallPmd
<1> HIDE DEF t3
<1>14. PICK r : r = [t3 EXCEPT !.at = 0]
  OBVIOUS
<1>15. MType(r) /\ r.pt = t3.pt /\ r.user = t3.user /\ r.mem = t3.mem /\ r.at = 0
  BY <1>12, <1>14, AtIs
<1>16. lev[new] = 0 /\ h # new /\ pgd # new /\ pgd # h
  BY <1>7
<1>17. \A x \in PtFrames, j \in Index : x # new /\ <<x, j>> # <<h, 0>> => r.mem[x][j] = s.mem[x][j]
  BY <1>7, <1>10, <1>12, <1>15
<1>18. r.mem[h][0] = KernelEntry(new)
  BY <1>1, <1>10, <1>12, <1>15, <1>16
<1>19. r.mem[pgd][0] = s.mem[pgd][0]
  BY <1>1, <1>16, <1>17
<1>20. ~Edge(r.mem, h, 0)
  BY <1>8, <1>18 DEF Edge
<1>21. \A t \in PtFrames, i \in Index : lev[t] >= 1 =>
          r.mem[t][i] = s.mem[t][i] \/ (~Edge(s.mem, t, i) /\ ~Edge(r.mem, t, i))
  <2> TAKE t \in PtFrames, i \in Index
  <2> HAVE lev[t] >= 1
  <2>1. t # new
    BY <1>16
  <2>2. CASE <<t, i>> = <<h, 0>>
    BY <1>20, <2>2
  <2>3. CASE <<t, i>> # <<h, 0>>
    BY <1>17, <2>1, <2>3
  <2> QED
    BY <2>2, <2>3
<1>22. KeepsLeaves(s.mem, lev, r.mem)
  BY <1>16, <1>17 DEF KeepsLeaves
<1>23. Installs(s, r, lev, pgd, new)
  BY <1>7, <1>10, <1>12, <1>15, <1>18, <1>19, <1>21, <1>22 DEF Installs
<1> QED
  BY <1>2, <1>4, <1>5, <1>13, <1>14, <1>23

(* A frame that was taken is given back.                                    *)
LEMMA FreePtIs ==
  ASSUME NEW s, MType(s), NEW f \in PtFrames, f \notin s.pt
  PROVE  LET r == FreePt(s, f) IN
         /\ MType(r) /\ r.pt = s.pt \cup {f} /\ r.user = s.user /\ r.mem = s.mem /\ r.at = s.at
<1>1. PICK r : r = FreePt(s, f)
  OBVIOUS
<1>2. s \in Machines /\ Counted(s)
  BY DEF MType
<1>3. r = [s EXCEPT !.pt = @ \cup {f}, !.ptFree = @ + 1]
  BY <1>1 DEF FreePt
<1>4. /\ r \in Machines /\ r.pt = s.pt \cup {f} /\ r.user = s.user /\ r.mem = s.mem /\ r.at = s.at
      /\ r.ptFree = s.ptFree + 1 /\ r.userFree = s.userFree
  <2>1. s.pt \cup {f} \in SUBSET PtFrames /\ s.ptFree + 1 \in Nat
    BY <1>2 DEF Machines
  <2> QED
    BY <1>2, <1>3, <2>1 DEF Machines
<1>5. IsFiniteSet(s.pt)
  BY <1>2, FramesAssumption, FS_Subset DEF Machines
<1>6. Cardinality(s.pt \cup {f}) = Cardinality(s.pt) + 1
  BY <1>5, FS_AddElement
<1>7. Counted(r)
  BY <1>2, <1>4, <1>6 DEF Counted
<1> QED
  BY <1>1, <1>4, <1>7 DEF MType

-----------------------------------------------------------------------------
(* The inductive invariant.  Where the launch command is says which frames  *)
(* are free and, once the tables are built, that they are those of the      *)
(* three segments and of nothing else but what the code's level-1 table may *)
(* have held before.                                                        *)

Prepared(s, ver, d, g, L, arg) ==
    \E lev, T, G : /\ Complete(s, lev, Leftover(ver, d, L), g, L, T, G)
                   /\ Standing(s.mem, lev, ver, d, g, L, T, G, arg)

Running(s, ver, d, g, L, arg, os) ==
    /\ s.mem[s.mem[g][0].f][0] = KernelEntry(os)
    /\ \E lev, T, G : /\ Standing(s.mem, lev, ver, d, g, L, T, G, arg)
                      /\ os \in PtFrames \ Used(T)
                      /\ s.pt = PtFrames \ (Used(T) \cup {os})
                      /\ s.user = UserFrames \ Pages(G)

Total == <<Cardinality(PtFrames), Cardinality(UserFrames)>>

Typed ==
    /\ MType(mm) /\ mm.at = 0
    /\ version \in Versions /\ mms \in Layouts /\ dirty \in Boots
    /\ pgd \in {0} \cup PtFrames /\ os_pmd \in {0} \cup PtFrames
    /\ arg_pfn \in {0} \cup UserFrames
    /\ before \in Nat \X Nat /\ listed \in 0..MaxN

Stage ==
    /\ phase \in {"shell", "created", "prepared", "running", "cleaned"}
    /\ phase = "shell" => mm.pt = PtFrames /\ mm.user = UserFrames
    /\ phase # "shell" => before = Total
    /\ phase = "created" => /\ arg_pfn \in UserFrames /\ mm.pt = PtFrames
                            /\ mm.user = UserFrames \ {arg_pfn}
    /\ phase = "prepared" => Prepared(mm, version, dirty, pgd, mms, arg_pfn)
    /\ phase = "running" => Running(mm, version, dirty, pgd, mms, arg_pfn, os_pmd)
    /\ phase = "cleaned" => /\ os_pmd \in PtFrames /\ mm.pt = PtFrames \ {os_pmd}
                            /\ mm.user = UserFrames

IInv ==
    /\ Typed
    /\ version = "context_mm" => Harmless(mm.mem, CodeTable, Leftover("context_mm", dirty, mms))
    /\ Stage

(* What the layouts of contexts have.                                       *)
LEMMA HomesAre ==
  ASSUME mms \in Layouts, version \in Versions
  PROVE  /\ mms \in [Segs -> [1..4 -> Index]]
         /\ \A x, y \in Segs : x # y => mms[x] # mms[y]
         /\ \E a, b \in Segs : a # b /\ mms[a][4] = mms[b][4]
         /\ \E seg \in Segs : mms[seg][4] = 0
         /\ \A seg \in Segs : mms[seg][4] = 0 => mms[seg][3] # 0
         /\ version = "context_mm" =>
               (mms["data"][4] = mms["code"][4] => mms["stack"][4] = mms["code"][4])
<1>1. mms \in [Segs -> [1..4 -> Index]]
  BY LayoutsAssumption DEF Levels
<1>2. PICK L \in Layouts : L = mms
  OBVIOUS
<1>3. /\ \A x, y \in Segs : x # y => L[x] # L[y]
      /\ \E a, b \in Segs : a # b /\ L[a][4] = L[b][4]
      /\ \E seg \in Segs : L[seg][4] = 0
      /\ \A seg \in Segs : L[seg][4] = 0 => L[seg][3] # 0
      /\ "context_mm" \in Versions /\ L["data"][4] = L["code"][4] => L["stack"][4] = L["code"][4]
  BY HomesAssumption
<1>4. version = "context_mm" =>
               (mms["data"][4] = mms["code"][4] => mms["stack"][4] = mms["code"][4])
  BY <1>2, <1>3
<1> QED
  BY <1>1, <1>2, <1>3, <1>4

(* There are frames, none of them is 0, and a page can be spared.           *)
LEMMA FramesAre ==
  /\ PtFrames # {} /\ UserFrames # {}
  /\ PtFrames \in SUBSET Nat /\ UserFrames \in SUBSET Nat /\ 0 \notin PtFrames /\ 0 \notin UserFrames
  /\ Cardinality(PtFrames) \in Nat /\ Cardinality(UserFrames) \in Nat
  /\ \A f \in UserFrames : Cardinality(UserFrames \ {f}) >= 2
<1>1. Cardinality(PtFrames) \in Nat /\ Cardinality(UserFrames) \in Nat
  BY FS_CardinalityType, FramesAssumption
<1>2. PtFrames # {} /\ UserFrames # {}
  BY FS_EmptySet, FramesAssumption
<1>3. \A f \in UserFrames : Cardinality(UserFrames \ {f}) >= 2
  <2> TAKE f \in UserFrames
  <2>1. Cardinality(UserFrames \ {f}) = Cardinality(UserFrames) - 1
    BY FS_RemoveElement, FramesAssumption
  <2> QED
    BY <1>1, <2>1, FramesAssumption
<1> QED
  BY <1>1, <1>2, <1>3, FramesAssumption

(* The invariant holds at boot.                                             *)
LEMMA InitOK == Init => IInv
<1> SUFFICES ASSUME Init PROVE IInv
  OBVIOUS
<1>1. Typed
  <2>1. /\ version \in Versions /\ mms \in Layouts /\ dirty \in Boots
        /\ pgd = 0 /\ arg_pfn = 0 /\ os_pmd = 0 /\ before = <<0, 0>> /\ listed = 0
    BY DEF Init
  <2>2. Garbage \in Entries /\ NoEntry \in Entries
    <3>1. Min(PtFrames) \in PtFrames
      BY FramesAre, MinIs
    <3>2. TRUE \in BOOLEAN
      OBVIOUS
    <3> QED
      BY <3>1, <3>2 DEF Garbage, Entry, NoEntry, Entries
  <2>3. DirtyMem(dirty) \in [PtFrames -> [Index -> Entries]]
    BY <2>2 DEF DirtyMem
  <2>4. /\ mm = [mem |-> DirtyMem(dirty), at |-> 0,
                 pt |-> PtFrames, ptFree |-> Cardinality(PtFrames),
                 user |-> UserFrames, userFree |-> Cardinality(UserFrames)]
    BY DEF Init
  <2>5. mm \in Machines
    BY <2>3, <2>4, FramesAre DEF Machines
  <2>6. Counted(mm) /\ mm.at = 0
    BY <2>4 DEF Counted
  <2>7. before \in Nat \X Nat /\ listed \in 0..MaxN
    BY <2>1 DEF MaxN
  <2> QED
    BY <2>1, <2>5, <2>6, <2>7 DEF Typed, MType
<1>2. Harmless(mm.mem, CodeTable, Leftover("context_mm", dirty, mms))
  <2>1. mm.mem = DirtyMem(dirty)
    BY DEF Init
  <2> QED
    BY <2>1, BootHarmless
<1>3. Stage
  BY DEF Init, Stage
<1> QED
  BY <1>1, <1>2, <1>3 DEF IInv

(* The launch takes the page of the arguments.                              *)
LEMMA LaunchKeeps == IInv /\ Launch => IInv'
<1> SUFFICES ASSUME IInv, Launch PROVE IInv'
  OBVIOUS
<1>1. /\ Typed /\ mm.pt = PtFrames /\ mm.user = UserFrames /\ phase = "shell"
  BY DEF IInv, Stage, Launch
<1>2. /\ MType(mm) /\ mm.at = 0
  BY <1>1 DEF Typed
<1>3. /\ MType(mm') /\ mm'.mem = mm.mem /\ mm'.at = 0 /\ mm'.pt = PtFrames
      /\ arg_pfn' \in UserFrames /\ mm'.user = UserFrames \ {arg_pfn'}
  <2>1. mm' = TakeUser(mm) /\ arg_pfn' = Min(mm.user)
    BY DEF Launch
  <2>2. PICK s, r, n : s = mm /\ r = TakeUser(s) /\ n = Min(s.user)
    OBVIOUS
  <2>3. MType(s) /\ s.user # {}
    BY <1>1, <1>2, <2>2, FramesAre
  <2>4. /\ MType(r) /\ n \in UserFrames
        /\ r.user = s.user \ {n} /\ r.mem = s.mem /\ r.at = s.at /\ r.pt = s.pt
    BY <2>2, <2>3, TakeUserIs
  <2> QED
    BY <1>1, <1>2, <2>1, <2>2, <2>4
<1>4. before' = Total
  <2>1. before' = <<mm.ptFree, mm.userFree>>
    BY DEF Launch
  <2> QED
    BY <1>1, <1>2, <2>1 DEF MType, Counted, Total
<1>5. before' \in Nat \X Nat
  BY <1>4, FramesAre DEF Total
<1>6. /\ pgd' = 0 /\ phase' = "created"
      /\ version' = version /\ dirty' = dirty /\ mms' = mms /\ os_pmd' = os_pmd /\ listed' = listed
  BY DEF Launch
<1>7. Typed'
  BY <1>1, <1>3, <1>5, <1>6 DEF Typed
<1>8. (version = "context_mm" => Harmless(mm.mem, CodeTable, Leftover("context_mm", dirty, mms)))'
  BY <1>3, <1>6 DEF IInv
<1>9. Stage'
  BY <1>3, <1>4, <1>6 DEF Stage
<1> QED
  BY <1>7, <1>8, <1>9 DEF IInv

(* prepare_context_mm builds the tables of the three segments.              *)
LEMMA PrepareKeeps == IInv /\ Prepare => IInv'
<1> SUFFICES ASSUME IInv, Prepare PROVE IInv'
  OBVIOUS
<1>1. /\ Typed /\ mm.pt = PtFrames /\ arg_pfn \in UserFrames /\ mm.user = UserFrames \ {arg_pfn}
      /\ phase = "created" /\ before = Total
      /\ version = "context_mm" => Harmless(mm.mem, CodeTable, Leftover("context_mm", dirty, mms))
  BY DEF IInv, Stage, Prepare
<1>2. MType(mm) /\ mms \in Layouts /\ version \in Versions /\ dirty \in Boots
  BY <1>1 DEF Typed
<1>3. /\ pgd' = Min(mm.pt) /\ phase' = "prepared"
      /\ version' = version /\ dirty' = dirty /\ mms' = mms /\ os_pmd' = os_pmd
      /\ arg_pfn' = arg_pfn /\ before' = before /\ listed' = listed
  BY DEF Prepare
<1>4. /\ mms \in [Segs -> [1..4 -> Index]]
      /\ \A x, y \in Segs : x # y => mms[x] # mms[y]
      /\ version = "context_mm" =>
            (mms["data"][4] = mms["code"][4] => mms["stack"][4] = mms["code"][4])
  BY <1>2, HomesAre
<1>5. Cardinality(mm.user) >= 2
  BY <1>1, FramesAre
<1>6. PICK g : g = Min(mm.pt)
  OBVIOUS
<1>7. PICK s, lev, T, G : /\ mm' = [s EXCEPT !.at = 0]
                          /\ Complete(s, lev, Leftover(version, dirty, mms), g, mms, T, G)
                          /\ G["data"] = arg_pfn
                          /\ version = "context_mm" => T["code"][1] = CodeTable
  <2>1. CASE version = "actual"
    <3>1. mm' = [PrepareActual(mm) EXCEPT !.at = 0]
      BY <2>1 DEF Prepare
    <3>2. \E lev, T, G : /\ Complete(PrepareActual(mm), lev, {}, Min(mm.pt), mms, T, G)
                         /\ G["data"] = arg_pfn
      BY <1>1, <1>2, <1>4, <1>5, ActualPrepares
    <3>3. Leftover(version, dirty, mms) = {}
      BY <2>1 DEF Leftover
    <3> QED
      BY <1>6, <2>1, <3>1, <3>2, <3>3
  <2>2. CASE version = "context_mm"
    <3>1. mm' = [PrepareMM(mm) EXCEPT !.at = 0]
      BY <2>2 DEF Prepare
    <3> DEFINE C == Leftover("context_mm", dirty, mms)
    <3>2. C \subseteq {CodeTable} \X Index
      <4>1. \A seg \in Segs : mms[seg][1] \in Index
        BY <1>4
      <4> QED
        BY <4>1 DEF Leftover
    <3>3. Harmless(mm.mem, CodeTable, C)
      BY <1>1, <2>2
    <3> HIDE DEF C
    <3>4. \E lev, T, G : /\ Complete(PrepareMM(mm), lev, C, Min(mm.pt), mms, T, G)
                         /\ G["data"] = arg_pfn /\ T["code"][1] = CodeTable
      BY <1>1, <1>2, <1>4, <1>5, <2>2, <3>2, <3>3, MMPrepares
    <3>5. C = Leftover(version, dirty, mms)
      BY <2>2 DEF C
    <3> QED
      BY <1>6, <2>2, <3>1, <3>4, <3>5
  <2> QED
    BY <1>2, <2>1, <2>2, VersionsAssumption
<1>8. PICK C : C = Leftover(version, dirty, mms)
  OBVIOUS
<1>9. Complete(mm', lev, C, g, mms, T, G) /\ MType(mm') /\ mm'.at = 0 /\ mm'.mem = s.mem
  BY <1>7, <1>8, CompleteAt
<1>10. Standing(mm'.mem, lev, version, dirty, g, mms, T, G, arg_pfn)
  BY <1>7, <1>8, <1>9 DEF Standing, Complete
<1>11. Prepared(mm, version, dirty, pgd, mms, arg_pfn)'
  BY <1>3, <1>6, <1>8, <1>9, <1>10 DEF Prepared
<1>12. g \in PtFrames
  BY <1>1, <1>6, FramesAre, MinIs
<1>13. Typed'
  BY <1>1, <1>3, <1>6, <1>9, <1>12 DEF Typed
<1>14. (version = "context_mm" => Harmless(mm.mem, CodeTable, Leftover("context_mm", dirty, mms)))'
  <2>1. ASSUME version = "context_mm"
        PROVE  Harmless(mm'.mem, CodeTable, Leftover("context_mm", dirty, mms))
    BY <1>4, <1>7, <1>8, <1>9, <2>1, HarmlessKept
  <2> QED
    BY <1>3, <2>1
<1>15. Stage'
  BY <1>1, <1>3, <1>11 DEF Stage
<1> QED
  BY <1>13, <1>14, <1>15 DEF IInv

(* check_and_launch_context accepts them and adds the kernel's.             *)
LEMMA CheckKeeps == IInv /\ Check => IInv'
<1> SUFFICES ASSUME IInv, Check PROVE IInv'
  OBVIOUS
<1>1. /\ Typed /\ phase = "prepared" /\ before = Total
      /\ Prepared(mm, version, dirty, pgd, mms, arg_pfn)
      /\ version = "context_mm" => Harmless(mm.mem, CodeTable, Leftover("context_mm", dirty, mms))
  BY DEF IInv, Stage, Check
<1>2. /\ MType(mm) /\ mm.at = 0 /\ mms \in Layouts /\ version \in Versions
  BY <1>1 DEF Typed
<1>3. /\ version' = version /\ dirty' = dirty /\ mms' = mms /\ pgd' = pgd
      /\ arg_pfn' = arg_pfn /\ before' = before /\ listed' = listed
  BY DEF Check
<1>4. /\ mms \in [Segs -> [1..4 -> Index]]
      /\ \E seg \in Segs : mms[seg][4] = 0
      /\ \A seg \in Segs : mms[seg][4] = 0 => mms[seg][3] # 0
  BY <1>2, HomesAre
<1>5. PICK lev, T, G :
         /\ Complete(mm, lev, Leftover(version, dirty, mms), pgd, mms, T, G)
         /\ Standing(mm.mem, lev, version, dirty, pgd, mms, T, G, arg_pfn)
  BY <1>1 DEF Prepared
<1>6. /\ version = "context_mm" => T["code"][1] = CodeTable
      /\ G["data"] = arg_pfn
      /\ Laid(mm.mem, lev, Leftover(version, dirty, mms), pgd, mms, T, G)
  BY <1>5 DEF Standing
<1>7. PICK h : h = mm.mem[pgd][0].f
  OBVIOUS
<1>8. /\ pgd \in PtFrames /\ lev[pgd] = 4 /\ mm.mem[pgd][0] # NoEntry
      /\ h \in PtFrames /\ lev[h] = 3 /\ mm.mem[h][0] = NoEntry /\ ~Edge(mm.mem, h, 0)
  BY <1>4, <1>5, <1>6, <1>7, FirstFree
<1>9. /\ mm.pt # {} /\ mm.pt = PtFrames \ Used(T) /\ mm.user = UserFrames \ Pages(G)
      /\ lev \in [PtFrames -> 0..4] /\ \A t \in PtFrames : lev[t] = 0 <=> t \in mm.pt
  BY <1>5 DEF Complete, Building, Shape
<1>10. PICK l3, new, r : /\ l3 = InstallL3(mm) /\ new = Min(mm.pt)
                         /\ r = [InstallPmd(l3) EXCEPT !.at = 0]
  OBVIOUS
<1>11. /\ l3.mem[l3.at][0] = NoEntry /\ Min(l3.pt) = new
       /\ Installs(mm, r, lev, pgd, new)
  BY <1>2, <1>7, <1>8, <1>9, <1>10, InstallIs, ZenonT(60)
<1>12. Accepted(mm)
  BY <1>4, <1>6, LaidAccepted
<1>13. phase' = "running" /\ mm' = r /\ os_pmd' = new
  BY <1>10, <1>11, <1>12 DEF Check
<1>14. /\ MType(r) /\ r.at = 0 /\ new \in mm.pt /\ r.pt = mm.pt \ {new} /\ r.user = mm.user
       /\ r.mem[r.mem[pgd][0].f][0] = KernelEntry(new)
       /\ \A t \in PtFrames, i \in Index : lev[t] >= 1 =>
             r.mem[t][i] = mm.mem[t][i] \/ (~Edge(mm.mem, t, i) /\ ~Edge(r.mem, t, i))
       /\ KeepsLeaves(mm.mem, lev, r.mem)
  BY <1>11 DEF Installs
<1>15. new \in PtFrames \ Used(T) /\ r.pt = PtFrames \ (Used(T) \cup {new})
  BY <1>9, <1>14
<1>16. r.mem \in [PtFrames -> [Index -> Entries]]
  BY <1>14 DEF MType, Machines
<1>17. Laid(r.mem, lev, Leftover(version, dirty, mms), pgd, mms, T, G)
  <2>1. PICK m, n, C : m = mm.mem /\ n = r.mem /\ C = Leftover(version, dirty, mms)
    OBVIOUS
  <2>2. /\ Laid(m, lev, C, pgd, mms, T, G) /\ n \in [PtFrames -> [Index -> Entries]]
        /\ \A t \in PtFrames, i \in Index : lev[t] >= 1 =>
             n[t][i] = m[t][i] \/ (~Edge(m, t, i) /\ ~Edge(n, t, i))
    BY <1>6, <1>14, <1>16, <2>1
  <2>3. Laid(n, lev, C, pgd, mms, T, G)
    BY <1>4, <2>2, LaidKept
  <2> QED
    BY <2>1, <2>3
<1>18. Standing(r.mem, lev, version, dirty, pgd, mms, T, G, arg_pfn)
  BY <1>6, <1>17 DEF Standing
<1>19. Running(mm, version, dirty, pgd, mms, arg_pfn, os_pmd)'
  BY <1>3, <1>9, <1>13, <1>14, <1>15, <1>18 DEF Running
<1>20. Typed'
  BY <1>1, <1>3, <1>13, <1>14, <1>15 DEF Typed
<1>21. (version = "context_mm" => Harmless(mm.mem, CodeTable, Leftover("context_mm", dirty, mms)))'
  <2>1. ASSUME version = "context_mm"
        PROVE  Harmless(r.mem, CodeTable, Leftover("context_mm", dirty, mms))
    <3>1. "code" \in Segs
      BY DEF Segs
    <3>2. CodeTable \in PtFrames /\ lev[CodeTable] = 1
      BY <1>6, <2>1, <3>1, CodeTableIs DEF Laid, SegMapped, Way
    <3>3. \A j \in Index : r.mem[CodeTable][j] = mm.mem[CodeTable][j]
      BY <1>14, <3>2 DEF KeepsLeaves
    <3> QED
      BY <1>1, <2>1, <3>3 DEF Harmless, Edge
  <2> QED
    BY <1>3, <1>13, <2>1
<1>22. Stage'
  BY <1>1, <1>3, <1>13, <1>19 DEF Stage
<1> QED
  BY <1>20, <1>21, <1>22 DEF IInv

(* cleanup_context_mm gives back what was built, once.                      *)
LEMMA CleanupKeeps == IInv /\ Cleanup => IInv'
<1> SUFFICES ASSUME IInv, Cleanup PROVE IInv'
  OBVIOUS
<1>1. /\ Typed /\ phase = "running" /\ before = Total
      /\ Running(mm, version, dirty, pgd, mms, arg_pfn, os_pmd)
      /\ version = "context_mm" => Harmless(mm.mem, CodeTable, Leftover("context_mm", dirty, mms))
  BY DEF IInv, Stage, Cleanup
<1>2. /\ MType(mm) /\ mm.at = 0 /\ mms \in Layouts /\ version \in Versions
  BY <1>1 DEF Typed
<1>3. /\ version' = version /\ dirty' = dirty /\ mms' = mms /\ pgd' = pgd /\ os_pmd' = os_pmd
      /\ arg_pfn' = arg_pfn /\ before' = before /\ phase' = "cleaned"
  BY DEF Cleanup
<1>4. /\ mms \in [Segs -> [1..4 -> Index]]
      /\ \E a, b \in Segs : a # b /\ mms[a][4] = mms[b][4]
  BY <1>2, HomesAre
<1>5. PICK lev, T, G :
         /\ Standing(mm.mem, lev, version, dirty, pgd, mms, T, G, arg_pfn)
         /\ os_pmd \in PtFrames \ Used(T)
         /\ mm.pt = PtFrames \ (Used(T) \cup {os_pmd}) /\ mm.user = UserFrames \ Pages(G)
  BY <1>1 DEF Running
<1>6. Laid(mm.mem, lev, Leftover(version, dirty, mms), pgd, mms, T, G)
  BY <1>5 DEF Standing
<1>7. mm.pt \cap Used(T) = {} /\ mm.user \cap Pages(G) = {}
  BY <1>5
<1>8. /\ Returned(mm, mm', T, G) /\ listed' \in 0..MaxN
      /\ version = "context_mm" => mm'.mem = mm.mem
  <2>1. CASE version = "actual"
    <3>1. mm' = CleanupActual(mm) /\ listed' = 0
      BY <2>1 DEF Cleanup
    <3>2. Returned(mm, CleanupActual(mm), T, G)
      BY <1>2, <1>4, <1>6, <1>7, CleansActual
    <3> QED
      BY <2>1, <3>1, <3>2 DEF MaxN
  <2>2. CASE version = "context_mm"
    <3>1. mm' = CleanupMM(mm) /\ listed' = Len(OsList(mm))
      BY <2>2 DEF Cleanup
    <3>2. /\ Returned(mm, CleanupMM(mm), T, G) /\ CleanupMM(mm).mem = mm.mem
          /\ Len(OsList(mm)) <= MaxN
      BY <1>2, <1>4, <1>6, <1>7, CleansMM
    <3>3. OsList(mm) \in Seq(Nat)
      BY <1>4, <1>6, OsListFrees DEF Frees
    <3>4. Len(OsList(mm)) \in Nat
      BY <3>3, LenProperties
    <3>5. Len(OsList(mm)) \in 0..MaxN
      <4>1. PICK x : x = Len(OsList(mm))
        OBVIOUS
      <4>2. x \in Nat /\ x <= MaxN
        BY <3>2, <3>4, <4>1
      <4>3. x \in 0..MaxN
        BY <4>2 DEF MaxN
      <4> QED
        BY <4>1, <4>3
    <3> QED
      BY <3>1, <3>2, <3>5
  <2> QED
    BY <1>2, <2>1, <2>2, VersionsAssumption
<1>9. /\ MType(mm') /\ mm'.pt = mm.pt \cup Used(T) /\ mm'.user = mm.user \cup Pages(G) /\ mm'.at = 0
  BY <1>2, <1>8 DEF Returned
<1>10. mm'.pt = PtFrames \ {os_pmd} /\ mm'.user = UserFrames /\ os_pmd \in PtFrames
  <2>1. Used(T) \subseteq PtFrames /\ Pages(G) \subseteq UserFrames
    BY DEF Used, Pages
  <2> QED
    BY <1>5, <1>9, <2>1
<1>11. Typed'
  BY <1>1, <1>3, <1>8, <1>9 DEF Typed
<1>12. (version = "context_mm" => Harmless(mm.mem, CodeTable, Leftover("context_mm", dirty, mms)))'
  BY <1>1, <1>3, <1>8
<1>13. Stage'
  BY <1>1, <1>3, <1>10 DEF Stage
<1> QED
  BY <1>11, <1>12, <1>13 DEF IInv

(* The kernel's table is given back and the counts agree.                   *)
LEMMA CheckCleanupKeeps == IInv /\ CheckCleanup => IInv'
<1> SUFFICES ASSUME IInv, CheckCleanup PROVE IInv'
  OBVIOUS
<1>1. /\ Typed /\ phase = "cleaned" /\ before = Total
      /\ os_pmd \in PtFrames /\ mm.pt = PtFrames \ {os_pmd} /\ mm.user = UserFrames
      /\ version = "context_mm" => Harmless(mm.mem, CodeTable, Leftover("context_mm", dirty, mms))
  BY DEF IInv, Stage, CheckCleanup
<1>2. /\ MType(mm) /\ mm.at = 0
  BY <1>1 DEF Typed
<1>3. /\ mm' = FreePt(mm, os_pmd)
      /\ phase' = IF <<mm'.ptFree, mm'.userFree>> = before THEN "shell" ELSE "miscounted"
      /\ version' = version /\ dirty' = dirty /\ mms' = mms /\ pgd' = pgd /\ os_pmd' = os_pmd
      /\ arg_pfn' = arg_pfn /\ before' = before /\ listed' = listed
  BY DEF CheckCleanup
<1>4. /\ MType(mm') /\ mm'.pt = PtFrames /\ mm'.user = UserFrames /\ mm'.mem = mm.mem /\ mm'.at = 0
  <2>1. PICK s, f, r : s = mm /\ f = os_pmd /\ r = FreePt(s, f)
    OBVIOUS
  <2>2. MType(r) /\ r.pt = s.pt \cup {f} /\ r.user = s.user /\ r.mem = s.mem /\ r.at = s.at
    <3>1. MType(s) /\ f \in PtFrames /\ f \notin s.pt
      BY <1>1, <1>2, <2>1
    <3> QED
      BY <2>1, <3>1, FreePtIs
  <2> QED
    BY <1>1, <1>2, <1>3, <2>1, <2>2
<1>5. phase' = "shell"
  BY <1>1, <1>3, <1>4 DEF MType, Counted, Total
<1>6. Typed'
  BY <1>1, <1>3, <1>4 DEF Typed
<1>7. (version = "context_mm" => Harmless(mm.mem, CodeTable, Leftover("context_mm", dirty, mms)))'
  BY <1>1, <1>3, <1>4
<1>8. Stage'
  BY <1>1, <1>3, <1>4, <1>5 DEF Stage
<1> QED
  BY <1>6, <1>7, <1>8 DEF IInv

(* A step that changes nothing keeps the invariant.                         *)
LEMMA StutterKeeps == IInv /\ UNCHANGED vars => IInv'
  BY DEF IInv, Typed, Stage, vars

(* Every step of the launch command keeps the invariant.                    *)
THEOREM Invariance == Spec => []IInv
<1>1. IInv /\ [Next]_vars => IInv'
  BY LaunchKeeps, PrepareKeeps, CheckKeeps, CleanupKeeps, CheckCleanupKeeps, StutterKeeps
     DEF Next
<1> QED
  BY <1>1, InitOK, PTL DEF Spec

-----------------------------------------------------------------------------
(* The properties.                                                          *)

(* The invariant has the type.                                              *)
LEMMA TypeFollows == IInv => TypeOK
<1> SUFFICES ASSUME IInv PROVE TypeOK
  OBVIOUS
<1>1. /\ Typed /\ phase \in Phases
  BY DEF IInv, Stage, Phases
<1>2. mm \in Machines /\ mm.at = 0
  BY <1>1 DEF Typed, MType
<1>3. mm \in [mem : [PtFrames -> [Index -> Entries]], at : {0},
              pt : SUBSET PtFrames, ptFree : Nat,
              user : SUBSET UserFrames, userFree : Nat]
  BY <1>2 DEF Machines
<1>4. listed \in Nat
  BY <1>1 DEF Typed, MaxN
<1> QED
  BY <1>1, <1>3, <1>4 DEF Typed, TypeOK

(* The machine record has its parts and every entry points somewhere, for   *)
(* every number of frames and entries and every layout.                     *)
THEOREM TypesOK == Spec => []TypeOK
  BY Invariance, TypeFollows, PTL

(* No phase of the invariant is a refused launch.                           *)
LEMMA LaunchFollows == IInv => LaunchAccepted
<1> SUFFICES ASSUME IInv PROVE LaunchAccepted
  OBVIOUS
<1>1. phase # "failed"
  BY DEF IInv, Stage
<1>2. ASSUME phase = "running"
      PROVE  /\ mm.mem[mm.mem[pgd][0].f][0] = KernelEntry(os_pmd)
             /\ os_pmd \in PtFrames \ mm.pt
  BY <1>2 DEF IInv, Stage, Running
<1> QED
  BY <1>1, <1>2 DEF LaunchAccepted

(* The tables that prepare_context_mm builds pass the kernel's walk and     *)
(* leave it room for its own mapping, wherever the segments are.            *)
THEOREM LaunchesAccepted == Spec => []LaunchAccepted
  BY Invariance, LaunchFollows, PTL

(* The tables of the three segments stand while the context is mapped.      *)
LEMMA MappedStands ==
  ASSUME IInv, Mapped
  PROVE  /\ mms \in [Segs -> [1..4 -> Index]]
         /\ \E lev, T, G : /\ Standing(mm.mem, lev, version, dirty, pgd, mms, T, G, arg_pfn)
                           /\ mm.pt \subseteq PtFrames \ Used(T)
                           /\ mm.user = UserFrames \ Pages(G)
                           /\ phase = "running" => os_pmd \notin Used(T)
<1>1. mms \in [Segs -> [1..4 -> Index]]
  BY HomesAre DEF IInv, Typed
<1>2. CASE phase = "prepared"
  <2>1. PICK lev, T, G :
           /\ Complete(mm, lev, Leftover(version, dirty, mms), pgd, mms, T, G)
           /\ Standing(mm.mem, lev, version, dirty, pgd, mms, T, G, arg_pfn)
    BY <1>2 DEF IInv, Stage, Prepared
  <2>2. mm.pt = PtFrames \ Used(T) /\ mm.user = UserFrames \ Pages(G)
    BY <2>1 DEF Complete
  <2> QED
    BY <1>1, <1>2, <2>1, <2>2
<1>3. CASE phase = "running"
  <2>1. PICK lev, T, G :
           /\ Standing(mm.mem, lev, version, dirty, pgd, mms, T, G, arg_pfn)
           /\ os_pmd \in PtFrames \ Used(T)
           /\ mm.pt = PtFrames \ (Used(T) \cup {os_pmd}) /\ mm.user = UserFrames \ Pages(G)
    BY <1>3 DEF IInv, Stage, Running
  <2> QED
    BY <1>1, <2>1
<1> QED
  BY <1>2, <1>3 DEF Mapped

(* What stands is all that can be walked.                                   *)
LEMMA OnlyFollows == IInv => OnlySegmentsMapped
<1> SUFFICES ASSUME IInv, Mapped, NEW q \in UserPages
             PROVE  (\E seg \in Segs : q = Home(seg)) \/ BelowCodeTable(q)
  BY DEF OnlySegmentsMapped
<1>1. PICK lev, T, G : Standing(mm.mem, lev, version, dirty, pgd, mms, T, G, arg_pfn)
  BY MappedStands
<1>2. mms \in [Segs -> [1..4 -> Index]]
  BY MappedStands
<1>3. pgd \in PtFrames
  <2>1. PICK C : Laid(mm.mem, lev, C, pgd, mms, T, G)
    BY <1>1 DEF Standing
  <2> QED
    BY <2>1, UsedIs
<1> QED
  BY <1>1, <1>2, <1>3, LaidOnly

(* No more than the three pages can be reached, whatever the frames held;   *)
(* old entries survive in the code's level-1 table alone, if its frame was  *)
(* dirty.                                                                   *)
THEOREM OnlySegmentsAreMapped == Spec => []OnlySegmentsMapped
  BY Invariance, OnlyFollows, PTL

(* Tables that stand form a tree of taken frames.                           *)
LEMMA TreeFollows == IInv => TablesFormTree
<1> SUFFICES ASSUME IInv, Mapped
             PROVE  /\ \A a, b \in Segs : \A i, j \in 1..4 :
                          Tables(Home(a))[i] = Tables(Home(b))[j]
                             <=> i = j /\ SubSeq(Home(a), 1, i-1) = SubSeq(Home(b), 1, i-1)
                    /\ \A a \in Segs : \A i \in 1..4 :
                          /\ Tables(Home(a))[i] \notin mm.pt
                          /\ phase = "running" => Tables(Home(a))[i] # os_pmd
                    /\ \A a, b \in Segs :
                          /\ Walk(mm, mms[a])[4].f \notin mm.user
                          /\ a # b => Walk(mm, mms[a])[4].f # Walk(mm, mms[b])[4].f
  BY DEF TablesFormTree
<1>1. mms \in [Segs -> [1..4 -> Index]]
  BY MappedStands
<1>2. PICK lev, T, G : /\ Standing(mm.mem, lev, version, dirty, pgd, mms, T, G, arg_pfn)
                       /\ mm.pt \subseteq PtFrames \ Used(T)
                       /\ mm.user = UserFrames \ Pages(G)
                       /\ phase = "running" => os_pmd \notin Used(T)
  BY MappedStands
<1>3. PICK C : Laid(mm.mem, lev, C, pgd, mms, T, G)
  BY <1>2 DEF Standing
<1>4. \A a, b \in Segs : \A i, j \in 1..4 :
         Tables(Home(a))[i] = Tables(Home(b))[j]
            <=> i = j /\ SubSeq(Home(a), 1, i-1) = SubSeq(Home(b), 1, i-1)
  BY <1>1, <1>3, LaidForm
<1>5. \A a \in Segs : /\ Tables(Home(a)) = <<T[a][4], T[a][3], T[a][2], T[a][1]>>
                      /\ Walk(mm, mms[a])[4].f = G[a]
  BY <1>1, <1>3, TablesAre
<1>6. \A a \in Segs : \A i \in 1..4 : Tables(Home(a))[i] \in Used(T)
  <2> TAKE a \in Segs
  <2> TAKE i \in 1..4
  <2>1. PICK V : V = T[a] /\ V \in [1..4 -> PtFrames]
    BY <1>3 DEF Laid
  <2>2. \A l \in 1..4 : V[l] \in Used(T)
    BY <2>1 DEF Used
  <2>3. PICK p : p = Tables(Home(a))
    OBVIOUS
  <2>4. p = <<V[4], V[3], V[2], V[1]>>
    BY <1>5, <2>1, <2>3
  <2>5. p[1] = V[4] /\ p[2] = V[3] /\ p[3] = V[2] /\ p[4] = V[1]
    BY <2>4
  <2>6. p[i] \in Used(T)
    BY <2>2, <2>5
  <2> QED
    BY <2>3, <2>6
<1>7. \A a \in Segs : \A i \in 1..4 :
         /\ Tables(Home(a))[i] \notin mm.pt
         /\ phase = "running" => Tables(Home(a))[i] # os_pmd
  BY <1>2, <1>6
<1>8. \A a, b \in Segs : /\ Walk(mm, mms[a])[4].f \notin mm.user
                         /\ a # b => Walk(mm, mms[a])[4].f # Walk(mm, mms[b])[4].f
  <2>1. \A a, b \in Segs : G[a] \in Pages(G) /\ (a # b => G[a] # G[b])
    BY <1>3 DEF Laid, Pages
  <2> QED
    BY <1>2, <1>5, <2>1
<1> QED
  BY <1>4, <1>7, <1>8

(* The tables of a context form a tree of allocated frames, and the three   *)
(* pages are different allocated frames, whatever indexes the segments      *)
(* share.                                                                   *)
THEOREM TablesFormATree == Spec => []TablesFormTree
  BY Invariance, TreeFollows, PTL

(* In the shell every frame is free.                                        *)
LEMMA ReturnedFollows == IInv => FramesReturned
<1> SUFFICES ASSUME IInv PROVE FramesReturned
  OBVIOUS
<1>1. phase # "miscounted" /\ (phase = "shell" => mm.pt = PtFrames /\ mm.user = UserFrames)
  BY DEF IInv, Stage
<1>2. mm.ptFree = Cardinality(mm.pt) /\ mm.userFree = Cardinality(mm.user)
  BY DEF IInv, Typed, MType, Counted
<1>3. listed <= MaxN
  BY DEF IInv, Typed, MaxN
<1> QED
  BY <1>1, <1>2, <1>3 DEF FramesReturned

(* When a program has returned, every frame has been freed exactly once,    *)
(* and the tables never exceed the array in which they are collected.       *)
THEOREM FramesAreReturned == Spec => []FramesReturned
  BY Invariance, ReturnedFollows, PTL
=============================================================================
