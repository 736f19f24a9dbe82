------------------------- MODULE ProcessMemoryProofs ------------------------
(***************************************************************************)
(* The memory of processes, for every layout and every sequence of calls.  *)
(* next_free stays in its segment, as long as no size is so large that a   *)
(* sum or a difference of pages wraps.  If, besides, there are frames for  *)
(* a new context and for every fault that is handled, the tables of the    *)
(* process fit its segments, no frame is owned twice, the TLB agrees with  *)
(* the tables, and the process sees the memory that UserMemory promises.   *)
(***************************************************************************)
EXTENDS ProcessMemory, FiniteSetTheorems, TLAPS

-----------------------------------------------------------------------------
(* Division of page numbers. *)
LEMMA DivMod ==
  ASSUME NEW p \in Nat, NEW a \in Nat \ {0}
  PROVE  /\ p \div a \in Nat /\ p % a \in Nat /\ p % a < a
         /\ p = (p \div a) * a + (p % a)
<1>1. \A y, n \in Nat : n > 0 => /\ y \div n \in Nat /\ y = (y \div n) * n + (y % n)
                                 /\ y % n \in 0..n-1
  OBVIOUS
<1> QED
  BY <1>1

(* A quotient and a remainder determine the number, and it them. *)
LEMMA DivUnique ==
  ASSUME NEW a \in Nat \ {0}, NEW q \in Nat, NEW r \in Nat, r < a
  PROVE  ((q * a + r) \div a) = q /\ ((q * a + r) % a) = r
<1>1. \A k, n, x \in Nat : x < n => ((k * n + x) \div n) = k /\ ((k * n + x) % n) = x
  OBVIOUS
<1> QED
  BY <1>1

(* Dividing twice is dividing by the product: the indices of a page follow *)
(* from one another.                                                       *)
LEMMA DivDiv == \A p \in Nat, a, b \in Nat \ {0} : (p \div a) \div b = p \div (a * b)
<1> SUFFICES ASSUME NEW p \in Nat, NEW a \in Nat \ {0}, NEW b \in Nat \ {0}
             PROVE  (p \div a) \div b = p \div (a * b)
  OBVIOUS
<1> DEFINE m == p \div a
           r == p % a
           n == m \div b
           k == m % b
<1>1. m \in Nat /\ r \in Nat /\ r <= a - 1 /\ p = m * a + r
  BY DivMod
<1>2. n \in Nat /\ k \in Nat /\ k <= b - 1 /\ m = n * b + k
  BY DivMod, <1>1
<1> HIDE DEF m, r, n, k
<1>3. a * b \in Nat \ {0}
  BY Z3
<1>4. p = n * (a * b) + (k * a + r)
  <2>1. m * a = n * (a * b) + k * a
    BY <1>1, <1>2, Z3
  <2>2. m * a \in Nat /\ k * a \in Nat /\ n * (a * b) \in Nat
    BY <1>1, <1>2, <1>3
  <2> QED
    BY <1>1, <2>1, <2>2
<1>5. k * a + r \in Nat /\ k * a + r < a * b
  <2>1. (b - 1) * a = a * b - a
    BY Z3
  <2>2. k * a <= (b - 1) * a /\ k * a \in Nat
    BY <1>2, Z3
  <2> QED
    BY <1>1, <1>2, <1>3, <2>1, <2>2
<1>6. p \div (a * b) = n
  BY <1>3, <1>4, <1>5, <1>2, DivUnique
<1> QED
  BY <1>3, <1>6 DEF n, m

AllPages == 0..NPages-1

(* The sizes of the tables are numbers, and the pages are numbers below    *)
(* their product.                                                          *)
LEMMA FanIs ==
  /\ Fan[1] \in Nat \ {0} /\ Fan[2] \in Nat \ {0} /\ Fan[3] \in Nat \ {0} /\ Fan[4] \in Nat \ {0}
  /\ Fan[1] * Fan[2] \in Nat \ {0} /\ Fan[1] * Fan[2] * Fan[3] \in Nat \ {0}
  /\ NPages \in Nat \ {0} /\ NPages = (Fan[1] * Fan[2] * Fan[3]) * Fan[4]
  /\ W \in Nat /\ NPages <= W
  /\ \A p \in AllPages : p \in Nat /\ p < NPages
  /\ \A p \in Pages : p \in AllPages /\ Fan[1] * Fan[2] <= p
<1>1. \A l \in 1..4 : Fan[l] \in Nat \ {0}
  BY FanAssumption
<1>2. Fan[1] \in Nat \ {0} /\ Fan[2] \in Nat \ {0} /\ Fan[3] \in Nat \ {0} /\ Fan[4] \in Nat \ {0}
  BY <1>1
<1>3. \A a, b \in Nat \ {0} : a * b \in Nat \ {0}
  BY Z3
<1>4. Fan[1] * Fan[2] \in Nat \ {0}
  BY <1>2, <1>3
<1>5. Fan[1] * Fan[2] * Fan[3] \in Nat \ {0}
  BY <1>2, <1>3, <1>4
<1>6. NPages \in Nat \ {0} /\ NPages = (Fan[1] * Fan[2] * Fan[3]) * Fan[4]
  BY <1>2, <1>3, <1>5 DEF NPages
<1>7. W \in Nat /\ NPages <= W
  BY <1>6, FanAssumption
<1>8. \A p \in AllPages : p \in Nat /\ p < NPages
  BY <1>6 DEF AllPages
<1>9. \A p \in Pages : p \in AllPages /\ Fan[1] * Fan[2] <= p
  BY <1>4, <1>6 DEF AllPages, Pages
<1> QED
  BY <1>2, <1>4, <1>5, <1>6, <1>7, <1>8, <1>9

(* The four indices of a page. *)
LEMMA IdxIs ==
  ASSUME NEW p \in AllPages
  PROVE  /\ Idx[p][1] = (p % Fan[1])
         /\ Idx[p][2] = ((p \div Fan[1]) % Fan[2])
         /\ Idx[p][3] = ((p \div (Fan[1] * Fan[2])) % Fan[3])
         /\ Idx[p][4] = ((p \div (Fan[1] * Fan[2] * Fan[3])) % Fan[4])
<1>1. \A l \in 1..4 : Idx[p][l] = (p \div Span(l)) % Fan[l]
  BY DEF Idx, AllPages
<1>2. Span(1) = 1 /\ Span(2) = Fan[1] /\ Span(3) = Fan[1] * Fan[2] /\ Span(4) = Fan[1] * Fan[2] * Fan[3]
  BY DEF Span
<1>3. p \div 1 = p
  BY FanIs
<1> QED
  BY <1>1, <1>2, <1>3

(* The indices of a page are positions of a table. *)
LEMMA IndexIs == /\ \A p \in AllPages, l \in 1..4 : Idx[p][l] \in Index
                 /\ IsFiniteSet(Index) /\ 0 \in Index /\ Index \subseteq Nat
<1> DEFINE S == {Fan[l] - 1 : l \in 1..4}
           M == Max(S)
<1>1. \E x \in S : \A y \in S : x >= y
  <2>1. \A x, y \in S : x >= y \/ y >= x
    BY FanIs
  <2>2. S = {Fan[1] - 1, Fan[2] - 1, Fan[3] - 1, Fan[4] - 1} /\ S \subseteq Nat
    BY FanIs
  <2> HIDE DEF S
  <2> QED
    BY <2>2, FanIs
<1>2. M \in S /\ \A y \in S : M >= y
  BY <1>1 DEF Max
<1> HIDE DEF M
<1>3. M \in Nat /\ \A l \in 1..4 : Fan[l] - 1 <= M /\ Fan[l] \in Nat \ {0}
  BY <1>2, FanIs
<1>4. Index = 0..M
  BY DEF Index, M, S
<1>5. ASSUME NEW p \in AllPages, NEW l \in 1..4 PROVE Idx[p][l] \in Index
  <2>1. Idx[p][l] \in Nat /\ Idx[p][l] < Fan[l]
    <3>1. /\ p \in Nat /\ (p \div Fan[1]) \in Nat /\ (p \div (Fan[1] * Fan[2])) \in Nat
          /\ (p \div (Fan[1] * Fan[2] * Fan[3])) \in Nat
      BY FanIs, DivMod
    <3>2. \A x \in Nat, a \in Nat \ {0} : x % a \in Nat /\ x % a < a
      BY DivMod
    <3>3. CASE l = 1
      BY <3>1, <3>2, <3>3, IdxIs, FanIs
    <3>4. CASE l = 2
      BY <3>1, <3>2, <3>4, IdxIs, FanIs
    <3>5. CASE l = 3
      BY <3>1, <3>2, <3>5, IdxIs, FanIs
    <3>6. CASE l = 4
      BY <3>1, <3>2, <3>6, IdxIs, FanIs
    <3> QED
      BY <3>3, <3>4, <3>5, <3>6
  <2> QED
    <3>1. Fan[l] - 1 <= M /\ Fan[l] \in Nat \ {0}
      BY <1>3
    <3>2. \A k \in Nat, m \in Nat : k < m /\ m - 1 <= M => k \in 0..M
      BY ONLY <1>3
    <3> QED
      BY <1>4, <2>1, <3>1, <3>2
<1> QED
  BY <1>3, <1>4, <1>5, FS_Interval

(* Pages with the same four indices are the same. *)
LEMMA SamePage ==
  ASSUME NEW p \in AllPages, NEW q \in AllPages, \A l \in 1..4 : Idx[p][l] = Idx[q][l]
  PROVE  p = q
<1> DEFINE a == Fan[1]
           b == Fan[2]
           c == Fan[3]
           d == Fan[4]
<1>1. a \in Nat \ {0} /\ b \in Nat \ {0} /\ c \in Nat \ {0} /\ d \in Nat \ {0} /\ p \in Nat /\ q \in Nat
      /\ p < ((a * b) * c) * d /\ q < ((a * b) * c) * d /\ (a * b) \in Nat \ {0}
      /\ ((a * b) * c) \in Nat \ {0}
  BY FanIs
<1>2. /\ (p % a) = (q % a) /\ ((p \div a) % b) = ((q \div a) % b)
      /\ ((p \div (a * b)) % c) = ((q \div (a * b)) % c)
      /\ ((p \div ((a * b) * c)) % d) = ((q \div ((a * b) * c)) % d)
  BY IdxIs
<1> HIDE DEF a, b, c, d
<1>3. ASSUME NEW x \in Nat, x < ((a * b) * c) * d
      PROVE  /\ x \div ((a * b) * c) \in Nat
             /\ ((x \div ((a * b) * c)) % d) = x \div ((a * b) * c)
             /\ x \div (a * b) = (x \div ((a * b) * c)) * c + ((x \div (a * b)) % c)
             /\ x \div a = (x \div (a * b)) * b + ((x \div a) % b)
             /\ x = (x \div a) * a + (x % a)
  <2>1. x \div a \in Nat /\ x \div (a * b) \in Nat /\ x \div ((a * b) * c) \in Nat
    BY <1>1, DivMod
  <2>2. (x \div a) \div b = x \div (a * b) /\ (x \div (a * b)) \div c = x \div ((a * b) * c)
    <3>1. \A m, n \in Nat \ {0} : (x \div m) \div n = x \div (m * n)
      BY DivDiv
    <3> QED
      BY ONLY <1>1, <3>1, Zenon
  <2> DEFINE y == x \div ((a * b) * c)
             z == (a * b) * c
  <2>3. y < d
    <3>1. x = y * z + (x % z) /\ x % z \in Nat /\ y \in Nat
      BY <1>1, DivMod
    <3> HIDE DEF y, z
    <3>2. \A m, n, k \in Nat : m >= n => m * k >= n * k
      OBVIOUS
    <3>3. d * z = ((a * b) * c) * d /\ z \in Nat /\ d \in Nat /\ y * z \in Nat /\ d * z \in Nat
      BY <1>1, <3>1, Z3 DEF z
    <3>4. y >= d => y * z >= d * z
      BY <3>1, <3>2, <3>3
    <3> QED
      BY <1>1, <3>1, <3>3, <3>4, <1>3
  <2>4. y % d = y
    <3>1. \A m, n \in Nat : m < n => (m % n) = m
      OBVIOUS
    <3> HIDE DEF y
    <3> QED
      BY <3>1, <2>3, <2>1, <1>1 DEF y
  <2> QED
    BY <2>1, <2>2, <2>4, <1>1, DivMod
<1>4. p \div ((a * b) * c) = q \div ((a * b) * c)
  BY <1>1, <1>2, <1>3
<1>5. p \div (a * b) = q \div (a * b)
  BY <1>1, <1>2, <1>3, <1>4
<1>6. p \div a = q \div a
  BY <1>1, <1>2, <1>3, <1>5
<1> QED
  BY <1>1, <1>2, <1>3, <1>6

(* The pages of the segments belong to the first level-4 entry, but not to *)
(* the first entry of the level-3 table, which is the kernel's.            *)
LEMMA SegPage ==
  ASSUME NEW seg \in Segs, NEW p \in Start[seg]..End[seg]
  PROVE  p \in Pages /\ p \in AllPages /\ Idx[p][4] = 0 /\ Idx[p][3] # 0
<1>1. /\ Start[seg] \in Pages /\ End[seg] \in Pages /\ End[seg] < Fan[1] * Fan[2] * Fan[3]
  BY SegsAssumption
<1> DEFINE m == Fan[1] * Fan[2]
           c == Fan[3]
           d == Fan[4]
<1>2. /\ m \in Nat \ {0} /\ c \in Nat \ {0} /\ d \in Nat \ {0} /\ NPages \in Nat /\ m * c \in Nat \ {0}
      /\ Start[seg] \in Nat /\ End[seg] \in Nat
      /\ m <= Start[seg] /\ End[seg] < m * c /\ End[seg] < NPages
  BY <1>1, FanIs
<1>3. p \in Nat /\ m <= p /\ p < m * c /\ p < NPages
  BY <1>2
<1>4. p \in Pages /\ p \in AllPages
  BY <1>2, <1>3 DEF Pages, AllPages
<1> HIDE DEF m, c, d
<1> DEFINE x == p \div m
<1>5. x \in Nat /\ p = x * m + (p % m) /\ p % m \in Nat /\ p % m < m
  BY <1>2, <1>3, DivMod
<1> HIDE DEF x
<1>6. x # 0 /\ x < c
  <2>1. \A i, j, k \in Nat : i >= j => i * k >= j * k
    OBVIOUS
  <2>2. c * m = m * c /\ c * m \in Nat /\ x * m \in Nat
    BY <1>2, <1>5
  <2>3. x >= c => x * m >= c * m
    BY <1>2, <1>5, <2>1
  <2>4. x = 0 => x * m = 0
    BY <1>2
  <2> QED
    BY <1>2, <1>3, <1>5, <2>2, <2>3, <2>4
<1>7. \A i, j \in Nat : i < j => (i % j) = i /\ (i \div j) = 0
  OBVIOUS
<1>8. x % c = x /\ p \div (m * c) = 0 /\ 0 % d = 0
  BY <1>2, <1>3, <1>5, <1>6, <1>7
<1> QED
  BY <1>4, <1>6, <1>8, IdxIs DEF m, c, d, x

(* A set of numbers has a least one: otherwise its lower bounds, of which  *)
(* there are finitely many, would go on for ever.                          *)
LEMMA MinIs ==
  ASSUME NEW S \in SUBSET Nat, S # {}
  PROVE  Min(S) \in S /\ \A y \in S : Min(S) <= y
<1> DEFINE Low  == {k \in Nat : \A y \in S : k <= y}
           next == [k \in Low |-> k + 1]
<1>1. SUFFICES ASSUME \A x \in S : \E y \in S : ~(x <= y) PROVE FALSE
  BY DEF Min
<1>2. \A k \in Low : k + 1 \in Low
  BY <1>1
<1>3. PICK m \in S : TRUE
  OBVIOUS
<1>4. IsFiniteSet(Low)
  <2>1. \A k \in Low : k <= m
    OBVIOUS
  <2> QED
    BY <2>1, FS_BoundedSetOfNaturals
<1>5. next \in Injection(Low, Low)
  BY <1>2 DEF Injection, IsInjective
<1>6. next \in Surjection(Low, Low)
  BY <1>4, <1>5, FS_Injection
<1>7. 0 \in Low
  OBVIOUS
<1>8. PICK k \in Low : next[k] = 0
  BY <1>6, <1>7 DEF Surjection
<1> QED
  BY <1>8

-----------------------------------------------------------------------------
(* The machine record, its entries and the steps on it. *)
Machines == [mem : [PtFrames -> [Index -> Entries]], pt : SUBSET PtFrames,
             user : SUBSET UserFrames, at : {0} \cup PtFrames]

(* What the entries for a table, a page and nothing look like. *)
LEMMA EntryIs ==
  /\ \A f \in PtFrames \cup UserFrames, w \in BOOLEAN :
        /\ Entry(f, w) \in Entries
        /\ Entry(f, w).p /\ Entry(f, w).u /\ Entry(f, w).f = f /\ Entry(f, w).w = w
  /\ NoEntry \in Entries /\ ~NoEntry.p
BY DEF Entry, Entries, NoEntry

(* Writing an entry changes that entry. *)
LEMMA PutIs ==
  ASSUME NEW s \in Machines, NEW t \in PtFrames, NEW i \in Index, NEW e \in Entries
  PROVE  /\ Put(s, t, i, e) \in Machines
         /\ Put(s, t, i, e).mem[t][i] = e
         /\ \A u \in PtFrames, j \in Index : u # t \/ j # i =>
               Put(s, t, i, e).mem[u][j] = s.mem[u][j]
         /\ Put(s, t, i, e).pt = s.pt /\ Put(s, t, i, e).user = s.user /\ Put(s, t, i, e).at = s.at
BY DEF Put, Machines

-----------------------------------------------------------------------------
(* The tree of tables.  K gives what each frame of a table is: free (0), a *)
(* table of level 1 to 4, the OS stack (5) or the kernel's table (6).      *)
Edge(s, t, i) == s.mem[t][i].p
To(s, t, i)   == s.mem[t][i].f

(* An entry leads a level down; the first of level 3 to the kernel's table. *)
Leads(s, K, t, i) ==
    \/ /\ K[t] = 3 /\ i = 0 /\ ~s.mem[t][i].u
       /\ To(s, t, i) \in PtFrames /\ K[To(s, t, i)] = 6
    \/ /\ K[t] \in 2..4 /\ (K[t] = 3 => i # 0) /\ s.mem[t][i].u
       /\ To(s, t, i) \in PtFrames /\ K[To(s, t, i)] = K[t] - 1
    \/ /\ K[t] = 1 /\ s.mem[t][i].u
       /\ To(s, t, i) \in UserFrames \ s.user

FreeKinds(s, K) == \A t \in PtFrames : t \in s.pt <=> K[t] = 0
OthersClean(s, K) ==
    \A t \in PtFrames : K[t] \notin 1..4 => \A i \in Index : s.mem[t][i] = NoEntry
LeadDown(s, K) == \A t \in PtFrames, i \in Index : Edge(s, t, i) => Leads(s, K, t, i)
EdgesApart(s) ==
    \A t, u \in PtFrames, i, j \in Index :
        Edge(s, t, i) /\ Edge(s, u, j) /\ To(s, t, i) = To(s, u, j) => t = u /\ i = j
TablesReached(s, K) ==
    \A f \in PtFrames : K[f] \in 1..3 => \E t \in PtFrames, i \in Index : Edge(s, t, i) /\ To(s, t, i) = f
PagesReached(s) ==
    \A f \in UserFrames \ s.user : \E t \in PtFrames, i \in Index : Edge(s, t, i) /\ To(s, t, i) = f
(* A writable entry lies below writable ones. *)
WriteDown(s) ==
    \A t, u \in PtFrames, i, j \in Index :
        Edge(s, t, i) /\ To(s, t, i) = u /\ Edge(s, u, j) /\ s.mem[u][j].u /\ s.mem[u][j].w
            => s.mem[t][i].w

Tree(s, K) == /\ s \in Machines /\ K \in [PtFrames -> 0..6]
              /\ FreeKinds(s, K) /\ OthersClean(s, K) /\ LeadDown(s, K) /\ EdgesApart(s)
              /\ TablesReached(s, K) /\ PagesReached(s) /\ WriteDown(s)

(* Entries stay, and only gain rights. *)
Grow(s, z) ==
    \A t \in PtFrames, i \in Index : Edge(s, t, i) =>
        /\ Edge(z, t, i) /\ To(z, t, i) = To(s, t, i)
        /\ (s.mem[t][i].w => z.mem[t][i].w) /\ (s.mem[t][i].u => z.mem[t][i].u)

(* z differs from s in one entry. *)
Changed(s, z, t, i) ==
    /\ z \in Machines
    /\ \A u \in PtFrames, j \in Index : u # t \/ j # i => z.mem[u][j] = s.mem[u][j]

(* An entry that is there gets the rights. *)
Raised(e, w) == [e EXCEPT !.w = @ \/ w, !.u = TRUE]

(* A free frame hung below a table becomes a table of the level below:     *)
(* handle_page_fault and install_ptable on an absent entry.                *)
LEMMA AddTable ==
  ASSUME NEW s, NEW K, Tree(s, K), NEW t \in PtFrames, NEW i \in Index, NEW x \in s.pt,
         NEW w \in BOOLEAN, NEW z, Changed(s, z, t, i),
         K[t] \in 2..4, K[t] = 3 => i # 0, ~Edge(s, t, i),
         z.mem[t][i] = Entry(x, w), z.pt = s.pt \ {x}, z.user = s.user,
         w => \A u \in PtFrames, j \in Index : Edge(s, u, j) /\ To(s, u, j) = t => s.mem[u][j].w
  PROVE  Tree(z, [K EXCEPT ![x] = K[t] - 1]) /\ Grow(s, z)
<1> DEFINE L == [K EXCEPT ![x] = K[t] - 1]
<1>1. /\ s \in Machines /\ K \in [PtFrames -> 0..6] /\ z \in Machines
      /\ x \in PtFrames /\ K[x] = 0 /\ \A j \in Index : s.mem[x][j] = NoEntry
      /\ x # t
  BY DEF Tree, FreeKinds, OthersClean, Changed, Machines
<1>2. /\ L \in [PtFrames -> 0..6] /\ L[x] = K[t] - 1 /\ \A u \in PtFrames \ {x} : L[u] = K[u]
  BY <1>1
<1> HIDE DEF L
<1>3. /\ Edge(z, t, i) /\ To(z, t, i) = x /\ z.mem[t][i].u /\ z.mem[t][i].w = w
  BY <1>1, EntryIs DEF Edge, To
<1>4. \A u \in PtFrames, j \in Index : u # t \/ j # i =>
         /\ z.mem[u][j] = s.mem[u][j]
         /\ (Edge(z, u, j) <=> Edge(s, u, j)) /\ To(z, u, j) = To(s, u, j)
  BY DEF Changed, Edge, To
<1>5. \A j \in Index : ~Edge(z, x, j) /\ ~Edge(s, x, j)
  BY <1>1, <1>4, EntryIs DEF Edge
<1>6. \A u \in PtFrames, j \in Index : Edge(s, u, j) => To(s, u, j) # x
  BY <1>1, FramesAssumption DEF Tree, LeadDown, Leads
<1>7. FreeKinds(z, L)
  BY <1>1, <1>2 DEF Tree, FreeKinds
<1>8. OthersClean(z, L)
  BY <1>1, <1>2, <1>4 DEF Tree, OthersClean
<1>9. LeadDown(z, L)
  <2> SUFFICES ASSUME NEW u \in PtFrames, NEW j \in Index, Edge(z, u, j) PROVE Leads(z, L, u, j)
    BY DEF LeadDown
  <2>1. CASE u = t /\ j = i
    BY <1>1, <1>2, <1>3, <2>1 DEF Leads
  <2>2. CASE u # t \/ j # i
    <3>1. Leads(s, K, u, j) /\ To(s, u, j) # x /\ u # x
      BY <1>4, <1>5, <1>6, <2>2 DEF Tree, LeadDown
    <3> QED
      BY <1>1, <1>2, <1>4, <2>2, <3>1 DEF Leads
  <2> QED
    BY <2>1, <2>2
<1>10. EdgesApart(z)
  BY <1>3, <1>4, <1>6 DEF Tree, EdgesApart
<1>11. TablesReached(z, L)
  BY <1>2, <1>3, <1>4 DEF Tree, TablesReached
<1>12. PagesReached(z)
  BY <1>3, <1>4 DEF Tree, PagesReached
<1>13. WriteDown(z)
  BY <1>3, <1>4, <1>5, <1>6 DEF Tree, WriteDown
<1>14. Grow(s, z)
  BY <1>4 DEF Grow
<1> QED
  BY <1>1, <1>2, <1>7, <1>8, <1>9, <1>10, <1>11, <1>12, <1>13, <1>14 DEF Tree, L

(* An entry that is there gains rights. *)
LEMMA RaiseTable ==
  ASSUME NEW s, NEW K, Tree(s, K), NEW t \in PtFrames, NEW i \in Index,
         NEW w \in BOOLEAN, NEW z, Changed(s, z, t, i),
         K[t] \in 2..4, K[t] = 3 => i # 0, Edge(s, t, i),
         z.mem[t][i] = [s.mem[t][i] EXCEPT !.w = @ \/ w, !.u = TRUE], z.pt = s.pt, z.user = s.user,
         w => \A u \in PtFrames, j \in Index : Edge(s, u, j) /\ To(s, u, j) = t => s.mem[u][j].w
  PROVE  Tree(z, K) /\ Grow(s, z)
<1>1. s \in Machines /\ K \in [PtFrames -> 0..6] /\ z \in Machines /\ s.mem[t][i] \in Entries
  BY DEF Tree, Changed, Machines
<1>2. /\ z.mem[t][i].p /\ z.mem[t][i].u /\ z.mem[t][i].f = s.mem[t][i].f
      /\ z.mem[t][i].w = (s.mem[t][i].w \/ w)
  BY <1>1 DEF Edge, Entries
<1>3. \A u \in PtFrames, j \in Index :
         /\ (Edge(z, u, j) <=> Edge(s, u, j)) /\ To(z, u, j) = To(s, u, j)
         /\ (u # t \/ j # i) => z.mem[u][j] = s.mem[u][j]
  BY <1>2 DEF Changed, Edge, To
<1>4. FreeKinds(z, K)
  BY DEF Tree, FreeKinds
<1>5. OthersClean(z, K)
  BY <1>3 DEF Tree, OthersClean
<1>6. LeadDown(z, K)
  <2> SUFFICES ASSUME NEW u \in PtFrames, NEW j \in Index, Edge(z, u, j) PROVE Leads(z, K, u, j)
    BY DEF LeadDown
  <2>1. Edge(s, u, j) /\ Leads(s, K, u, j) /\ To(z, u, j) = To(s, u, j)
    BY <1>3 DEF Tree, LeadDown
  <2>2. CASE u = t /\ j = i
    BY <1>2, <2>1, <2>2 DEF Leads
  <2>3. CASE u # t \/ j # i
    BY <1>3, <2>1, <2>3 DEF Leads
  <2> QED
    BY <2>2, <2>3
<1>7. EdgesApart(z) /\ TablesReached(z, K) /\ PagesReached(z)
  BY <1>3 DEF Tree, EdgesApart, TablesReached, PagesReached
<1>8. WriteDown(z)
  <2> SUFFICES ASSUME NEW u \in PtFrames, NEW v \in PtFrames, NEW j \in Index, NEW k \in Index,
                      Edge(z, u, j), To(z, u, j) = v, Edge(z, v, k),
                      z.mem[v][k].u, z.mem[v][k].w
               PROVE  z.mem[u][j].w
    BY DEF WriteDown
  <2>1. Edge(s, u, j) /\ To(s, u, j) = v /\ Edge(s, v, k)
    BY <1>3
  <2>2. s.mem[u][j].w => z.mem[u][j].w
    BY <1>2, <1>3
  <2>3. CASE v = t /\ k = i
    <3>1. s.mem[v][k].u
      BY <2>1, <2>3 DEF Tree, LeadDown, Leads
    <3> QED
      BY <1>2, <2>1, <2>2, <2>3, <3>1 DEF Tree, WriteDown
  <2>4. CASE v # t \/ k # i
    BY <1>3, <2>1, <2>2, <2>4 DEF Tree, WriteDown
  <2> QED
    BY <2>3, <2>4
<1>9. Grow(s, z)
  <2>1. ASSUME NEW u \in PtFrames, NEW j \in Index, Edge(s, u, j)
        PROVE  /\ Edge(z, u, j) /\ To(z, u, j) = To(s, u, j)
               /\ (s.mem[u][j].w => z.mem[u][j].w) /\ (s.mem[u][j].u => z.mem[u][j].u)
    <3>1. Edge(z, u, j) /\ To(z, u, j) = To(s, u, j)
      BY <1>3, <2>1
    <3>2. CASE u = t /\ j = i
      BY ONLY <1>2, <3>1, <3>2
    <3>3. CASE u # t \/ j # i
      BY <1>3, <3>1, <3>3
    <3> QED
      BY <3>2, <3>3
  <2> QED
    BY <2>1 DEF Grow
<1> QED
  BY <1>1, <1>4, <1>5, <1>6, <1>7, <1>8, <1>9 DEF Tree

(* A table of level 1 gets a page. *)
LEMMA AddPage ==
  ASSUME NEW s, NEW K, Tree(s, K), NEW t \in PtFrames, NEW i \in Index, NEW x \in s.user,
         NEW w \in BOOLEAN, NEW z, Changed(s, z, t, i),
         K[t] = 1, ~Edge(s, t, i),
         z.mem[t][i] = Entry(x, w), z.pt = s.pt, z.user = s.user \ {x},
         w => \A u \in PtFrames, j \in Index : Edge(s, u, j) /\ To(s, u, j) = t => s.mem[u][j].w
  PROVE  Tree(z, K) /\ Grow(s, z)
<1>1. /\ s \in Machines /\ K \in [PtFrames -> 0..6] /\ z \in Machines
      /\ x \in UserFrames /\ x \notin PtFrames
  BY FramesAssumption DEF Tree, Changed, Machines
<1>2. Edge(z, t, i) /\ To(z, t, i) = x /\ z.mem[t][i].u /\ z.mem[t][i].w = w
  BY <1>1, EntryIs DEF Edge, To
<1>3. \A u \in PtFrames, j \in Index : u # t \/ j # i =>
         /\ z.mem[u][j] = s.mem[u][j]
         /\ (Edge(z, u, j) <=> Edge(s, u, j)) /\ To(z, u, j) = To(s, u, j)
  BY DEF Changed, Edge, To
<1>4. \A u \in PtFrames, j \in Index : Edge(s, u, j) => To(s, u, j) # x
  BY <1>1 DEF Tree, LeadDown, Leads
<1>5. FreeKinds(z, K)
  BY DEF Tree, FreeKinds
<1>6. OthersClean(z, K)
  BY <1>3 DEF Tree, OthersClean
<1>7. LeadDown(z, K)
  <2> SUFFICES ASSUME NEW u \in PtFrames, NEW j \in Index, Edge(z, u, j) PROVE Leads(z, K, u, j)
    BY DEF LeadDown
  <2>1. CASE u = t /\ j = i
    BY <1>1, <1>2, <2>1 DEF Leads
  <2>2. CASE u # t \/ j # i
    <3>1. Leads(s, K, u, j) /\ To(s, u, j) # x
      BY <1>3, <1>4, <2>2 DEF Tree, LeadDown
    <3> QED
      BY <1>1, <1>3, <2>2, <3>1 DEF Leads
  <2> QED
    BY <2>1, <2>2
<1>8. EdgesApart(z)
  BY <1>2, <1>3, <1>4 DEF Tree, EdgesApart
<1>9. TablesReached(z, K)
  BY <1>3 DEF Tree, TablesReached
<1>10. PagesReached(z)
  BY <1>2, <1>3 DEF Tree, PagesReached
<1>11. WriteDown(z)
  BY <1>1, <1>2, <1>3, <1>4 DEF Tree, WriteDown
<1>12. Grow(s, z)
  BY <1>3 DEF Grow
<1> QED
  BY <1>1, <1>5, <1>6, <1>7, <1>8, <1>9, <1>10, <1>11, <1>12 DEF Tree

(* Entries of level 1 are cleared and their frames given back. *)
LEMMA RemovePages ==
  ASSUME NEW s, NEW K, Tree(s, K), NEW z \in Machines,
         z.pt = s.pt,
         \A t \in PtFrames, i \in Index :
            \/ z.mem[t][i] = s.mem[t][i]
            \/ z.mem[t][i] = NoEntry /\ Edge(s, t, i) /\ K[t] = 1,
         \A f \in UserFrames : f \in z.user <=>
            \/ f \in s.user
            \/ \E t \in PtFrames, i \in Index :
                  Edge(s, t, i) /\ To(s, t, i) = f /\ z.mem[t][i] = NoEntry
  PROVE  Tree(z, K)
<1>1. s \in Machines /\ K \in [PtFrames -> 0..6] /\ ~NoEntry.p
  BY EntryIs DEF Tree
<1>2. \A t \in PtFrames, i \in Index : Edge(z, t, i) =>
         Edge(s, t, i) /\ z.mem[t][i] = s.mem[t][i] /\ To(z, t, i) = To(s, t, i)
  BY <1>1 DEF Edge, To
<1>3. \A t \in PtFrames, i \in Index : Edge(s, t, i) /\ K[t] # 1 =>
         Edge(z, t, i) /\ z.mem[t][i] = s.mem[t][i] /\ To(z, t, i) = To(s, t, i)
  BY <1>1 DEF Edge, To
<1>4. FreeKinds(z, K)
  BY DEF Tree, FreeKinds
<1>5. OthersClean(z, K)
  BY DEF Tree, OthersClean
<1>6. LeadDown(z, K)
  <2> SUFFICES ASSUME NEW t \in PtFrames, NEW i \in Index, Edge(z, t, i) PROVE Leads(z, K, t, i)
    BY DEF LeadDown
  <2>1. Leads(s, K, t, i) /\ Edge(s, t, i) /\ z.mem[t][i] = s.mem[t][i]
        /\ To(z, t, i) = To(s, t, i)
    BY <1>2 DEF Tree, LeadDown
  <2>2. ASSUME K[t] = 1 PROVE To(s, t, i) \notin z.user
    <3>1. To(s, t, i) \in UserFrames \ s.user
      BY <2>1, <2>2 DEF Leads
    <3>2. \A u \in PtFrames, j \in Index :
            Edge(s, u, j) /\ To(s, u, j) = To(s, t, i) => z.mem[u][j] # NoEntry
      BY <1>1, <2>1 DEF Tree, EdgesApart, Edge
    <3> QED
      BY <3>1, <3>2
  <2> QED
    BY <2>1, <2>2 DEF Leads
<1>7. EdgesApart(z)
  BY <1>2 DEF Tree, EdgesApart
<1>8. TablesReached(z, K)
  <2>1. ASSUME NEW f \in PtFrames, NEW t \in PtFrames, NEW i \in Index,
               Edge(s, t, i), To(s, t, i) = f, K[f] \in 1..3
        PROVE  K[t] # 1
    BY <2>1, FramesAssumption DEF Tree, LeadDown, Leads
  <2> QED
    BY <1>3, <2>1 DEF Tree, TablesReached
<1>9. PagesReached(z)
  BY <1>2 DEF Tree, PagesReached, Edge, To
<1>10. WriteDown(z)
  BY <1>2 DEF Tree, WriteDown
<1> QED
  BY <1>1, <1>4, <1>5, <1>6, <1>7, <1>8, <1>9, <1>10 DEF Tree

(* The level-3 table gets the kernel's entry. *)
LEMMA AddKernel ==
  ASSUME NEW s, NEW K, Tree(s, K), NEW t \in PtFrames, 0 \in Index, NEW x \in s.pt,
         NEW z, Changed(s, z, t, 0), K[t] = 3, ~Edge(s, t, 0),
         z.mem[t][0] = [p |-> TRUE, w |-> TRUE, u |-> FALSE, f |-> x],
         z.pt = s.pt \ {x}, z.user = s.user
  PROVE  Tree(z, [K EXCEPT ![x] = 6]) /\ Grow(s, z)
<1> DEFINE L == [K EXCEPT ![x] = 6]
<1>0. s \in Machines /\ K \in [PtFrames -> 0..6] /\ z \in Machines /\ x \in PtFrames /\ K[x] = 0
  BY DEF Tree, FreeKinds, Changed, Machines
<1>1. /\ s \in Machines /\ K \in [PtFrames -> 0..6] /\ z \in Machines
      /\ x \in PtFrames /\ K[x] = 0 /\ \A j \in Index : s.mem[x][j] = NoEntry
      /\ x # t
  BY <1>0 DEF Tree, OthersClean
<1>2. /\ L \in [PtFrames -> 0..6] /\ L[x] = 6 /\ \A u \in PtFrames \ {x} : L[u] = K[u]
  BY <1>1
<1> HIDE DEF L
<1>3. /\ Edge(z, t, 0) /\ To(z, t, 0) = x /\ ~z.mem[t][0].u
  BY <1>1 DEF Edge, To
<1>4. \A u \in PtFrames, j \in Index : u # t \/ j # 0 =>
         /\ z.mem[u][j] = s.mem[u][j]
         /\ (Edge(z, u, j) <=> Edge(s, u, j)) /\ To(z, u, j) = To(s, u, j)
  BY DEF Changed, Edge, To
<1>5. \A j \in Index : ~Edge(z, x, j) /\ ~Edge(s, x, j)
  BY <1>1, <1>4, EntryIs DEF Edge
<1>6. \A u \in PtFrames, j \in Index : Edge(s, u, j) => To(s, u, j) # x
  BY <1>1, FramesAssumption DEF Tree, LeadDown, Leads
<1>7. FreeKinds(z, L)
  BY <1>1, <1>2 DEF Tree, FreeKinds
<1>8. OthersClean(z, L)
  BY <1>1, <1>2, <1>4 DEF Tree, OthersClean
<1>9. LeadDown(z, L)
  <2> SUFFICES ASSUME NEW u \in PtFrames, NEW j \in Index, Edge(z, u, j) PROVE Leads(z, L, u, j)
    BY DEF LeadDown
  <2>1. CASE u = t /\ j = 0
    BY <1>1, <1>2, <1>3, <2>1 DEF Leads
  <2>2. CASE u # t \/ j # 0
    <3>1. Leads(s, K, u, j) /\ To(s, u, j) # x /\ u # x
      BY <1>4, <1>5, <1>6, <2>2 DEF Tree, LeadDown
    <3> QED
      BY <1>1, <1>2, <1>4, <2>2, <3>1 DEF Leads
  <2> QED
    BY <2>1, <2>2
<1>10. EdgesApart(z)
  BY <1>3, <1>4, <1>6 DEF Tree, EdgesApart
<1>11. TablesReached(z, L)
  BY <1>2, <1>3, <1>4 DEF Tree, TablesReached
<1>12. PagesReached(z)
  BY <1>3, <1>4 DEF Tree, PagesReached
<1>13. WriteDown(z)
  BY <1>3, <1>4, <1>5, <1>6 DEF Tree, WriteDown
<1>14. Grow(s, z)
  BY <1>4 DEF Grow
<1> QED
  BY <1>1, <1>2, <1>7, <1>8, <1>9, <1>10, <1>11, <1>12, <1>13, <1>14 DEF Tree, L

-----------------------------------------------------------------------------
(* The way to a page: the tables of level 3, 2 and 1 and the frame.        *)
At3(s, r, p) == To(s, r, Idx[p][4])
At2(s, r, p) == To(s, At3(s, r, p), Idx[p][3])
At1(s, r, p) == To(s, At2(s, r, p), Idx[p][2])
At0(s, r, p) == To(s, At1(s, r, p), Idx[p][1])
Has3(s, r, p) == Edge(s, r, Idx[p][4])
Has2(s, r, p) == Has3(s, r, p) /\ Edge(s, At3(s, r, p), Idx[p][3])
Has1(s, r, p) == Has2(s, r, p) /\ Edge(s, At2(s, r, p), Idx[p][2])
Has0(s, r, p) == Has1(s, r, p) /\ Edge(s, At1(s, r, p), Idx[p][1])

(* PathTo collects the entries of the way as far as it leads. *)
LEMMA PathIs ==
  ASSUME NEW s, NEW r, NEW p
  PROVE  /\ Mapped(s, r, p) <=> Has0(s, r, p)
         /\ Has0(s, r, p) =>
              /\ Len(PathTo(s, r, p)) = 4
              /\ PathTo(s, r, p)[1] = s.mem[r][Idx[p][4]]
              /\ PathTo(s, r, p)[2] = s.mem[At3(s, r, p)][Idx[p][3]]
              /\ PathTo(s, r, p)[3] = s.mem[At2(s, r, p)][Idx[p][2]]
              /\ PathTo(s, r, p)[4] = s.mem[At1(s, r, p)][Idx[p][1]]
              /\ PathTo(s, r, p)[3].f = At1(s, r, p)
              /\ PathTo(s, r, p)[4].f = At0(s, r, p)
         /\ Len(PathTo(s, r, p)) = 4 /\ PathTo(s, r, p)[4].p => Has0(s, r, p)
<1> DEFINE e4 == s.mem[r][Idx[p][4]]
           e3 == s.mem[e4.f][Idx[p][3]]
           e2 == s.mem[e3.f][Idx[p][2]]
           e1 == s.mem[e2.f][Idx[p][1]]
<1>1. PathTo(s, r, p) = IF ~e4.p THEN <<e4>> ELSE IF ~e3.p THEN <<e4, e3>>
                        ELSE IF ~e2.p THEN <<e4, e3, e2>> ELSE <<e4, e3, e2, e1>>
  BY DEF PathTo, Below
<1>2. /\ Has3(s, r, p) = e4.p /\ At3(s, r, p) = e4.f /\ At2(s, r, p) = e3.f
      /\ At1(s, r, p) = e2.f /\ At0(s, r, p) = e1.f
      /\ Has0(s, r, p) <=> e4.p /\ e3.p /\ e2.p /\ e1.p
      /\ s.mem[At3(s, r, p)][Idx[p][3]] = e3 /\ s.mem[At2(s, r, p)][Idx[p][2]] = e2
      /\ s.mem[At1(s, r, p)][Idx[p][1]] = e1
  BY DEF Has3, Has2, Has1, Has0, At3, At2, At1, At0, Edge, To
<1> HIDE DEF e4, e3, e2, e1
<1>3. /\ Len(<<e4>>) = 1 /\ Len(<<e4, e3>>) = 2 /\ Len(<<e4, e3, e2>>) = 3
      /\ Len(<<e4, e3, e2, e1>>) = 4
      /\ <<e4, e3, e2, e1>>[1] = e4 /\ <<e4, e3, e2, e1>>[2] = e3
      /\ <<e4, e3, e2, e1>>[3] = e2 /\ <<e4, e3, e2, e1>>[4] = e1
  OBVIOUS
<1> HIDE DEF PathTo
<1>4. /\ Len(PathTo(s, r, p)) = 4 <=> e4.p /\ e3.p /\ e2.p
      /\ e4.p /\ e3.p /\ e2.p => PathTo(s, r, p) = <<e4, e3, e2, e1>>
  BY <1>1, <1>3
<1>5. Mapped(s, r, p) <=> Len(PathTo(s, r, p)) = 4 /\ PathTo(s, r, p)[4].p
  BY DEF Mapped
<1>6. Has0(s, r, p) <=> Len(PathTo(s, r, p)) = 4 /\ PathTo(s, r, p)[4].p
  BY <1>2, <1>3, <1>4
<1>7. ASSUME Has0(s, r, p)
      PROVE  /\ PathTo(s, r, p)[1] = e4 /\ PathTo(s, r, p)[2] = e3
             /\ PathTo(s, r, p)[3] = e2 /\ PathTo(s, r, p)[4] = e1
  BY <1>2, <1>3, <1>4, <1>7
<1>8. s.mem[r][Idx[p][4]] = e4
  BY DEF e4
<1> QED
  BY <1>2, <1>5, <1>6, <1>7, <1>8

(* The root of the tree. *)
Root(K, r) == r \in PtFrames /\ \A t \in PtFrames : K[t] = 4 <=> t = r
UserPage(p) == p \in AllPages /\ Idx[p][3] # 0

(* The four indices, one by one. *)
LEMMA IndicesIn ==
  ASSUME NEW p \in AllPages
  PROVE  Idx[p][1] \in Index /\ Idx[p][2] \in Index /\ Idx[p][3] \in Index /\ Idx[p][4] \in Index
<1>1. \A l \in 1..4 : Idx[p][l] \in Index
  BY IndexIs
<1> QED
  BY <1>1

(* The way to a page goes through one table of each level to a user frame. *)
LEMMA WayKinds ==
  ASSUME NEW s, NEW K, Tree(s, K), NEW r, Root(K, r), NEW p \in AllPages
  PROVE  /\ Has3(s, r, p) => At3(s, r, p) \in PtFrames /\ K[At3(s, r, p)] = 3
                             /\ s.mem[r][Idx[p][4]].u
         /\ Has2(s, r, p) /\ UserPage(p) => At2(s, r, p) \in PtFrames /\ K[At2(s, r, p)] = 2
                             /\ s.mem[At3(s, r, p)][Idx[p][3]].u
         /\ Has1(s, r, p) => UserPage(p) /\ At1(s, r, p) \in PtFrames /\ K[At1(s, r, p)] = 1
                             /\ s.mem[At2(s, r, p)][Idx[p][2]].u
         /\ Has0(s, r, p) => At0(s, r, p) \in UserFrames \ s.user
                             /\ s.mem[At1(s, r, p)][Idx[p][1]].u
<1>1. /\ Idx[p][1] \in Index /\ Idx[p][2] \in Index /\ Idx[p][3] \in Index /\ Idx[p][4] \in Index
      /\ K \in [PtFrames -> 0..6]
      /\ \A t \in PtFrames, i \in Index : Edge(s, t, i) => Leads(s, K, t, i)
  BY IndicesIn DEF Tree, LeadDown
<1>2. r \in PtFrames /\ K[r] = 4
  BY DEF Root
<1>3. Has3(s, r, p) => At3(s, r, p) \in PtFrames /\ K[At3(s, r, p)] = 3 /\ s.mem[r][Idx[p][4]].u
  BY <1>1, <1>2 DEF Has3, At3, Leads
<1>4. Has2(s, r, p) => At2(s, r, p) \in PtFrames /\ K[At2(s, r, p)] \in {2, 6}
        /\ (K[At2(s, r, p)] = 2 <=> UserPage(p)) /\ (UserPage(p) => s.mem[At3(s, r, p)][Idx[p][3]].u)
  <2> DEFINE t == At3(s, r, p)
             i == Idx[p][3]
  <2>1. SUFFICES ASSUME Has2(s, r, p) PROVE To(s, t, i) \in PtFrames /\ K[To(s, t, i)] \in {2, 6}
        /\ (K[To(s, t, i)] = 2 <=> i # 0) /\ (i # 0 => s.mem[t][i].u)
    BY DEF At2, UserPage
  <2>2. t \in PtFrames /\ K[t] = 3 /\ i \in Index /\ Edge(s, t, i)
    BY <1>1, <1>3, <2>1 DEF Has2
  <2> HIDE DEF t, i
  <2>3. Leads(s, K, t, i)
    BY <1>1, <2>2
  <2> QED
    BY <2>2, <2>3 DEF Leads
<1>5. Has1(s, r, p) => UserPage(p) /\ At1(s, r, p) \in PtFrames /\ K[At1(s, r, p)] = 1
        /\ s.mem[At2(s, r, p)][Idx[p][2]].u
  <2> DEFINE t == At2(s, r, p)
             i == Idx[p][2]
  <2>1. SUFFICES ASSUME Has1(s, r, p)
                 PROVE  K[t] = 2 /\ To(s, t, i) \in PtFrames /\ K[To(s, t, i)] = 1 /\ s.mem[t][i].u
    BY <1>4 DEF At1, Has1
  <2>2. t \in PtFrames /\ i \in Index /\ Edge(s, t, i) /\ K[t] \in {2, 6}
    BY <1>1, <1>4, <2>1 DEF Has1
  <2> HIDE DEF t, i
  <2>3. K[t] # 6
    BY <2>2, EntryIs DEF Tree, OthersClean, Edge
  <2>4. Leads(s, K, t, i)
    BY <1>1, <2>2
  <2> QED
    BY <2>2, <2>3, <2>4 DEF Leads
<1>6. Has0(s, r, p) => At0(s, r, p) \in UserFrames \ s.user /\ s.mem[At1(s, r, p)][Idx[p][1]].u
  <2> DEFINE t == At1(s, r, p)
             i == Idx[p][1]
  <2>1. SUFFICES ASSUME Has0(s, r, p) PROVE To(s, t, i) \in UserFrames \ s.user /\ s.mem[t][i].u
    BY DEF At0
  <2>2. t \in PtFrames /\ i \in Index /\ Edge(s, t, i) /\ K[t] = 1
    BY <1>1, <1>5, <2>1 DEF Has0
  <2> HIDE DEF t, i
  <2>3. Leads(s, K, t, i)
    BY <1>1, <2>2
  <2> QED
    BY <2>2, <2>3 DEF Leads
<1> QED
  BY <1>3, <1>4, <1>5, <1>6

(* No entry of level 1 and no frame belongs to two pages. *)
LEMMA OnePage ==
  ASSUME NEW s, NEW K, Tree(s, K), NEW r, Root(K, r), NEW p \in AllPages, NEW q \in AllPages,
         Has1(s, r, p), Has1(s, r, q), At1(s, r, p) = At1(s, r, q)
  PROVE  /\ Idx[p][1] = Idx[q][1] => p = q
         /\ Has0(s, r, p) /\ Has0(s, r, q) /\ At0(s, r, p) = At0(s, r, q) => p = q
<1>1. /\ Idx[p][1] \in Index /\ Idx[p][2] \in Index /\ Idx[p][3] \in Index /\ Idx[p][4] \in Index
      /\ Idx[q][1] \in Index /\ Idx[q][2] \in Index /\ Idx[q][3] \in Index /\ Idx[q][4] \in Index
      /\ r \in PtFrames
  BY IndicesIn DEF Root
<1>2. /\ At3(s, r, p) \in PtFrames /\ At2(s, r, p) \in PtFrames /\ At1(s, r, p) \in PtFrames
      /\ At3(s, r, q) \in PtFrames /\ At2(s, r, q) \in PtFrames
  BY WayKinds DEF Has1, Has2
<1>3. \A t, u \in PtFrames, i, j \in Index :
        Edge(s, t, i) /\ Edge(s, u, j) /\ To(s, t, i) = To(s, u, j) => t = u /\ i = j
  BY DEF Tree, EdgesApart
<1>4. At2(s, r, p) = At2(s, r, q) /\ Idx[p][2] = Idx[q][2]
  BY <1>1, <1>2, <1>3 DEF At1, Has1
<1>5. At3(s, r, p) = At3(s, r, q) /\ Idx[p][3] = Idx[q][3]
  BY <1>1, <1>2, <1>3, <1>4 DEF At2, Has1, Has2
<1>6. Idx[p][4] = Idx[q][4]
  BY <1>1, <1>3, <1>5 DEF At3, Has1, Has2, Has3
<1>7. Idx[p][1] = Idx[q][1] => p = q
  BY <1>4, <1>5, <1>6, SamePage
<1>8. Has0(s, r, p) /\ Has0(s, r, q) /\ At0(s, r, p) = At0(s, r, q) => Idx[p][1] = Idx[q][1]
  BY <1>1, <1>2, <1>3 DEF At0, Has0
<1> QED
  BY <1>7, <1>8

(* Two pages in one frame are one page. *)
LEMMA OneFrame ==
  ASSUME NEW s, NEW K, Tree(s, K), NEW r, Root(K, r), NEW p \in AllPages, NEW q \in AllPages,
         Has0(s, r, p), Has0(s, r, q), At0(s, r, p) = At0(s, r, q)
  PROVE  p = q
<1>1. /\ Idx[p][1] \in Index /\ Idx[q][1] \in Index
      /\ At1(s, r, p) \in PtFrames /\ At1(s, r, q) \in PtFrames
      /\ Has1(s, r, p) /\ Has1(s, r, q)
  BY IndicesIn, WayKinds DEF Has0
<1>2. At1(s, r, p) = At1(s, r, q)
  BY <1>1 DEF Tree, EdgesApart, Has0, At0
<1> QED
  BY <1>1, <1>2, OnePage

(* Where entries stay, ways stay. *)
LEMMA GrowWay ==
  ASSUME NEW s, NEW K, Tree(s, K), NEW r, Root(K, r), NEW z, Grow(s, z), NEW p \in AllPages
  PROVE  /\ Has3(s, r, p) => Has3(z, r, p) /\ At3(z, r, p) = At3(s, r, p)
         /\ Has2(s, r, p) => Has2(z, r, p) /\ At2(z, r, p) = At2(s, r, p)
                             /\ At3(z, r, p) = At3(s, r, p)
         /\ Has1(s, r, p) => Has1(z, r, p) /\ At1(z, r, p) = At1(s, r, p)
                             /\ At2(z, r, p) = At2(s, r, p) /\ At3(z, r, p) = At3(s, r, p)
         /\ Has0(s, r, p) => Has0(z, r, p) /\ At0(z, r, p) = At0(s, r, p)
                             /\ At1(z, r, p) = At1(s, r, p)
                             /\ At2(z, r, p) = At2(s, r, p) /\ At3(z, r, p) = At3(s, r, p)
<1>1. /\ Idx[p][1] \in Index /\ Idx[p][2] \in Index /\ Idx[p][3] \in Index /\ Idx[p][4] \in Index
      /\ r \in PtFrames
  BY IndicesIn DEF Root
<1>2. \A t \in PtFrames, i \in Index : Edge(s, t, i) => Edge(z, t, i) /\ To(z, t, i) = To(s, t, i)
  BY DEF Grow
<1>3. Has3(s, r, p) => Has3(z, r, p) /\ At3(z, r, p) = At3(s, r, p) /\ At3(s, r, p) \in PtFrames
  BY <1>1, <1>2, WayKinds DEF Has3, At3
<1>4. Has1(s, r, p) => UserPage(p) /\ At2(s, r, p) \in PtFrames /\ At1(s, r, p) \in PtFrames
  BY WayKinds DEF Has1
<1>5. Has2(s, r, p) => Has2(z, r, p) /\ At2(z, r, p) = At2(s, r, p) /\ At3(z, r, p) = At3(s, r, p)
  BY <1>1, <1>2, <1>3 DEF Has2, At2
<1>6. Has1(s, r, p) => Has1(z, r, p) /\ At1(z, r, p) = At1(s, r, p)
                       /\ At2(z, r, p) = At2(s, r, p) /\ At3(z, r, p) = At3(s, r, p)
  BY <1>1, <1>2, <1>4, <1>5 DEF Has1, At1
<1>7. Has0(s, r, p) => Has0(z, r, p) /\ At0(z, r, p) = At0(s, r, p)
                       /\ At1(z, r, p) = At1(s, r, p)
                       /\ At2(z, r, p) = At2(s, r, p) /\ At3(z, r, p) = At3(s, r, p)
  BY <1>1, <1>2, <1>4, <1>6 DEF Has0, At0
<1> QED
  BY <1>3, <1>5, <1>6, <1>7

(* A way in the grown tree whose last entry is an old one is an old way. *)
LEMMA GrowBack ==
  ASSUME NEW s, NEW K, Tree(s, K), NEW r, Root(K, r), NEW z, NEW L, Tree(z, L), Root(L, r),
         Grow(s, z), NEW p \in AllPages, Has0(z, r, p),
         Edge(s, At1(z, r, p), Idx[p][1])
  PROVE  Has0(s, r, p)
<1>1. /\ Idx[p][1] \in Index /\ Idx[p][2] \in Index /\ Idx[p][3] \in Index /\ Idx[p][4] \in Index
      /\ r \in PtFrames /\ K \in [PtFrames -> 0..6]
  BY IndicesIn DEF Root, Tree
<1>2. /\ At3(z, r, p) \in PtFrames /\ At2(z, r, p) \in PtFrames /\ At1(z, r, p) \in PtFrames
      /\ At0(z, r, p) \in UserFrames
  BY WayKinds DEF Has0, Has1, Has2
<1>3. \A t, u \in PtFrames, i, j \in Index :
        Edge(z, t, i) /\ Edge(z, u, j) /\ To(z, t, i) = To(z, u, j) => t = u /\ i = j
  BY DEF Tree, EdgesApart
<1>4. \A t \in PtFrames, i \in Index : Edge(s, t, i) =>
         Leads(s, K, t, i) /\ Edge(z, t, i) /\ To(z, t, i) = To(s, t, i)
  BY DEF Grow, Tree, LeadDown
<1>5. \A f \in PtFrames : K[f] \in 1..3 => \E t \in PtFrames, i \in Index : Edge(s, t, i) /\ To(s, t, i) = f
  BY DEF Tree, TablesReached
<1> DEFINE a == At3(z, r, p)
           b == At2(z, r, p)
           c == At1(z, r, p)
           i4 == Idx[p][4]
           i3 == Idx[p][3]
           i2 == Idx[p][2]
           i1 == Idx[p][1]
<1>6. /\ Edge(z, r, i4) /\ To(z, r, i4) = a /\ Edge(z, a, i3) /\ To(z, a, i3) = b
      /\ Edge(z, b, i2) /\ To(z, b, i2) = c /\ Edge(z, c, i1) /\ To(z, c, i1) = At0(z, r, p)
      /\ Edge(s, c, i1)
  BY DEF Has0, Has1, Has2, Has3, At3, At2, At1, At0
<1> HIDE DEF a, b, c, i4, i3, i2, i1
<1>7. /\ a \in PtFrames /\ b \in PtFrames /\ c \in PtFrames
      /\ i1 \in Index /\ i2 \in Index /\ i3 \in Index /\ i4 \in Index
  BY <1>1, <1>2 DEF a, b, c, i4, i3, i2, i1
<1>8. K[c] = 1
  <2>1. Leads(s, K, c, i1) /\ To(s, c, i1) \in UserFrames /\ To(s, c, i1) \notin PtFrames
    BY <1>2, <1>4, <1>6, <1>7, FramesAssumption
  <2> QED
    BY <2>1 DEF Leads
<1>9. Edge(s, b, i2) /\ To(s, b, i2) = c
  BY <1>3, <1>4, <1>5, <1>6, <1>7, <1>8
<1>10. K[b] = 2
  BY <1>1, <1>4, <1>7, <1>8, <1>9, FramesAssumption DEF Leads
<1>11. Edge(s, a, i3) /\ To(s, a, i3) = b
  BY <1>3, <1>4, <1>5, <1>6, <1>7, <1>10
<1>12. K[a] = 3
  BY <1>1, <1>4, <1>7, <1>10, <1>11, FramesAssumption DEF Leads
<1>13. Edge(s, r, i4) /\ To(s, r, i4) = a
  BY <1>1, <1>3, <1>4, <1>5, <1>6, <1>7, <1>12
<1>14. At3(s, r, p) = a
  BY <1>13 DEF At3, i4
<1>15. At2(s, r, p) = b
  BY <1>11, <1>14 DEF At2, i3
<1>16. At1(s, r, p) = c
  BY <1>9, <1>15 DEF At1, i2
<1> QED
  BY <1>6, <1>9, <1>11, <1>13, <1>14, <1>15, <1>16 DEF Has0, Has1, Has2, Has3, i4, i3, i2, i1

-----------------------------------------------------------------------------
(* The walk of handle_page_fault. *)

(* Pages are those of s. *)
SamePages(s, z) ==
    \A t \in PtFrames, i \in Index : Edge(z, t, i) /\ To(z, t, i) \in UserFrames =>
        Edge(s, t, i) /\ z.mem[t][i] = s.mem[t][i]
(* Tables of level 2 to 4 let writes through. *)
AllWritable(s, K) ==
    \A t \in PtFrames, i \in Index : Edge(s, t, i) /\ K[t] \in 2..4 => s.mem[t][i].w

(* The tables that are missing on the way to a page. *)
Need(s, r, p) == IF Has1(s, r, p) THEN 0 ELSE IF Has2(s, r, p) THEN 1
                 ELSE IF Has3(s, r, p) THEN 2 ELSE 3

(* The walk is at the table of level l on the way to p. *)
OnWay(s, r, p, l) ==
    /\ l = 4 => s.at = r
    /\ l = 3 => Has3(s, r, p) /\ s.at = At3(s, r, p)
    /\ l = 2 => Has2(s, r, p) /\ s.at = At2(s, r, p)
    /\ l = 1 => Has1(s, r, p) /\ s.at = At1(s, r, p)
Stage(s, K, r, p, l, w) ==
    /\ Tree(s, K) /\ Root(K, r) /\ s.at \in PtFrames /\ K[s.at] = l /\ OnWay(s, r, p, l)
    /\ w => \A u \in PtFrames, j \in Index :
               Edge(s, u, j) /\ To(s, u, j) = s.at => s.mem[u][j].w

(* Tables were added on the way to p. *)
Built(s, K, z, L, r, p, w) ==
    /\ Grow(s, z) /\ SamePages(s, z) /\ z.user = s.user /\ z.pt \subseteq s.pt
    /\ \A t \in PtFrames : K[t] # 0 => L[t] = K[t]
    /\ \A t \in PtFrames : L[t] \in {5, 6} => K[t] = L[t]
    /\ \A t \in PtFrames : L[t] = 3 /\ K[t] # 3 => ~Has3(s, r, p) /\ t = Min(s.pt)
    /\ w /\ AllWritable(s, K) => AllWritable(z, L)
    /\ Cardinality(z.pt) = Cardinality(s.pt) + Need(z, r, p) - Need(s, r, p)

(* The free tables are finitely many: the least of them is taken, which    *)
(* leaves one less.                                                        *)
LEMMA PtFinite ==
  ASSUME NEW s \in Machines
  PROVE  /\ IsFiniteSet(s.pt) /\ Cardinality(s.pt) \in Nat /\ (s.pt = {} => Cardinality(s.pt) = 0)
         /\ s.pt # {} => /\ Min(s.pt) \in s.pt
                         /\ Cardinality(s.pt \ {Min(s.pt)}) = Cardinality(s.pt) - 1
         /\ s.user # {} => Min(s.user) \in s.user
<1>1. s.pt \subseteq PtFrames /\ s.user \subseteq UserFrames
  BY DEF Machines
<1>2. s.pt \in SUBSET Nat /\ s.user \in SUBSET Nat /\ IsFiniteSet(s.pt)
  BY <1>1, FramesAssumption, FS_Subset
<1>3. s.pt # {} => Min(s.pt) \in s.pt
  BY <1>2, MinIs
<1>4. s.user # {} => Min(s.user) \in s.user
  BY <1>2, MinIs
<1> QED
  BY <1>2, <1>3, <1>4, FS_CardinalityType, FS_EmptySet, FS_RemoveElement

(* A level of the walk with a table there: its entry gains the rights. *)
LEMMA LevelPresent ==
  ASSUME NEW s \in Machines, s.at \in PtFrames, NEW p \in AllPages, NEW l \in 1..4,
         NEW w \in BOOLEAN, Edge(s, s.at, Idx[p][l]), To(s, s.at, Idx[p][l]) \in PtFrames
  PROVE  LET i == Idx[p][l]
             z == FaultLevel(s, p, l, w)
         IN  /\ Changed(s, z, s.at, i) /\ z.pt = s.pt /\ z.user = s.user
             /\ z.mem[s.at][i] = Raised(s.mem[s.at][i], w)
             /\ z.at = To(s, s.at, i)
<1> DEFINE i == Idx[p][l]
           e == s.mem[s.at][i]
           x == [e EXCEPT !.w = @ \/ w, !.u = TRUE]
           y == Put(s, s.at, i, x)
           z == FaultLevel(s, p, l, w)
<1>1. i \in Index /\ e.p /\ e.f \in PtFrames
  BY IndexIs DEF Edge, To
<1>2. z = [y EXCEPT !.at = e.f]
  BY <1>1 DEF FaultLevel, Below
<1>3. e \in Entries
  BY <1>1 DEF Machines
<1>4. x \in Entries
  <2> HIDE DEF e
  <2> QED
    BY <1>3 DEF Entries
<1> HIDE DEF i, e, x, z
<1>5. /\ y \in Machines /\ y.mem[s.at][i] = x /\ y.pt = s.pt /\ y.user = s.user
      /\ \A u \in PtFrames, j \in Index : u # s.at \/ j # i => y.mem[u][j] = s.mem[u][j]
  BY <1>1, <1>4, PutIs
<1> HIDE DEF y
<1>6. z \in Machines /\ z.mem = y.mem /\ z.pt = y.pt /\ z.user = y.user /\ z.at = e.f
  BY <1>1, <1>2, <1>5 DEF Machines
<1>7. Changed(s, z, s.at, i) /\ z.pt = s.pt /\ z.user = s.user /\ z.mem[s.at][i] = x /\ z.at = e.f
  BY <1>5, <1>6 DEF Changed
<1> QED
  BY <1>7 DEF i, e, x, z, To, Raised

(* A level of the walk without a table: the least free frame is hung below. *)
LEMMA LevelAbsent ==
  ASSUME NEW s \in Machines, s.at \in PtFrames, NEW p \in AllPages, NEW l \in 1..4,
         NEW w \in BOOLEAN, ~Edge(s, s.at, Idx[p][l]), s.pt # {}
  PROVE  LET i == Idx[p][l]
             z == FaultLevel(s, p, l, w)
         IN  /\ Changed(s, z, s.at, i) /\ z.pt = s.pt \ {Min(s.pt)} /\ z.user = s.user
             /\ z.mem[s.at][i] = Entry(Min(s.pt), w)
             /\ z.at = Min(s.pt)
<1> DEFINE i == Idx[p][l]
           new == Min(s.pt)
           v == TakePt(s)
           y == Put(v, s.at, i, Entry(new, w))
           z == FaultLevel(s, p, l, w)
<1>1. i \in Index /\ ~s.mem[s.at][i].p /\ new \in s.pt /\ new \in PtFrames
  BY IndexIs, PtFinite DEF Edge, Machines
<1>2. z = [y EXCEPT !.at = new]
  BY <1>1 DEF FaultLevel, Below
<1>3. v \in Machines /\ v.mem = s.mem /\ v.pt = s.pt \ {new} /\ v.user = s.user
  BY DEF TakePt, Machines
<1> HIDE DEF i, new, v, z
<1>4. Entry(new, w) \in Entries
  BY <1>1, EntryIs
<1>5. /\ y \in Machines /\ y.mem[s.at][i] = Entry(new, w) /\ y.pt = v.pt /\ y.user = v.user
      /\ \A u \in PtFrames, j \in Index : u # s.at \/ j # i => y.mem[u][j] = v.mem[u][j]
  BY <1>1, <1>3, <1>4, PutIs
<1> HIDE DEF y
<1>6. z \in Machines /\ z.mem = y.mem /\ z.pt = y.pt /\ z.user = y.user /\ z.at = new
  BY <1>1, <1>2, <1>5 DEF Machines
<1>7. /\ Changed(s, z, s.at, i) /\ z.pt = s.pt \ {new} /\ z.user = s.user
      /\ z.mem[s.at][i] = Entry(new, w) /\ z.at = new
  BY <1>3, <1>5, <1>6 DEF Changed
<1> QED
  BY <1>7 DEF i, new, z

(* Steps on the way one after the other. *)
LEMMA BuiltTrans ==
  ASSUME NEW s, NEW K, NEW z, NEW L, NEW y, NEW M, NEW r, NEW p, NEW w \in BOOLEAN,
         Built(s, K, z, L, r, p, w), Built(z, L, y, M, r, p, w), Has3(z, r, p),
         s \in Machines, z \in Machines, y \in Machines
  PROVE  Built(s, K, y, M, r, p, w)
<1>1. Grow(s, y)
  BY DEF Built, Grow
<1>2. SamePages(s, y)
  <2> SUFFICES ASSUME NEW t \in PtFrames, NEW i \in Index, Edge(y, t, i), To(y, t, i) \in UserFrames
               PROVE  Edge(s, t, i) /\ y.mem[t][i] = s.mem[t][i]
    BY DEF SamePages
  <2>1. Edge(z, t, i) /\ y.mem[t][i] = z.mem[t][i]
    BY DEF Built, SamePages
  <2>2. To(z, t, i) \in UserFrames
    BY <2>1 DEF To
  <2> QED
    BY <2>1, <2>2 DEF Built, SamePages
<1>3. y.user = s.user /\ y.pt \subseteq s.pt
  BY DEF Built
<1>4. \A t \in PtFrames : K[t] # 0 => M[t] = K[t]
  BY DEF Built
<1>5. \A t \in PtFrames : M[t] \in {5, 6} => K[t] = M[t]
  BY DEF Built
<1>6. \A t \in PtFrames : M[t] = 3 /\ K[t] # 3 => ~Has3(s, r, p) /\ t = Min(s.pt)
  BY DEF Built
<1>7. w /\ AllWritable(s, K) => AllWritable(y, M)
  BY DEF Built
<1>8. /\ Cardinality(s.pt) \in Nat /\ Cardinality(z.pt) \in Nat /\ Cardinality(y.pt) \in Nat
      /\ Need(s, r, p) \in Nat /\ Need(z, r, p) \in Nat /\ Need(y, r, p) \in Nat
  BY PtFinite DEF Need
<1>9. Cardinality(y.pt) = Cardinality(s.pt) + Need(y, r, p) - Need(s, r, p)
  BY <1>8 DEF Built
<1> QED
  BY <1>1, <1>2, <1>3, <1>4, <1>5, <1>6, <1>7, <1>9 DEF Built

(* A level whose entry is there. *)
LEMMA StepPresent ==
  ASSUME NEW s, NEW K, NEW r, NEW p, UserPage(p), NEW l \in 2..4, NEW w \in BOOLEAN,
         Stage(s, K, r, p, l, w), Edge(s, s.at, Idx[p][l]),
         NEW z, Changed(s, z, s.at, Idx[p][l]), z.pt = s.pt, z.user = s.user,
         z.mem[s.at][Idx[p][l]] = Raised(s.mem[s.at][Idx[p][l]], w),
         z.at = To(s, s.at, Idx[p][l])
  PROVE  Stage(z, K, r, p, l - 1, w) /\ Built(s, K, z, K, r, p, w) /\ Has3(z, r, p)
<1> DEFINE t == s.at
           i == Idx[p][l]
<1>1. /\ p \in AllPages /\ i \in Index /\ t \in PtFrames /\ r \in PtFrames /\ K[t] = l
      /\ (l = 3 => i # 0) /\ s \in Machines /\ K \in [PtFrames -> 0..6] /\ Root(K, r)
  BY IndexIs DEF Stage, UserPage, Tree, Root
<1> HIDE DEF t, i
<1>2. Tree(z, K) /\ Grow(s, z)
  <2>1. /\ w => \A u \in PtFrames, j \in Index : Edge(s, u, j) /\ To(s, u, j) = t => s.mem[u][j].w
        /\ Tree(s, K) /\ Edge(s, t, i) /\ Changed(s, z, t, i)
        /\ z.mem[t][i] = [s.mem[t][i] EXCEPT !.w = @ \/ w, !.u = TRUE]
    BY DEF Stage, t, i, Raised
  <2>2. K[t] \in 2..4 /\ (K[t] = 3 => i # 0) /\ z.pt = s.pt /\ z.user = s.user
    BY <1>1
  <2> QED
    BY ONLY <1>1, <2>1, <2>2, RaiseTable
<1>3. s.mem[t][i] \in Entries /\ s.mem[t][i].p
  BY <1>1 DEF Machines, Edge, t, i
<1>4. Edge(z, t, i) /\ To(z, t, i) = z.at /\ To(s, t, i) = z.at /\ (w => z.mem[t][i].w)
  BY <1>1, <1>3 DEF Entries, Edge, To, t, i, Raised
<1>5. \A u \in PtFrames, j \in Index : (Edge(z, u, j) <=> Edge(s, u, j)) /\ To(z, u, j) = To(s, u, j)
  BY <1>4 DEF Changed, Edge, To, t, i
<1>6. z.at \in PtFrames /\ K[z.at] = l - 1
  BY <1>1, <1>2, <1>4 DEF Tree, LeadDown, Leads
<1>7. /\ Idx[p][1] \in Index /\ Idx[p][2] \in Index /\ Idx[p][3] \in Index /\ Idx[p][4] \in Index
  BY <1>1, IndicesIn
<1>8. /\ Has3(z, r, p) <=> Has3(s, r, p)
      /\ At3(z, r, p) = At3(s, r, p)
  BY <1>1, <1>5, <1>7 DEF Has3, At3
<1>9. /\ Has2(z, r, p) <=> Has2(s, r, p)
      /\ Has3(s, r, p) => At2(z, r, p) = At2(s, r, p)
  <2>1. Has3(s, r, p) => At3(s, r, p) \in PtFrames
    BY <1>1, WayKinds DEF Stage
  <2> QED
    BY <2>1, <1>5, <1>7, <1>8 DEF Has2, At2
<1>10. /\ Has1(z, r, p) <=> Has1(s, r, p)
       /\ Has2(s, r, p) => At1(z, r, p) = At1(s, r, p)
  <2>1. Has2(s, r, p) => At2(s, r, p) \in PtFrames /\ Has3(s, r, p)
    BY <1>1, WayKinds DEF Stage, Has2
  <2> QED
    BY <2>1, <1>5, <1>7, <1>9 DEF Has1, At1
<1>11. Need(z, r, p) = Need(s, r, p)
  BY <1>8, <1>9, <1>10 DEF Need
<1>12. OnWay(z, r, p, l - 1) /\ Has3(z, r, p)
  <2>1. CASE l = 4
    <3>1. t = r /\ i = Idx[p][4]
      BY <2>1 DEF Stage, OnWay, t, i
    <3> QED
      BY <2>1, <3>1, <1>4 DEF OnWay, Has3, At3
  <2>2. CASE l = 3
    <3>1. Has3(s, r, p) /\ t = At3(s, r, p) /\ i = Idx[p][3]
      BY <2>2 DEF Stage, OnWay, t, i
    <3> QED
      BY <2>2, <3>1, <1>4, <1>8 DEF OnWay, Has2, At2
  <2>3. CASE l = 2
    <3>1. Has2(s, r, p) /\ t = At2(s, r, p) /\ i = Idx[p][2] /\ Has3(s, r, p)
      BY <2>3 DEF Stage, OnWay, t, i, Has2
    <3> QED
      BY <2>3, <3>1, <1>4, <1>8, <1>9 DEF OnWay, Has1, At1
  <2> QED
    BY <2>1, <2>2, <2>3
<1>13. w => \A u \in PtFrames, j \in Index : Edge(z, u, j) /\ To(z, u, j) = z.at => z.mem[u][j].w
  BY <1>1, <1>2, <1>4 DEF Tree, EdgesApart
<1>14. Stage(z, K, r, p, l - 1, w)
  BY <1>1, <1>2, <1>6, <1>12, <1>13 DEF Stage
<1>15. SamePages(s, z)
  <2> SUFFICES ASSUME NEW u \in PtFrames, NEW j \in Index, Edge(z, u, j), To(z, u, j) \in UserFrames
               PROVE  Edge(s, u, j) /\ z.mem[u][j] = s.mem[u][j]
    BY DEF SamePages
  <2>1. u # t \/ j # i
    BY <1>4, <1>6, FramesAssumption
  <2> QED
    BY <2>1, <1>5 DEF Changed, t, i
<1>16. w /\ AllWritable(s, K) => AllWritable(z, K)
  BY <1>2, <1>5 DEF AllWritable, Grow
<1>17. Cardinality(z.pt) = Cardinality(s.pt) + Need(z, r, p) - Need(s, r, p)
  <2>1. Cardinality(s.pt) \in Nat /\ Need(s, r, p) \in Nat
    BY <1>1, PtFinite DEF Need
  <2> QED
    BY <1>11, <2>1
<1>18. Built(s, K, z, K, r, p, w)
  BY <1>2, <1>15, <1>16, <1>17 DEF Built
<1> QED
  BY <1>12, <1>14, <1>18

(* A level whose entry is missing. *)
LEMMA StepAbsent ==
  ASSUME NEW s, NEW K, NEW r, NEW p, UserPage(p), NEW l \in 2..4, NEW w \in BOOLEAN,
         Stage(s, K, r, p, l, w), ~Edge(s, s.at, Idx[p][l]), s.pt # {},
         NEW z, Changed(s, z, s.at, Idx[p][l]), z.pt = s.pt \ {Min(s.pt)}, z.user = s.user,
         z.mem[s.at][Idx[p][l]] = Entry(Min(s.pt), w), z.at = Min(s.pt)
  PROVE  \E L : Stage(z, L, r, p, l - 1, w) /\ Built(s, K, z, L, r, p, w) /\ Has3(z, r, p)
<1> DEFINE t == s.at
           i == Idx[p][l]
           x == Min(s.pt)
           L == [K EXCEPT ![x] = K[t] - 1]
<1>1. /\ p \in AllPages /\ i \in Index /\ t \in PtFrames /\ r \in PtFrames /\ K[t] = l
      /\ (l = 3 => i # 0) /\ s \in Machines /\ K \in [PtFrames -> 0..6] /\ Root(K, r)
      /\ x \in s.pt /\ x \in PtFrames /\ Tree(s, K)
  <2>1. /\ p \in AllPages /\ t \in PtFrames /\ r \in PtFrames /\ K[t] = l
        /\ (l = 3 => i # 0) /\ s \in Machines /\ K \in [PtFrames -> 0..6] /\ Root(K, r)
        /\ Tree(s, K)
    BY DEF Stage, UserPage, Tree, Root
  <2>2. i \in Index
    BY <2>1, IndexIs
  <2>3. x \in s.pt /\ x \in PtFrames
    BY <2>1, PtFinite DEF Machines
  <2> QED
    BY <2>1, <2>2, <2>3
<1>2. Tree(z, L) /\ Grow(s, z)
  <2>1. /\ w => \A u \in PtFrames, j \in Index : Edge(s, u, j) /\ To(s, u, j) = t => s.mem[u][j].w
        /\ Tree(s, K) /\ ~Edge(s, t, i) /\ Changed(s, z, t, i)
        /\ z.mem[t][i] = Entry(x, w) /\ z.pt = s.pt \ {x} /\ z.user = s.user
        /\ K[t] \in 2..4 /\ (K[t] = 3 => i # 0)
    BY <1>1 DEF Stage
  <2> HIDE DEF t, i, x
  <2> QED
    BY ONLY <1>1, <2>1, AddTable
<1> HIDE DEF t, i, x
<1>3. K[x] = 0 /\ x # t /\ x # r /\ \A j \in Index : ~Edge(s, x, j)
  <2>1. K[x] = 0 /\ K[r] = 4
    BY <1>1 DEF Tree, FreeKinds, Root
  <2> QED
    BY <1>1, <2>1, EntryIs DEF Tree, OthersClean, Edge
<1>4. /\ L \in [PtFrames -> 0..6] /\ L[x] = l - 1 /\ \A u \in PtFrames \ {x} : L[u] = K[u]
  BY <1>1
<1> HIDE DEF L
<1>5. Edge(z, t, i) /\ To(z, t, i) = x /\ z.at = x /\ (w => z.mem[t][i].w) /\ ~Edge(s, t, i)
  BY <1>1, EntryIs DEF Edge, To, t, i, x
<1>6. \A u \in PtFrames, j \in Index : u # t \/ j # i =>
        /\ (Edge(z, u, j) <=> Edge(s, u, j)) /\ To(z, u, j) = To(s, u, j)
        /\ z.mem[u][j] = s.mem[u][j]
  BY DEF Changed, Edge, To, t, i
<1>7. \A j \in Index : ~Edge(z, x, j)
  BY <1>1, <1>3, <1>6
<1>8. /\ Idx[p][1] \in Index /\ Idx[p][2] \in Index /\ Idx[p][3] \in Index /\ Idx[p][4] \in Index
  BY <1>1, IndicesIn
<1>9. Root(L, r)
  BY <1>1, <1>3, <1>4 DEF Root
<1>10. /\ OnWay(z, r, p, l - 1) /\ Has3(z, r, p) /\ Need(z, r, p) + 1 = Need(s, r, p)
       /\ (l = 3 => Has3(s, r, p)) /\ (l = 2 => Has3(s, r, p)) /\ (l = 4 => ~Has3(s, r, p))
  <2>1. CASE l = 4
    <3>1. t = r /\ i = Idx[p][4]
      BY <2>1 DEF Stage, OnWay, t, i
    <3>2. ~Has3(s, r, p) /\ Has3(z, r, p) /\ At3(z, r, p) = x
      BY <3>1, <1>5 DEF Has3, At3
    <3>3. ~Has2(z, r, p)
      BY <3>2, <1>7, <1>8 DEF Has2
    <3> QED
      BY <2>1, <3>2, <3>3, <1>5 DEF OnWay, Need, Has2, Has1
  <2>2. CASE l = 3
    <3>1. Has3(s, r, p) /\ t = At3(s, r, p) /\ i = Idx[p][3]
      BY <2>2 DEF Stage, OnWay, t, i
    <3>2. r # t
      BY <1>1, <2>2 DEF Root
    <3>3. Has3(z, r, p) /\ At3(z, r, p) = t
      BY <1>1, <1>6, <1>8, <3>1, <3>2 DEF Has3, At3
    <3>4. ~Has2(s, r, p) /\ Has2(z, r, p) /\ At2(z, r, p) = x
      BY <3>1, <3>3, <1>5 DEF Has2, At2
    <3>5. ~Has1(z, r, p)
      BY <3>4, <1>7, <1>8 DEF Has1
    <3> QED
      BY <2>2, <3>1, <3>3, <3>4, <3>5, <1>5 DEF OnWay, Need, Has1
  <2>3. CASE l = 2
    <3>1. Has2(s, r, p) /\ t = At2(s, r, p) /\ i = Idx[p][2] /\ Has3(s, r, p)
      BY <2>3 DEF Stage, OnWay, t, i, Has2
    <3>2. At3(s, r, p) \in PtFrames /\ K[At3(s, r, p)] = 3
      BY <1>1, <3>1, WayKinds
    <3>3. r # t /\ At3(s, r, p) # t
      BY <1>1, <2>3, <3>2 DEF Root
    <3>4. Has3(z, r, p) /\ At3(z, r, p) = At3(s, r, p)
      BY <1>1, <1>6, <1>8, <3>1, <3>3 DEF Has3, At3
    <3>5. Has2(z, r, p) /\ At2(z, r, p) = t
      BY <1>6, <1>8, <3>1, <3>2, <3>3, <3>4 DEF Has2, At2
    <3>6. ~Has1(s, r, p) /\ Has1(z, r, p) /\ At1(z, r, p) = x
      BY <3>1, <3>5, <1>5 DEF Has1, At1
    <3> QED
      BY <2>3, <3>1, <3>4, <3>5, <3>6, <1>5 DEF OnWay, Need
  <2> QED
    BY <2>1, <2>2, <2>3
<1>11. w => \A u \in PtFrames, j \in Index : Edge(z, u, j) /\ To(z, u, j) = z.at => z.mem[u][j].w
  BY <1>1, <1>2, <1>5 DEF Tree, EdgesApart
<1>12. Stage(z, L, r, p, l - 1, w)
  BY <1>1, <1>2, <1>4, <1>5, <1>9, <1>10, <1>11 DEF Stage
<1>13. SamePages(s, z)
  <2> SUFFICES ASSUME NEW u \in PtFrames, NEW j \in Index, Edge(z, u, j), To(z, u, j) \in UserFrames
               PROVE  Edge(s, u, j) /\ z.mem[u][j] = s.mem[u][j]
    BY DEF SamePages
  <2>1. u # t \/ j # i
    BY <1>1, <1>5, FramesAssumption
  <2> QED
    BY <2>1, <1>6
<1>14. w /\ AllWritable(s, K) => AllWritable(z, L)
  <2> SUFFICES ASSUME w, AllWritable(s, K), NEW u \in PtFrames, NEW j \in Index, Edge(z, u, j), L[u] \in 2..4
               PROVE  z.mem[u][j].w
    BY DEF AllWritable
  <2>1. CASE u = t /\ j = i
    BY <2>1, <1>5
  <2>2. CASE u # t \/ j # i
    BY <2>2, <1>4, <1>6, <1>7 DEF AllWritable
  <2> QED
    BY <2>1, <2>2
<1>15. Cardinality(z.pt) = Cardinality(s.pt) + Need(z, r, p) - Need(s, r, p)
  <2>1. Cardinality(s.pt) \in Nat /\ Need(s, r, p) \in Nat /\ Need(z, r, p) \in Nat
    BY <1>1, PtFinite DEF Need
  <2>2. Cardinality(z.pt) = Cardinality(s.pt) - 1
    BY <1>1, PtFinite DEF x
  <2> QED
    BY <1>10, <2>1, <2>2
<1>16. \A u \in PtFrames : /\ K[u] # 0 => L[u] = K[u]
                           /\ L[u] \in {5, 6} => K[u] = L[u]
                           /\ L[u] = 3 /\ K[u] # 3 => ~Has3(s, r, p) /\ u = Min(s.pt)
  BY <1>1, <1>3, <1>4, <1>10 DEF x
<1>17. Built(s, K, z, L, r, p, w)
  BY <1>2, <1>13, <1>14, <1>15, <1>16, <1>1 DEF Built
<1> QED
  BY <1>10, <1>12, <1>17

(* Enough tables for the whole way are enough for its next level. *)
LEMMA TablesLeft ==
  ASSUME NEW s, NEW K, NEW r, NEW p, NEW l \in 2..4, NEW w,
         Stage(s, K, r, p, l, w), ~Edge(s, s.at, Idx[p][l]), Need(s, r, p) <= Cardinality(s.pt)
  PROVE  s.pt # {}
<1>1. Need(s, r, p) # 0
  <2>1. CASE l = 4
    BY <2>1 DEF Stage, OnWay, Need, Has1, Has2, Has3
  <2>2. CASE l = 3
    BY <2>2 DEF Stage, OnWay, Need, Has1, Has2
  <2>3. CASE l = 2
    BY <2>3 DEF Stage, OnWay, Need, Has1
  <2> QED
    BY <2>1, <2>2, <2>3
<1>2. Need(s, r, p) \in Nat /\ s \in Machines
  BY DEF Need, Stage, Tree
<1> QED
  BY <1>1, <1>2, PtFinite

(* A level of the walk of handle_page_fault keeps the tree and leads a     *)
(* level down.                                                             *)
LEMMA FaultLevelIs ==
  ASSUME NEW s, NEW K, NEW r, NEW p, UserPage(p), NEW l \in 2..4, NEW w \in BOOLEAN,
         Stage(s, K, r, p, l, w), Need(s, r, p) <= Cardinality(s.pt)
  PROVE  \E L : /\ Stage(FaultLevel(s, p, l, w), L, r, p, l - 1, w)
                /\ Built(s, K, FaultLevel(s, p, l, w), L, r, p, w)
                /\ Has3(FaultLevel(s, p, l, w), r, p)
<1>1. /\ p \in AllPages /\ s \in Machines /\ s.at \in PtFrames /\ l \in 1..4 /\ Tree(s, K)
      /\ K[s.at] = l /\ (l = 3 => Idx[p][l] # 0) /\ Idx[p][l] \in Index
  BY IndexIs DEF Stage, UserPage, Tree
<1>2. CASE Edge(s, s.at, Idx[p][l])
  <2>1. To(s, s.at, Idx[p][l]) \in PtFrames
    BY <1>1, <1>2 DEF Tree, LeadDown, Leads
  <2> DEFINE z == FaultLevel(s, p, l, w)
             t == s.at
             i == Idx[p][l]
  <2>2. /\ Changed(s, z, t, i) /\ z.pt = s.pt /\ z.user = s.user
        /\ z.mem[t][i] = Raised(s.mem[t][i], w)
        /\ z.at = To(s, t, i)
    BY ONLY <1>1, <1>2, <2>1, LevelPresent, w \in BOOLEAN
  <2> HIDE DEF z
  <2>3. Stage(z, K, r, p, l - 1, w) /\ Built(s, K, z, K, r, p, w) /\ Has3(z, r, p)
    BY ONLY <1>2, <2>2, StepPresent, UserPage(p), l \in 2..4, w \in BOOLEAN, Stage(s, K, r, p, l, w)
  <2> QED
    BY <2>3 DEF z
<1>3. CASE ~Edge(s, s.at, Idx[p][l])
  <2>1. s.pt # {}
    BY <1>3, TablesLeft
  <2> DEFINE z == FaultLevel(s, p, l, w)
  <2>2. /\ Changed(s, z, s.at, Idx[p][l]) /\ z.pt = s.pt \ {Min(s.pt)} /\ z.user = s.user
        /\ z.mem[s.at][Idx[p][l]] = Entry(Min(s.pt), w)
        /\ z.at = Min(s.pt)
    BY <1>1, <1>3, <2>1, LevelAbsent
  <2> HIDE DEF z
  <2>3. \E L : Stage(z, L, r, p, l - 1, w) /\ Built(s, K, z, L, r, p, w) /\ Has3(z, r, p)
    BY ONLY <1>3, <2>1, <2>2, StepAbsent, UserPage(p), l \in 2..4, w \in BOOLEAN, Stage(s, K, r, p, l, w)
  <2> QED
    BY <2>3 DEF z
<1> QED
  BY <1>2, <1>3
-----------------------------------------------------------------------------
(* install_ptable walks as handle_page_fault does when every table lets    *)
(* writes through and free ones are empty.                                 *)
LEMMA PutSame ==
  ASSUME NEW s \in Machines, NEW t \in PtFrames, NEW i \in Index
  PROVE  Put(s, t, i, s.mem[t][i]) = s
<1>1. [s.mem EXCEPT ![t][i] = s.mem[t][i]] = s.mem
  BY DEF Machines
<1>2. Put(s, t, i, s.mem[t][i]) = [s EXCEPT !.mem = [s.mem EXCEPT ![t][i] = s.mem[t][i]]]
  BY DEF Put
<1> QED
  BY <1>1, <1>2 DEF Machines

(* Clearing an empty table changes nothing. *)
LEMMA BzeroSame ==
  ASSUME NEW s \in Machines, NEW t \in PtFrames, \A i \in Index : s.mem[t][i] = NoEntry
  PROVE  Bzero(s, t) = s
<1>1. [s.mem EXCEPT ![t] = [i \in Index |-> NoEntry]] = s.mem
  <2>1. s.mem[t] = [i \in Index |-> NoEntry]
    BY DEF Machines
  <2> QED
    BY <2>1 DEF Machines
<1>2. Bzero(s, t) = [s EXCEPT !.mem = [s.mem EXCEPT ![t] = [i \in Index |-> NoEntry]]]
  BY DEF Bzero
<1> QED
  BY <1>1, <1>2 DEF Machines

(* A level of install_ptable, the walk of a new context, is one of         *)
(* handle_page_fault that asks for writing: all tables of a new context let*)
(* writes through.                                                         *)
LEMMA DirLevelIs ==
  ASSUME NEW s, NEW K, NEW r, NEW p, UserPage(p), NEW l \in 2..4,
         Stage(s, K, r, p, l, TRUE), AllWritable(s, K), Need(s, r, p) <= Cardinality(s.pt)
  PROVE  DirLevel(s, p, l) = FaultLevel(s, p, l, TRUE)
<1> DEFINE t == s.at
           i == Idx[p][l]
           e == s.mem[t][i]
<1>1. /\ p \in AllPages /\ i \in Index /\ t \in PtFrames /\ K[t] = l /\ (l = 3 => i # 0)
      /\ s \in Machines /\ K \in [PtFrames -> 0..6] /\ Tree(s, K)
  BY IndexIs DEF Stage, UserPage, Tree
<1>2. CASE e.p
  <2>1. e \in Entries /\ e.w /\ e.u /\ e.w \in BOOLEAN
    <3>1. Edge(s, t, i)
      BY <1>2 DEF Edge
    <3>2. e.u
      BY <1>1, <3>1 DEF Tree, LeadDown, Leads
    <3>3. e.w
      BY <1>1, <3>1 DEF AllWritable
    <3>4. e \in Entries
      BY <1>1 DEF Machines
    <3> QED
      BY <3>2, <3>3, <3>4 DEF Entries
  <2>2. [e EXCEPT !.w = @ \/ TRUE, !.u = TRUE] = e
    <3> HIDE DEF e
    <3>1. e.w = TRUE /\ e.u = TRUE
      BY <2>1 DEF Entries
    <3> QED
      BY <2>1, <3>1 DEF Entries
  <2>3. Put(s, t, i, [e EXCEPT !.w = @ \/ TRUE, !.u = TRUE]) = s
    BY <1>1, <2>2, PutSame
  <2>4. FaultLevel(s, p, l, TRUE) = [Put(s, t, i, [e EXCEPT !.w = @ \/ TRUE, !.u = TRUE]) EXCEPT !.at = e.f]
    BY <1>2 DEF FaultLevel, Below
  <2>5. DirLevel(s, p, l) = [s EXCEPT !.at = e.f]
    BY <1>2 DEF DirLevel, Below
  <2> QED
    BY <2>3, <2>4, <2>5
<1>3. CASE ~e.p
  <2> DEFINE x == Min(s.pt)
  <2>1. x \in s.pt /\ x \in PtFrames
    <3>1. s.pt # {}
      BY <1>3, TablesLeft DEF Edge
    <3> QED
      BY <1>1, <3>1, PtFinite DEF Machines
  <2>2. \A j \in Index : s.mem[x][j] = NoEntry
    BY <1>1, <2>1 DEF Tree, FreeKinds, OthersClean
  <2>3. TakePt(s) \in Machines /\ TakePt(s).mem = s.mem
    BY <1>1 DEF TakePt, Machines
  <2> HIDE DEF x
  <2>4. Bzero(TakePt(s), x) = TakePt(s)
    BY <2>1, <2>2, <2>3, BzeroSame
  <2>5. FaultLevel(s, p, l, TRUE) = [Put(TakePt(s), t, i, Entry(x, TRUE)) EXCEPT !.at = x]
    BY <1>3 DEF FaultLevel, Below, x
  <2>6. DirLevel(s, p, l) = [Put(Bzero(TakePt(s), x), t, i, Entry(x, TRUE)) EXCEPT !.at = x]
    BY <1>3 DEF DirLevel, Below, x
  <2> QED
    BY <2>4, <2>5, <2>6
<1> QED
  BY <1>2, <1>3

(* What a walk finds depends on the tables only. *)
LEMMA SameTables ==
  ASSUME NEW s, NEW z, z.mem = s.mem
  PROVE  /\ \A r, p : /\ Has3(z, r, p) <=> Has3(s, r, p)
                      /\ Has2(z, r, p) <=> Has2(s, r, p)
                      /\ Has1(z, r, p) <=> Has1(s, r, p)
                      /\ Has0(z, r, p) <=> Has0(s, r, p)
                      /\ At3(z, r, p) = At3(s, r, p) /\ At2(z, r, p) = At2(s, r, p)
                      /\ At1(z, r, p) = At1(s, r, p) /\ At0(z, r, p) = At0(s, r, p)
         /\ \A K : z \in Machines /\ z.pt = s.pt /\ z.user = s.user /\ Tree(s, K) => Tree(z, K)
         /\ \A r, p, K, y, L, w : z.pt = s.pt /\ z.user = s.user /\ Built(z, K, y, L, r, p, w)
               => Built(s, K, y, L, r, p, w)
         /\ \A r, p : Need(z, r, p) = Need(s, r, p)
         /\ \A K : AllWritable(z, K) <=> AllWritable(s, K)
         /\ Grow(s, z)
<1>1. \A t, i : (Edge(z, t, i) <=> Edge(s, t, i)) /\ To(z, t, i) = To(s, t, i)
  BY DEF Edge, To
<1>2. \A r, p : /\ At3(z, r, p) = At3(s, r, p) /\ At2(z, r, p) = At2(s, r, p)
                /\ At1(z, r, p) = At1(s, r, p) /\ At0(z, r, p) = At0(s, r, p)
  BY <1>1 DEF At3, At2, At1, At0
<1>3. \A r, p : /\ Has3(z, r, p) <=> Has3(s, r, p)
                /\ Has2(z, r, p) <=> Has2(s, r, p)
                /\ Has1(z, r, p) <=> Has1(s, r, p)
                /\ Has0(z, r, p) <=> Has0(s, r, p)
  BY <1>1, <1>2 DEF Has3, Has2, Has1, Has0
<1>4. ASSUME NEW K, z \in Machines, z.pt = s.pt, z.user = s.user, Tree(s, K)
      PROVE  Tree(z, K)
  <2>1. FreeKinds(z, K) /\ OthersClean(z, K)
    BY <1>4 DEF Tree, FreeKinds, OthersClean
  <2>2. LeadDown(z, K)
    <3> SUFFICES ASSUME NEW t \in PtFrames, NEW i \in Index, Edge(z, t, i) PROVE Leads(z, K, t, i)
      BY DEF LeadDown
    <3>1. Leads(s, K, t, i)
      BY <1>1, <1>4 DEF Tree, LeadDown
    <3> QED
      BY <1>1, <1>4, <3>1 DEF Leads
  <2>3. EdgesApart(z) /\ TablesReached(z, K) /\ PagesReached(z)
    BY <1>1, <1>4 DEF Tree, EdgesApart, TablesReached, PagesReached
  <2>4. WriteDown(z)
    BY <1>1, <1>4 DEF Tree, WriteDown
  <2> QED
    BY <1>4, <2>1, <2>2, <2>3, <2>4 DEF Tree
<1>5. \A r, p : Need(z, r, p) = Need(s, r, p)
  BY <1>3 DEF Need
<1>6. \A K : AllWritable(z, K) <=> AllWritable(s, K)
  BY <1>1 DEF AllWritable
<1>7. ASSUME NEW r, NEW p, NEW K, NEW y, NEW L, NEW w, z.pt = s.pt, z.user = s.user,
             Built(z, K, y, L, r, p, w)
      PROVE  Built(s, K, y, L, r, p, w)
  <2>1. Grow(s, y) /\ SamePages(s, y)
    BY <1>1, <1>7 DEF Built, Grow, SamePages
  <2> QED
    BY <2>1, <1>3, <1>5, <1>6, <1>7 DEF Built
<1>8. Grow(s, z)
  BY <1>1 DEF Grow
<1> QED
  BY <1>2, <1>3, <1>4, <1>5, <1>6, <1>7, <1>8

(* The walk down to level 1. *)
LEMMA WayIs ==
  ASSUME NEW s, NEW K, NEW r, NEW p, UserPage(p), NEW w \in BOOLEAN,
         Tree(s, K), Root(K, r), Need(s, r, p) <= Cardinality(s.pt), NEW d,
         d = FaultLevel(FaultLevel(FaultLevel([s EXCEPT !.at = r], p, 4, w), p, 3, w), p, 2, w)
  PROVE  /\ \E L : Stage(d, L, r, p, 1, w) /\ Built(s, K, d, L, r, p, w)
         /\ w /\ AllWritable(s, K) =>
              d = DirLevel(DirLevel(DirLevel([s EXCEPT !.at = r], p, 4), p, 3), p, 2)
<1> DEFINE a == [s EXCEPT !.at = r]
           b == FaultLevel(a, p, 4, w)
           c == FaultLevel(b, p, 3, w)
<1>1. a \in Machines /\ a.mem = s.mem /\ a.pt = s.pt /\ a.user = s.user /\ a.at = r
      /\ s \in Machines /\ r \in PtFrames /\ K[r] = 4 /\ K \in [PtFrames -> 0..6]
  BY DEF Machines, Tree, Root
<1>2. d = FaultLevel(c, p, 2, w)
  OBVIOUS
<1> HIDE DEF a
<1>3. Stage(a, K, r, p, 4, w)
  <2>1. Tree(a, K)
    BY <1>1, SameTables
  <2>2. \A u \in PtFrames, j \in Index : Edge(a, u, j) => To(a, u, j) # a.at
    BY <1>1, <2>1, FramesAssumption DEF Tree, LeadDown, Leads
  <2> QED
    BY <1>1, <2>1, <2>2 DEF Stage, OnWay
<1>4. Need(a, r, p) <= Cardinality(a.pt)
  BY <1>1, SameTables
<1>5. PICK L3 : Stage(b, L3, r, p, 3, w) /\ Built(a, K, b, L3, r, p, w) /\ Has3(b, r, p)
  <2>1. 4 \in 2..4 /\ 4 - 1 = 3
    OBVIOUS
  <2> QED
    BY <1>3, <1>4, <2>1, FaultLevelIs
<1> HIDE DEF b
<1>6. b \in Machines /\ Need(b, r, p) <= Cardinality(b.pt)
  <2>1. /\ Cardinality(b.pt) = Cardinality(a.pt) + Need(b, r, p) - Need(a, r, p)
        /\ b \in Machines
    BY <1>5 DEF Built, Stage, Tree
  <2>2. Cardinality(a.pt) \in Nat /\ Need(a, r, p) \in Nat /\ Need(b, r, p) \in Nat
    BY <1>1, PtFinite DEF Need
  <2> QED
    BY <1>4, <2>1, <2>2
<1>7. PICK L2 : Stage(c, L2, r, p, 2, w) /\ Built(b, L3, c, L2, r, p, w) /\ Has3(c, r, p)
  <2>1. 3 \in 2..4 /\ 3 - 1 = 2
    OBVIOUS
  <2> QED
    BY <1>5, <1>6, <2>1, FaultLevelIs
<1> HIDE DEF c
<1>8. c \in Machines /\ Need(c, r, p) <= Cardinality(c.pt)
  <2>1. /\ Cardinality(c.pt) = Cardinality(b.pt) + Need(c, r, p) - Need(b, r, p)
        /\ c \in Machines
    BY <1>7 DEF Built, Stage, Tree
  <2>2. Cardinality(b.pt) \in Nat /\ Need(b, r, p) \in Nat /\ Need(c, r, p) \in Nat
    BY <1>6, PtFinite DEF Need
  <2> QED
    BY <1>6, <2>1, <2>2
<1>9. PICK L1 : Stage(d, L1, r, p, 1, w) /\ Built(c, L2, d, L1, r, p, w)
  <2>1. 2 \in 2..4 /\ 2 - 1 = 1
    OBVIOUS
  <2> QED
    BY <1>2, <1>7, <1>8, <2>1, FaultLevelIs
<1>10. d \in Machines
  BY <1>9 DEF Stage, Tree
<1>11. Built(a, K, c, L2, r, p, w)
  BY ONLY <1>1, <1>5, <1>6, <1>7, <1>8, BuiltTrans, w \in BOOLEAN
<1>12. Built(a, K, d, L1, r, p, w)
  BY ONLY <1>1, <1>7, <1>8, <1>9, <1>10, <1>11, BuiltTrans, w \in BOOLEAN
<1>13. Built(s, K, d, L1, r, p, w)
  BY <1>1, <1>12, SameTables
<1>14. w /\ AllWritable(s, K) =>
            d = DirLevel(DirLevel(DirLevel([s EXCEPT !.at = r], p, 4), p, 3), p, 2)
  <2> SUFFICES ASSUME w = TRUE, AllWritable(s, K)
               PROVE  d = DirLevel(DirLevel(DirLevel([s EXCEPT !.at = r], p, 4), p, 3), p, 2)
    OBVIOUS
  <2>1. AllWritable(a, K) /\ AllWritable(b, L3) /\ AllWritable(c, L2)
    BY <1>1, <1>5, <1>7, SameTables DEF Built
  <2>2. 4 \in 2..4 /\ 3 \in 2..4 /\ 2 \in 2..4
    OBVIOUS
  <2>3. Stage(a, K, r, p, 4, TRUE) /\ Stage(b, L3, r, p, 3, TRUE) /\ Stage(c, L2, r, p, 2, TRUE)
    BY <1>3, <1>5, <1>7
  <2>4. /\ DirLevel(a, p, 4) = FaultLevel(a, p, 4, TRUE)
        /\ DirLevel(b, p, 3) = FaultLevel(b, p, 3, TRUE)
        /\ DirLevel(c, p, 2) = FaultLevel(c, p, 2, TRUE)
    BY ONLY <1>4, <1>6, <1>8, <2>1, <2>2, <2>3, DirLevelIs, UserPage(p)
  <2>5. b = FaultLevel(a, p, 4, TRUE) /\ c = FaultLevel(b, p, 3, TRUE)
    BY DEF b, c
  <2>6. d = DirLevel(DirLevel(DirLevel(a, p, 4), p, 3), p, 2)
    BY <1>2, <2>4, <2>5
  <2> QED
    BY <2>6 DEF a
<1> QED
  BY <1>9, <1>13, <1>14

-----------------------------------------------------------------------------
(* The entry of a page. *)
Leaf(s, r, p) == s.mem[At1(s, r, p)][Idx[p][1]]

(* z is s with page p in the lowest free frame. *)
Installed(s, K, z, L, r, p, w) ==
    /\ Tree(z, L) /\ Root(L, r) /\ Grow(s, z)
    /\ \A t \in PtFrames : K[t] # 0 => L[t] = K[t]
    /\ \A t \in PtFrames : L[t] \in {5, 6} => K[t] = L[t]
    /\ \A t \in PtFrames : L[t] = 3 /\ K[t] # 3 => ~Has3(s, r, p) /\ t = Min(s.pt)
    /\ z.user = s.user \ {Min(s.user)} /\ z.pt \subseteq s.pt
    /\ Cardinality(z.pt) = Cardinality(s.pt) - Need(s, r, p)
    /\ Has0(z, r, p) /\ Leaf(z, r, p) = Entry(Min(s.user), w)
    /\ \A q \in AllPages : q # p =>
          /\ Has0(z, r, q) <=> Has0(s, r, q)
          /\ Has0(s, r, q) => Leaf(z, r, q) = Leaf(s, r, q)

(* The entry written at the end of a walk adds the page to the tree. *)
LEMMA PageAdded ==
  ASSUME NEW s, NEW K, NEW r, NEW p, UserPage(p), NEW w \in BOOLEAN,
         Tree(s, K), Root(K, r), ~Has0(s, r, p), s.user # {},
         NEW d, NEW L, Stage(d, L, r, p, 1, w), Built(s, K, d, L, r, p, w),
         NEW z, z \in Machines, z.pt = d.pt, z.user = d.user \ {Min(d.user)},
         z.mem = Put(TakeUser(d), d.at, Idx[p][1], Entry(Min(d.user), w)).mem
  PROVE  /\ Installed(s, K, z, L, r, p, w)
         /\ AllWritable(d, L) => AllWritable(z, L)
<1> DEFINE t == d.at
           i == Idx[p][1]
           x == Min(d.user)
<1>1. /\ p \in AllPages /\ i \in Index /\ t \in PtFrames /\ r \in PtFrames /\ L[t] = 1 /\ Root(L, r)
      /\ d \in Machines /\ s \in Machines /\ Tree(d, L) /\ Has1(d, r, p) /\ t = At1(d, r, p)
      /\ Grow(s, d) /\ SamePages(s, d) /\ d.user = s.user
  BY IndexIs DEF UserPage, Stage, OnWay, Root, Tree, Built
<1>2. x \in d.user /\ x \in UserFrames
  BY <1>1, PtFinite DEF Machines
<1> HIDE DEF t, i, x
<1>3. ~Edge(d, t, i)
  <2> SUFFICES ASSUME Edge(d, t, i) PROVE FALSE
    OBVIOUS
  <2>1. Has0(d, r, p)
    BY <1>1 DEF Has0, i
  <2>2. To(d, t, i) \in UserFrames
    BY <1>1 DEF Tree, LeadDown, Leads
  <2>3. Edge(s, At1(d, r, p), Idx[p][1])
    BY <1>1, <2>2 DEF SamePages, i
  <2> QED
    BY <1>1, <2>1, <2>3, GrowBack
<1>4. /\ Changed(d, z, t, i) /\ z.mem[t][i] = Entry(x, w)
  <2>1. TakeUser(d) \in Machines /\ TakeUser(d).mem = d.mem
    BY <1>1 DEF TakeUser, Machines
  <2>2. Entry(x, w) \in Entries
    BY <1>2, EntryIs
  <2> DEFINE u == TakeUser(d)
             y == Put(u, t, i, Entry(x, w))
  <2>3. z.mem = y.mem
    BY DEF t, i, x
  <2> HIDE DEF u
  <2>4. /\ y.mem[t][i] = Entry(x, w)
        /\ \A f \in PtFrames, j \in Index : f # t \/ j # i => y.mem[f][j] = u.mem[f][j]
    <3>1. u \in Machines
      BY <2>1 DEF u
    <3> QED
      BY ONLY <1>1, <2>2, <3>1, PutIs DEF y
  <2> HIDE DEF y
  <2> QED
    BY <2>1, <2>3, <2>4 DEF Changed, u
<1>5. Tree(z, L) /\ Grow(d, z)
  <2>1. w => \A u \in PtFrames, j \in Index : Edge(d, u, j) /\ To(d, u, j) = t => d.mem[u][j].w
    BY DEF Stage, t
  <2>2. z.pt = d.pt /\ z.user = d.user \ {x}
    BY DEF x
  <2> QED
    BY ONLY <1>1, <1>2, <1>3, <1>4, <2>1, <2>2, AddPage, w \in BOOLEAN
<1>6. Grow(s, z)
  BY <1>1, <1>5 DEF Grow
<1>7. Edge(z, t, i) /\ To(z, t, i) = x
  BY <1>2, <1>4, EntryIs DEF Edge, To
<1>8. Has0(z, r, p) /\ Leaf(z, r, p) = Entry(x, w) /\ At1(z, r, p) = t
  <2>1. Has1(z, r, p) /\ At1(z, r, p) = t
    BY <1>1, <1>5, GrowWay
  <2> QED
    BY <1>4, <1>7, <2>1 DEF Has0, Leaf, i
<1>9. ASSUME NEW q \in AllPages, q # p, Has0(z, r, q)
      PROVE  /\ At1(z, r, q) # t \/ Idx[q][1] # i
             /\ Edge(s, At1(z, r, q), Idx[q][1]) /\ Leaf(z, r, q) = s.mem[At1(z, r, q)][Idx[q][1]]
             /\ Has0(s, r, q)
  <2>1. Has1(z, r, q) /\ Has1(z, r, p)
    BY <1>8, <1>9 DEF Has0
  <2>2. At1(z, r, q) # t \/ Idx[q][1] # i
    BY <1>1, <1>5, <1>8, <1>9, <2>1, OnePage DEF i
  <2>3. At1(z, r, q) \in PtFrames /\ Idx[q][1] \in Index /\ At0(z, r, q) \in UserFrames
    BY <1>1, <1>5, <1>9, <2>1, WayKinds, IndicesIn
  <2>4. Edge(z, At1(z, r, q), Idx[q][1]) /\ To(z, At1(z, r, q), Idx[q][1]) \in UserFrames
    BY <1>9, <2>3 DEF Has0, At0
  <2>5. z.mem[At1(z, r, q)][Idx[q][1]] = d.mem[At1(z, r, q)][Idx[q][1]]
    BY <1>4, <2>2, <2>3 DEF Changed
  <2>6. /\ Edge(s, At1(z, r, q), Idx[q][1])
        /\ z.mem[At1(z, r, q)][Idx[q][1]] = s.mem[At1(z, r, q)][Idx[q][1]]
    BY ONLY <1>1, <2>3, <2>4, <2>5 DEF SamePages, Edge, To
  <2>7. Has0(s, r, q)
    BY <1>1, <1>5, <1>6, <1>9, <2>6, GrowBack
  <2> QED
    BY <2>2, <2>6, <2>7 DEF Leaf
<1>10. ASSUME NEW q \in AllPages, q # p, Has0(s, r, q)
       PROVE  Has0(z, r, q) /\ Leaf(z, r, q) = Leaf(s, r, q)
  <2>1. Has0(z, r, q) /\ At1(z, r, q) = At1(s, r, q)
    BY <1>6, <1>10, GrowWay
  <2> QED
    BY <1>9, <1>10, <2>1 DEF Leaf
<1>11. Cardinality(z.pt) = Cardinality(s.pt) - Need(s, r, p)
  <2>1. Need(d, r, p) = 0
    BY <1>1 DEF Need
  <2>2. Cardinality(s.pt) \in Nat /\ Need(s, r, p) \in Nat
    BY <1>1, PtFinite DEF Need
  <2>3. Cardinality(d.pt) = Cardinality(s.pt) + 0 - Need(s, r, p)
    BY <2>1 DEF Built
  <2> QED
    BY <2>2, <2>3
<1>12. /\ \A f \in PtFrames : K[f] # 0 => L[f] = K[f]
       /\ \A f \in PtFrames : L[f] \in {5, 6} => K[f] = L[f]
       /\ \A f \in PtFrames : L[f] = 3 /\ K[f] # 3 => ~Has3(s, r, p) /\ f = Min(s.pt)
       /\ z.pt \subseteq s.pt /\ z.user = s.user \ {Min(s.user)}
  BY <1>1 DEF Built
<1>13. AllWritable(d, L) => AllWritable(z, L)
  BY <1>1, <1>4 DEF AllWritable, Changed, Edge
<1>14. Installed(s, K, z, L, r, p, w)
  BY <1>1, <1>5, <1>6, <1>8, <1>9, <1>10, <1>11, <1>12 DEF Installed, x
<1> QED
  BY <1>13, <1>14

(* handle_page_fault gives a page that has none a frame. *)
LEMMA FaultPathIs ==
  ASSUME NEW s, NEW K, NEW r, NEW p, UserPage(p), NEW w \in BOOLEAN,
         Tree(s, K), Root(K, r), ~Has0(s, r, p), s.user # {}, Need(s, r, p) <= Cardinality(s.pt)
  PROVE  /\ \E L : Installed(s, K, FaultPath(s, r, p, w), L, r, p, w)
         /\ FaultPath(s, r, p, w).at = 0
<1> DEFINE d == FaultLevel(FaultLevel(FaultLevel([s EXCEPT !.at = r], p, 4, w), p, 3, w), p, 2, w)
           y == Put(TakeUser(d), d.at, Idx[p][1], Entry(Min(d.user), w))
           z == [y EXCEPT !.at = 0]
<1>1. z = FaultPath(s, r, p, w)
  BY DEF FaultPath
<1>2. PICK L : Stage(d, L, r, p, 1, w) /\ Built(s, K, d, L, r, p, w)
  BY WayIs
<1> HIDE DEF d
<1>3. /\ d \in Machines /\ d.user = s.user /\ d.at \in PtFrames /\ Min(d.user) \in UserFrames
      /\ Idx[p][1] \in Index
  <2>1. d \in Machines /\ d.user = s.user /\ d.at \in PtFrames
    BY <1>2 DEF Stage, Tree, Built
  <2>2. Min(d.user) \in d.user
    BY <2>1, PtFinite
  <2>3. Idx[p][1] \in Index
    BY IndexIs DEF UserPage
  <2> QED
    BY <2>1, <2>2, <2>3 DEF Machines
<1>4. y \in Machines /\ y.pt = d.pt /\ y.user = d.user \ {Min(d.user)}
  <2> DEFINE u == TakeUser(d)
  <2>1. u \in Machines /\ u.pt = d.pt /\ u.user = d.user \ {Min(d.user)}
    BY <1>3 DEF TakeUser, Machines
  <2>2. Entry(Min(d.user), w) \in Entries
    BY <1>3, EntryIs
  <2> HIDE DEF u
  <2>3. /\ Put(u, d.at, Idx[p][1], Entry(Min(d.user), w)) \in Machines
        /\ Put(u, d.at, Idx[p][1], Entry(Min(d.user), w)).pt = u.pt
        /\ Put(u, d.at, Idx[p][1], Entry(Min(d.user), w)).user = u.user
    BY <1>3, <2>1, <2>2, PutIs
  <2> QED
    BY <2>1, <2>3 DEF u
<1>5. y.mem = Put(TakeUser(d), d.at, Idx[p][1], Entry(Min(d.user), w)).mem
  OBVIOUS
<1> HIDE DEF y
<1>6. z \in Machines /\ z.mem = y.mem /\ z.pt = y.pt /\ z.user = y.user /\ z.at = 0
  BY <1>4 DEF Machines
<1> HIDE DEF z
<1>7. /\ z.pt = d.pt /\ z.user = d.user \ {Min(d.user)}
      /\ z.mem = Put(TakeUser(d), d.at, Idx[p][1], Entry(Min(d.user), w)).mem
  BY <1>4, <1>5, <1>6
<1>8. Installed(s, K, z, L, r, p, w)
  BY ONLY <1>2, <1>6, <1>7, PageAdded, UserPage(p), w \in BOOLEAN, Tree(s, K), Root(K, r),
     ~Has0(s, r, p), s.user # {}
<1> QED
  BY <1>1, <1>6, <1>8

-----------------------------------------------------------------------------
(* install_ptable gives a page a frame.                                    *)
LEMMA InstallIs ==
  ASSUME NEW s, NEW K, NEW r, NEW p, UserPage(p), NEW w \in BOOLEAN,
         Tree(s, K), Root(K, r), AllWritable(s, K), ~Has0(s, r, p), s.user # {},
         Need(s, r, p) <= Cardinality(s.pt)
  PROVE  \E L : Installed(s, K, Install(s, r, p, w), L, r, p, w) /\ AllWritable(Install(s, r, p, w), L)
<1> DEFINE d == FaultLevel(FaultLevel(FaultLevel([s EXCEPT !.at = r], p, 4, TRUE), p, 3, TRUE), p, 2, TRUE)
           z == Put(TakeUser(d), d.at, Idx[p][1], Entry(Min(d.user), w))
<1>1. /\ \E L : Stage(d, L, r, p, 1, TRUE) /\ Built(s, K, d, L, r, p, TRUE)
      /\ d = DirLevel(DirLevel(DirLevel([s EXCEPT !.at = r], p, 4), p, 3), p, 2)
  BY WayIs
<1>2. PICK L : Stage(d, L, r, p, 1, TRUE) /\ Built(s, K, d, L, r, p, TRUE)
  BY <1>1
<1>3. z = Install(s, r, p, w)
  BY <1>1 DEF Install
<1> HIDE DEF d
<1>4. /\ d \in Machines /\ d.user = s.user /\ d.at \in PtFrames /\ Min(d.user) \in UserFrames
      /\ Idx[p][1] \in Index
  <2>1. d \in Machines /\ d.user = s.user /\ d.at \in PtFrames
    BY <1>2 DEF Stage, Tree, Built
  <2>2. Min(d.user) \in d.user
    BY <2>1, PtFinite
  <2>3. Idx[p][1] \in Index
    BY IndexIs DEF UserPage
  <2> QED
    BY <2>1, <2>2, <2>3 DEF Machines
<1>5. z \in Machines /\ z.pt = d.pt /\ z.user = d.user \ {Min(d.user)}
  <2> DEFINE u == TakeUser(d)
  <2>1. u \in Machines /\ u.pt = d.pt /\ u.user = d.user \ {Min(d.user)}
    BY <1>4 DEF TakeUser, Machines
  <2>2. Entry(Min(d.user), w) \in Entries
    BY <1>4, EntryIs
  <2> HIDE DEF u
  <2>3. /\ Put(u, d.at, Idx[p][1], Entry(Min(d.user), w)) \in Machines
        /\ Put(u, d.at, Idx[p][1], Entry(Min(d.user), w)).pt = u.pt
        /\ Put(u, d.at, Idx[p][1], Entry(Min(d.user), w)).user = u.user
    BY <1>4, <2>1, <2>2, PutIs
  <2> QED
    BY <2>1, <2>3 DEF u
<1>6. z.mem = Put(TakeUser(d), d.at, Idx[p][1], Entry(Min(d.user), w)).mem
  OBVIOUS
<1> HIDE DEF z
<1>7. Installed(s, K, z, L, r, p, w) /\ AllWritable(z, L)
  <2>1. Stage(d, L, r, p, 1, w) /\ Built(s, K, d, L, r, p, w) /\ AllWritable(d, L)
    BY <1>2 DEF Stage, Built
  <2> QED
    BY ONLY <2>1, <1>5, <1>6, PageAdded, UserPage(p), w \in BOOLEAN, Tree(s, K), Root(K, r),
       ~Has0(s, r, p), s.user # {}
<1> QED
  BY <1>3, <1>7

-----------------------------------------------------------------------------
(* A process begins. *)
Stack0 == Min(PtFrames)
Root0  == Min(PtFrames \ {Stack0})
Third  == Min(PtFrames \ {Stack0, Root0})

(* create_context finds a table for every level of every page it maps. *)
EnoughToStart == /\ Cardinality(PtFrames) >= 2 * CodePages + 8
                 /\ Cardinality(UserFrames) >= CodePages + 2

(* The first three frames of tables are different. *)
LEMMA FirstFrames ==
  ASSUME EnoughToStart
  PROVE  /\ Stack0 \in PtFrames /\ Root0 \in PtFrames /\ Third \in PtFrames
         /\ Stack0 # Root0 /\ Third \notin {Stack0, Root0}
         /\ IsFiniteSet(PtFrames) /\ Cardinality(PtFrames) \in Nat
         /\ Cardinality(PtFrames \ {Stack0, Root0}) = Cardinality(PtFrames) - 2
         /\ IsFiniteSet(UserFrames) /\ Cardinality(UserFrames) \in Nat /\ CodePages \in Nat
<1> DEFINE n == Cardinality(PtFrames)
           A == PtFrames \ {Stack0}
           B == PtFrames \ {Stack0, Root0}
<1>1. /\ PtFrames \subseteq Nat /\ IsFiniteSet(PtFrames) /\ n \in Nat /\ CodePages \in Nat
      /\ IsFiniteSet(UserFrames) /\ Cardinality(UserFrames) \in Nat
  BY FramesAssumption, SegsAssumption, FS_CardinalityType
<1>2. n >= 8
  BY <1>1 DEF EnoughToStart
<1>3. PtFrames # {}
  BY <1>1, <1>2, FS_EmptySet
<1>4. Stack0 \in PtFrames
  BY <1>1, <1>3, MinIs DEF Stack0
<1>5. IsFiniteSet(A) /\ Cardinality(A) = n - 1 /\ A \subseteq Nat
  BY <1>1, <1>4, FS_RemoveElement
<1>6. A # {}
  BY <1>1, <1>2, <1>5, FS_EmptySet
<1>7. Root0 \in A
  BY <1>5, <1>6, MinIs DEF Root0
<1>8. B = A \ {Root0}
  BY DEF A, B
<1>9. IsFiniteSet(B) /\ Cardinality(B) = n - 2 /\ B \subseteq Nat
  <2>1. IsFiniteSet(A \ {Root0}) /\ Cardinality(A \ {Root0}) = Cardinality(A) - 1
    BY <1>5, <1>7, FS_RemoveElement
  <2>2. B \subseteq Nat
    BY <1>1
  <2> HIDE DEF A, B, n
  <2> QED
    BY <1>1, <1>5, <1>8, <2>1, <2>2
<1>10. B # {}
  BY <1>1, <1>2, <1>9, FS_EmptySet
<1>11. Third \in B
  BY <1>9, <1>10, MinIs DEF Third
<1> QED
  BY <1>1, <1>4, <1>7, <1>9, <1>11

(* The tables after m pages of a process were installed. *)
Ready(z, L, m) ==
    /\ Tree(z, L) /\ Root(L, Root0) /\ AllWritable(z, L)
    /\ \A t \in PtFrames : (L[t] = 5 <=> t = Stack0) /\ L[t] # 6 /\ (L[t] = 3 => t = Third)
    /\ Edge(z, Root0, 0) \/ Min(z.pt) = Third
    /\ m = 0 \/ Edge(z, Root0, 0)
    /\ Cardinality(z.pt) >= Cardinality(PtFrames) - 2 - 2 * m - (IF Edge(z, Root0, 0) THEN 1 ELSE 0)
    /\ Cardinality(z.user) = Cardinality(UserFrames) - m

(* install_ptable leaves a new context ready for the next page. *)
LEMMA InstallReady ==
  ASSUME EnoughToStart, NEW m \in 0..CodePages+1, NEW z, NEW L, Ready(z, L, m),
         NEW seg \in Segs, NEW p \in Start[seg]..End[seg], NEW w \in BOOLEAN, ~Has0(z, Root0, p),
         NEW y, y = Install(z, Root0, p, w)
  PROVE  \E M : Installed(z, L, y, M, Root0, p, w) /\ Ready(y, M, m + 1)
<1>1. /\ p \in AllPages /\ UserPage(p) /\ Idx[p][4] = 0 /\ 0 \in Index
      /\ CodePages \in Nat /\ m \in Nat /\ m <= CodePages + 1
      /\ Tree(z, L) /\ Root(L, Root0) /\ AllWritable(z, L) /\ z \in Machines /\ Root0 \in PtFrames
      /\ z.user \subseteq UserFrames
  BY SegPage, IndexIs, SegsAssumption, FirstFrames DEF UserPage, Ready, Tree, Machines
<1>2. Has3(z, Root0, p) <=> Edge(z, Root0, 0)
  BY <1>1 DEF Has3
<1> DEFINE E == IF Edge(z, Root0, 0) THEN 1 ELSE 0
<1>3. /\ E \in {0, 1} /\ Need(z, Root0, p) \in Nat /\ Need(z, Root0, p) + E <= 3
      /\ Cardinality(z.pt) \in Nat /\ Cardinality(PtFrames) \in Nat /\ Cardinality(UserFrames) \in Nat
  <2>1. Cardinality(z.pt) \in Nat
    BY <1>1, PtFinite
  <2>2. Cardinality(PtFrames) \in Nat /\ Cardinality(UserFrames) \in Nat
    BY FirstFrames
  <2>3. Need(z, Root0, p) \in 0..3 /\ (Has3(z, Root0, p) => Need(z, Root0, p) \in 0..2)
    BY DEF Need, Has1, Has2
  <2> QED
    BY <1>2, <2>1, <2>2, <2>3
<1>4. /\ Cardinality(z.pt) >= Cardinality(PtFrames) - 2 - 2 * m - E
      /\ Cardinality(z.user) = Cardinality(UserFrames) - m
  BY DEF Ready
<1> HIDE DEF E
<1>5. Need(z, Root0, p) <= Cardinality(z.pt)
  BY <1>1, <1>3, <1>4 DEF EnoughToStart
<1>6. z.user # {} /\ IsFiniteSet(z.user)
  <2>1. Cardinality(z.user) # 0
    BY <1>1, <1>3, <1>4 DEF EnoughToStart
  <2>2. IsFiniteSet(z.user)
    BY <1>1, FirstFrames, FS_Subset
  <2> QED
    BY <2>1, <2>2, FS_EmptySet
<1>7. PICK M : Installed(z, L, y, M, Root0, p, w) /\ AllWritable(y, M)
  BY <1>1, <1>5, <1>6, InstallIs
<1>8. Edge(y, Root0, 0)
  BY <1>1, <1>7 DEF Installed, Has0, Has1, Has2, Has3
<1>9. Cardinality(y.user) = Cardinality(UserFrames) - (m + 1)
  <2>1. Min(z.user) \in z.user
    BY <1>1, <1>6, PtFinite
  <2>2. Cardinality(z.user \ {Min(z.user)}) = Cardinality(z.user) - 1
    BY <1>6, <2>1, FS_RemoveElement
  <2>3. Cardinality(y.user) = Cardinality(z.user) - 1
    BY <1>7, <2>2 DEF Installed
  <2> QED
    BY <1>1, <1>3, <1>4, <2>3
<1>10. Cardinality(y.pt) >= Cardinality(PtFrames) - 2 - 2 * (m + 1) - 1
  <2>1. Cardinality(y.pt) = Cardinality(z.pt) - Need(z, Root0, p)
    BY <1>7 DEF Installed
  <2> QED
    BY <1>1, <1>3, <1>4, <2>1
<1>11. \A t \in PtFrames : (M[t] = 5 <=> t = Stack0) /\ M[t] # 6 /\ (M[t] = 3 => t = Third)
  <2> TAKE t \in PtFrames
  <2>1. /\ L[t] = 5 <=> t = Stack0
        /\ L[t] # 6 /\ (L[t] = 3 => t = Third) /\ (Edge(z, Root0, 0) \/ Min(z.pt) = Third)
    BY DEF Ready
  <2>2. /\ L[t] # 0 => M[t] = L[t]
        /\ M[t] \in {5, 6} => L[t] = M[t]
        /\ M[t] = 3 /\ L[t] # 3 => ~Has3(z, Root0, p) /\ t = Min(z.pt)
    BY <1>7 DEF Installed
  <2> QED
    BY <1>2, <2>1, <2>2
<1>12. Tree(y, M) /\ Root(M, Root0)
  BY <1>7 DEF Installed
<1>13. Ready(y, M, m + 1)
  BY <1>7, <1>8, <1>9, <1>10, <1>11, <1>12 DEF Ready
<1> QED
  BY <1>7, <1>13

(* The pages of z are S, T of them writable. *)
Holds(z, r, S, T) ==
    \A q \in AllPages : /\ Has0(z, r, q) <=> q \in S
                        /\ q \in S => (Leaf(z, r, q).w <=> q \in T)

(* install_ptable adds its page, and write rights to it, to the pages there*)
(* are.                                                                    *)
LEMMA InstallHolds ==
  ASSUME NEW z, NEW L, NEW y, NEW M, NEW r, NEW p \in AllPages, NEW w \in BOOLEAN,
         Installed(z, L, y, M, r, p, w), NEW S, NEW T, Holds(z, r, S, T), p \notin S,
         NEW U, U \cap {p} = {q \in {p} : w}, U \ {p} = T \ {p}
  PROVE  Holds(y, r, S \cup {p}, U)
<1> SUFFICES ASSUME NEW q \in AllPages
             PROVE  /\ Has0(y, r, q) <=> q \in S \cup {p}
                    /\ q \in S \cup {p} => (Leaf(y, r, q).w <=> q \in U)
  BY DEF Holds
<1>1. CASE q = p
  <2>1. Has0(y, r, p) /\ Leaf(y, r, p).w = w
    BY DEF Installed, Entry
  <2> QED
    BY <1>1, <2>1
<1>2. CASE q # p
  BY <1>2 DEF Installed, Holds
<1> QED
  BY <1>1, <1>2

(* The loop of create_context over the pages of code, from base.           *)
CodeStep(z, r, n) == Install(z, r, Start["CODE"] + n - 1, FALSE)
Steps(k, base, r, h) == h = [n \in 0..k |-> IF n = 0 THEN base ELSE CodeStep(h[n-1], r, n)]

(* The states of a loop that maps the code, page after page. *)
LEMMA StepsExist ==
  ASSUME NEW base, NEW r
  PROVE  \A k \in Nat : \E h : Steps(k, base, r, h)
<1> DEFINE Bad == {k \in Nat : ~\E h : Steps(k, base, r, h)}
<1>1. SUFFICES ASSUME Bad # {} PROVE FALSE
  OBVIOUS
<1> DEFINE m == Min(Bad)
<1>2. m \in Bad /\ \A j \in Bad : m <= j
  BY <1>1, MinIs
<1> HIDE DEF m
<1>3. m # 0
  <2> SUFFICES Steps(0, base, r, [n \in 0..0 |-> base])
    BY <1>2
  <2> QED
    BY DEF Steps
<1>4. m - 1 \in Nat /\ m - 1 \notin Bad /\ m \in Nat
  BY <1>2, <1>3
<1>5. PICK h : Steps(m - 1, base, r, h)
  BY <1>4
<1> DEFINE x == CodeStep(h[m-1], r, m)
           g == [n \in 0..m |-> IF n = m THEN x ELSE h[n]]
<1>6. ASSUME NEW n \in 0..m
      PROVE  g[n] = IF n = 0 THEN base ELSE CodeStep(g[n-1], r, n)
  <2>0. (\A j \in 0..m : g[j] = IF j = m THEN x ELSE h[j]) /\ m - 1 \in 0..m /\ m - 1 # m
    BY <1>4
  <2>1. CASE n = m
    <3> HIDE DEF g
    <3>1. g[n] = x /\ g[n-1] = h[m-1]
      BY <2>0, <2>1, <1>4
    <3> QED
      BY <2>1, <3>1, <1>3
  <2>2. CASE n # m
    <3>1. n \in 0..m-1 /\ g[n] = h[n]
      BY <2>2, <1>4
    <3>2. h[n] = IF n = 0 THEN base ELSE CodeStep(h[n-1], r, n)
      BY <1>5, <3>1 DEF Steps
    <3> HIDE DEF g
    <3>3. n # 0 => g[n-1] = h[n-1]
      <4>1. n # 0 => n - 1 \in 0..m /\ n - 1 # m
        BY <3>1, <1>4
      <4> QED
        BY <4>1, <2>0
    <3> QED
      BY <3>1, <3>2, <3>3
  <2> QED
    BY <2>1, <2>2
<1>7. DOMAIN g = 0..m /\ g = [n \in 0..m |-> g[n]]
  OBVIOUS
<1> HIDE DEF g
<1>8. Steps(m, base, r, g)
  BY <1>6, <1>7 DEF Steps
<1> QED
  BY <1>2, <1>8

(* The last state of the loop is what the fold over the pages computes. *)
LEMMA StepsAt ==
  \A k \in Nat : \A base, r, h : Steps(k, base, r, h) =>
      /\ h[0] = base
      /\ \A n \in 1..k : h[n] = CodeStep(h[n-1], r, n)
<1> SUFFICES ASSUME NEW k \in Nat, NEW base, NEW r, NEW h, Steps(k, base, r, h)
             PROVE  /\ h[0] = base
                    /\ \A n \in 1..k : h[n] = CodeStep(h[n-1], r, n)
  OBVIOUS
<1>1. \A n \in 0..k : h[n] = IF n = 0 THEN base
                           ELSE CodeStep(h[n-1], r, n)
  BY DEF Steps
<1>2. 0 \in 0..k /\ \A n \in 1..k : n \in 0..k /\ n # 0
  OBVIOUS
<1> QED
  BY <1>1, <1>2

CodeSet(n) == Start["CODE"]..Start["CODE"]+n-1

(* The loop of create_context maps the pages of the code, read only. *)
LEMMA Loads ==
  ASSUME EnoughToStart, NEW base, NEW c, NEW L, Ready(c, L, 0), Holds(c, Root0, {}, {}),
         \A seg \in Segs : \A p \in Start[seg]..End[seg], w \in BOOLEAN :
            Install(base, Root0, p, w) = Install(c, Root0, p, w),
         NEW h, Steps(CodePages, base, Root0, h), NEW seg \in Segs, NEW p \in Start[seg]..End[seg],
         NEW w \in BOOLEAN
  PROVE  \E z, M : /\ Ready(z, M, CodePages) /\ Holds(z, Root0, CodeSet(CodePages), {})
                   /\ Install(h[CodePages], Root0, p, w) = Install(z, Root0, p, w)
<1> DEFINE g(n) == IF n = 0 THEN c ELSE h[n]
           Good(n) == \E M : Ready(g(n), M, n) /\ Holds(g(n), Root0, CodeSet(n), {})
           Bad == {n \in 0..CodePages : ~Good(n)}
<1>1. CodePages \in Nat /\ Start["CODE"] \in Nat /\ "CODE" \in Segs
      /\ Start["CODE"] + CodePages - 1 <= End["CODE"] /\ End["CODE"] \in Nat
  BY SegsAssumption, FanIs DEF Segs
<1>0. /\ h[0] = base
      /\ \A n \in 1..CodePages : h[n] = CodeStep(h[n-1], Root0, n)
  <2> HIDE DEF g, Good, Bad
  <2> QED
    BY ONLY <1>1, Steps(CodePages, base, Root0, h), StepsAt
<1>2. Good(0)
  <2>1. CodeSet(0) = {}
    BY <1>1 DEF CodeSet
  <2> QED
    BY <2>1
<1>3. ASSUME NEW n \in 1..CodePages, Good(n-1) PROVE Good(n)
  <2> DEFINE q == Start["CODE"] + n - 1
             x == g(n-1)
  <2>1. h[n] = Install(h[n-1], Root0, q, FALSE)
    BY <1>0 DEF CodeStep
  <2>2. q \in Start["CODE"]..End["CODE"] /\ q \in AllPages
    <3>1. q \in Start["CODE"]..End["CODE"]
      BY <1>1
    <3> QED
      BY <3>1, <1>1, SegPage
  <2>0. PICK v \in BOOLEAN : v = FALSE
    OBVIOUS
  <2>3. h[n] = Install(x, Root0, q, v)
    <3> HIDE DEF q
    <3>1. CASE n - 1 = 0
      <4>1. Install(base, Root0, q, v) = Install(c, Root0, q, v)
        BY <1>1, <2>2
      <4>2. h[n-1] = base
        BY <1>0, <1>1, <3>1
      <4> QED
        BY <3>1, <4>1, <4>2, <2>0, <2>1
    <3>2. CASE n - 1 # 0
      BY <3>2, <2>0, <2>1
    <3> QED
      BY <3>1, <3>2
  <2>4. g(n) = h[n]
    BY <1>1
  <2>5. PICK M : Ready(x, M, n-1) /\ Holds(x, Root0, CodeSet(n-1), {})
    BY <1>3
  <2> HIDE DEF x
  <2>6. q \notin CodeSet(n-1) /\ CodeSet(n) = CodeSet(n-1) \cup {q}
    BY <1>1 DEF CodeSet
  <2>7. ~Has0(x, Root0, q)
    BY <2>2, <2>5, <2>6 DEF Holds
  <2>8. n - 1 \in 0..CodePages+1 /\ FALSE \in BOOLEAN /\ n - 1 + 1 = n
    BY <1>1
  <2> HIDE DEF q, g
  <2>9. PICK N : Installed(x, M, h[n], N, Root0, q, v) /\ Ready(h[n], N, n)
    BY ONLY EnoughToStart, <1>1, <2>0, <2>2, <2>3, <2>5, <2>7, <2>8, InstallReady
  <2>10. Holds(h[n], Root0, CodeSet(n), {})
    <3>1. {} \cap {q} = {j \in {q} : v} /\ {} \ {q} = {} \ {q}
      BY <2>0
    <3> QED
      BY <2>2, <2>5, <2>6, <2>9, <3>1, InstallHolds
  <2> QED
    BY <2>4, <2>9, <2>10
<1>4. \A n \in 0..CodePages : Good(n)
  <2>1. SUFFICES ASSUME Bad # {} PROVE FALSE
    OBVIOUS
  <2>2. Bad \subseteq Nat
    BY <1>1
  <2> DEFINE m == Min(Bad)
  <2>3. m \in Bad /\ \A j \in Bad : m <= j
    BY <2>1, <2>2, MinIs
  <2> HIDE DEF m
  <2>4. m # 0 /\ m \in 0..CodePages
    BY <1>2, <2>3
  <2>5. m - 1 \notin Bad /\ m \in 1..CodePages /\ m - 1 \in 0..CodePages
    BY <1>1, <2>3, <2>4
  <2> QED
    BY <1>3, <2>3, <2>5
<1>5. Install(h[CodePages], Root0, p, w) = Install(g(CodePages), Root0, p, w)
  <2>1. CASE CodePages = 0
    <3>1. h[CodePages] = base
      BY <1>0, <2>1
    <3> QED
      BY <2>1, <3>1
  <2>2. CASE CodePages # 0
    BY <2>2
  <2> QED
    BY <2>1, <2>2
<1>6. Good(CodePages)
  BY <1>1, <1>4
<1> QED
  BY <1>5, <1>6

(* What an exit leaves: all frames are free and empty, except for the      *)
(* kernel's entry in what was the level-3 table.                           *)
Idle(s) ==
    /\ s \in Machines /\ s.pt = PtFrames /\ s.user = UserFrames /\ s.at = 0
    /\ \A t \in PtFrames, i \in Index : t # Third \/ i # 0 => s.mem[t][i] = NoEntry

(* A machine is its fields. *)
LEMMA SameMachine ==
  ASSUME NEW x \in Machines, NEW y \in Machines,
         x.mem = y.mem, x.pt = y.pt, x.user = y.user, x.at = y.at
  PROVE  x = y
BY DEF Machines

(* Clearing a table clears that table. *)
LEMMA BzeroIs ==
  ASSUME NEW x \in Machines, NEW t \in PtFrames
  PROVE  /\ Bzero(x, t) \in Machines /\ Bzero(x, t).pt = x.pt /\ Bzero(x, t).user = x.user
         /\ Bzero(x, t).at = x.at
         /\ Bzero(x, t).mem = [x.mem EXCEPT ![t] = [i \in Index |-> NoEntry]]
BY EntryIs DEF Bzero, Machines

(* create_context starts as if that entry were not there: the first table  *)
(* it takes is the one that has it, and it is cleared.                     *)
LEMMA CleanStart ==
  ASSUME EnoughToStart, NEW s, Idle(s), NEW base, base = Bzero(TakePt(TakePt(s)), Root0)
  PROVE  \E c, L : /\ Ready(c, L, 0) /\ Holds(c, Root0, {}, {})
                   /\ \A seg \in Segs : \A p \in Start[seg]..End[seg], w \in BOOLEAN :
                         Install(base, Root0, p, w) = Install(c, Root0, p, w)
<1> DEFINE a == TakePt(s)
           b == TakePt(a)
           clean == [t \in PtFrames |-> [i \in Index |-> NoEntry]]
           c == [base EXCEPT !.mem = clean]
           L == [t \in PtFrames |-> IF t = Root0 THEN 4 ELSE IF t = Stack0 THEN 5 ELSE 0]
           free == PtFrames \ {Stack0, Root0}
<1>1. /\ Stack0 \in PtFrames /\ Root0 \in PtFrames /\ Third \in PtFrames
      /\ Stack0 # Root0 /\ Third \notin {Stack0, Root0} /\ 0 \in Index
      /\ Cardinality(PtFrames) \in Nat /\ Cardinality(UserFrames) \in Nat
      /\ Cardinality(free) = Cardinality(PtFrames) - 2
  BY FirstFrames, IndexIs
<1>2. /\ b \in Machines /\ b.pt = free /\ b.user = UserFrames /\ b.mem = s.mem /\ b.at = 0
  <2>1. /\ a \in Machines /\ a.pt = PtFrames \ {Stack0} /\ a.user = UserFrames /\ a.mem = s.mem
        /\ a.at = 0
    BY DEF Idle, TakePt, Machines, Stack0
  <2> HIDE DEF a
  <2>2. b.pt = (PtFrames \ {Stack0}) \ {Root0}
    BY <2>1 DEF TakePt, Root0, Machines
  <2> QED
    BY <2>1, <2>2 DEF TakePt, Machines
<1>3. base = b
  <2>1. \A i \in Index : b.mem[Root0][i] = NoEntry
    BY <1>1, <1>2 DEF Idle
  <2> HIDE DEF b
  <2>2. Bzero(b, Root0) = b
    BY <1>1, <1>2, <2>1, BzeroSame
  <2> QED
    BY <2>2 DEF b
<1> HIDE DEF a, b, free
<1>4. /\ c \in Machines /\ c.pt = free /\ c.user = UserFrames /\ c.mem = clean
      /\ \A t \in PtFrames, i \in Index : c.mem[t][i] = NoEntry /\ ~Edge(c, t, i)
  <2>1. clean \in [PtFrames -> [Index -> Entries]]
    BY EntryIs
  <2> HIDE DEF clean
  <2>2. c \in Machines /\ c.pt = free /\ c.user = UserFrames /\ c.mem = clean
    BY <1>2, <1>3, <2>1 DEF Machines
  <2>3. \A t \in PtFrames, i \in Index : clean[t][i] = NoEntry
    BY DEF clean
  <2> HIDE DEF c
  <2> QED
    BY <2>2, <2>3, EntryIs DEF Edge
<1>5. /\ L \in [PtFrames -> 0..6]
      /\ \A t \in PtFrames : /\ L[t] = 4 <=> t = Root0
                             /\ L[t] = 5 <=> t = Stack0
                             /\ L[t] = 0 <=> t \in free
                             /\ L[t] \in {0, 4, 5}
  BY <1>1 DEF free
<1> HIDE DEF c, L
<1>6. Tree(c, L)
  BY <1>4, <1>5 DEF Tree, FreeKinds, OthersClean, LeadDown, EdgesApart, TablesReached, PagesReached,
     WriteDown
<1>7. Ready(c, L, 0)
  <2>1. Min(c.pt) = Third
    BY <1>4 DEF free, Third
  <2>2. Root(L, Root0) /\ AllWritable(c, L) /\ ~Edge(c, Root0, 0)
    BY <1>1, <1>4, <1>5 DEF Root, AllWritable
  <2> QED
    BY <1>1, <1>4, <1>5, <1>6, <2>1, <2>2 DEF Ready
<1>8. Holds(c, Root0, {}, {})
  <2>1. \A q \in AllPages : ~Has0(c, Root0, q)
    BY <1>1, <1>4, IndicesIn DEF Has0, Has1, Has2, Has3
  <2> QED
    BY <2>1 DEF Holds
<1>9. ASSUME NEW seg \in Segs, NEW p \in Start[seg]..End[seg], NEW w \in BOOLEAN
      PROVE  Install(base, Root0, p, w) = Install(c, Root0, p, w)
  <2> DEFINE x == [base EXCEPT !.at = Root0]
             y == [c EXCEPT !.at = Root0]
  <2>1. Idx[p][4] = 0
    BY SegPage
  <2>2. /\ x \in Machines /\ x.mem = s.mem /\ x.pt = free /\ x.user = UserFrames /\ x.at = Root0
        /\ y \in Machines /\ y.mem = clean /\ y.pt = free /\ y.user = UserFrames /\ y.at = Root0
    BY <1>1, <1>2, <1>3, <1>4 DEF Machines
  <2> HIDE DEF x, y
  <2>3. ~Below(x, Root0, p, 4).p /\ ~Below(y, Root0, p, 4).p
    <3>1. x.mem[Root0][0] = NoEntry /\ y.mem[Root0][0] = NoEntry
      BY <1>1, <2>2 DEF Idle
    <3> QED
      BY <2>1, <3>1, EntryIs DEF Below
  <2>4. Min(free) = Third
    BY DEF free, Third
  <2>5. Bzero(TakePt(x), Third) = Bzero(TakePt(y), Third)
    <3> DEFINE row == [i \in Index |-> NoEntry]
    <3>1. [s.mem EXCEPT ![Third] = row] = [clean EXCEPT ![Third] = row]
      <4>1. \A t \in PtFrames : t # Third => s.mem[t] = clean[t]
        <5> TAKE t \in PtFrames
        <5> SUFFICES ASSUME t # Third PROVE s.mem[t] = clean[t]
          OBVIOUS
        <5>1. s.mem[t] \in [Index -> Entries] /\ \A i \in Index : s.mem[t][i] = NoEntry
          BY DEF Idle, Machines
        <5> QED
          BY <5>1
      <4>2. s.mem \in [PtFrames -> [Index -> Entries]]
        BY DEF Idle, Machines
      <4> HIDE DEF row
      <4> QED
        BY <4>1, <4>2
    <3>2. /\ TakePt(x) \in Machines /\ TakePt(x).mem = s.mem /\ TakePt(x).pt = free \ {Third}
          /\ TakePt(x).user = UserFrames /\ TakePt(x).at = Root0
      BY <2>2, <2>4 DEF TakePt, Machines
    <3>3. /\ TakePt(y) \in Machines /\ TakePt(y).mem = clean /\ TakePt(y).pt = free \ {Third}
          /\ TakePt(y).user = UserFrames /\ TakePt(y).at = Root0
      BY <2>2, <2>4 DEF TakePt, Machines
    <3> HIDE DEF row, clean
    <3>4. /\ Bzero(TakePt(x), Third) \in Machines
          /\ Bzero(TakePt(x), Third).mem = [s.mem EXCEPT ![Third] = row]
          /\ Bzero(TakePt(x), Third).pt = free \ {Third}
          /\ Bzero(TakePt(x), Third).user = UserFrames /\ Bzero(TakePt(x), Third).at = Root0
      BY <1>1, <3>2, BzeroIs DEF row
    <3>5. /\ Bzero(TakePt(y), Third) \in Machines
          /\ Bzero(TakePt(y), Third).mem = [clean EXCEPT ![Third] = row]
          /\ Bzero(TakePt(y), Third).pt = free \ {Third}
          /\ Bzero(TakePt(y), Third).user = UserFrames /\ Bzero(TakePt(y), Third).at = Root0
      BY <1>1, <3>3, BzeroIs DEF row
    <3> DEFINE u == Bzero(TakePt(x), Third)
               v == Bzero(TakePt(y), Third)
    <3>6. /\ u \in Machines /\ v \in Machines /\ u.mem = v.mem /\ u.pt = v.pt /\ u.user = v.user
          /\ u.at = v.at
      BY <3>1, <3>4, <3>5
    <3> HIDE DEF u, v
    <3>7. u = v
      BY <3>6, SameMachine
    <3> QED
      BY <3>7 DEF u, v
  <2>6. DirLevel(x, p, 4) = DirLevel(y, p, 4)
    BY <2>2, <2>3, <2>4, <2>5 DEF DirLevel
  <2> QED
    BY <2>6 DEF Install, x, y
<1> QED
  BY <1>7, <1>8, <1>9

(* The tables of a process that runs: the stack of the OS, one table of    *)
(* level 4 and one of level 3, and the kernel's below it.                  *)
Owned(s, K, r, stack, pmd) ==
    /\ Tree(s, K) /\ Root(K, r) /\ stack \in PtFrames /\ pmd \in PtFrames
    /\ \A t \in PtFrames : (K[t] = 5 <=> t = stack) /\ (K[t] = 6 <=> t = pmd) /\ (K[t] = 3 => t = Third)
    /\ Edge(s, r, 0) /\ Edge(s, Third, 0)

(* The kernel's table is added. *)
LEMMA KernelAdded ==
  ASSUME EnoughToStart, NEW k, NEW L, Ready(k, L, CodePages + 2), NEW S, NEW T, Holds(k, Root0, S, T),
         NEW pmd, pmd = Min(k.pt), NEW l3, l3 = k.mem[Root0][0].f,
         NEW z, z = [Put(Bzero(TakePt(k), pmd), l3, 0,
                         [p |-> TRUE, w |-> TRUE, u |-> FALSE, f |-> pmd]) EXCEPT !.at = 0]
  PROVE  /\ \E K : Owned(z, K, Root0, Stack0, pmd)
         /\ Holds(z, Root0, S, T) /\ z.at = 0
<1> DEFINE x == [p |-> TRUE, w |-> TRUE, u |-> FALSE, f |-> pmd]
           M == [L EXCEPT ![pmd] = 6]
<1>1. /\ Tree(k, L) /\ Root(L, Root0) /\ k \in Machines /\ 0 \in Index /\ CodePages \in Nat
      /\ Root0 \in PtFrames /\ Stack0 \in PtFrames /\ Third \in PtFrames
      /\ Cardinality(PtFrames) \in Nat /\ L \in [PtFrames -> 0..6]
      /\ Edge(k, Root0, 0)
  BY FirstFrames, IndexIs, SegsAssumption DEF Ready, Tree
<1>2. l3 = Third /\ L[Third] = 3
  <2>1. L[Root0] = 4
    BY <1>1 DEF Root
  <2>2. Leads(k, L, Root0, 0) /\ To(k, Root0, 0) = l3
    BY <1>1 DEF Tree, LeadDown, To
  <2>3. l3 \in PtFrames /\ L[l3] = 3
    BY <2>1, <2>2 DEF Leads
  <2> QED
    BY <2>3 DEF Ready
<1>3. pmd \in k.pt /\ pmd \in PtFrames /\ L[pmd] = 0 /\ \A j \in Index : k.mem[pmd][j] = NoEntry
  <2>1. Cardinality(k.pt) # 0
    <3>1. Cardinality(k.pt) >= Cardinality(PtFrames) - 2 - 2 * (CodePages + 2) - 1
      BY <1>1 DEF Ready
    <3>2. Cardinality(PtFrames) >= 2 * CodePages + 8
      BY DEF EnoughToStart
    <3> QED
      BY <1>1, <3>1, <3>2
  <2>2. pmd \in k.pt /\ pmd \in PtFrames
    BY <1>1, <2>1, PtFinite DEF Machines
  <2> QED
    BY <1>1, <2>2 DEF Tree, FreeKinds, OthersClean
<1>4. ~Edge(k, Third, 0)
  BY <1>1, <1>2 DEF Tree, LeadDown, Leads, Ready
<1>5. /\ z \in Machines /\ z.at = 0 /\ z.pt = k.pt \ {pmd} /\ z.user = k.user
      /\ Changed(k, z, Third, 0) /\ z.mem[Third][0] = x
  <2> DEFINE a == TakePt(k)
             y == Put(a, Third, 0, x)
  <2>1. a \in Machines /\ a.mem = k.mem /\ a.pt = k.pt \ {pmd} /\ a.user = k.user
    BY <1>1 DEF TakePt, Machines
  <2>2. x \in Entries
    BY <1>3 DEF Entries
  <2> HIDE DEF a, x
  <2>3. Bzero(a, pmd) = a
    BY <1>3, <2>1, BzeroSame
  <2>4. z = [y EXCEPT !.at = 0]
    BY <1>2, <2>3 DEF a, x
  <2>5. /\ y \in Machines /\ y.mem[Third][0] = x /\ y.pt = a.pt /\ y.user = a.user
        /\ \A u \in PtFrames, j \in Index : u # Third \/ j # 0 => y.mem[u][j] = a.mem[u][j]
    <3>1. Third \in PtFrames /\ 0 \in Index
      BY <1>1
    <3> QED
      BY ONLY <2>1, <2>2, <3>1, PutIs DEF y
  <2> HIDE DEF y
  <2>6. z \in Machines /\ z.mem = y.mem /\ z.pt = y.pt /\ z.user = y.user /\ z.at = 0
    BY <2>4, <2>5 DEF Machines
  <2> QED
    BY ONLY <1>1, <2>1, <2>5, <2>6 DEF Changed
<1>6. Tree(z, M) /\ Grow(k, z)
  <2>1. z.mem[Third][0] = [p |-> TRUE, w |-> TRUE, u |-> FALSE, f |-> pmd]
    BY <1>5
  <2> QED
    BY ONLY <1>1, <1>2, <1>3, <1>4, <1>5, <2>1, AddKernel
<1>7. /\ M \in [PtFrames -> 0..6] /\ M[pmd] = 6 /\ \A t \in PtFrames \ {pmd} : M[t] = L[t]
  BY <1>1, <1>3
<1> HIDE DEF M
<1>8. Root(M, Root0)
  BY <1>1, <1>3, <1>7 DEF Root
<1>9. Owned(z, M, Root0, Stack0, pmd)
  <2>1. Edge(z, Root0, 0)
    BY <1>1, <1>6 DEF Grow
  <2>2. Edge(z, Third, 0)
    BY ONLY <1>5 DEF Edge, x
  <2>3. \A t \in PtFrames : (M[t] = 5 <=> t = Stack0) /\ (M[t] = 6 <=> t = pmd) /\ (M[t] = 3 => t = Third)
    BY <1>3, <1>7 DEF Ready
  <2> QED
    BY <1>1, <1>3, <1>6, <1>8, <2>1, <2>2, <2>3 DEF Owned
<1>10. Holds(z, Root0, S, T)
  <2> SUFFICES ASSUME NEW q \in AllPages
               PROVE  /\ Has0(z, Root0, q) <=> Has0(k, Root0, q)
                      /\ Has0(k, Root0, q) => Leaf(z, Root0, q) = Leaf(k, Root0, q)
    BY DEF Holds
  <2>1. ASSUME Has0(z, Root0, q)
        PROVE  /\ At1(z, Root0, q) # Third
               /\ z.mem[At1(z, Root0, q)][Idx[q][1]] = k.mem[At1(z, Root0, q)][Idx[q][1]]
    <3>1. At1(z, Root0, q) \in PtFrames /\ M[At1(z, Root0, q)] = 1 /\ Idx[q][1] \in Index
      BY ONLY <1>6, <1>8, <2>1, q \in AllPages, WayKinds, IndicesIn DEF Has0
    <3>2. M[Third] = 3
      BY <1>1, <1>2, <1>3, <1>7
    <3>3. At1(z, Root0, q) # Third
      BY <3>1, <3>2
    <3> QED
      BY <1>5, <3>1, <3>3 DEF Changed
  <2>2. Has0(z, Root0, q) => Has0(k, Root0, q)
    <3> SUFFICES ASSUME Has0(z, Root0, q) PROVE Has0(k, Root0, q)
      OBVIOUS
    <3>1. Edge(k, At1(z, Root0, q), Idx[q][1])
      BY <2>1 DEF Has0, Edge
    <3> QED
      BY <1>1, <1>6, <1>8, <3>1, GrowBack
  <2>3. Has0(k, Root0, q) => Has0(z, Root0, q) /\ At1(z, Root0, q) = At1(k, Root0, q)
    BY <1>1, <1>6, GrowWay
  <2> QED
    BY <2>1, <2>2, <2>3 DEF Leaf
<1> QED
  BY <1>5, <1>9, <1>10

(* exec_init leaves a tree with the code and one page each of data and     *)
(* stack: whatever the number of pages of code.                            *)
LEMMA ExecIs ==
  ASSUME EnoughToStart, NEW s, Idle(s), NEW e, e = Exec(s)
  PROVE  /\ e.stack = Stack0 /\ e.root = Root0 /\ e.m.at = 0
         /\ \E K : Owned(e.m, K, Root0, Stack0, e.pmd)
         /\ Holds(e.m, Root0, CodeSet(CodePages) \cup {Start["DATA"], End["STACK"]},
                  {Start["DATA"], End["STACK"]})
<1> DEFINE root == Min(TakePt(s).pt)
           base == Bzero(TakePt(TakePt(s)), root)
           load == CHOOSE h : h = [n \in 0..CodePages |->
                                    IF n = 0 THEN base
                                    ELSE Install(h[n-1], root, Start["CODE"] + n - 1, FALSE)]
           d(h)  == Install(h[CodePages], root, Start["DATA"], TRUE)
           k(h)  == Install(d(h), root, End["STACK"], TRUE)
           kernel(h) == [Put(Bzero(TakePt(k(h)), Min(k(h).pt)), k(h).mem[root][0].f, 0,
                    [p |-> TRUE, w |-> TRUE, u |-> FALSE, f |-> Min(k(h).pt)]) EXCEPT !.at = 0]
<1>1. Steps(CodePages, base, root, load)
  <2>1. \E h : h = [n \in 0..CodePages |->
                      IF n = 0 THEN base ELSE Install(h[n-1], root, Start["CODE"] + n - 1, FALSE)]
    <3>1. \E h : Steps(CodePages, base, root, h)
      BY SegsAssumption, StepsExist
    <3> QED
      BY <3>1 DEF Steps, CodeStep
  <2>2. load = [n \in 0..CodePages |->
                  IF n = 0 THEN base ELSE Install(load[n-1], root, Start["CODE"] + n - 1, FALSE)]
    BY <2>1, Zenon
  <2> QED
    BY <2>2, Zenon DEF Steps, CodeStep
<1>2. e = [m |-> kernel(load), stack |-> Min(s.pt), root |-> root, pmd |-> Min(k(load).pt)]
  BY Zenon DEF Exec
<1> HIDE DEF load, kernel, k, d, base
<1>3. root = Root0 /\ Min(s.pt) = Stack0
  BY DEF Idle, TakePt, Machines, Root0, Stack0
<1>4. base = Bzero(TakePt(TakePt(s)), Root0)
  BY <1>3 DEF base
<1> HIDE DEF root
<1>5. PICK c, L0 : /\ Ready(c, L0, 0) /\ Holds(c, Root0, {}, {})
                   /\ \A seg \in Segs : \A p \in Start[seg]..End[seg], w \in BOOLEAN :
                         Install(base, Root0, p, w) = Install(c, Root0, p, w)
  BY <1>4, CleanStart
<1>6. Steps(CodePages, base, Root0, load)
  BY <1>1, <1>3
<1>7. /\ \A seg \in Segs : Start[seg] \in Nat /\ End[seg] \in Nat /\ Start[seg] < End[seg]
      /\ {"CODE", "DATA", "STACK"} \subseteq Segs /\ CodePages \in Nat
      /\ Start["DATA"] \in Start["DATA"]..End["DATA"] /\ End["STACK"] \in Start["STACK"]..End["STACK"]
      /\ Start["DATA"] \in AllPages /\ End["STACK"] \in AllPages
      /\ Start["DATA"] \notin CodeSet(CodePages) /\ End["STACK"] \notin CodeSet(CodePages)
      /\ End["STACK"] # Start["DATA"]
  <2>1. /\ \A seg \in Segs : Start[seg] \in Pages /\ End[seg] \in Pages /\ Start[seg] < End[seg]
        /\ {"CODE", "DATA", "STACK"} \subseteq Segs /\ CodePages \in Nat
    BY SegsAssumption DEF Segs
  <2>2. \A p \in Pages : p \in Nat /\ p \in AllPages
    BY FanIs
  <2>3. /\ \A seg \in Segs : Start[seg] \in Nat /\ End[seg] \in Nat /\ Start[seg] < End[seg]
        /\ Start["DATA"] \in AllPages /\ End["STACK"] \in AllPages
    BY <2>1, <2>2
  <2>4. /\ End["CODE"] < Start["DATA"] \/ End["DATA"] < Start["CODE"]
        /\ End["CODE"] < Start["STACK"] \/ End["STACK"] < Start["CODE"]
        /\ End["DATA"] < Start["STACK"] \/ End["STACK"] < Start["DATA"]
        /\ Start["CODE"] + CodePages - 1 <= End["CODE"]
    BY <2>1, SegsAssumption
  <2>5. /\ Start["CODE"] \in Nat /\ End["CODE"] \in Nat /\ Start["CODE"] < End["CODE"]
        /\ Start["DATA"] \in Nat /\ End["DATA"] \in Nat /\ Start["DATA"] < End["DATA"]
        /\ Start["STACK"] \in Nat /\ End["STACK"] \in Nat /\ Start["STACK"] < End["STACK"]
    BY <2>1, <2>3
  <2>6. Start["DATA"] \notin CodeSet(CodePages) /\ End["STACK"] \notin CodeSet(CodePages)
        /\ End["STACK"] # Start["DATA"]
    BY <2>1, <2>4, <2>5 DEF CodeSet
  <2> QED
    BY <2>1, <2>3, <2>5, <2>6
<1>8. PICK w \in BOOLEAN : w = TRUE
  OBVIOUS
<1> DEFINE S1 == CodeSet(CodePages) \cup {Start["DATA"]}
           S2 == S1 \cup {End["STACK"]}
           T1 == {} \cup {Start["DATA"]}
           T2 == T1 \cup {End["STACK"]}
           dd == d(load)
           kk == k(load)
<1>9. PICK z, M : /\ Ready(z, M, CodePages) /\ Holds(z, Root0, CodeSet(CodePages), {})
                  /\ Install(load[CodePages], Root0, Start["DATA"], w) = Install(z, Root0, Start["DATA"], w)
  BY <1>5, <1>6, <1>7, Loads
<1>10. dd = Install(z, Root0, Start["DATA"], w)
  BY <1>3, <1>8, <1>9 DEF d
<1>11. kk = Install(dd, Root0, End["STACK"], w)
  BY <1>3, <1>8 DEF k
<1> HIDE DEF dd, kk
<1>12. PICK M1 : Installed(z, M, dd, M1, Root0, Start["DATA"], w) /\ Ready(dd, M1, CodePages + 1)
  <2>1. ~Has0(z, Root0, Start["DATA"]) /\ CodePages \in 0..CodePages+1
    BY <1>7, <1>9 DEF Holds
  <2> QED
    BY <1>7, <1>9, <1>10, <2>1, InstallReady
<1>13. Holds(dd, Root0, S1, T1)
  <2>1. T1 \cap {Start["DATA"]} = {q \in {Start["DATA"]} : w}
        /\ T1 \ {Start["DATA"]} = {} \ {Start["DATA"]}
    BY <1>8
  <2> HIDE DEF T1
  <2> QED
    BY <1>7, <1>9, <1>12, <2>1, InstallHolds
<1>14. End["STACK"] \notin S1 /\ T1 \in SUBSET S1
  BY <1>7
<1> HIDE DEF S1, T1
<1>15. PICK M2 : Installed(dd, M1, kk, M2, Root0, End["STACK"], w) /\ Ready(kk, M2, CodePages + 2)
  <2>1. /\ ~Has0(dd, Root0, End["STACK"]) /\ CodePages + 1 \in 0..CodePages+1
        /\ CodePages + 1 + 1 = CodePages + 2
    BY <1>7, <1>13, <1>14 DEF Holds
  <2> QED
    BY <1>7, <1>11, <1>12, <2>1, InstallReady
<1>16. Holds(kk, Root0, S2, T2)
  <2>1. T2 \cap {End["STACK"]} = {q \in {End["STACK"]} : w}
        /\ T2 \ {End["STACK"]} = T1 \ {End["STACK"]}
    BY <1>8
  <2> HIDE DEF T2
  <2> QED
    BY <1>7, <1>13, <1>14, <1>15, <2>1, InstallHolds
<1> DEFINE pmd == Min(kk.pt)
           l3  == kk.mem[Root0][0].f
           y   == [Put(Bzero(TakePt(kk), pmd), l3, 0,
                    [p |-> TRUE, w |-> TRUE, u |-> FALSE, f |-> pmd]) EXCEPT !.at = 0]
<1>17. e.m = y /\ e.stack = Stack0 /\ e.root = Root0 /\ e.pmd = pmd
  BY <1>2, <1>3 DEF kernel, kk
<1> HIDE DEF y, S2, T2
<1>18. /\ \E K : Owned(y, K, Root0, Stack0, pmd)
       /\ Holds(y, Root0, S2, T2) /\ y.at = 0
  BY <1>15, <1>16, KernelAdded DEF y
<1>19. /\ S2 = CodeSet(CodePages) \cup {Start["DATA"], End["STACK"]}
       /\ T2 = {Start["DATA"], End["STACK"]}
  BY DEF S1, S2, T1, T2
<1> QED
  BY <1>17, <1>18, <1>19

-----------------------------------------------------------------------------
(* Pages are taken back. *)
LEMMA Free1Is ==
  ASSUME NEW s, NEW K, NEW r, Tree(s, K), Root(K, r), NEW pages \in SUBSET AllPages, NEW z,
         z = free1(s, r, pages)
  PROVE  /\ Tree(z, K) /\ z.pt = s.pt /\ z.at = s.at
         /\ \A t \in PtFrames, i \in Index : K[t] # 1 => z.mem[t][i] = s.mem[t][i]
         /\ \A q \in AllPages : /\ Has0(z, r, q) <=> Has0(s, r, q) /\ q \notin pages
                                /\ Has0(z, r, q) => Leaf(z, r, q) = Leaf(s, r, q)
<1> DEFINE gone == {p \in pages : Mapped(s, r, p)}
           cleared(t, i) == \E p \in gone : t = PathTo(s, r, p)[3].f /\ i = Idx[p][1]
<1>1. /\ s \in Machines /\ r \in PtFrames /\ K \in [PtFrames -> 0..6]
  BY DEF Tree, Root
<1>2. \A p : p \in gone <=> p \in pages /\ Has0(s, r, p)
  BY PathIs
<1>3. \A p \in gone : /\ p \in AllPages /\ Has0(s, r, p) /\ Has1(s, r, p)
                      /\ PathTo(s, r, p)[3].f = At1(s, r, p) /\ PathTo(s, r, p)[4].f = At0(s, r, p)
                      /\ At1(s, r, p) \in PtFrames /\ K[At1(s, r, p)] = 1
                      /\ Idx[p][1] \in Index /\ Edge(s, At1(s, r, p), Idx[p][1])
                      /\ To(s, At1(s, r, p), Idx[p][1]) = At0(s, r, p)
                      /\ At0(s, r, p) \in UserFrames
  <2> TAKE p \in gone
  <2>1. p \in AllPages /\ Has0(s, r, p) /\ Has1(s, r, p)
    BY <1>2 DEF Has0
  <2> HIDE DEF gone
  <2> QED
    BY <2>1, PathIs, WayKinds, IndicesIn DEF Has0, At0
<1>4. /\ z.pt = s.pt /\ z.at = s.at
      /\ z.mem = [t \in PtFrames |-> [i \in Index |-> IF cleared(t, i) THEN NoEntry ELSE s.mem[t][i]]]
      /\ z.user = s.user \cup {PathTo(s, r, p)[4].f : p \in gone}
      /\ z = [mem |-> z.mem, pt |-> z.pt, user |-> z.user, at |-> z.at]
  BY <1>1 DEF free1, Machines
<1> HIDE DEF gone, cleared
<1>5. \A t \in PtFrames, i \in Index :
         z.mem[t][i] = IF cleared(t, i) THEN NoEntry ELSE s.mem[t][i]
  BY <1>4
<1>6. z \in Machines
  <2>1. z.user \subseteq UserFrames
    BY <1>1, <1>3, <1>4 DEF Machines
  <2>2. z.mem \in [PtFrames -> [Index -> Entries]]
    BY <1>1, <1>4, EntryIs DEF Machines
  <2>3. z.pt \subseteq PtFrames /\ z.at \in {0} \cup PtFrames
    BY <1>1, <1>4 DEF Machines
  <2> HIDE DEF cleared
  <2> QED
    BY <1>4, <2>1, <2>2, <2>3 DEF Machines
<1>7. \A t, i : cleared(t, i) <=> \E p \in gone : t = At1(s, r, p) /\ i = Idx[p][1]
  BY <1>3 DEF cleared
<1>8. Tree(z, K)
  <2>1. \A t \in PtFrames, i \in Index :
            \/ z.mem[t][i] = s.mem[t][i]
            \/ z.mem[t][i] = NoEntry /\ Edge(s, t, i) /\ K[t] = 1
    BY <1>3, <1>5, <1>7
  <2>2. ASSUME NEW f \in UserFrames
        PROVE  f \in z.user <=>
            \/ f \in s.user
            \/ \E t \in PtFrames, i \in Index :
                  Edge(s, t, i) /\ To(s, t, i) = f /\ z.mem[t][i] = NoEntry
    <3>1. ASSUME NEW p \in gone, f = At0(s, r, p)
          PROVE  \E t \in PtFrames, i \in Index :
                  Edge(s, t, i) /\ To(s, t, i) = f /\ z.mem[t][i] = NoEntry
      BY <1>3, <1>5, <1>7, <3>1
    <3>2. ASSUME NEW t \in PtFrames, NEW i \in Index, Edge(s, t, i), To(s, t, i) = f, z.mem[t][i] = NoEntry
          PROVE  \E p \in gone : f = At0(s, r, p)
      <4>1. cleared(t, i)
        BY <1>5, <3>2, EntryIs DEF Edge
      <4> QED
        BY <1>3, <1>7, <3>2, <4>1
    <3>3. f \in z.user <=> f \in s.user \/ \E p \in gone : f = At0(s, r, p)
      BY <1>3, <1>4
    <3> QED
      BY <3>1, <3>2, <3>3
  <2> QED
    BY ONLY Tree(s, K), <1>4, <1>6, <2>1, <2>2, RemovePages
<1>9. \A t \in PtFrames, i \in Index : K[t] # 1 =>
         z.mem[t][i] = s.mem[t][i] /\ (Edge(z, t, i) <=> Edge(s, t, i)) /\ To(z, t, i) = To(s, t, i)
  BY <1>3, <1>5, <1>7 DEF Edge, To
<1>10. Grow(z, s)
  BY <1>5, EntryIs DEF Grow, Edge, To
<1>11. ASSUME NEW q \in AllPages, Has0(z, r, q)
       PROVE  Has0(s, r, q) /\ q \notin pages /\ Leaf(z, r, q) = Leaf(s, r, q)
  <2>1. Has0(s, r, q) /\ At1(s, r, q) = At1(z, r, q)
    BY <1>8, <1>10, <1>11, GrowWay
  <2>2. /\ At1(z, r, q) \in PtFrames /\ Idx[q][1] \in Index /\ Edge(z, At1(z, r, q), Idx[q][1])
    BY <1>8, <1>11, WayKinds, IndicesIn DEF Has0
  <2>3. ~cleared(At1(z, r, q), Idx[q][1])
    BY <1>5, <2>2, EntryIs DEF Edge
  <2> QED
    BY <1>2, <1>5, <1>7, <2>1, <2>2, <2>3 DEF Leaf
<1>12. ASSUME NEW q \in AllPages, Has0(s, r, q), q \notin pages
       PROVE  Has0(z, r, q)
  <2>1. /\ Idx[q][1] \in Index /\ Idx[q][2] \in Index /\ Idx[q][3] \in Index /\ Idx[q][4] \in Index
        /\ Has1(s, r, q) /\ Has2(s, r, q) /\ Has3(s, r, q)
    BY <1>12, IndicesIn DEF Has0, Has1, Has2
  <2>2. /\ UserPage(q) /\ K[r] = 4 /\ At3(s, r, q) \in PtFrames /\ K[At3(s, r, q)] = 3
        /\ At2(s, r, q) \in PtFrames /\ K[At2(s, r, q)] = 2 /\ At1(s, r, q) \in PtFrames
    BY <1>1, <2>1, WayKinds DEF Root
  <2>3. Has3(z, r, q) /\ At3(z, r, q) = At3(s, r, q)
    BY <1>1, <1>9, <2>1, <2>2 DEF Has3, At3
  <2>4. Has2(z, r, q) /\ At2(z, r, q) = At2(s, r, q)
    BY <1>9, <2>1, <2>2, <2>3 DEF Has2, At2
  <2>5. Has1(z, r, q) /\ At1(z, r, q) = At1(s, r, q)
    BY <1>9, <2>1, <2>2, <2>4 DEF Has1, At1
  <2>6. ~cleared(At1(s, r, q), Idx[q][1])
    <3> SUFFICES ASSUME NEW p \in gone, At1(s, r, q) = At1(s, r, p), Idx[q][1] = Idx[p][1]
                 PROVE  FALSE
      BY <1>7
    <3>1. p = q
      BY <1>3, <2>1, OnePage
    <3> QED
      BY <1>2, <1>12, <3>1
  <2> QED
    BY <1>5, <1>12, <2>1, <2>2, <2>5, <2>6 DEF Has0, Edge
<1> QED
  BY <1>4, <1>8, <1>9, <1>11, <1>12

Kind(K, k) == {t \in PtFrames : K[t] = k}

(* What Children collects. *)
LEMMA ChildrenAre ==
  ASSUME NEW s, NEW tables, NEW first \in Nat
  PROVE  \A f : f \in Children(s, tables, first) <=>
            \E t \in tables, i \in Index : i >= first /\ Edge(s, t, i) /\ To(s, t, i) = f
<1> DEFINE E == {e \in tables \X Index : e[2] >= first /\ s.mem[e[1]][e[2]].p}
<1>1. Children(s, tables, first) = {s.mem[e[1]][e[2]].f : e \in E}
  BY DEF Children
<1>2. \A t \in tables, i \in Index : <<t, i>> \in E <=> i >= first /\ Edge(s, t, i)
  BY DEF Edge
<1>3. \A e \in E : /\ e[1] \in tables /\ e[2] \in Index /\ e = <<e[1], e[2]>>
                   /\ s.mem[e[1]][e[2]].f = To(s, e[1], e[2])
  BY DEF To
<1> HIDE DEF E
<1>4. ASSUME NEW f, f \in Children(s, tables, first)
      PROVE  \E t \in tables, i \in Index : i >= first /\ Edge(s, t, i) /\ To(s, t, i) = f
  <2>1. PICK e \in E : s.mem[e[1]][e[2]].f = f
    BY <1>1, <1>4
  <2>2. e[1] \in tables /\ e[2] \in Index /\ e[2] >= first /\ Edge(s, e[1], e[2])
    BY <1>2, <1>3
  <2> QED
    BY <1>3, <2>1, <2>2
<1>5. ASSUME NEW f, NEW t \in tables, NEW i \in Index, i >= first, Edge(s, t, i), To(s, t, i) = f
      PROVE  f \in Children(s, tables, first)
  <2>1. <<t, i>> \in E
    BY <1>2, <1>5
  <2>2. s.mem[t][i].f = f
    BY <1>5 DEF To
  <2> QED
    BY <1>1, <2>1, <2>2
<1> QED
  BY <1>4, <1>5

(* pt_cleanup finds the tables level by level.                             *)
LEMMA LevelsAre ==
  ASSUME NEW s, NEW K, NEW r, NEW stack, NEW pmd, Owned(s, K, r, stack, pmd)
  PROVE  /\ Children(s, {r}, 0) = Kind(K, 3) /\ Kind(K, 3) = {Third} /\ Kind(K, 4) = {r}
         /\ Children(s, Kind(K, 3), 1) = Kind(K, 2)
         /\ Children(s, Kind(K, 2), 0) = Kind(K, 1)
         /\ Children(s, Kind(K, 1), 0) = UserFrames \ s.user
<1>1. /\ Tree(s, K) /\ r \in PtFrames /\ Kind(K, 4) = {r} /\ K[r] = 4 /\ Edge(s, r, 0)
      /\ \A t \in PtFrames : K[t] = 3 => t = Third
      /\ 0 \in Nat /\ 1 \in Nat /\ 0 \in Index /\ Index \subseteq Nat
  BY IndexIs DEF Owned, Root, Kind
<1>2. /\ \A t \in PtFrames, i \in Index : Edge(s, t, i) => Leads(s, K, t, i)
      /\ \A f \in PtFrames : K[f] \in 1..3 => \E t \in PtFrames, i \in Index : Edge(s, t, i) /\ To(s, t, i) = f
      /\ \A f \in UserFrames \ s.user : \E t \in PtFrames, i \in Index : Edge(s, t, i) /\ To(s, t, i) = f
      /\ K \in [PtFrames -> 0..6] /\ s.user \subseteq UserFrames
  BY <1>1 DEF Tree, LeadDown, TablesReached, PagesReached, Machines
<1>3. Kind(K, 3) = {Third}
  <2>1. To(s, r, 0) \in PtFrames /\ K[To(s, r, 0)] = 3
    BY <1>1, <1>2 DEF Leads
  <2> QED
    BY <1>1, <2>1 DEF Kind
<1>4. Children(s, {r}, 0) = Kind(K, 3)
  <2>1. \A f : f \in Children(s, {r}, 0) <=> \E i \in Index : Edge(s, r, i) /\ To(s, r, i) = f
    BY <1>1, ChildrenAre
  <2>2. \A i \in Index : Edge(s, r, i) => To(s, r, i) \in Kind(K, 3)
    BY <1>1, <1>2 DEF Leads, Kind
  <2>3. \A f \in Kind(K, 3) : \E i \in Index : Edge(s, r, i) /\ To(s, r, i) = f
    <3> TAKE f \in Kind(K, 3)
    <3>1. PICK t \in PtFrames, i \in Index : Edge(s, t, i) /\ To(s, t, i) = f
      BY <1>2 DEF Kind
    <3>2. K[t] = 4
      BY <1>2, <3>1, FramesAssumption DEF Leads, Kind
    <3> QED
      BY <1>1, <3>1, <3>2 DEF Kind
  <2> QED
    BY <2>1, <2>2, <2>3
<1>5. Children(s, Kind(K, 3), 1) = Kind(K, 2)
  <2>1. \A f : f \in Children(s, Kind(K, 3), 1) <=>
               \E t \in Kind(K, 3), i \in Index : i >= 1 /\ Edge(s, t, i) /\ To(s, t, i) = f
    BY <1>1, ChildrenAre
  <2>2. \A t \in Kind(K, 3), i \in Index : i >= 1 /\ Edge(s, t, i) => To(s, t, i) \in Kind(K, 2)
    BY <1>1, <1>2 DEF Leads, Kind
  <2>3. \A f \in Kind(K, 2) : \E t \in Kind(K, 3), i \in Index : i >= 1 /\ Edge(s, t, i) /\ To(s, t, i) = f
    <3> TAKE f \in Kind(K, 2)
    <3>1. PICK t \in PtFrames, i \in Index : Edge(s, t, i) /\ To(s, t, i) = f
      BY <1>2 DEF Kind
    <3>2. K[t] = 3 /\ i # 0
      BY <1>2, <3>1, FramesAssumption DEF Leads, Kind
    <3> QED
      BY <1>1, <3>1, <3>2 DEF Kind
  <2> QED
    BY <2>1, <2>2, <2>3
<1>6. Children(s, Kind(K, 2), 0) = Kind(K, 1)
  <2>1. \A f : f \in Children(s, Kind(K, 2), 0) <=>
               \E t \in Kind(K, 2), i \in Index : i >= 0 /\ Edge(s, t, i) /\ To(s, t, i) = f
    BY <1>1, ChildrenAre
  <2>2. \A t \in Kind(K, 2), i \in Index : i >= 0 /\ Edge(s, t, i) => To(s, t, i) \in Kind(K, 1)
    BY <1>1, <1>2 DEF Leads, Kind
  <2>3. \A f \in Kind(K, 1) : \E t \in Kind(K, 2), i \in Index : i >= 0 /\ Edge(s, t, i) /\ To(s, t, i) = f
    <3> TAKE f \in Kind(K, 1)
    <3>1. PICK t \in PtFrames, i \in Index : Edge(s, t, i) /\ To(s, t, i) = f
      BY <1>2 DEF Kind
    <3>2. K[t] = 2
      BY <1>2, <3>1, FramesAssumption DEF Leads, Kind
    <3> QED
      BY <1>1, <3>1, <3>2 DEF Kind
  <2> QED
    BY <2>1, <2>2, <2>3
<1>7. Children(s, Kind(K, 1), 0) = UserFrames \ s.user
  <2>1. \A f : f \in Children(s, Kind(K, 1), 0) <=>
               \E t \in Kind(K, 1), i \in Index : i >= 0 /\ Edge(s, t, i) /\ To(s, t, i) = f
    BY <1>1, ChildrenAre
  <2>2. \A t \in Kind(K, 1), i \in Index : i >= 0 /\ Edge(s, t, i) => To(s, t, i) \in UserFrames \ s.user
    BY <1>1, <1>2 DEF Leads, Kind
  <2>3. \A f \in UserFrames \ s.user : \E t \in Kind(K, 1), i \in Index : i >= 0 /\ Edge(s, t, i) /\ To(s, t, i) = f
    <3> TAKE f \in UserFrames \ s.user
    <3>1. PICK t \in PtFrames, i \in Index : Edge(s, t, i) /\ To(s, t, i) = f
      BY <1>2
    <3>2. K[t] = 1
      BY <1>2, <3>1, FramesAssumption DEF Leads
    <3> QED
      BY <1>1, <3>1, <3>2 DEF Kind
  <2> QED
    BY <2>1, <2>2, <2>3
<1> QED
  BY <1>1, <1>3, <1>4, <1>5, <1>6, <1>7

(* do_exit gives back all that the process had. *)
LEMMA TeardownIs ==
  ASSUME NEW s, NEW K, NEW r, NEW stack, NEW pmd, Owned(s, K, r, stack, pmd), s.at = 0,
         NEW y, y = [Teardown(s, r) EXCEPT !.pt = @ \cup {stack, pmd}]
  PROVE  Idle(y)
<1> DEFINE l3 == Children(s, {r}, 0)
           l2 == Children(s, l3, 1)
           l1 == Children(s, l2, 0)
           z  == Teardown(s, r)
           M == [t \in PtFrames |-> [i \in Index |->
                    IF t \in {r} \cup l2 \cup l1 \/ (t \in l3 /\ i # 0) THEN NoEntry ELSE s.mem[t][i]]]
<1>0. z = [s EXCEPT !.mem = M, !.pt = @ \cup {r} \cup l3 \cup l2 \cup l1,
                    !.user = @ \cup (Children(s, l1, 0) \cap UserFrames)]
  BY DEF Teardown
<1> HIDE DEF z
<1>1. /\ l3 = {Third} /\ l2 = Kind(K, 2) /\ l1 = Kind(K, 1) /\ Children(s, l1, 0) = UserFrames \ s.user
      /\ Third \in PtFrames
  <2>1. /\ Children(s, {r}, 0) = Kind(K, 3) /\ Kind(K, 3) = {Third}
        /\ Children(s, Kind(K, 3), 1) = Kind(K, 2)
        /\ Children(s, Kind(K, 2), 0) = Kind(K, 1)
        /\ Children(s, Kind(K, 1), 0) = UserFrames \ s.user
    BY ONLY Owned(s, K, r, stack, pmd), LevelsAre
  <2>2. l3 = Kind(K, 3)
    BY <2>1
  <2> HIDE DEF l3
  <2>3. l2 = Kind(K, 2)
    BY <2>1, <2>2
  <2> HIDE DEF l2
  <2>4. l1 = Kind(K, 1)
    BY <2>1, <2>3
  <2> HIDE DEF l1
  <2> QED
    BY <2>1, <2>2, <2>3, <2>4 DEF Kind
<1>2. /\ s \in Machines /\ K \in [PtFrames -> 0..6] /\ r \in PtFrames
      /\ stack \in PtFrames /\ pmd \in PtFrames
      /\ \A t \in PtFrames : /\ t \in s.pt <=> K[t] = 0
                             /\ K[t] = 5 <=> t = stack
                             /\ K[t] = 6 <=> t = pmd
                             /\ K[t] = 4 <=> t = r
                             /\ K[t] = 3 <=> t = Third
                             /\ K[t] \notin 1..4 => \A i \in Index : s.mem[t][i] = NoEntry
  <2>1. Kind(K, 3) = {Third}
    BY LevelsAre
  <2> QED
    BY <2>1 DEF Owned, Tree, FreeKinds, OthersClean, Root, Kind
<1> HIDE DEF l3, l2, l1
<1>3. /\ z.mem = [t \in PtFrames |-> [i \in Index |->
                    IF t \in {r} \cup l2 \cup l1 \/ (t \in l3 /\ i # 0) THEN NoEntry ELSE s.mem[t][i]]]
      /\ z.pt = s.pt \cup {r} \cup l3 \cup l2 \cup l1
      /\ z.user = s.user \cup (Children(s, l1, 0) \cap UserFrames) /\ z.at = s.at
      /\ z = [mem |-> z.mem, pt |-> z.pt, user |-> z.user, at |-> z.at]
  BY <1>0, <1>2 DEF Machines
<1>4. y.mem = z.mem /\ y.pt = z.pt \cup {stack, pmd} /\ y.user = z.user /\ y.at = 0
      /\ y = [mem |-> y.mem, pt |-> y.pt, user |-> y.user, at |-> y.at]
  BY <1>3 DEF z
<1>5. y.pt = PtFrames
  <2>1. y.pt \subseteq PtFrames
    <3>1. s.pt \subseteq PtFrames /\ l2 \subseteq PtFrames /\ l1 \subseteq PtFrames
      BY <1>1, <1>2 DEF Kind, Machines
    <3> QED
      BY <1>1, <1>2, <1>3, <1>4, <3>1
  <2>2. ASSUME NEW t \in PtFrames PROVE t \in y.pt
    <3>1. K[t] \in {0, 1, 2, 3, 4, 5, 6}
      BY <1>2
    <3> QED
      BY <1>1, <1>2, <1>3, <1>4, <3>1 DEF Kind
  <2> QED
    BY <2>1, <2>2
<1>6. y.user = UserFrames
  BY <1>1, <1>2, <1>3, <1>4 DEF Machines
<1>7. \A t \in PtFrames, i \in Index : t # Third \/ i # 0 => y.mem[t][i] = NoEntry
  <2> SUFFICES ASSUME NEW t \in PtFrames, NEW i \in Index, t # Third \/ i # 0
               PROVE  y.mem[t][i] = NoEntry
    OBVIOUS
  <2>1. y.mem[t][i] = IF t \in {r} \cup l2 \cup l1 \/ (t \in l3 /\ i # 0) THEN NoEntry ELSE s.mem[t][i]
    BY <1>3, <1>4
  <2>2. CASE K[t] \in 1..4
    <3>1. t = r \/ t \in l2 \/ t \in l1 \/ t = Third
      BY <1>1, <1>2, <2>2 DEF Kind
    <3> QED
      BY <1>1, <2>1, <3>1
  <2>3. CASE K[t] \notin 1..4
    BY <1>2, <2>1, <2>3
  <2> QED
    BY <2>2, <2>3
<1>8. y.mem \in [PtFrames -> [Index -> Entries]]
  BY <1>2, <1>3, <1>4, EntryIs DEF Machines
<1>9. y \in Machines
  BY <1>4, <1>5, <1>6, <1>8 DEF Machines
<1> QED
  BY <1>4, <1>5, <1>6, <1>7, <1>9 DEF Idle

-----------------------------------------------------------------------------
(* What the CPU finds on the way to a page: the rights of the way are      *)
(* those of its last entry.                                                *)
LEMMA WalkIs ==
  ASSUME NEW s, NEW K, Tree(s, K), NEW r, Root(K, r), NEW q \in AllPages, NEW e, e = PathTo(s, r, q)
  PROVE  /\ Has0(s, r, q) => /\ Len(e) = 4 /\ e[4].f = At0(s, r, q) /\ e[4].f \in UserFrames \ s.user
                             /\ \A l \in 1..4 : e[l].p /\ e[l].u
                             /\ (\A l \in 1..4 : e[l].w) <=> Leaf(s, r, q).w
                             /\ Leaf(s, r, q) \in Entries /\ Leaf(s, r, q).f = At0(s, r, q)
         /\ Len(e) = 4 /\ e[4].p => Has0(s, r, q)
         /\ Len(e) = 4 /\ (\A l \in 1..4 : e[l].p) => Has0(s, r, q)
         /\ Mapped(s, r, q) <=> Has0(s, r, q)
<1>1. Len(e) = 4 /\ e[4].p => Has0(s, r, q)
  BY PathIs
<1>2. ASSUME Has0(s, r, q)
      PROVE  /\ Len(e) = 4 /\ e[4].f = At0(s, r, q) /\ e[4].f \in UserFrames \ s.user
             /\ \A l \in 1..4 : e[l].p /\ e[l].u
             /\ (\A l \in 1..4 : e[l].w) <=> Leaf(s, r, q).w
             /\ Leaf(s, r, q) \in Entries /\ Leaf(s, r, q).f = At0(s, r, q)
  <2> DEFINE a == At3(s, r, q)
             b == At2(s, r, q)
             c == At1(s, r, q)
             i4 == Idx[q][4]
             i3 == Idx[q][3]
             i2 == Idx[q][2]
             i1 == Idx[q][1]
  <2>1. /\ Len(e) = 4 /\ e[1] = s.mem[r][i4] /\ e[2] = s.mem[a][i3]
        /\ e[3] = s.mem[b][i2] /\ e[4] = s.mem[c][i1] /\ e[4].f = At0(s, r, q)
    BY <1>2, PathIs
  <2>2. /\ Edge(s, r, i4) /\ To(s, r, i4) = a /\ Edge(s, a, i3) /\ To(s, a, i3) = b
        /\ Edge(s, b, i2) /\ To(s, b, i2) = c /\ Edge(s, c, i1)
    BY <1>2 DEF Has0, Has1, Has2, Has3, At3, At2, At1
  <2>3. /\ i1 \in Index /\ i2 \in Index /\ i3 \in Index /\ i4 \in Index /\ r \in PtFrames
    BY IndicesIn DEF Root
  <2>4. /\ Has3(s, r, q) /\ Has2(s, r, q) /\ Has1(s, r, q)
    BY <1>2 DEF Has0, Has1, Has2
  <2>5. /\ a \in PtFrames /\ b \in PtFrames /\ c \in PtFrames /\ At0(s, r, q) \in UserFrames \ s.user
        /\ s.mem[r][i4].u /\ s.mem[a][i3].u /\ s.mem[b][i2].u /\ s.mem[c][i1].u
    BY <1>2, <2>4, WayKinds
  <2>6. Leaf(s, r, q) = s.mem[c][i1] /\ Leaf(s, r, q) \in Entries
    BY <2>3, <2>5 DEF Leaf, Tree, Machines
  <2> HIDE DEF a, b, c, i4, i3, i2, i1
  <2>7. s.mem[c][i1].w => s.mem[b][i2].w /\ s.mem[a][i3].w /\ s.mem[r][i4].w
    BY <2>2, <2>3, <2>5 DEF Tree, WriteDown
  <2>8. \A l \in 1..4 : l \in {1, 2, 3, 4}
    OBVIOUS
  <2>9. \A l \in 1..4 : e[l].p /\ e[l].u
    BY <2>1, <2>2, <2>5, <2>8 DEF Edge
  <2>10. (\A l \in 1..4 : e[l].w) <=> s.mem[c][i1].w
    <3>1. 4 \in 1..4
      OBVIOUS
    <3>2. ASSUME s.mem[c][i1].w, NEW l \in 1..4 PROVE e[l].w
      BY <2>1, <2>7, <2>8, <3>2
    <3> QED
      BY <2>1, <3>1, <3>2
  <2> QED
    BY <2>1, <2>5, <2>6, <2>9, <2>10
<1>3. Len(e) = 4 /\ (\A l \in 1..4 : e[l].p) => Has0(s, r, q)
  <2>1. 4 \in 1..4
    OBVIOUS
  <2> QED
    BY <1>1, <2>1
<1>4. Mapped(s, r, q) <=> Has0(s, r, q)
  BY PathIs
<1> QED
  BY <1>1, <1>2, <1>3, <1>4

-----------------------------------------------------------------------------
(* The pages of a segment that a process may use, with free as next_free.  *)
Own(free, seg) == CASE seg = "CODE"     -> CodeSet(CodePages)
                    [] seg \in Movable  -> Start[seg]..free[seg]-1
                    [] seg = "STACK"    -> Start[seg]..End[seg]
MayRead(free)  == UNION {Own(free, seg) : seg \in Segs}
MayWrite(free) == Own(free, "DATA") \cup Own(free, "STACK")
InRange(free)  == /\ free \in [Movable -> Nat]
                  /\ \A seg \in Movable : free[seg] \in Start[seg]..End[seg]

(* The tables give nothing but what a process may use, with its rights,    *)
(* and all of its code.                                                    *)
Granted(s, r, free) ==
    /\ \A q \in AllPages : Has0(s, r, q) => /\ q \in MayRead(free)
                                            /\ Leaf(s, r, q).w <=> q \in MayWrite(free)
    /\ \A q \in CodeSet(CodePages) : Has0(s, r, q)

(* The pages of the segments: apart from each other, and none of the       *)
(* kernel's.                                                               *)
LEMMA OwnIs ==
  ASSUME NEW free, InRange(free)
  PROVE  /\ \A seg \in Segs : Own(free, seg) \subseteq Start[seg]..End[seg]
         /\ \A a, b \in Segs : a # b => Own(free, a) \cap Own(free, b) = {}
         /\ \A seg \in Segs : \A p \in Start[seg]..End[seg] :
               p \in Pages /\ p \in AllPages /\ p \in Nat /\ UserPage(p) /\ Idx[p][4] = 0
         /\ Own(free, "CODE") = CodeSet(CodePages)
         /\ Own(free, "STACK") = Start["STACK"]..End["STACK"]
         /\ \A seg \in Movable : Own(free, seg) = Start[seg]..free[seg]-1 /\ seg \in Segs
         /\ Segs = {"CODE", "RODATA", "DATA", "STACK"} /\ Movable = {"RODATA", "DATA"}
         /\ \A seg \in Segs : Start[seg] \in Nat /\ End[seg] \in Nat /\ Start[seg] < End[seg]
         /\ \A a, b \in Segs : a # b => End[a] < Start[b] \/ End[b] < Start[a]
<1>1. /\ Segs = {"CODE", "RODATA", "DATA", "STACK"} /\ Movable = {"RODATA", "DATA"}
  BY DEF Segs, Movable
<1>2. \A seg \in Segs : /\ Start[seg] \in Nat /\ End[seg] \in Nat /\ Start[seg] < End[seg]
  BY SegsAssumption, FanIs
<1>3. \A seg \in Segs : \A p \in Start[seg]..End[seg] :
               p \in Pages /\ p \in AllPages /\ p \in Nat /\ UserPage(p) /\ Idx[p][4] = 0
  BY SegPage, <1>2 DEF UserPage
<1>4. /\ Own(free, "CODE") = CodeSet(CodePages)
      /\ Own(free, "STACK") = Start["STACK"]..End["STACK"]
      /\ \A seg \in Movable : Own(free, seg) = Start[seg]..free[seg]-1 /\ seg \in Segs
  BY <1>1 DEF Own
<1>5. \A a, b \in Segs : a # b => End[a] < Start[b] \/ End[b] < Start[a]
  BY SegsAssumption
<1>6. \A seg \in Segs : Own(free, seg) \subseteq Start[seg]..End[seg]
  <2> TAKE seg \in Segs
  <2>1. CASE seg = "CODE"
    BY <1>2, <1>4, <2>1, SegsAssumption DEF CodeSet
  <2>2. CASE seg = "STACK"
    BY <1>4, <2>2
  <2>3. CASE seg \in Movable
    BY <1>2, <1>4, <2>3 DEF InRange
  <2> QED
    BY <1>1, <2>1, <2>2, <2>3
<1>7. \A a, b \in Segs : a # b => Own(free, a) \cap Own(free, b) = {}
  <2> SUFFICES ASSUME NEW a \in Segs, NEW b \in Segs, a # b, NEW p, p \in Own(free, a), p \in Own(free, b)
               PROVE  FALSE
    OBVIOUS
  <2>1. p \in Start[a]..End[a] /\ p \in Start[b]..End[b]
    BY <1>6
  <2> QED
    BY <1>2, <1>5, <2>1
<1> QED
  BY <1>1, <1>2, <1>3, <1>4, <1>5, <1>6, <1>7

(* A fault that is handled maps a page of the segment. *)
LEMMA ResolveIs ==
  ASSUME NEW s, NEW K, NEW r, NEW stack, NEW pmd, Owned(s, K, r, stack, pmd),
         NEW free, InRange(free), Granted(s, r, free),
         NEW seg \in Segs \ {"CODE"}, NEW p \in Own(free, seg), ~Has0(s, r, p),
         s.user # {}, Need(s, r, p) <= Cardinality(s.pt), NEW w \in BOOLEAN, w = Writable(seg),
         NEW z, z = FaultPath(s, r, p, w)
  PROVE  /\ z.at = 0 /\ Granted(z, r, free)
         /\ \E L : Owned(z, L, r, stack, pmd) /\ Installed(s, K, z, L, r, p, w)
<1>1. /\ Tree(s, K) /\ Root(K, r) /\ UserPage(p) /\ p \in AllPages /\ Idx[p][4] = 0 /\ Edge(s, r, 0)
      /\ Third \in PtFrames \/ Third \notin PtFrames
  BY OwnIs DEF Owned
<1>2. z.at = 0 /\ \E L : Installed(s, K, z, L, r, p, w)
  BY <1>1, FaultPathIs
<1>3. PICK L : Installed(s, K, z, L, r, p, w)
  BY <1>2
<1>4. Has3(s, r, p)
  BY <1>1 DEF Has3
<1>5. Owned(z, L, r, stack, pmd)
  <2>1. Tree(z, L) /\ Root(L, r) /\ Grow(s, z)
    BY <1>3 DEF Installed
  <2>2. r \in PtFrames /\ 0 \in Index /\ Third \in PtFrames
    <3>1. Kind(K, 3) = {Third}
      BY LevelsAre
    <3> QED
      BY <1>1, <3>1, IndexIs DEF Root, Kind
  <2>3. Edge(z, r, 0) /\ Edge(z, Third, 0)
    BY <2>1, <2>2 DEF Owned, Grow
  <2>4. \A t \in PtFrames : (L[t] = 5 <=> t = stack) /\ (L[t] = 6 <=> t = pmd) /\ (L[t] = 3 => t = Third)
    <3> TAKE t \in PtFrames
    <3>1. (K[t] = 5 <=> t = stack) /\ (K[t] = 6 <=> t = pmd) /\ (K[t] = 3 => t = Third)
      BY DEF Owned
    <3>2. /\ K[t] # 0 => L[t] = K[t]
          /\ L[t] \in {5, 6} => K[t] = L[t]
          /\ L[t] = 3 /\ K[t] # 3 => ~Has3(s, r, p)
      BY <1>3 DEF Installed
    <3> QED
      BY <1>4, <3>1, <3>2
  <2> QED
    BY <2>1, <2>3, <2>4 DEF Owned
<1>6. Granted(z, r, free)
  <2>1. ASSUME NEW q \in AllPages, Has0(z, r, q)
        PROVE  q \in MayRead(free) /\ (Leaf(z, r, q).w <=> q \in MayWrite(free))
    <3>1. CASE q = p
      <4>1. Leaf(z, r, p).w = w
        BY <1>3 DEF Installed, Entry
      <4>2. p \in MayRead(free)
        BY DEF MayRead
      <4>3. seg \in {"RODATA", "DATA", "STACK"}
        BY DEF Segs
      <4>4. p \in MayWrite(free) <=> seg \in {"DATA", "STACK"}
        BY <4>3, OwnIs DEF MayWrite
      <4> QED
        BY <3>1, <4>1, <4>2, <4>4 DEF Writable
    <3>2. CASE q # p
      BY <1>3, <2>1, <3>2 DEF Installed, Granted
    <3> QED
      BY <3>1, <3>2
  <2>2. ASSUME NEW q \in CodeSet(CodePages) PROVE Has0(z, r, q)
    <3>1. Has0(s, r, q) /\ q \in AllPages
      BY OwnIs DEF Granted, Segs
    <3> QED
      BY <1>3, <3>1 DEF Installed
  <2> QED
    BY <2>1, <2>2 DEF Granted
<1> QED
  BY <1>2, <1>3, <1>5, <1>6

(* shrink(n) of a segment lowers next_free from free to left and takes the *)
(* pages between. *)
Lowered(free, left, given, seg, n) ==
    /\ n \in Nat /\ free[seg] - n >= Start[seg]
    /\ left = [free EXCEPT ![seg] = free[seg] - n]
    /\ given = free[seg]-n..free[seg]-1

(* What shrink takes back is no longer granted. *)
LEMMA ShrinkIs ==
  ASSUME NEW s, NEW K, NEW r, NEW stack, NEW pmd, Owned(s, K, r, stack, pmd),
         NEW free, InRange(free), Granted(s, r, free), NEW seg \in Movable, NEW n,
         NEW left, NEW given, Lowered(free, left, given, seg, n),
         NEW z, z = free1(s, r, given)
  PROVE  /\ Owned(z, K, r, stack, pmd) /\ z.at = s.at /\ Granted(z, r, left) /\ InRange(left)
         /\ given \subseteq AllPages
         /\ \A q \in AllPages : /\ Has0(z, r, q) <=> Has0(s, r, q) /\ q \notin given
                                /\ Has0(z, r, q) => Leaf(z, r, q) = Leaf(s, r, q)
<1>0. /\ n \in Nat /\ free[seg] - n >= Start[seg] /\ given = free[seg]-n..free[seg]-1
      /\ left = [free EXCEPT ![seg] = free[seg] - n]
  BY DEF Lowered
<1>1. /\ Tree(s, K) /\ Root(K, r) /\ seg \in Segs /\ Start[seg] \in Nat /\ End[seg] \in Nat
      /\ free[seg] \in Start[seg]..End[seg] /\ Segs = {"CODE", "RODATA", "DATA", "STACK"}
      /\ Movable = {"RODATA", "DATA"}
  BY OwnIs DEF Owned, InRange
<1>2. given \subseteq Own(free, seg) /\ given \subseteq AllPages
  <2>1. given \subseteq Start[seg]..free[seg]-1
    BY <1>0, <1>1
  <2>2. Own(free, seg) = Start[seg]..free[seg]-1
    BY OwnIs
  <2>3. Own(free, seg) \subseteq Start[seg]..End[seg] /\ Start[seg]..End[seg] \subseteq AllPages
    <3>1. Own(free, seg) \subseteq Start[seg]..End[seg]
      BY <1>1, OwnIs
    <3>2. \A p \in Start[seg]..End[seg] : p \in AllPages
      BY <1>1, OwnIs
    <3> QED
      BY <3>1, <3>2
  <2> QED
    BY <2>1, <2>2, <2>3
<1>3. InRange(left)
  BY <1>0, <1>1 DEF InRange
<1>4. /\ \A a \in Segs \ {seg} : Own(left, a) = Own(free, a)
      /\ Own(left, seg) = Own(free, seg) \ given
  <2>1. \A a \in Movable \ {seg} : left[a] = free[a]
    BY <1>0 DEF InRange
  <2>2. left[seg] = free[seg] - n
    BY <1>0 DEF InRange
  <2>3. /\ Own(left, "CODE") = Own(free, "CODE") /\ Own(left, "STACK") = Own(free, "STACK")
        /\ \A a \in Movable : Own(left, a) = Start[a]..left[a]-1 /\ Own(free, a) = Start[a]..free[a]-1
    BY <1>3, OwnIs
  <2>4. Own(left, seg) = Own(free, seg) \ given
    <3>1. Own(left, seg) = Start[seg]..left[seg]-1 /\ Own(free, seg) = Start[seg]..free[seg]-1
      BY <2>3
    <3>2. free[seg] \in Nat /\ Start[seg] \in Nat
      BY <1>1
    <3> QED
      BY ONLY <2>2, <3>1, <3>2, <1>0
  <2> QED
    BY <1>1, <2>1, <2>3, <2>4
<1>5. /\ Tree(z, K) /\ z.pt = s.pt /\ z.at = s.at
      /\ \A t \in PtFrames, i \in Index : K[t] # 1 => z.mem[t][i] = s.mem[t][i]
      /\ \A q \in AllPages : /\ Has0(z, r, q) <=> Has0(s, r, q) /\ q \notin given
                             /\ Has0(z, r, q) => Leaf(z, r, q) = Leaf(s, r, q)
  BY <1>1, <1>2, Free1Is
<1>6. Owned(z, K, r, stack, pmd)
  <2>1. r \in PtFrames /\ 0 \in Index /\ Third \in PtFrames /\ K[Third] = 3 /\ K[r] = 4
    <3>1. Kind(K, 3) = {Third}
      BY LevelsAre
    <3> QED
      BY <1>1, <3>1, IndexIs DEF Root, Kind
  <2>2. Edge(z, r, 0) /\ Edge(z, Third, 0)
    BY <1>5, <2>1 DEF Owned, Edge
  <2> QED
    BY <1>5, <2>2 DEF Owned
<1>7. Granted(z, r, left)
  <2>1. ASSUME NEW q \in AllPages, Has0(z, r, q)
        PROVE  q \in MayRead(left) /\ (Leaf(z, r, q).w <=> q \in MayWrite(left))
    <3>1. /\ Has0(s, r, q) /\ q \notin given /\ Leaf(z, r, q) = Leaf(s, r, q)
          /\ q \in MayRead(free) /\ (Leaf(s, r, q).w <=> q \in MayWrite(free))
      BY <1>5, <2>1 DEF Granted
    <3>2. \A a \in Segs : q \in Own(left, a) <=> q \in Own(free, a)
      BY <1>4, <3>1
    <3>3. q \in MayRead(left)
      BY <3>1, <3>2 DEF MayRead
    <3>4. q \in MayWrite(left) <=> q \in MayWrite(free)
      BY <1>1, <3>2 DEF MayWrite
    <3> QED
      BY <3>1, <3>3, <3>4
  <2>2. ASSUME NEW q \in CodeSet(CodePages) PROVE Has0(z, r, q)
    <3>1. Has0(s, r, q) /\ q \in Own(free, "CODE") /\ "CODE" \in Segs /\ "CODE" # seg
      BY <1>1, OwnIs DEF Granted
    <3>2. q \notin given /\ q \in AllPages
      BY <1>1, <1>2, <3>1, OwnIs
    <3> QED
      BY <1>5, <3>1, <3>2
  <2> QED
    BY <2>1, <2>2 DEF Granted
<1> QED
  BY <1>2, <1>3, <1>5, <1>6, <1>7

(* A new process may use what it was given. *)
LEMMA ExecGranted ==
  ASSUME NEW s, NEW r, Holds(s, r, CodeSet(CodePages) \cup {Start["DATA"], End["STACK"]},
                             {Start["DATA"], End["STACK"]}),
         NEW free, free = [seg \in Movable |-> IF seg = "DATA" THEN Start[seg] + 1 ELSE Start[seg]]
  PROVE  Granted(s, r, free) /\ InRange(free)
<1>1. \A seg \in Movable : Start[seg] \in Nat /\ End[seg] \in Nat /\ Start[seg] < End[seg]
  BY SegsAssumption, FanIs DEF Segs, Movable
<1>2. InRange(free)
  BY <1>1 DEF InRange
<1>3. Start["DATA"] \in Own(free, "DATA") /\ End["STACK"] \in Own(free, "STACK")
  <2>1. Own(free, "DATA") = Start["DATA"]..free["DATA"]-1 /\ free["DATA"] = Start["DATA"] + 1
    BY <1>2, OwnIs
  <2>2. Own(free, "STACK") = Start["STACK"]..End["STACK"] /\ Start["STACK"] < End["STACK"]
        /\ Start["STACK"] \in Nat /\ End["STACK"] \in Nat
    BY <1>2, OwnIs DEF Segs
  <2> QED
    BY <1>1, <2>1, <2>2 DEF Movable
<1>4. ASSUME NEW q \in AllPages, Has0(s, r, q)
      PROVE  q \in MayRead(free) /\ (Leaf(s, r, q).w <=> q \in MayWrite(free))
  <2>1. /\ q \in CodeSet(CodePages) \cup {Start["DATA"], End["STACK"]}
        /\ Leaf(s, r, q).w <=> q \in {Start["DATA"], End["STACK"]}
    BY <1>4 DEF Holds
  <2>2. CASE q \in {Start["DATA"], End["STACK"]}
    BY <1>3, <2>1, <2>2 DEF MayRead, MayWrite, Segs
  <2>3. CASE q \notin {Start["DATA"], End["STACK"]}
    <3>1. q \in Own(free, "CODE")
      BY <1>2, <2>1, <2>3, OwnIs
    <3>2. {"CODE", "DATA", "STACK"} \subseteq Segs
      BY DEF Segs
    <3>3. q \notin MayWrite(free)
      BY <1>2, <3>1, <3>2, OwnIs DEF MayWrite
    <3> QED
      BY <2>1, <2>3, <3>1, <3>2, <3>3 DEF MayRead
  <2> QED
    BY <2>2, <2>3
<1>5. \A q \in CodeSet(CodePages) : Has0(s, r, q)
  <2> TAKE q \in CodeSet(CodePages)
  <2>1. q \in AllPages
    BY <1>2, OwnIs DEF Segs
  <2> QED
    BY <2>1 DEF Holds
<1> QED
  BY <1>2, <1>4, <1>5 DEF Granted

-----------------------------------------------------------------------------
(* What the CPU may do with a page. *)
Lets(s, r, p, w) == LET e == PathTo(s, r, p)
                    IN  Len(e) = 4 /\ \A l \in 1..4 : e[l].p /\ e[l].u /\ (w => e[l].w)

(* The tables missing on the way to a page. *)
Missing(s, r, p) == 4 - Len(PathTo(s, r, p))

(* The tables missing on the way, counted from the path. *)
LEMMA MissingIs ==
  ASSUME NEW s, NEW r, NEW p
  PROVE  Missing(s, r, p) = Need(s, r, p)
<1> DEFINE e4 == s.mem[r][Idx[p][4]]
           e3 == s.mem[e4.f][Idx[p][3]]
           e2 == s.mem[e3.f][Idx[p][2]]
           e1 == s.mem[e2.f][Idx[p][1]]
<1>1. PathTo(s, r, p) = IF ~e4.p THEN <<e4>> ELSE IF ~e3.p THEN <<e4, e3>>
                        ELSE IF ~e2.p THEN <<e4, e3, e2>> ELSE <<e4, e3, e2, e1>>
  BY DEF PathTo, Below
<1>2. /\ Has3(s, r, p) <=> e4.p
      /\ Has2(s, r, p) <=> e4.p /\ e3.p
      /\ Has1(s, r, p) <=> e4.p /\ e3.p /\ e2.p
  BY DEF Has3, Has2, Has1, At3, At2, Edge, To
<1> HIDE DEF e4, e3, e2, e1
<1>3. /\ Len(<<e4>>) = 1 /\ Len(<<e4, e3>>) = 2 /\ Len(<<e4, e3, e2>>) = 3
      /\ Len(<<e4, e3, e2, e1>>) = 4
  OBVIOUS
<1>4. CASE ~e4.p
  BY <1>1, <1>2, <1>3, <1>4 DEF Missing, Need
<1>5. CASE e4.p /\ ~e3.p
  BY <1>1, <1>2, <1>3, <1>5 DEF Missing, Need
<1>6. CASE e4.p /\ e3.p /\ ~e2.p
  BY <1>1, <1>2, <1>3, <1>6 DEF Missing, Need
<1>7. CASE e4.p /\ e3.p /\ e2.p
  BY <1>1, <1>2, <1>3, <1>7 DEF Missing, Need
<1> QED
  BY <1>4, <1>5, <1>6, <1>7

(* A process that runs: its tables are a tree that belongs to it alone and *)
(* that maps nothing but what it was granted.                              *)
Fits(s, r, stack, pmd, free) ==
    /\ s.at = 0 /\ Granted(s, r, free) /\ InRange(free)
    /\ \E K : Owned(s, K, r, stack, pmd)

(* Translations the tables give. *)
Cached(s, r, T) ==
    /\ T \subseteq [page : Pages, f : UserFrames, w : BOOLEAN]
    /\ IsFiniteSet(T) /\ Cardinality(T) <= TlbSize
    /\ \A t \in T : /\ Has0(s, r, t.page) /\ t.f = At0(s, r, t.page)
                    /\ t.w => Leaf(s, r, t.page).w

(* What the CPU finds on the way to a page, in a machine whose tables fit  *)
(* the segments.                                                           *)
LEMMA FitsWalk ==
  ASSUME NEW s, NEW r, NEW stack, NEW pmd, NEW free, Fits(s, r, stack, pmd, free),
         NEW q \in Pages, NEW e, e = PathTo(s, r, q)
  PROVE  /\ q \in AllPages
         /\ Has0(s, r, q) <=> Len(e) = 4 /\ e[4].p
         /\ Has0(s, r, q) <=> Mapped(s, r, q)
         /\ Has0(s, r, q) => /\ Len(e) = 4 /\ e[4].p /\ e[4].f = At0(s, r, q)
                             /\ At0(s, r, q) \in UserFrames \ s.user
                             /\ (\A l \in 1..4 : e[l].w) <=> Leaf(s, r, q).w
         /\ \A w \in BOOLEAN : Lets(s, r, q, w) <=> Has0(s, r, q) /\ (w => Leaf(s, r, q).w)
<1>1. PICK K : Owned(s, K, r, stack, pmd)
  BY DEF Fits
<1>2. Tree(s, K) /\ Root(K, r) /\ q \in AllPages
  BY <1>1, FanIs DEF Owned
<1>3. /\ Has0(s, r, q) => /\ Len(e) = 4 /\ e[4].f = At0(s, r, q) /\ e[4].f \in UserFrames \ s.user
                          /\ \A l \in 1..4 : e[l].p /\ e[l].u
                          /\ (\A l \in 1..4 : e[l].w) <=> Leaf(s, r, q).w
      /\ Len(e) = 4 /\ e[4].p => Has0(s, r, q)
      /\ Len(e) = 4 /\ (\A l \in 1..4 : e[l].p) => Has0(s, r, q)
      /\ Mapped(s, r, q) <=> Has0(s, r, q)
  BY <1>2, WalkIs
<1>4. 4 \in 1..4
  OBVIOUS
<1>5. ASSUME Has0(s, r, q) PROVE e[4].p
  <2>1. \A l \in 1..4 : e[l].p
    BY <1>3, <1>5
  <2> QED
    BY ONLY <1>4, <2>1
<1>6. ASSUME NEW w \in BOOLEAN
      PROVE  Lets(s, r, q, w) <=> Has0(s, r, q) /\ (w => Leaf(s, r, q).w)
  <2>1. Lets(s, r, q, w) <=> Len(e) = 4 /\ \A l \in 1..4 : e[l].p /\ e[l].u /\ (w => e[l].w)
    BY DEF Lets
  <2>2. CASE Has0(s, r, q)
    <3>1. Len(e) = 4 /\ \A l \in 1..4 : e[l].p /\ e[l].u
      BY <1>3, <2>2
    <3>2. (\A l \in 1..4 : e[l].w) <=> Leaf(s, r, q).w
      BY <1>3, <2>2
    <3> QED
      BY ONLY <2>1, <2>2, <3>1, <3>2
  <2>3. CASE ~Has0(s, r, q)
    <3>1. ~(Len(e) = 4 /\ (\A l \in 1..4 : e[l].p))
      BY <1>3, <2>3
    <3> QED
      BY ONLY <2>1, <2>3, <3>1
  <2> QED
    BY <2>2, <2>3
<1>7. Has0(s, r, q) => At0(s, r, q) \in UserFrames \ s.user
  BY <1>3
<1> QED
  BY ONLY <1>2, <1>3, <1>5, <1>6, <1>7

(* The tables of a new process fit its segments. *)
LEMMA StartFits ==
  ASSUME EnoughToStart, NEW s, Idle(s), NEW e, e = Exec(s),
         NEW free, free = [seg \in Movable |-> IF seg = "DATA" THEN Start[seg] + 1 ELSE Start[seg]]
  PROVE  /\ Fits(e.m, e.root, e.stack, e.pmd, free) /\ e.root \in PtFrames /\ e.root # 0
         /\ \A q \in Pages : Has0(e.m, e.root, q) <=>
               q \in CodeSet(CodePages) \cup {Start["DATA"], End["STACK"]}
<1> DEFINE S == CodeSet(CodePages) \cup {Start["DATA"], End["STACK"]}
           T == {Start["DATA"], End["STACK"]}
<1>1. /\ e.stack = Stack0 /\ e.root = Root0 /\ e.m.at = 0
      /\ \E K : Owned(e.m, K, Root0, Stack0, e.pmd)
      /\ Holds(e.m, Root0, S, T)
  BY ExecIs
<1>2. Granted(e.m, Root0, free) /\ InRange(free)
  BY <1>1, ExecGranted
<1>3. Root0 \in PtFrames /\ Root0 # 0
  BY FirstFrames, FramesAssumption
<1>4. \A q \in Pages : Has0(e.m, Root0, q) <=> q \in S
  BY <1>1, FanIs DEF Holds
<1> QED
  BY <1>1, <1>2, <1>3, <1>4 DEF Fits

(* do_exit gives back every frame and leaves them empty. *)
LEMMA EndIdle ==
  ASSUME NEW s, NEW r, NEW stack, NEW pmd, NEW free, Fits(s, r, stack, pmd, free),
         NEW t, t = Teardown(s, r), NEW y, y = [t EXCEPT !.pt = @ \cup {stack, pmd}]
  PROVE  Idle(y)
<1>1. PICK K : Owned(s, K, r, stack, pmd)
  BY DEF Fits
<1> QED
  BY <1>1, TeardownIs DEF Fits

(* A handled fault keeps the tables fitting and adds one page. *)
LEMMA FaultFits ==
  ASSUME NEW s, NEW r, NEW stack, NEW pmd, NEW free, Fits(s, r, stack, pmd, free),
         NEW seg \in Segs \ {"CODE"}, NEW p \in Own(free, seg), ~Has0(s, r, p),
         s.user # {}, Missing(s, r, p) <= Cardinality(s.pt),
         NEW w \in BOOLEAN, w = Writable(seg), NEW z, z = FaultPath(s, r, p, w)
  PROVE  /\ Fits(z, r, stack, pmd, free) /\ z.user \subseteq s.user
         /\ Has0(z, r, p) /\ At0(z, r, p) \in s.user /\ Leaf(z, r, p).w = w
         /\ \A q \in Pages \ {p} : /\ Has0(z, r, q) <=> Has0(s, r, q)
                                   /\ Has0(s, r, q) => Leaf(z, r, q) = Leaf(s, r, q)
                                                       /\ At0(z, r, q) = At0(s, r, q)
<1>1. PICK K : Owned(s, K, r, stack, pmd)
  BY DEF Fits
<1>2. Need(s, r, p) <= Cardinality(s.pt)
  BY MissingIs
<1>3. /\ z.at = 0 /\ Granted(z, r, free)
      /\ \E L : Owned(z, L, r, stack, pmd) /\ Installed(s, K, z, L, r, p, w)
  BY <1>1, <1>2, ResolveIs DEF Fits
<1>4. PICK L : Owned(z, L, r, stack, pmd) /\ Installed(s, K, z, L, r, p, w)
  BY <1>3
<1>5. Fits(z, r, stack, pmd, free)
  BY <1>3, <1>4 DEF Fits
<1>6. Min(s.user) \in s.user /\ Min(s.user) \in UserFrames
  <2>1. s \in Machines
    BY <1>1 DEF Owned, Tree
  <2> QED
    BY <2>1, PtFinite DEF Machines
<1>7. Leaf(z, r, p).w = w /\ Leaf(z, r, p).f = Min(s.user)
  BY <1>4, <1>6, EntryIs DEF Installed
<1>8. \A q \in Pages \ {p} : /\ Has0(z, r, q) <=> Has0(s, r, q)
                             /\ Has0(s, r, q) => Leaf(z, r, q) = Leaf(s, r, q)
  BY <1>4, FanIs DEF Installed
<1>9. \A q : At0(z, r, q) = Leaf(z, r, q).f /\ At0(s, r, q) = Leaf(s, r, q).f
  BY DEF At0, To, Leaf
<1> QED
  BY <1>4, <1>5, <1>6, <1>7, <1>8, <1>9 DEF Installed

(* A shrink keeps the tables fitting and takes the given pages away, and no*)
(* others.                                                                 *)
LEMMA ShrinkFits ==
  ASSUME NEW s, NEW r, NEW stack, NEW pmd, NEW free, Fits(s, r, stack, pmd, free),
         NEW seg \in Movable, NEW n,
         NEW left, NEW given, Lowered(free, left, given, seg, n),
         NEW z, z = free1(s, r, given)
  PROVE  /\ Fits(z, r, stack, pmd, left)
         /\ \A q \in Pages : /\ Has0(z, r, q) <=> Has0(s, r, q) /\ q \notin given
                             /\ Has0(z, r, q) => Leaf(z, r, q) = Leaf(s, r, q)
                                                 /\ At0(z, r, q) = At0(s, r, q)
<1>1. PICK K : Owned(s, K, r, stack, pmd)
  BY DEF Fits
<1>2. /\ Owned(z, K, r, stack, pmd) /\ z.at = s.at /\ Granted(z, r, left) /\ InRange(left)
      /\ \A q \in AllPages : /\ Has0(z, r, q) <=> Has0(s, r, q) /\ q \notin given
                             /\ Has0(z, r, q) => Leaf(z, r, q) = Leaf(s, r, q)
  <2>1. InRange(free) /\ Granted(s, r, free)
    BY DEF Fits
  <2> QED
    BY ONLY <1>1, <2>1, ShrinkIs, seg \in Movable, Lowered(free, left, given, seg, n),
       z = free1(s, r, given)
<1>3. \A q : At0(z, r, q) = Leaf(z, r, q).f /\ At0(s, r, q) = Leaf(s, r, q).f
  BY DEF At0, To, Leaf
<1> QED
  BY <1>2, <1>3, FanIs DEF Fits

-----------------------------------------------------------------------------

(* No size reaches below page 0 or past the last page number. *)
SizesDontWrap ==
    \A seg \in Movable :
      /\ \A n \in ExpandArgs : End[seg] + n < W
      /\ \A n \in ShrinkArgs : n <= Start[seg]

FreeInv == next_free \in [Movable -> Nat] /\ NextFreeInRange

(* Modulo changes nothing below the modulus. *)
LEMMA SmallMod ==
    ASSUME NEW x \in Nat, NEW w \in Nat, x < w
    PROVE  x % w = x
  BY Z3

(* The bounds of RODATA and DATA are pages, in order. *)
LEMMA SegmentBounds ==
    ASSUME NEW seg \in Movable
    PROVE  /\ Start[seg] \in Nat /\ End[seg] \in Nat /\ W \in Nat
           /\ Start[seg] + 1 <= End[seg] /\ End[seg] < W
  <1>1. seg \in Segs
    BY DEF Movable, Segs
  <1>2. \A l \in 1..4 : Fan[l] \in Nat \ {0}
    BY FanAssumption
  <1>3. Fan[1] \in Nat /\ Fan[2] \in Nat /\ Fan[3] \in Nat /\ Fan[4] \in Nat
    BY <1>2
  <1>4. Fan[1] * Fan[2] \in Nat
    BY <1>3
  <1>5. NPages \in Nat
    <2>1. Fan[1] * Fan[2] * Fan[3] \in Nat
      BY <1>4, <1>3
    <2> QED BY <2>1, <1>3 DEF NPages
  <1>6. Start[seg] \in Pages /\ End[seg] \in Pages /\ Start[seg] < End[seg]
    BY <1>1, SegsAssumption
  <1> DEFINE low == Fan[1] * Fan[2]
  <1>7. Pages = low .. NPages-1 /\ low \in Nat
    BY <1>4 DEF Pages
  <1> HIDE DEF low
  <1> QED BY <1>5, <1>6, <1>7, FanAssumption

(* A context starts with next_free at or one page above the start. *)
LEMMA FreeAtStart ==
    ASSUME next_free' = [seg \in Movable |-> Start[seg]]
           \/ next_free' = [seg \in Movable |-> IF seg = "DATA" THEN Start[seg] + 1 ELSE Start[seg]]
    PROVE  FreeInv'
  BY SegmentBounds DEF FreeInv, NextFreeInRange

(* What expand grants stays below the end. *)
LEMMA ExpandInRange ==
    ASSUME SizesDontWrap, FreeInv, NEW seg \in Movable, NEW n \in ExpandArgs,
           SyscallExpand(seg, n)
    PROVE  FreeInv'
  <1>1. /\ n \in Nat /\ next_free[seg] \in Nat /\ next_free[seg] + n < W
        /\ next_free[seg] \in Start[seg]..End[seg]
    BY ArgsAssumption, SegmentBounds DEF SizesDontWrap, FreeInv, NextFreeInRange
  <1>2. (next_free[seg] + n) % W = next_free[seg] + n
    BY <1>1, SmallMod, SegmentBounds
  <1>3. CASE Beyond(seg, n)
    BY <1>3 DEF SyscallExpand, Answer, FreeInv, NextFreeInRange
  <1>4. CASE ~Beyond(seg, n)
    <2>1. next_free[seg] + n <= End[seg]
      BY <1>4, <1>2, <1>1, SegmentBounds DEF Beyond
    <2>2. next_free' = [next_free EXCEPT ![seg] = next_free[seg] + n]
      BY <1>4, <1>2 DEF SyscallExpand
    <2> QED BY <2>1, <2>2, <1>1, SegmentBounds DEF FreeInv, NextFreeInRange
  <1> QED BY <1>3, <1>4

(* What shrink grants stays above the start. *)
LEMMA ShrinkInRange ==
    ASSUME SizesDontWrap, FreeInv, NEW seg \in Movable, NEW n \in ShrinkArgs,
           SyscallShrink(seg, n)
    PROVE  FreeInv'
  <1>1. /\ n \in Nat /\ next_free[seg] \in Nat /\ n <= Start[seg]
        /\ next_free[seg] \in Start[seg]..End[seg]
    BY ArgsAssumption, SegmentBounds DEF SizesDontWrap, FreeInv, NextFreeInRange
  <1>2. Back(seg, n) = next_free[seg] - n
    <2>1. next_free[seg] - n \in Nat /\ next_free[seg] - n < W
      BY <1>1, SegmentBounds
    <2> QED BY <2>1, SmallMod, SegmentBounds DEF Back
  <1>3. CASE Back(seg, n) < Start[seg]
    BY <1>3 DEF SyscallShrink, Answer, FreeInv, NextFreeInRange
  <1>4. CASE ~(Back(seg, n) < Start[seg])
    <2>1. next_free' = [next_free EXCEPT ![seg] = Back(seg, n)]
      BY <1>4 DEF SyscallShrink
    <2> QED BY <2>1, <1>1, <1>2, <1>4, SegmentBounds DEF FreeInv, NextFreeInRange
  <1> QED BY <1>3, <1>4

(* No step takes next_free out of its segment, if no size wraps. *)
LEMMA FreeInvStep ==
    ASSUME SizesDontWrap, FreeInv, [Next]_vars
    PROVE  FreeInv'
  <1>1. CASE UNCHANGED next_free
    BY <1>1 DEF FreeInv, NextFreeInRange
  <1>2. CASE UNCHANGED vars
    BY <1>2, <1>1 DEF vars
  <1>3. CASE ExecInit
    BY <1>3, FreeAtStart DEF ExecInit
  <1>4. ASSUME NEW why, do_exit(why) PROVE FreeInv'
    BY <1>4, FreeAtStart DEF do_exit
  <1>5. CASE SyscallExit \/ handle_div_by_zero
    BY <1>5, <1>4 DEF SyscallExit, handle_div_by_zero
  <1>6. CASE SyscallWrite \/ SyscallWriteLong \/ SyscallWriteNothing
    BY <1>6, <1>1 DEF SyscallWrite, SyscallWriteLong, SyscallWriteNothing, Answer
  <1>7. ASSUME NEW p \in Pages, NEW w \in BOOLEAN, NEW v \in Values, Access(p, w, v)
        PROVE  FreeInv'
    BY <1>7, <1>1 DEF Access
  <1>8. ASSUME NEW p \in Pages, NEW w \in BOOLEAN, handle_page_fault(p, w)
        PROVE  FreeInv'
    <2>1. CASE DataFault(p, w) \/ RodataFault(p, w) \/ StackFault(p, w)
      BY <2>1, <1>1 DEF DataFault, RodataFault, StackFault, Resolve
    <2>2. CASE BadAccess(p, w)
      BY <2>2, <1>4 DEF BadAccess
    <2> QED BY <1>8, <2>1, <2>2 DEF handle_page_fault
  <1> QED BY <1>2, <1>3, <1>5, <1>6, <1>7, <1>8, ExpandInRange, ShrinkInRange DEF Next

(* next_free of RODATA and DATA never leaves the segment: expand and       *)
(* shrink refuse what would, when the sizes do not wrap.                   *)
THEOREM NextFreeStays == SizesDontWrap /\ Spec => []NextFreeInRange
  <1> SUFFICES ASSUME SizesDontWrap PROVE Spec => []NextFreeInRange
    OBVIOUS
  <1>1. Init => FreeInv
    BY SegmentBounds DEF Init, FreeInv, NextFreeInRange
  <1>2. FreeInv /\ [Next]_vars => FreeInv'
    BY FreeInvStep
  <1>3. FreeInv => NextFreeInRange
    BY DEF FreeInv
  <1> QED BY <1>1, <1>2, <1>3, PTL DEF Spec

-----------------------------------------------------------------------------
(* A page without a frame for which handle_page_fault takes one. *)
Faulty(p) == InData(p) \/ InRodata(p, FALSE) \/ InStack(p)

(* handle_page_fault finds a free frame for every table and page it needs. *)
FramesLeft == Running => \A p \in Pages : Faulty(p) =>
                 mm.user # {} /\ Missing(mm, pgd, p) <= Cardinality(mm.pt)

MemInv ==
    /\ data \in [UserFrames -> Values] /\ InRange(next_free)
    /\ Running => Fits(mm, pgd, os_stack, os_pmd, next_free) /\ Cached(mm, pgd, tlb)
    /\ ~Running => Idle(mm) /\ tlb = {} /\ os_stack = 0 /\ os_pmd = 0

(* An empty TLB repeats nothing wrong. *)
LEMMA CachedNone == ASSUME NEW s, NEW r PROVE Cached(s, r, {})
<1>1. IsFiniteSet({}) /\ Cardinality({}) = 0 /\ 0 <= TlbSize
  BY FS_EmptySet, ValuesAssumption
<1> QED
  BY <1>1 DEF Cached

(* The frames that change hands hold Old, the others what they held.       *)
LEMMA ContentsKept ==
  ASSUME data \in [UserFrames -> Values], Contents
  PROVE  /\ data' \in [UserFrames -> Values]
         /\ \A f \in UserFrames : data'[f] = IF f \in mm.user \cup mm'.user THEN Old ELSE data[f]
BY ValuesAssumption DEF Contents

(* Before the first process everything is free. *)
LEMMA InitMem == Init => MemInv
<1> SUFFICES ASSUME Init PROVE MemInv
  OBVIOUS
<1> DEFINE clean == [t \in PtFrames |-> [i \in Index |-> NoEntry]]
<1>1. mm = [mem |-> clean, pt |-> PtFrames, user |-> UserFrames, at |-> 0]
  BY DEF Init
<1>2. clean \in [PtFrames -> [Index -> Entries]] /\ \A t \in PtFrames, i \in Index : clean[t][i] = NoEntry
  BY EntryIs
<1> HIDE DEF clean
<1>3. Idle(mm)
  BY <1>1, <1>2 DEF Idle, Machines
<1>4. data \in [UserFrames -> Values]
  BY ValuesAssumption DEF Init
<1>5. InRange(next_free)
  BY SegmentBounds DEF Init, InRange
<1> QED
  BY <1>3, <1>4, <1>5 DEF MemInv, Init, Running

(* exec_init *)
LEMMA ExecStep ==
  ASSUME EnoughToStart, MemInv, ExecInit
  PROVE  /\ MemInv' /\ pgd' # 0
         /\ \A q \in Pages : Has0(mm', pgd', q) <=>
               q \in CodeSet(CodePages) \cup {Start["DATA"], End["STACK"]}
         /\ mm.user = UserFrames
<1> DEFINE e == Exec(mm)
<1>1. /\ ~Running /\ mm' = e.m /\ pgd' = e.root /\ os_stack' = e.stack /\ os_pmd' = e.pmd /\ tlb' = {}
      /\ Contents
      /\ next_free' = [seg \in Movable |-> IF seg = "DATA" THEN Start[seg] + 1 ELSE Start[seg]]
  BY DEF ExecInit
<1>2. Idle(mm)
  BY <1>1 DEF MemInv
<1>3. /\ Fits(e.m, e.root, e.stack, e.pmd, next_free') /\ e.root # 0
      /\ \A q \in Pages : Has0(e.m, e.root, q) <=>
               q \in CodeSet(CodePages) \cup {Start["DATA"], End["STACK"]}
  BY <1>1, <1>2, StartFits
<1> HIDE DEF e
<1>4. Fits(mm', pgd', os_stack', os_pmd', next_free') /\ pgd' # 0 /\ Running'
  BY <1>1, <1>3 DEF Running
<1>5. Cached(mm', pgd', tlb')
  BY <1>1, CachedNone
<1>6. data' \in [UserFrames -> Values]
  BY <1>1, ContentsKept DEF MemInv
<1>7. MemInv'
  BY <1>4, <1>5, <1>6 DEF MemInv, Fits
<1> QED
  BY <1>1, <1>2, <1>3, <1>4, <1>7 DEF Idle

(* do_exit *)
LEMMA ExitStep ==
  ASSUME MemInv, Running, NEW why, do_exit(why)
  PROVE  MemInv' /\ ~Running' /\ next_free' = [seg \in Movable |-> Start[seg]]
<1> DEFINE t == Teardown(mm, pgd)
<1>1. /\ mm' = [t EXCEPT !.pt = @ \cup {os_stack, os_pmd}] /\ Contents
      /\ pgd' = 0 /\ os_stack' = 0 /\ os_pmd' = 0 /\ tlb' = {}
      /\ next_free' = [seg \in Movable |-> Start[seg]]
  BY DEF do_exit
<1> HIDE DEF t
<1>2. Fits(mm, pgd, os_stack, os_pmd, next_free) /\ t = Teardown(mm, pgd)
  BY DEF MemInv, t
<1>3. Idle(mm')
  BY <1>1, <1>2, EndIdle
<1>4. data' \in [UserFrames -> Values]
  BY <1>1, ContentsKept DEF MemInv
<1>5. InRange(next_free')
  BY <1>1, SegmentBounds DEF InRange
<1>6. ~Running'
  BY <1>1 DEF Running
<1> QED
  BY <1>1, <1>3, <1>4, <1>5, <1>6 DEF MemInv

(* An access goes to the frame of its page, with the rights of its entry,  *)
(* whether the TLB or the tables translate it.                             *)
LEMMA AccessStep ==
  ASSUME MemInv, NEW p \in Pages, NEW w \in BOOLEAN, NEW v \in Values, Access(p, w, v)
  PROVE  /\ MemInv' /\ Running /\ Has0(mm, pgd, p) /\ (w => Leaf(mm, pgd, p).w)
         /\ At0(mm, pgd, p) \in UserFrames
         /\ w  => out' = <<"store", p, v>> /\ data' = [data EXCEPT ![At0(mm, pgd, p)] = v]
         /\ ~w => out' = <<"load", p, data[At0(mm, pgd, p)]>> /\ data' = data
<1>1. /\ Running /\ Translates(p, w) /\ Fits(mm, pgd, os_stack, os_pmd, next_free)
      /\ Cached(mm, pgd, tlb) /\ mm' = mm /\ pgd' = pgd /\ os_stack' = os_stack /\ os_pmd' = os_pmd
      /\ next_free' = next_free /\ data \in [UserFrames -> Values]
  BY DEF Access, MemInv
<1>2. PICK t \in IF Held(p, w) # {} THEN Held(p, w) ELSE {Walked(p)} :
         /\ \E kept \in SUBSET {o \in tlb : o.page # p} :
                /\ Cardinality(kept) < TlbSize
                /\ tlb' = kept \cup {t}
         /\ IF w THEN data' = [data EXCEPT ![t.f] = v] /\ out' = <<"store", p, v>>
                 ELSE out' = <<"load", p, data[t.f]>> /\ UNCHANGED data
  BY DEF Access
<1>3. PICK kept \in SUBSET tlb : Cardinality(kept) < TlbSize /\ tlb' = kept \cup {t}
  BY <1>2
<1> DEFINE e == PathTo(mm, pgd, p)
           all == \A l \in 1..4 : e[l].w
<1>4. /\ Has0(mm, pgd, p) /\ t.page = p /\ t.f = At0(mm, pgd, p) /\ (w => t.w)
      /\ (t.w => Leaf(mm, pgd, p).w) /\ t \in [page : Pages, f : UserFrames, w : BOOLEAN]
      /\ At0(mm, pgd, p) \in UserFrames
  <2>1. CASE Held(p, w) # {}
    <3>1. t \in tlb /\ t.page = p /\ (w => t.w)
      BY <1>2, <2>1 DEF Held
    <3> QED
      BY <1>1, <3>1 DEF Cached
  <2>2. CASE Held(p, w) = {}
    <3>1. Walks(p, w)
      BY <1>1, <2>2 DEF Translates
    <3>2. Lets(mm, pgd, p, w)
      BY <3>1 DEF Walks, Lets
    <3>3. /\ Has0(mm, pgd, p) /\ (w => Leaf(mm, pgd, p).w) /\ e[4].f = At0(mm, pgd, p)
          /\ At0(mm, pgd, p) \in UserFrames /\ (all <=> Leaf(mm, pgd, p).w)
      BY <1>1, <3>2, FitsWalk
    <3>4. t = [page |-> p, f |-> e[4].f, w |-> all]
      BY <1>2, <2>2 DEF Walked
    <3>5. all \in BOOLEAN
      OBVIOUS
    <3> HIDE DEF all, e
    <3> QED
      BY <3>3, <3>4, <3>5
  <2> QED
    BY <2>1, <2>2
<1>5. Cached(mm', pgd', tlb')
  <2>1. IsFiniteSet(kept) /\ Cardinality(kept) \in Nat /\ IsFiniteSet(kept \cup {t})
        /\ Cardinality(kept \cup {t}) <= Cardinality(kept) + 1
    <3>1. IsFiniteSet(kept)
      BY <1>1, FS_Subset DEF Cached
    <3>2. Cardinality(kept) \in Nat
      BY <3>1, FS_CardinalityType
    <3>3. /\ IsFiniteSet(kept \cup {t})
          /\ Cardinality(kept \cup {t}) = IF t \in kept THEN Cardinality(kept) ELSE Cardinality(kept) + 1
      BY <3>1, FS_AddElement
    <3> QED
      BY <3>1, <3>2, <3>3
  <2>2. Cardinality(tlb') \in Nat
    BY <1>3, <2>1, FS_CardinalityType
  <2>3. Cardinality(tlb') <= TlbSize /\ IsFiniteSet(tlb')
    BY <1>3, <2>1, <2>2, ValuesAssumption
  <2>4. tlb' \subseteq [page : Pages, f : UserFrames, w : BOOLEAN]
    BY <1>1, <1>3, <1>4 DEF Cached
  <2>5. \A o \in tlb' : /\ Has0(mm, pgd, o.page) /\ o.f = At0(mm, pgd, o.page)
                        /\ o.w => Leaf(mm, pgd, o.page).w
    BY <1>1, <1>3, <1>4 DEF Cached
  <2> QED
    BY <1>1, <2>3, <2>4, <2>5 DEF Cached
<1>6. data' \in [UserFrames -> Values]
  BY <1>1, <1>2, <1>4
<1>7. MemInv'
  BY <1>1, <1>5, <1>6 DEF MemInv, Fits, Running
<1> QED
  BY <1>1, <1>2, <1>4, <1>7

(* A fault that is handled gives the page a frame, with the rights of its  *)
(* segment, and leaves the other pages alone.                              *)
LEMMA FaultStep ==
  ASSUME MemInv, FramesLeft, Running, NEW p \in Pages, NEW access \in BOOLEAN,
         NEW seg \in Segs \ {"CODE"}, p \in Own(next_free, seg), Faulty(p),
         Resolve(p, access, seg)
  PROVE  /\ MemInv' /\ Running' /\ ~Has0(mm, pgd, p) /\ Has0(mm', pgd', p)
         /\ Leaf(mm', pgd', p).w = Writable(seg) /\ At0(mm', pgd', p) \in mm.user
         /\ mm'.user \subseteq mm.user
         /\ \A q \in Pages \ {p} : /\ Has0(mm', pgd', q) <=> Has0(mm, pgd, q)
                                   /\ Has0(mm, pgd, q) => At0(mm', pgd', q) = At0(mm, pgd, q)
<1>1. PICK w \in BOOLEAN : w = Writable(seg)
  <2>1. Writable(seg) \in BOOLEAN
    BY DEF Writable
  <2> QED
    BY <2>1, Zenon
<1>2. /\ mm' = FaultPath(mm, pgd, p, w) /\ Contents /\ tlb' = tlb /\ pgd' = pgd
      /\ os_stack' = os_stack /\ os_pmd' = os_pmd /\ next_free' = next_free
  BY <1>1 DEF Resolve
<1>3. /\ Fits(mm, pgd, os_stack, os_pmd, next_free) /\ Cached(mm, pgd, tlb)
      /\ data \in [UserFrames -> Values] /\ InRange(next_free)
  BY DEF MemInv
<1>4. mm.user # {} /\ Missing(mm, pgd, p) <= Cardinality(mm.pt)
  BY DEF FramesLeft
<1>5. ~Has0(mm, pgd, p)
  <2>1. ~Mapped(mm, pgd, p)
    BY DEF Faulty, InData, InRodata, InStack, Protection
  <2> QED
    BY <1>3, <2>1, FitsWalk
<1>6. /\ Fits(mm', pgd, os_stack, os_pmd, next_free) /\ mm'.user \subseteq mm.user
      /\ Has0(mm', pgd, p) /\ At0(mm', pgd, p) \in mm.user /\ Leaf(mm', pgd, p).w = w
      /\ \A q \in Pages \ {p} : /\ Has0(mm', pgd, q) <=> Has0(mm, pgd, q)
                                /\ Has0(mm, pgd, q) => Leaf(mm', pgd, q) = Leaf(mm, pgd, q)
                                                    /\ At0(mm', pgd, q) = At0(mm, pgd, q)
  <2>1. p \in Own(next_free, seg) /\ seg \in Segs \ {"CODE"}
    OBVIOUS
  <2> QED
    BY ONLY <1>1, <1>2, <1>3, <1>4, <1>5, <2>1, FaultFits
<1>7. Cached(mm', pgd, tlb)
  <2>1. \A t \in tlb : t.page \in Pages \ {p}
    BY <1>3, <1>5 DEF Cached
  <2>2. \A t \in tlb : /\ Has0(mm', pgd, t.page) /\ t.f = At0(mm', pgd, t.page)
                       /\ t.w => Leaf(mm', pgd, t.page).w
    BY <1>3, <1>6, <2>1 DEF Cached
  <2> QED
    BY <1>3, <2>2 DEF Cached
<1>8. data' \in [UserFrames -> Values]
  BY <1>2, <1>3, ContentsKept
<1>9. MemInv' /\ Running'
  <2>1. Fits(mm', pgd', os_stack', os_pmd', next_free') /\ Cached(mm', pgd', tlb')
    BY <1>2, <1>6, <1>7
  <2> QED
    BY <1>2, <1>3, <1>8, <2>1 DEF MemInv, Running
<1> QED
  BY <1>1, <1>2, <1>5, <1>6, <1>9

(* shrink gives back the pages between the new next_free and the old.      *)
LEMMA ShrinkStep ==
  ASSUME MemInv, SizesDontWrap, NEW seg \in Movable, NEW n \in ShrinkArgs, SyscallShrink(seg, n),
         Back(seg, n) >= Start[seg]
  PROVE  /\ MemInv' /\ Running /\ Running' /\ Back(seg, n) = next_free[seg] - n
         /\ \A q \in Pages :
              /\ Has0(mm', pgd', q) <=> Has0(mm, pgd, q) /\ q \notin next_free[seg]-n..next_free[seg]-1
              /\ Has0(mm', pgd', q) => At0(mm', pgd', q) = At0(mm, pgd, q)
<1> DEFINE given == next_free[seg]-n..next_free[seg]-1
<1>1. /\ n \in Nat /\ next_free \in [Movable -> Nat] /\ n <= Start[seg] /\ Start[seg] \in Nat
      /\ next_free[seg] \in Start[seg]..End[seg] /\ next_free[seg] < W /\ W \in Nat /\ End[seg] < W
      /\ End[seg] \in Nat
  BY ArgsAssumption, SegmentBounds DEF SizesDontWrap, MemInv, InRange
<1>2. \A i \in 0..n : Back(seg, i) = next_free[seg] - i
  <2> TAKE i \in 0..n
  <2>1. next_free[seg] - i \in Nat /\ next_free[seg] - i < W
    BY <1>1
  <2> QED
    BY <1>1, <2>1, SmallMod DEF Back
<1>3. Back(seg, n) = next_free[seg] - n
  BY <1>1, <1>2
<1>4. Given(seg, n) = given
  <2>1. \A i \in 1..n : Back(seg, i) % NPages = next_free[seg] - i
    <3> TAKE i \in 1..n
    <3>1. End[seg] < NPages /\ NPages \in Nat
      <4>1. End[seg] \in Pages
        BY SegsAssumption DEF Movable, Segs
      <4> QED
        BY <4>1, FanIs
    <3>2. next_free[seg] - i \in Nat /\ next_free[seg] - i < NPages
      BY <1>1, <3>1
    <3> QED
      BY <1>1, <1>2, <3>1, <3>2, SmallMod
  <2>2. Given(seg, n) = {next_free[seg] - i : i \in 1..n}
    BY <2>1 DEF Given
  <2>3. {next_free[seg] - i : i \in 1..n} \subseteq given
    BY <1>1
  <2>4. ASSUME NEW q \in given PROVE q \in {next_free[seg] - i : i \in 1..n}
    <3>1. next_free[seg] - q \in 1..n /\ q = next_free[seg] - (next_free[seg] - q)
      BY <1>1
    <3> QED
      BY <3>1
  <2> QED
    BY <2>2, <2>3, <2>4
<1>5. /\ Running /\ mm' = free1(mm, pgd, given) /\ Contents /\ tlb' = invlpg(given)
      /\ next_free' = [next_free EXCEPT ![seg] = next_free[seg] - n]
      /\ pgd' = pgd /\ os_stack' = os_stack /\ os_pmd' = os_pmd
  BY <1>1, <1>3, <1>4 DEF SyscallShrink
<1>6. Lowered(next_free, next_free', given, seg, n)
  BY <1>1, <1>3, <1>5 DEF Lowered
<1> HIDE DEF given
<1>7. /\ Fits(mm, pgd, os_stack, os_pmd, next_free) /\ Cached(mm, pgd, tlb)
      /\ data \in [UserFrames -> Values] /\ InRange(next_free)
  BY <1>5 DEF MemInv
<1>8. /\ Fits(mm', pgd, os_stack, os_pmd, next_free')
      /\ \A q \in Pages : /\ Has0(mm', pgd, q) <=> Has0(mm, pgd, q) /\ q \notin given
                          /\ Has0(mm', pgd, q) => Leaf(mm', pgd, q) = Leaf(mm, pgd, q)
                                                  /\ At0(mm', pgd, q) = At0(mm, pgd, q)
  BY <1>5, <1>6, <1>7, ShrinkFits
<1>9. Cached(mm', pgd, tlb')
  <2>1. tlb' \subseteq tlb
    BY <1>5 DEF invlpg
  <2>2. \A t \in tlb' : t.page \in Pages /\ Has0(mm, pgd, t.page) /\ t.page \notin given
    <3> TAKE t \in tlb'
    <3>1. t \in tlb /\ ~(t.page \in given /\ isvalid(t.page))
      BY <1>5 DEF invlpg
    <3>2. t.page \in Pages /\ Has0(mm, pgd, t.page)
      BY <1>7, <3>1 DEF Cached
    <3>3. isvalid(t.page)
      BY <1>7, <3>2, FitsWalk DEF isvalid
    <3> QED
      BY <3>1, <3>2, <3>3
  <2>3. IsFiniteSet(tlb') /\ Cardinality(tlb') <= TlbSize
    <3>1. IsFiniteSet(tlb') /\ Cardinality(tlb') <= Cardinality(tlb)
      BY <1>7, <2>1, FS_Subset DEF Cached
    <3>2. Cardinality(tlb) \in Nat /\ Cardinality(tlb') \in Nat /\ Cardinality(tlb) <= TlbSize
      BY <1>7, <3>1, FS_CardinalityType DEF Cached
    <3> QED
      BY <3>1, <3>2, ValuesAssumption
  <2>4. tlb' \subseteq [page : Pages, f : UserFrames, w : BOOLEAN]
    BY <1>7, <2>1 DEF Cached
  <2>5. \A t \in tlb' : /\ Has0(mm', pgd, t.page) /\ t.f = At0(mm', pgd, t.page)
                        /\ t.w => Leaf(mm', pgd, t.page).w
    BY <1>7, <1>8, <2>1, <2>2 DEF Cached
  <2> QED
    BY <2>3, <2>4, <2>5 DEF Cached
<1>10. data' \in [UserFrames -> Values]
  BY <1>5, <1>7, ContentsKept
<1>11. MemInv' /\ Running'
  BY <1>5, <1>8, <1>9, <1>10 DEF MemInv, Fits, Running
<1> QED
  BY <1>3, <1>5, <1>8, <1>11 DEF given

(* handle_page_fault either kills the process or resolves a fault of a page*)
(* that its segment grants.                                                *)
LEMMA FaultIs ==
  ASSUME MemInv, NEW p \in Pages, NEW w \in BOOLEAN, handle_page_fault(p, w)
  PROVE  /\ Running /\ ~Translates(p, w)
         /\ \/ BadAccess(p, w)
            \/ \E seg \in Segs \ {"CODE"} : /\ p \in Own(next_free, seg) /\ Faulty(p)
                                            /\ Resolve(p, w, seg) /\ (w => Writable(seg))
<1>1. Running /\ ~Translates(p, w) /\ InRange(next_free) /\ p \in Nat
  BY FanIs DEF handle_page_fault, MemInv
<1>2. /\ Own(next_free, "DATA") = Start["DATA"]..next_free["DATA"]-1
      /\ Own(next_free, "RODATA") = Start["RODATA"]..next_free["RODATA"]-1
      /\ Own(next_free, "STACK") = Start["STACK"]..End["STACK"]
      /\ {"DATA", "RODATA", "STACK"} \subseteq Segs \ {"CODE"}
      /\ {"DATA", "RODATA"} \subseteq Movable
  BY <1>1, OwnIs
<1>3. /\ next_free["DATA"] \in Nat /\ next_free["RODATA"] \in Nat
      /\ \A seg \in Segs : Start[seg] \in Nat /\ End[seg] \in Nat
  BY <1>1, <1>2, OwnIs DEF InRange
<1>4. CASE DataFault(p, w)
  <2>1. InData(p) /\ Resolve(p, w, "DATA")
    BY <1>4 DEF DataFault
  <2>2. Writable("DATA")
    BY DEF Writable
  <2>3. p \in Own(next_free, "DATA") /\ Faulty(p)
    <3>1. p \in Own(next_free, "DATA")
      BY <1>1, <1>2, <1>3, <2>1 DEF InData
    <3>2. Faulty(p)
      BY <2>1 DEF Faulty
    <3> QED
      BY <3>1, <3>2
  <2> QED
    BY <1>1, <1>2, <2>1, <2>2, <2>3
<1>5. CASE RodataFault(p, w)
  <2>1. p \in Own(next_free, "RODATA") /\ Faulty(p) /\ Resolve(p, w, "RODATA") /\ ~w
    BY <1>1, <1>2, <1>3, <1>5 DEF RodataFault, InRodata, Faulty
  <2> QED
    BY <1>1, <1>2, <2>1
<1>6. CASE StackFault(p, w)
  <2>1. InStack(p) /\ Resolve(p, w, "STACK")
    BY <1>6 DEF StackFault
  <2>2. Writable("STACK")
    BY DEF Writable
  <2>3. p \in Own(next_free, "STACK") /\ Faulty(p)
    <3>1. p \in Own(next_free, "STACK")
      BY <1>1, <1>2, <1>3, <2>1 DEF InStack
    <3>2. Faulty(p)
      BY <2>1 DEF Faulty
    <3> QED
      BY <3>1, <3>2
  <2> QED
    BY <1>1, <1>2, <2>1, <2>2, <2>3
<1>7. CASE BadAccess(p, w)
  BY <1>1, <1>7
<1> QED
  BY <1>4, <1>5, <1>6, <1>7 DEF handle_page_fault

(* Steps that change neither tables, nor frames, nor the TLB.              *)
LEMMA SameStep ==
  ASSUME MemInv, UNCHANGED <<mm, data, tlb, pgd, os_stack, os_pmd>>, InRange(next_free'),
         \/ next_free' = next_free
         \/ Running /\ Fits(mm, pgd, os_stack, os_pmd, next_free')
  PROVE  MemInv'
BY DEF MemInv, Running

(* What expand adds is granted.                                            *)
LEMMA ExpandStep ==
  ASSUME MemInv, SizesDontWrap, NEW seg \in Movable, NEW n \in ExpandArgs, SyscallExpand(seg, n)
  PROVE  /\ MemInv' /\ Running /\ pgd' = pgd /\ mm' = mm /\ data' = data
         /\ (next_free[seg] + n) % W = next_free[seg] + n
<1>1. FreeInv /\ Running /\ n \in Nat
  BY ArgsAssumption DEF MemInv, InRange, FreeInv, NextFreeInRange, SyscallExpand
<1>2. FreeInv'
  BY <1>1, ExpandInRange
<1>3. InRange(next_free) /\ InRange(next_free')
  BY <1>1, <1>2 DEF FreeInv, InRange, NextFreeInRange
<1>4. /\ mm' = mm /\ data' = data /\ tlb' = tlb /\ pgd' = pgd /\ os_stack' = os_stack
      /\ os_pmd' = os_pmd
  BY DEF SyscallExpand, Answer
<1>5. (next_free[seg] + n) % W = next_free[seg] + n
  <2>1. next_free[seg] + n \in Nat /\ next_free[seg] + n < W /\ W \in Nat
    BY <1>1, <1>3, SegmentBounds DEF InRange, SizesDontWrap
  <2> QED
    BY <2>1, SmallMod
<1>6. \A a \in Movable : next_free'[a] \in Nat /\ next_free[a] \in Nat /\ next_free[a] <= next_free'[a]
  BY <1>1, <1>3, <1>5 DEF SyscallExpand, Answer, InRange
<1>7. Fits(mm, pgd, os_stack, os_pmd, next_free')
  <2>1. Fits(mm, pgd, os_stack, os_pmd, next_free) /\ Granted(mm, pgd, next_free)
    BY <1>1 DEF MemInv, Fits
  <2>2. \A a \in Segs : Own(next_free, a) \subseteq Own(next_free', a)
    <3> TAKE a \in Segs
    <3>1. CASE a \in Movable
      <4>1. Own(next_free, a) = Start[a]..next_free[a]-1 /\ Own(next_free', a) = Start[a]..next_free'[a]-1
            /\ Start[a] \in Nat
        BY <1>3, <3>1, OwnIs
      <4> QED
        BY <1>6, <3>1, <4>1
    <3>2. CASE a \notin Movable
      <4>1. Own(next_free, a) = Own(next_free', a)
        BY <1>3, <3>2, OwnIs
      <4> QED
        BY <4>1
    <3> QED
      BY <3>1, <3>2
  <2>3. \A q : q \in MayRead(next_free) => q \in MayRead(next_free')
    BY <2>2 DEF MayRead
  <2>4. ASSUME NEW q, q \in MayRead(next_free)
        PROVE  q \in MayWrite(next_free) <=> q \in MayWrite(next_free')
    <3>1. PICK a \in Segs : q \in Own(next_free, a)
      BY <2>4 DEF MayRead
    <3>2. \A b \in Segs : q \in Own(next_free', b) => b = a
      BY <1>3, <2>2, <3>1, OwnIs
    <3>3. \A b \in Segs : q \in Own(next_free, b) => b = a
      BY <2>2, <3>2
    <3>4. "DATA" \in Segs /\ "STACK" \in Segs
      BY DEF Segs
    <3> QED
      BY <2>2, <3>1, <3>2, <3>3, <3>4 DEF MayWrite
  <2>5. Granted(mm, pgd, next_free')
    BY <2>1, <2>3, <2>4 DEF Granted
  <2> QED
    BY <1>3, <2>1, <2>5 DEF Fits
<1>8. MemInv'
  BY <1>1, <1>3, <1>4, <1>7, SameStep
<1> QED
  BY <1>1, <1>4, <1>5, <1>8

(* The invariant of processes, tables, frames and translations is kept by  *)
(* every step, as long as a fault finds free frames.                       *)
LEMMA MemStep ==
  ASSUME EnoughToStart, SizesDontWrap, MemInv, FramesLeft, [Next]_vars
  PROVE  MemInv'
<1>0. ASSUME UNCHANGED <<mm, data, tlb, pgd, os_stack, os_pmd, next_free>> PROVE MemInv'
  BY <1>0, SameStep DEF MemInv
<1>1. CASE UNCHANGED vars
  BY <1>0, <1>1 DEF vars
<1>2. CASE ExecInit
  BY <1>2, ExecStep
<1>3. CASE SyscallExit \/ handle_div_by_zero
  BY <1>3, ExitStep DEF SyscallExit, handle_div_by_zero
<1>4. CASE SyscallWrite \/ SyscallWriteLong \/ SyscallWriteNothing
  BY <1>0, <1>4 DEF SyscallWrite, SyscallWriteLong, SyscallWriteNothing, Answer
<1>5. ASSUME NEW p \in Pages, NEW w \in BOOLEAN, NEW v \in Values, Access(p, w, v) PROVE MemInv'
  BY <1>5, AccessStep
<1>6. ASSUME NEW p \in Pages, NEW w \in BOOLEAN, handle_page_fault(p, w) PROVE MemInv'
  <2>1. CASE BadAccess(p, w)
    BY <1>6, <2>1, ExitStep DEF BadAccess, handle_page_fault
  <2>2. CASE ~BadAccess(p, w)
    <3>1. Running
      BY <1>6 DEF handle_page_fault
    <3>2. PICK seg \in Segs \ {"CODE"} : /\ p \in Own(next_free, seg) /\ Faulty(p)
                                         /\ Resolve(p, w, seg)
      BY <1>6, <2>2, FaultIs
    <3> QED
      BY <3>1, <3>2, FaultStep
  <2> QED
    BY <2>1, <2>2
<1>7. ASSUME NEW seg \in Movable, NEW n \in ExpandArgs, SyscallExpand(seg, n) PROVE MemInv'
  BY <1>7, ExpandStep
<1>8. ASSUME NEW seg \in Movable, NEW n \in ShrinkArgs, SyscallShrink(seg, n) PROVE MemInv'
  <2>1. CASE Back(seg, n) < Start[seg]
    BY <1>0, <1>8, <2>1 DEF SyscallShrink, Answer
  <2>2. CASE ~(Back(seg, n) < Start[seg])
    <3>1. Back(seg, n) \in Int /\ Start[seg] \in Nat
      <4>1. n \in Nat /\ next_free[seg] \in Nat /\ Start[seg] \in Nat /\ n <= Start[seg]
            /\ next_free[seg] >= Start[seg] /\ W \in Nat /\ next_free[seg] < W
        BY <1>8, ArgsAssumption, SegmentBounds DEF SizesDontWrap, MemInv, InRange
      <4>2. next_free[seg] - n \in Nat /\ next_free[seg] - n < W
        BY <4>1
      <4>3. Back(seg, n) = next_free[seg] - n
        BY <4>1, <4>2, SmallMod DEF Back
      <4> QED
        BY <4>1, <4>2, <4>3
    <3>2. Back(seg, n) >= Start[seg]
      BY <2>2, <3>1
    <3> QED
      BY <1>8, <3>2, ShrinkStep
  <2> QED
    BY <2>1, <2>2
<1> QED
  BY <1>1, <1>2, <1>3, <1>4, <1>5, <1>6, <1>7, <1>8 DEF Next

(* TypeOK for every layout: entries, free frames, TLB, roots and limits    *)
(* keep their types while exec_init, expand, shrink, exit,                 *)
(* handle_page_fault and free1 change them.                                *)
THEOREM TypesAreRight ==
  EnoughToStart /\ SizesDontWrap /\ Spec /\ []FramesLeft => []TypeOK
<1> SUFFICES ASSUME EnoughToStart, SizesDontWrap PROVE Spec /\ []FramesLeft => []TypeOK
  OBVIOUS
<1>1. Init => MemInv
  BY InitMem
<1>2. MemInv /\ FramesLeft /\ [Next]_vars => MemInv'
  BY MemStep
<1>3. MemInv => TypeOK
  <2> SUFFICES ASSUME MemInv PROVE TypeOK
    OBVIOUS
  <2>1. mm \in Machines /\ mm.at = 0 /\ {pgd, os_stack, os_pmd} \subseteq {0} \cup PtFrames
        /\ tlb \subseteq [page : Pages, f : UserFrames, w : BOOLEAN] /\ Cardinality(tlb) <= TlbSize
    <3>1. CASE Running
      <4>1. Fits(mm, pgd, os_stack, os_pmd, next_free) /\ Cached(mm, pgd, tlb)
        BY <3>1 DEF MemInv
      <4> QED
        BY <4>1 DEF Fits, Owned, Tree, Root, Cached
    <3>2. CASE ~Running
      <4>1. Idle(mm) /\ tlb = {} /\ os_stack = 0 /\ os_pmd = 0 /\ pgd = 0
        BY <3>2 DEF MemInv, Running
      <4> QED
        BY <4>1, CachedNone DEF Idle, Cached
    <3> QED
      BY <3>1, <3>2
  <2>2. mm \in [mem : [PtFrames -> [Index -> Entries]], pt : SUBSET PtFrames,
                user : SUBSET UserFrames, at : {0}]
    BY <2>1 DEF Machines
  <2>3. next_free \in [Movable -> 0..W-1]
    BY SegmentBounds DEF MemInv, InRange
  <2> QED
    BY <2>1, <2>2, <2>3 DEF TypeOK, MemInv
<1> QED
  BY <1>1, <1>2, <1>3, PTL DEF Spec

(* A walk of the CPU arrives where the tables have the page, with the      *)
(* rights of its last entry.                                               *)
LEMMA WalksIs ==
  ASSUME MemInv, Running, NEW p \in Pages, NEW w \in BOOLEAN
  PROVE  /\ Walks(p, w) <=> Has0(mm, pgd, p) /\ (w => Leaf(mm, pgd, p).w)
         /\ Has0(mm, pgd, p) => Walked(p).f = At0(mm, pgd, p)
<1>1. Fits(mm, pgd, os_stack, os_pmd, next_free)
  BY DEF MemInv
<1>2. Walks(p, w) <=> Lets(mm, pgd, p, w)
  BY DEF Walks, Lets
<1>3. Walked(p).f = PathTo(mm, pgd, p)[4].f
  BY DEF Walked
<1> QED
  BY <1>1, <1>2, <1>3, FitsWalk

(* What the TLB answers is what the tables say, in spite of free1 clearing *)
(* entries under it: shrink invalidates the page it takes.                 *)
THEOREM TlbIsCoherent ==
  EnoughToStart /\ SizesDontWrap /\ Spec /\ []FramesLeft => []TlbCoherent
<1> SUFFICES ASSUME EnoughToStart, SizesDontWrap PROVE Spec /\ []FramesLeft => []TlbCoherent
  OBVIOUS
<1>1. Init => MemInv
  BY InitMem
<1>2. MemInv /\ FramesLeft /\ [Next]_vars => MemInv'
  BY MemStep
<1>3. MemInv => TlbCoherent
  <2> SUFFICES ASSUME MemInv, NEW t \in tlb PROVE Walks(t.page, t.w) /\ Walked(t.page).f = t.f
    BY DEF TlbCoherent
  <2>1. Running /\ Cached(mm, pgd, tlb)
    BY DEF MemInv
  <2>2. /\ t.page \in Pages /\ t.w \in BOOLEAN /\ Has0(mm, pgd, t.page) /\ t.f = At0(mm, pgd, t.page)
        /\ t.w => Leaf(mm, pgd, t.page).w
    BY <2>1 DEF Cached
  <2> QED
    BY <2>1, <2>2, WalksIs
<1> QED
  BY <1>1, <1>2, <1>3, PTL DEF Spec

(* A fault that handle_page_fault handles leaves the page mapped with the  *)
(* rights that were asked for, so the access does not fault again.         *)
THEOREM FaultsResolve ==
  EnoughToStart /\ SizesDontWrap /\ Spec /\ []FramesLeft => FaultResolves
<1> SUFFICES ASSUME EnoughToStart, SizesDontWrap PROVE Spec /\ []FramesLeft => FaultResolves
  OBVIOUS
<1> DEFINE Lets1 == \A p \in Pages, w \in BOOLEAN :
                      out' = <<"fault", p, w>> /\ handle_page_fault(p, w) => Walks(p, w)'
<1>1. Init => MemInv
  BY InitMem
<1>2. MemInv /\ FramesLeft /\ [Next]_vars => MemInv'
  BY MemStep
<1>3. MemInv /\ FramesLeft /\ MemInv' /\ [Next]_vars => [Lets1]_vars
  <2> SUFFICES ASSUME MemInv, FramesLeft, MemInv', NEW p \in Pages, NEW w \in BOOLEAN,
                      out' = <<"fault", p, w>>, handle_page_fault(p, w)
               PROVE  Walks(p, w)'
    OBVIOUS
  <2>1. Running
    BY FaultIs
  <2>2. ~BadAccess(p, w)
    BY DEF BadAccess, do_exit
  <2>3. PICK seg \in Segs \ {"CODE"} : /\ p \in Own(next_free, seg) /\ Faulty(p)
                                       /\ Resolve(p, w, seg) /\ (w => Writable(seg))
    BY <2>2, FaultIs
  <2>4. Running' /\ Has0(mm', pgd', p) /\ Leaf(mm', pgd', p).w = Writable(seg)
    BY <2>1, <2>3, FaultStep
  <2>5. w => Leaf(mm', pgd', p).w
    BY <2>3, <2>4
  <2>6. Fits(mm', pgd', os_stack', os_pmd', next_free')
    BY <2>4 DEF MemInv
  <2>7. Lets(mm', pgd', p, w)
    BY <2>4, <2>5, <2>6, FitsWalk
  <2> QED
    BY <2>7 DEF Lets, Walks
<1>4. [][Lets1]_vars => FaultResolves
  BY PTL DEF FaultResolves
<1> QED
  BY <1>1, <1>2, <1>3, <1>4, PTL DEF Spec

-----------------------------------------------------------------------------
EdgesIn(s, tables, first) == {e \in tables \X Index : e[2] >= first /\ s.mem[e[1]][e[2]].p}

(* As many frames as entries that lead to them: none is shared.            *)
LEMMA EdgesCount ==
  ASSUME NEW s, NEW K, Tree(s, K), NEW tables \in SUBSET PtFrames, NEW first
  PROVE  Cardinality(EdgesIn(s, tables, first)) = Cardinality(Children(s, tables, first))
<1> DEFINE E == EdgesIn(s, tables, first)
           C == Children(s, tables, first)
           f == [e \in E |-> s.mem[e[1]][e[2]].f]
<1>1. IsFiniteSet(E)
  <2>1. IsFiniteSet(tables) /\ IsFiniteSet(Index)
    BY FramesAssumption, IndexIs, FS_Subset
  <2>2. IsFiniteSet(tables \X Index)
    BY <2>1, FS_Product
  <2> QED
    BY <2>2, FS_Subset DEF EdgesIn
<1>2. C = {s.mem[e[1]][e[2]].f : e \in E}
  BY DEF Children, EdgesIn
<1>3. \A e \in E : /\ e[1] \in PtFrames /\ e[2] \in Index /\ e = <<e[1], e[2]>>
                   /\ Edge(s, e[1], e[2]) /\ To(s, e[1], e[2]) = s.mem[e[1]][e[2]].f
  BY DEF EdgesIn, Edge, To
<1> HIDE DEF E, C
<1>4. f \in [E -> C]
  BY <1>2
<1>5. f \in Surjection(E, C)
  BY <1>2, <1>4 DEF Surjection
<1>6. \A a, b \in E : f[a] = f[b] => a = b
  BY <1>3 DEF Tree, EdgesApart
<1>7. f \in Injection(E, C)
  BY <1>4, <1>6 DEF Injection, IsInjective
<1> HIDE DEF f
<1>8. Cardinality(C) = Cardinality(E)
  BY <1>1, <1>5, <1>7, FS_Surjection
<1> QED
  BY <1>8 DEF E, C

(* Every frame is free, or a table, or a page, once: no step of exec_init, *)
(* handle_page_fault, free1 or do_exit loses a frame or hands one out      *)
(* twice.                                                                  *)
THEOREM FramesAreOwnedOnce ==
  EnoughToStart /\ SizesDontWrap /\ Spec /\ []FramesLeft => []FramesOwnedOnce
<1> SUFFICES ASSUME EnoughToStart, SizesDontWrap PROVE Spec /\ []FramesLeft => []FramesOwnedOnce
  OBVIOUS
<1>1. Init => MemInv
  BY InitMem
<1>2. MemInv /\ FramesLeft /\ [Next]_vars => MemInv'
  BY MemStep
<1>3. MemInv => FramesOwnedOnce
  <2> SUFFICES ASSUME MemInv PROVE FramesOwnedOnce
    OBVIOUS
  <2>1. ASSUME ~Running PROVE mm.pt = PtFrames /\ mm.user = UserFrames
    BY <2>1 DEF MemInv, Idle
  <2>2. ASSUME Running
        PROVE  LET pages == Children(mm, L1s, 0)
                   kinds == <<mm.pt, {os_stack}, {pgd}, L3s, {os_pmd}, L2s, L1s>>
               IN  /\ Cardinality(Edges({pgd}, 0)) = Cardinality(L3s)
                   /\ Cardinality(Edges(L3s, 1)) = Cardinality(L2s)
                   /\ Cardinality(Edges(L2s, 0)) = Cardinality(L1s)
                   /\ Cardinality(Edges(L1s, 0)) = Cardinality(pages)
                   /\ UNION {kinds[k] : k \in DOMAIN kinds} = PtFrames
                   /\ \A j, k \in DOMAIN kinds : j # k => kinds[j] \cap kinds[k] = {}
                   /\ mm.user \cap pages = {} /\ mm.user \cup pages = UserFrames
    <3> DEFINE pages == Children(mm, L1s, 0)
               kinds == <<mm.pt, {os_stack}, {pgd}, L3s, {os_pmd}, L2s, L1s>>
               num == <<0, 5, 4, 3, 6, 2, 1>>
    <3>1. PICK K : Owned(mm, K, pgd, os_stack, os_pmd)
      BY <2>2 DEF MemInv, Fits
    <3>2. /\ Tree(mm, K) /\ mm \in Machines /\ K \in [PtFrames -> 0..6] /\ pgd \in PtFrames
          /\ mm.pt = Kind(K, 0) /\ {os_stack} = Kind(K, 5) /\ {pgd} = Kind(K, 4) /\ {os_pmd} = Kind(K, 6)
      BY <3>1 DEF Owned, Tree, FreeKinds, Root, Kind, Machines
    <3>3. /\ Children(mm, {pgd}, 0) = Kind(K, 3)
          /\ Children(mm, Kind(K, 3), 1) = Kind(K, 2)
          /\ Children(mm, Kind(K, 2), 0) = Kind(K, 1)
          /\ Children(mm, Kind(K, 1), 0) = UserFrames \ mm.user
      BY <3>1, LevelsAre
    <3>4. L3s = Kind(K, 3) /\ L2s = Kind(K, 2) /\ L1s = Kind(K, 1) /\ pages = UserFrames \ mm.user
      BY <3>3 DEF L3s, L2s, L1s
    <3>5. \A t, n : t \in SUBSET PtFrames => Cardinality(Edges(t, n)) = Cardinality(Children(mm, t, n))
      BY <3>2, EdgesCount DEF Edges, EdgesIn
    <3>6. \A k : Kind(K, k) \in SUBSET PtFrames
      BY DEF Kind
    <3>7. /\ Cardinality(Edges({pgd}, 0)) = Cardinality(L3s)
          /\ Cardinality(Edges(L3s, 1)) = Cardinality(L2s)
          /\ Cardinality(Edges(L2s, 0)) = Cardinality(L1s)
          /\ Cardinality(Edges(L1s, 0)) = Cardinality(pages)
      BY <3>2, <3>3, <3>4, <3>5, <3>6
    <3>8. mm.user \cap pages = {} /\ mm.user \cup pages = UserFrames
      BY <3>2, <3>4 DEF Machines
    <3>9. DOMAIN kinds = 1..7 /\ \A k \in 1..7 : kinds[k] = Kind(K, num[k]) /\ num[k] \in 0..6
      <4>1. DOMAIN kinds = 1..7
        OBVIOUS
      <4>2. /\ kinds[1] = Kind(K, num[1]) /\ kinds[2] = Kind(K, num[2]) /\ kinds[3] = Kind(K, num[3])
            /\ kinds[4] = Kind(K, num[4]) /\ kinds[5] = Kind(K, num[5]) /\ kinds[6] = Kind(K, num[6])
            /\ kinds[7] = Kind(K, num[7])
        BY <3>2, <3>4
      <4>3. \A k \in 1..7 : k \in {1, 2, 3, 4, 5, 6, 7}
        OBVIOUS
      <4>4. \A k \in 1..7 : num[k] \in 0..6
        OBVIOUS
      <4> HIDE DEF kinds, num
      <4> QED
        BY <4>1, <4>2, <4>3, <4>4
    <3>10. \A j, k \in 1..7 : j # k => num[j] # num[k]
      OBVIOUS
    <3>11. \A n \in 0..6 : \E k \in 1..7 : num[k] = n
      OBVIOUS
    <3> HIDE DEF kinds, num, pages
    <3>12. UNION {kinds[k] : k \in DOMAIN kinds} = PtFrames
      BY <3>2, <3>6, <3>9, <3>11 DEF Kind
    <3>13. \A j, k \in DOMAIN kinds : j # k => kinds[j] \cap kinds[k] = {}
      BY <3>9, <3>10 DEF Kind
    <3> QED
      BY <3>7, <3>8, <3>12, <3>13 DEF kinds, pages
  <2>3. FreeTablesClean
    <3> SUFFICES ASSUME Running, NEW t \in mm.pt, NEW i \in Index PROVE ~mm.mem[t][i].p
      BY DEF FreeTablesClean
    <3>1. PICK K : Tree(mm, K)
      BY DEF MemInv, Fits, Owned
    <3>2. t \in PtFrames /\ K[t] = 0
      BY <3>1 DEF Tree, FreeKinds, Machines
    <3>3. mm.mem[t][i] = NoEntry
      BY <3>1, <3>2 DEF Tree, OthersClean
    <3> QED
      BY <3>3, EntryIs
  <2> QED
    BY <2>1, <2>2, <2>3 DEF FramesOwnedOnce
<1> QED
  BY <1>1, <1>2, <1>3, PTL DEF Spec

-----------------------------------------------------------------------------
(* What the pages of a process hold. *)
ContOf(run, s, r, d) ==
    [p \in Pages |-> LET e == PathTo(s, r, p)
                     IN  IF run /\ Len(e) = 4 /\ e[4].p THEN d[e[4].f] ELSE NoValue]

(* The contents of the pages of a process that runs. *)
LEMMA ContIs ==
  ASSUME NEW s, NEW r, NEW stack, NEW pmd, NEW free, Fits(s, r, stack, pmd, free),
         NEW d \in [UserFrames -> Values], NEW run, run, NEW c, c = ContOf(run, s, r, d)
  PROVE  /\ DOMAIN c = Pages /\ c = [p \in Pages |-> c[p]]
         /\ \A p \in Pages : /\ Has0(s, r, p) => c[p] = d[At0(s, r, p)] /\ c[p] # NoValue
                             /\ ~Has0(s, r, p) => c[p] = NoValue
<1>1. c = [p \in Pages |-> LET e == PathTo(s, r, p)
                           IN  IF run /\ Len(e) = 4 /\ e[4].p THEN d[e[4].f] ELSE NoValue]
  BY DEF ContOf
<1>2. ASSUME NEW p \in Pages
      PROVE  /\ Has0(s, r, p) => c[p] = d[At0(s, r, p)] /\ c[p] # NoValue
             /\ ~Has0(s, r, p) => c[p] = NoValue
  <2> DEFINE e == PathTo(s, r, p)
  <2>1. c[p] = IF run /\ Len(e) = 4 /\ e[4].p THEN d[e[4].f] ELSE NoValue
    BY <1>1
  <2>2. /\ Has0(s, r, p) <=> Len(e) = 4 /\ e[4].p
        /\ Has0(s, r, p) => e[4].f = At0(s, r, p) /\ At0(s, r, p) \in UserFrames
    BY FitsWalk
  <2>3. \A f \in UserFrames : d[f] # NoValue
    BY ValuesAssumption
  <2> HIDE DEF e
  <2> QED
    BY <2>1, <2>2, <2>3
<1> QED
  BY <1>1, <1>2

(* Without a process no page holds anything. *)
LEMMA ContNone ==
  ASSUME NEW s, NEW r, NEW d, NEW run, ~run
  PROVE  ContOf(run, s, r, d) = [p \in Pages |-> NoValue]
BY DEF ContOf

(* Two pages never have the same frame.                                    *)
LEMMA FitsApart ==
  ASSUME NEW s, NEW r, NEW stack, NEW pmd, NEW free, Fits(s, r, stack, pmd, free),
         NEW p \in Pages, NEW q \in Pages, Has0(s, r, p), Has0(s, r, q), At0(s, r, p) = At0(s, r, q)
  PROVE  p = q
BY OneFrame, FanIs DEF Fits, Owned

Cont == ContOf(Running, mm, pgd, data)

(* An access is legal for the promised memory when its segment grants it. *)
LEMMA LegalIs ==
  ASSUME InRange(next_free), NEW p, NEW w \in BOOLEAN
  PROVE  UM!Legal(p, w) <=> p \in MayRead(next_free) /\ (w => p \in MayWrite(next_free))
<1>1. \A seg \in Segs : UM!Usable(seg) = Own(next_free, seg)
  <2>1. Segs = {"CODE", "RODATA", "DATA", "STACK"} /\ Movable = {"RODATA", "DATA"}
        /\ UM!Movable = {"RODATA", "DATA"}
    BY DEF Segs, Movable, UM!Movable
  <2>2. UM!Usable("CODE") = Own(next_free, "CODE")
    BY DEF UM!Usable, Own, CodeSet
  <2>3. UM!Usable("STACK") = Own(next_free, "STACK")
    BY <2>1 DEF UM!Usable, Own
  <2>4. UM!Usable("DATA") = Own(next_free, "DATA") /\ UM!Usable("RODATA") = Own(next_free, "RODATA")
    BY <2>1 DEF UM!Usable, Own
  <2> QED
    BY <2>1, <2>2, <2>3, <2>4
<1>2. UM!Legal(p, w) <=> \E seg \in Segs : p \in Own(next_free, seg) /\ (w => seg \in {"DATA", "STACK"})
  BY <1>1 DEF UM!Legal, Segs
<1>3. "DATA" \in Segs /\ "STACK" \in Segs
  BY DEF Segs
<1> QED
  BY <1>2, <1>3 DEF MayRead, MayWrite

(* Both memories start empty. *)
LEMMA UMInit == Init => UM!Init
<1> SUFFICES ASSUME Init PROVE UM!Init
  OBVIOUS
<1>1. ~Running
  BY DEF Init, Running
<1>2. ContOf(Running, mm, pgd, data) = [p \in Pages |-> NoValue]
  BY <1>1, ContNone
<1>3. next_free = UM!NoLimits
  BY DEF Init, UM!NoLimits, UM!Movable, Movable
<1> QED
  BY <1>1, <1>2, <1>3 DEF UM!Init, Init, ContOf

(* What a process that runs holds. *)
LEMMA ContNow ==
  ASSUME MemInv
  PROVE  /\ Running => /\ DOMAIN Cont = Pages /\ Cont = [p \in Pages |-> Cont[p]]
                       /\ \A p \in Pages : /\ Has0(mm, pgd, p) => Cont[p] = data[At0(mm, pgd, p)] /\ Cont[p] # NoValue
                                           /\ ~Has0(mm, pgd, p) => Cont[p] = NoValue
         /\ ~Running => Cont = [p \in Pages |-> NoValue]
BY ContIs, ContNone DEF MemInv, Cont

(* The same after a step. *)
LEMMA ContNext ==
  ASSUME MemInv'
  PROVE  /\ Running' => /\ DOMAIN Cont' = Pages /\ Cont' = [p \in Pages |-> Cont'[p]]
                        /\ \A p \in Pages : /\ Has0(mm', pgd', p) => Cont'[p] = data'[At0(mm', pgd', p)] /\ Cont'[p] # NoValue
                                            /\ ~Has0(mm', pgd', p) => Cont'[p] = NoValue
         /\ ~Running' => Cont' = [p \in Pages |-> NoValue]
BY ContIs, ContNone DEF MemInv, Cont

(* What a process may do with a page it has. *)
LEMMA HeldIsLegal ==
  ASSUME MemInv, Running, NEW p \in Pages, Has0(mm, pgd, p), NEW w \in BOOLEAN
  PROVE  (w => Leaf(mm, pgd, p).w) <=> UM!Legal(p, w)
<1>1. InRange(next_free) /\ Granted(mm, pgd, next_free) /\ p \in AllPages
  BY FanIs DEF MemInv, Fits
<1>2. p \in MayRead(next_free) /\ (Leaf(mm, pgd, p).w <=> p \in MayWrite(next_free))
  BY <1>1 DEF Granted
<1> QED
  BY <1>1, <1>2, LegalIs

(* exec_init begins a process of the promised memory. *)
LEMMA MapExec ==
  ASSUME EnoughToStart, MemInv, ExecInit
  PROVE  UM!Begin
<1>1. /\ MemInv' /\ Running' /\ ~Running /\ mm.user = UserFrames /\ Contents
      /\ \A q \in Pages : Has0(mm', pgd', q) <=> q \in CodeSet(CodePages) \cup {Start["DATA"], End["STACK"]}
      /\ next_free' = [seg \in Movable |-> IF seg = "DATA" THEN Start[seg] + 1 ELSE Start[seg]]
      /\ out' = <<"started">>
  BY ExecStep DEF ExecInit, Running
<1>2. UM!Loaded = CodeSet(CodePages) \cup {Start["DATA"], End["STACK"]}
  <2>1. UM!Usable("CODE") = CodeSet(CodePages)
    BY DEF UM!Usable, CodeSet, UM!Movable
  <2> QED
    BY <2>1 DEF UM!Loaded
<1>3. next_free' = [UM!NoLimits EXCEPT !["DATA"] = @ + 1]
  BY <1>1 DEF UM!NoLimits, UM!Movable, Movable
<1>4. Fits(mm', pgd', os_stack', os_pmd', next_free') /\ data \in [UserFrames -> Values]
  BY <1>1 DEF MemInv
<1>5. ASSUME NEW q \in Pages
      PROVE  Cont'[q] = IF q \in UM!Loaded THEN Old ELSE NoValue
  <2>1. CASE Has0(mm', pgd', q)
    <3>1. At0(mm', pgd', q) \in UserFrames
      BY <1>4, <2>1, FitsWalk
    <3>2. data'[At0(mm', pgd', q)] = Old
      BY <1>1, <1>4, <3>1, ContentsKept
    <3> QED
      BY <1>1, <1>2, <2>1, <3>2, ContNext
  <2>2. CASE ~Has0(mm', pgd', q)
    BY <1>1, <1>2, <2>2, ContNext
  <2> QED
    BY <2>1, <2>2
<1>6. Cont' = [q \in Pages |-> IF q \in UM!Loaded THEN Old ELSE NoValue]
  <2>1. Cont' = [q \in Pages |-> Cont'[q]]
    BY <1>1, ContNext
  <2> QED
    BY <1>5, <2>1
<1> QED
  BY <1>1, <1>3, <1>6 DEF UM!Begin, Cont, ContOf

(* do_exit ends it. *)
LEMMA MapGone ==
  ASSUME MemInv, Running, NEW why, do_exit(why)
  PROVE  UM!Gone /\ out' = why
<1>1. MemInv' /\ ~Running' /\ next_free' = [seg \in Movable |-> Start[seg]]
  BY ExitStep
<1>2. Cont' = [p \in Pages |-> NoValue]
  BY <1>1, ContNext
<1>3. next_free' = UM!NoLimits
  BY <1>1 DEF UM!NoLimits, UM!Movable, Movable
<1> QED
  BY <1>1, <1>2, <1>3 DEF UM!Gone, do_exit, Cont, ContOf

(* An access of the CPU, through the TLB or the tables, reads or writes    *)
(* what the page promises.                                                 *)
LEMMA MapAccess ==
  ASSUME MemInv, NEW p \in Pages, NEW w \in BOOLEAN, NEW v \in Values, Access(p, w, v)
  PROVE  UM!Load(p) \/ UM!Store(p, v)
<1> DEFINE f == At0(mm, pgd, p)
<1>1. /\ MemInv' /\ Running /\ Has0(mm, pgd, p) /\ (w => Leaf(mm, pgd, p).w) /\ f \in UserFrames
      /\ w  => out' = <<"store", p, v>> /\ data' = [data EXCEPT ![f] = v]
      /\ ~w => out' = <<"load", p, data[f]>> /\ data' = data
      /\ mm' = mm /\ pgd' = pgd /\ next_free' = next_free /\ Running'
      /\ data \in [UserFrames -> Values]
  BY AccessStep DEF Access, Running, MemInv
<1>2. UM!Legal(p, w) /\ Cont[p] # NoValue /\ Cont[p] = data[f]
  BY <1>1, HeldIsLegal, ContNow
<1>3. CASE ~w
  <2>1. Cont' = Cont
    BY <1>1, <1>3 DEF Cont, ContOf, Running
  <2>2. UM!Legal(p, FALSE)
    BY <1>2 DEF UM!Legal
  <2>3. UM!Load(p)
    BY <1>1, <1>2, <1>3, <2>1, <2>2 DEF UM!Load, Cont, ContOf
  <2> QED
    BY <2>3
<1>4. CASE w
  <2>1. \A q \in Pages : Cont'[q] = IF q = p THEN v ELSE Cont[q]
    <3> TAKE q \in Pages
    <3>1. Fits(mm, pgd, os_stack, os_pmd, next_free)
      BY <1>1 DEF MemInv
    <3>2. CASE ~Has0(mm, pgd, q)
      BY <1>1, <3>2, ContNow, ContNext
    <3>3. CASE Has0(mm, pgd, q) /\ q = p
      BY <1>1, <1>4, <3>3, ContNext
    <3>4. CASE Has0(mm, pgd, q) /\ q # p
      <4>1. At0(mm, pgd, q) # f /\ At0(mm, pgd, q) \in UserFrames
        BY <1>1, <3>1, <3>4, FitsApart, FitsWalk
      <4>2. data'[At0(mm, pgd, q)] = data[At0(mm, pgd, q)]
        BY <1>1, <1>4, <4>1
      <4> QED
        BY <1>1, <3>4, <4>2, ContNow, ContNext
    <3> QED
      BY <3>2, <3>3, <3>4
  <2>2. Cont' = [Cont EXCEPT ![p] = v]
    <3>1. Cont' = [q \in Pages |-> Cont'[q]] /\ Cont = [q \in Pages |-> Cont[q]]
      BY <1>1, ContNow, ContNext
    <3> HIDE DEF Cont
    <3> QED
      BY <2>1, <3>1
  <2>3. UM!Legal(p, TRUE)
    BY <1>2, <1>4 DEF UM!Legal
  <2>4. UM!Store(p, v)
    BY <1>1, <1>2, <1>4, <2>2, <2>3 DEF UM!Store, Cont, ContOf
  <2> QED
    BY <2>4
<1> QED
  BY <1>3, <1>4

(* handle_page_fault gives the page its first contents, or kills for an    *)
(* access that is not legal.                                               *)
LEMMA MapFault ==
  ASSUME MemInv, FramesLeft, NEW p \in Pages, NEW w \in BOOLEAN, handle_page_fault(p, w)
  PROVE  UM!Touch(p, w) \/ UM!Kill(p, w)
<1>1. Running /\ ~Translates(p, w) /\ Fits(mm, pgd, os_stack, os_pmd, next_free)
      /\ InRange(next_free) /\ Granted(mm, pgd, next_free) /\ p \in AllPages
      /\ data \in [UserFrames -> Values]
  BY FaultIs, FanIs DEF MemInv, Fits
<1>2. ASSUME BadAccess(p, w)
      PROVE  UM!Kill(p, w)
  <2>1. ~UM!Legal(p, w)
    <3> SUFFICES ASSUME UM!Legal(p, w) PROVE FALSE
      OBVIOUS
    <3>1. p \in MayRead(next_free) /\ (w => p \in MayWrite(next_free))
      BY <1>1, LegalIs
    <3>2. ~Has0(mm, pgd, p)
      <4> SUFFICES ASSUME Has0(mm, pgd, p) PROVE FALSE
        OBVIOUS
      <4>1. w => Leaf(mm, pgd, p).w
        BY <1>1, HeldIsLegal
      <4>2. Walks(p, w)
        BY <1>1, <4>1, WalksIs
      <4> QED
        BY <1>1, <4>2 DEF Translates
    <3>3. ~Protection(p)
      BY <1>1, <3>2, FitsWalk DEF Protection
    <3>4. PICK seg \in Segs : p \in Own(next_free, seg)
      BY <3>1 DEF MayRead
    <3>5. seg # "CODE"
      BY <1>1, <3>2, <3>4, OwnIs DEF Granted
    <3>6. seg \in {"RODATA", "DATA", "STACK"}
      BY <3>5 DEF Segs
    <3>7. \A a \in Segs : Start[a] \in Nat /\ End[a] \in Nat
      BY <1>1, OwnIs
    <3>8. p \in Nat /\ \A a \in Movable : next_free[a] \in Nat
      BY <1>1, FanIs DEF InRange
    <3>9. {"RODATA", "DATA"} \subseteq Movable /\ {"RODATA", "DATA", "STACK"} \subseteq Segs
      BY DEF Movable, Segs
    <3>10. ~InData(p) /\ ~InRodata(p, w) /\ ~InStack(p)
      BY <1>2 DEF BadAccess
    <3>11. CASE seg = "DATA"
      <4>1. p \in Start["DATA"]..next_free["DATA"]-1
        BY <1>1, <3>4, <3>9, <3>11, OwnIs
      <4> QED
        BY <3>3, <3>7, <3>8, <3>9, <3>10, <4>1 DEF InData
    <3>12. CASE seg = "STACK"
      <4>1. p \in Start["STACK"]..End["STACK"]
        BY <1>1, <3>4, <3>12, OwnIs
      <4> QED
        BY <3>3, <3>7, <3>8, <3>9, <3>10, <4>1 DEF InStack
    <3>13. CASE seg = "RODATA"
      <4>1. p \in Start["RODATA"]..next_free["RODATA"]-1
        BY <1>1, <3>4, <3>9, <3>13, OwnIs
      <4>2. p \notin MayWrite(next_free)
        BY <1>1, <3>4, <3>9, <3>13, OwnIs DEF MayWrite
      <4>3. ~w
        BY <3>1, <4>2
      <4> QED
        BY <3>3, <3>7, <3>8, <3>9, <3>10, <4>1, <4>3 DEF InRodata
    <3> QED
      BY <3>6, <3>11, <3>12, <3>13
  <2>2. UM!Gone /\ out' = <<"killed", p, w>>
    BY <1>1, <1>2, MapGone DEF BadAccess
  <2> QED
    BY <1>1, <2>1, <2>2 DEF UM!Kill
<1>3. ASSUME NEW seg \in Segs \ {"CODE"}, p \in Own(next_free, seg), Faulty(p),
             Resolve(p, w, seg), w => Writable(seg)
      PROVE  UM!Touch(p, w)
  <2>1. /\ MemInv' /\ Running' /\ ~Has0(mm, pgd, p) /\ Has0(mm', pgd', p)
        /\ At0(mm', pgd', p) \in mm.user /\ mm'.user \subseteq mm.user
        /\ \A q \in Pages \ {p} : /\ Has0(mm', pgd', q) <=> Has0(mm, pgd, q)
                                  /\ Has0(mm, pgd, q) => At0(mm', pgd', q) = At0(mm, pgd, q)
    BY <1>1, <1>3, FaultStep
  <2>2. Contents /\ out' = <<"fault", p, w>> /\ next_free' = next_free
    BY <1>3 DEF Resolve
  <2>3. UM!Legal(p, w)
    <3>1. p \in MayRead(next_free)
      BY <1>3 DEF MayRead
    <3>2. w => seg \in {"DATA", "STACK"}
      BY <1>3 DEF Writable
    <3>3. w => p \in MayWrite(next_free)
      BY <1>3, <3>2 DEF MayWrite
    <3> QED
      BY <1>1, <3>1, <3>3, LegalIs
  <2>4. Fits(mm', pgd', os_stack', os_pmd', next_free')
    BY <2>1 DEF MemInv
  <2>5. \A q \in Pages : Cont'[q] = IF q = p THEN Old ELSE Cont[q]
    <3> TAKE q \in Pages
    <3>1. CASE q = p
      <4>1. At0(mm', pgd', p) \in UserFrames
        BY <2>1, <2>4, FitsWalk
      <4>2. data'[At0(mm', pgd', p)] = Old
        BY <1>1, <2>1, <2>2, <4>1, ContentsKept
      <4> QED
        BY <2>1, <3>1, <4>2, ContNext
    <3>2. CASE q # p /\ Has0(mm, pgd, q)
      <4>1. At0(mm, pgd, q) \in UserFrames \ mm.user
        BY <1>1, <3>2, FitsWalk
      <4>2. data'[At0(mm, pgd, q)] = data[At0(mm, pgd, q)]
        BY <1>1, <2>1, <2>2, <4>1, ContentsKept
      <4> QED
        BY <1>1, <2>1, <3>2, <4>2, ContNow, ContNext
    <3>3. CASE q # p /\ ~Has0(mm, pgd, q)
      BY <1>1, <2>1, <3>3, ContNow, ContNext
    <3> QED
      BY <3>1, <3>2, <3>3
  <2>6. Cont' = [Cont EXCEPT ![p] = Old]
    <3>1. Cont' = [q \in Pages |-> Cont'[q]] /\ Cont = [q \in Pages |-> Cont[q]]
      BY <1>1, <2>1, ContNow, ContNext
    <3> QED
      BY <2>5, <3>1
  <2>7. Cont[p] = NoValue
    BY <1>1, <2>1, ContNow
  <2> QED
    BY <1>1, <2>1, <2>2, <2>3, <2>6, <2>7 DEF UM!Touch, Cont, ContOf
<1> QED
  BY <1>2, <1>3, FaultIs

(* A stutter maps to a stutter. *)
LEMMA MapSame ==
  ASSUME UNCHANGED vars PROVE UNCHANGED UM!vars
BY DEF vars, UM!vars, Running

(* expand grants pages as promised, and answers as promised. *)
LEMMA MapExpand ==
  ASSUME MemInv, SizesDontWrap, NEW seg \in Movable, NEW n \in ExpandArgs, SyscallExpand(seg, n)
  PROVE  UM!Expand(seg, n)
<1>1. /\ MemInv' /\ Running /\ pgd' = pgd /\ mm' = mm /\ data' = data
      /\ (next_free[seg] + n) % W = next_free[seg] + n
  BY ExpandStep
<1>2. Cont' = Cont /\ Running'
  BY <1>1 DEF Cont, ContOf, Running
<1>3. CASE next_free[seg] + n > End[seg]
  BY <1>1, <1>2, <1>3 DEF SyscallExpand, Beyond, Answer, UM!Expand, Cont, ContOf
<1>4. CASE ~(next_free[seg] + n > End[seg])
  BY <1>1, <1>2, <1>4 DEF SyscallExpand, Beyond, UM!Expand, Cont, ContOf
<1> QED
  BY <1>3, <1>4

(* shrink takes the contents of the pages it frees, and answers as         *)
(* promised.                                                               *)
LEMMA MapShrink ==
  ASSUME MemInv, SizesDontWrap, NEW seg \in Movable, NEW n \in ShrinkArgs, SyscallShrink(seg, n)
  PROVE  UM!Shrink(seg, n)
<1>1. /\ n \in Nat /\ next_free[seg] \in Nat /\ Start[seg] \in Nat /\ n <= Start[seg]
      /\ next_free[seg] >= Start[seg] /\ W \in Nat /\ next_free[seg] < W /\ Running
  BY ArgsAssumption, SegmentBounds DEF SizesDontWrap, MemInv, InRange, SyscallShrink
<1>2. Back(seg, n) = next_free[seg] - n
  <2>1. next_free[seg] - n \in Nat /\ next_free[seg] - n < W
    BY <1>1
  <2> QED
    BY <1>1, <2>1, SmallMod DEF Back
<1>3. CASE next_free[seg] - n < Start[seg]
  <2>1. Cont' = Cont /\ Running' /\ next_free' = next_free /\ out' = <<"shrink", seg, n, "NULL">>
    BY <1>1, <1>2, <1>3 DEF SyscallShrink, Answer, Cont, ContOf, Running
  <2> QED
    BY <1>1, <1>3, <2>1 DEF UM!Shrink, Cont, ContOf
<1>4. CASE ~(next_free[seg] - n < Start[seg])
  <2> DEFINE given == next_free[seg]-n..next_free[seg]-1
  <2>1. Back(seg, n) >= Start[seg]
    BY <1>1, <1>2, <1>4
  <2>2. /\ MemInv' /\ Running'
        /\ \A q \in Pages : /\ Has0(mm', pgd', q) <=> Has0(mm, pgd, q) /\ q \notin given
                            /\ Has0(mm', pgd', q) => At0(mm', pgd', q) = At0(mm, pgd, q)
    BY <2>1, ShrinkStep
  <2>3. /\ Contents /\ next_free' = [next_free EXCEPT ![seg] = next_free[seg] - n]
        /\ out' = <<"shrink", seg, n, "at", next_free[seg] - n>>
    BY <1>2, <1>4 DEF SyscallShrink
  <2>4. /\ Fits(mm, pgd, os_stack, os_pmd, next_free) /\ Fits(mm', pgd', os_stack', os_pmd', next_free')
        /\ data \in [UserFrames -> Values]
    BY <1>1, <2>2 DEF MemInv
  <2> HIDE DEF given
  <2>5. \A q \in Pages : Cont'[q] = IF q \in given THEN NoValue ELSE Cont[q]
    <3> TAKE q \in Pages
    <3>1. CASE Has0(mm', pgd', q)
      <4>1. At0(mm, pgd, q) \in UserFrames \ mm.user /\ At0(mm', pgd', q) \in UserFrames \ mm'.user
            /\ At0(mm', pgd', q) = At0(mm, pgd, q) /\ Has0(mm, pgd, q) /\ q \notin given
        BY <2>2, <2>4, <3>1, FitsWalk
      <4>2. data'[At0(mm, pgd, q)] = data[At0(mm, pgd, q)]
        BY <2>3, <2>4, <4>1, ContentsKept
      <4> QED
        BY <1>1, <2>2, <3>1, <4>1, <4>2, ContNow, ContNext
    <3>2. CASE ~Has0(mm', pgd', q)
      BY <1>1, <2>2, <3>2, ContNow, ContNext
    <3> QED
      BY <3>1, <3>2
  <2>6. Cont' = [q \in Pages |-> IF q \in given THEN NoValue ELSE Cont[q]]
    <3>1. Cont' = [q \in Pages |-> Cont'[q]]
      BY <2>2, ContNext
    <3> QED
      BY <2>5, <3>1
  <2> QED
    BY <1>1, <1>4, <2>2, <2>3, <2>6 DEF UM!Shrink, Cont, ContOf, given
<1> QED
  BY <1>3, <1>4

(* write prints what the process holds.                                    *)
LEMMA ContentIs ==
  ASSUME MemInv, Running, NEW p \in Pages, Has0(mm, pgd, p)
  PROVE  Content(p) = Cont[p]
<1>1. Cont[p] = data[At0(mm, pgd, p)]
  BY ContNow
<1>2. Fits(mm, pgd, os_stack, os_pmd, next_free) /\ Cached(mm, pgd, tlb)
  BY DEF MemInv
<1>3. CASE Held(p, FALSE) # {}
  <2> DEFINE t == CHOOSE o \in Held(p, FALSE) : TRUE
  <2>1. t \in Held(p, FALSE)
    BY <1>3
  <2> HIDE DEF t
  <2>2. t.f = At0(mm, pgd, p)
    BY <1>2, <2>1 DEF Held, Cached
  <2>3. Content(p) = data[t.f]
    BY <1>3 DEF Content, t
  <2> QED
    BY <1>1, <2>2, <2>3
<1>4. CASE Held(p, FALSE) = {}
  <2>1. PathTo(mm, pgd, p)[4].f = At0(mm, pgd, p)
    BY <1>2, FitsWalk
  <2> QED
    BY <1>1, <1>4, <2>1 DEF Content
<1> QED
  BY <1>3, <1>4

(* write prints the contents of the pages its buffer lies on, or refuses. *)
LEMMA MapWrite ==
  ASSUME MemInv, SyscallWrite \/ SyscallWriteLong \/ SyscallWriteNothing
  PROVE  \/ UM!WriteLong
         \/ \E p \in Pages : \E q \in Pages \cap {p, p+1} : UM!Write(p, q) \/ UM!WriteNothing(p, q)
<1>1. /\ Running /\ UNCHANGED <<mm, data, tlb, pgd, os_stack, os_pmd, next_free>>
      /\ Fits(mm, pgd, os_stack, os_pmd, next_free)
  BY DEF SyscallWrite, SyscallWriteLong, SyscallWriteNothing, Answer, MemInv
<1>2. Cont' = Cont /\ Running'
  BY <1>1 DEF Cont, ContOf, Running
<1>3. CASE SyscallWriteLong
  BY <1>1, <1>2, <1>3 DEF SyscallWriteLong, Answer, UM!WriteLong, Cont, ContOf
<1>4. ASSUME NEW b \in Buffers
      PROVE  /\ b[1] \in Pages /\ b[2] \in Pages \cap {b[1], b[1]+1}
             /\ isvalid(b[1]) <=> Cont[b[1]] # NoValue
             /\ isvalid(b[2]) <=> Cont[b[2]] # NoValue
             /\ isvalid(b[1]) => Has0(mm, pgd, b[1])
             /\ isvalid(b[2]) => Has0(mm, pgd, b[2])
  <2> DEFINE p == b[1]
             q == b[2]
  <2>1. p \in Pages /\ q \in Pages \cap {p, p+1}
    BY DEF Buffers
  <2> HIDE DEF p, q
  <2>2. /\ isvalid(p) <=> Cont[p] # NoValue
        /\ isvalid(q) <=> Cont[q] # NoValue
        /\ isvalid(p) => Has0(mm, pgd, p)
        /\ isvalid(q) => Has0(mm, pgd, q)
    BY <1>1, <2>1, FitsWalk, ContNow DEF isvalid
  <2> QED
    BY <2>1, <2>2 DEF p, q
<1>5. CASE SyscallWriteNothing
  <2>1. PICK b \in Buffers : out' = EmptyAnswer(b[1], b[2])
    BY <1>5 DEF SyscallWriteNothing, Answer
  <2> DEFINE p == b[1]
             q == b[2]
  <2>2. /\ p \in Pages /\ q \in Pages \cap {p, p+1} /\ out' = EmptyAnswer(p, q)
        /\ isvalid(p) <=> Cont[p] # NoValue
        /\ isvalid(q) <=> Cont[q] # NoValue
    BY <1>4, <2>1
  <2> HIDE DEF p, q
  <2>3. out' = <<"nothing", p, q, IF NoValue \in {Cont[p], Cont[q]} THEN "-1" ELSE "0">>
    <3>1. CASE isvalid(p) /\ isvalid(q)
      BY <2>2, <3>1 DEF EmptyAnswer
    <3>2. CASE ~(isvalid(p) /\ isvalid(q))
      BY <2>2, <3>2 DEF EmptyAnswer
    <3> QED
      BY <3>1, <3>2
  <2>4. UM!WriteNothing(p, q)
    BY <1>1, <1>2, <2>3 DEF UM!WriteNothing, Cont, ContOf
  <2> QED
    BY <2>2, <2>4
<1>6. CASE SyscallWrite
  <2>1. PICK b \in Buffers : out' = WriteAnswer(b[1], b[2])
    BY <1>6 DEF SyscallWrite, Answer
  <2> DEFINE p == b[1]
             q == b[2]
  <2>2. /\ p \in Pages /\ q \in Pages \cap {p, p+1} /\ out' = WriteAnswer(p, q)
        /\ isvalid(p) <=> Cont[p] # NoValue
        /\ isvalid(q) <=> Cont[q] # NoValue
        /\ isvalid(p) => Has0(mm, pgd, p)
        /\ isvalid(q) => Has0(mm, pgd, q)
    BY <1>4, <2>1
  <2> HIDE DEF p, q
  <2>3. out' = IF NoValue \in {Cont[p], Cont[q]} THEN <<"write", p, q, "-1">>
               ELSE <<"write", p, q, "printed", Cont[p], Cont[q]>>
    <3>1. CASE isvalid(p) /\ isvalid(q)
      <4>1. Content(p) = Cont[p] /\ Content(q) = Cont[q]
        BY <1>1, <2>2, <3>1, ContentIs
      <4>2. out' = <<"write", p, q, "printed", Content(p), Content(q)>>
        BY <2>2, <3>1 DEF WriteAnswer
      <4> QED
        BY <2>2, <3>1, <4>1, <4>2
    <3>2. CASE ~(isvalid(p) /\ isvalid(q))
      <4>1. out' = <<"write", p, q, "-1">>
        BY <2>2, <3>2 DEF WriteAnswer
      <4> QED
        BY <2>2, <3>2, <4>1
    <3> QED
      BY <3>1, <3>2
  <2>4. UM!Write(p, q)
    BY <1>1, <1>2, <2>3 DEF UM!Write, Cont, ContOf
  <2> QED
    BY <2>2, <2>4
<1> QED
  BY <1>3, <1>5, <1>6

(* Every step maps to a step of the promised memory or a stutter. *)
LEMMA MapStep ==
  ASSUME EnoughToStart, SizesDontWrap, MemInv, FramesLeft, [Next]_vars
  PROVE  [UM!Next]_(UM!vars)
<1>1. CASE UNCHANGED vars
  BY <1>1, MapSame
<1>2. CASE ExecInit
  BY <1>2, MapExec DEF UM!Next
<1>3. CASE SyscallExit \/ handle_div_by_zero
  <2>1. Running /\ UM!Gone /\ out' = <<"exited">>
    BY <1>3, MapGone DEF SyscallExit, handle_div_by_zero
  <2>2. UM!Exit
    BY <2>1 DEF UM!Exit
  <2> QED
    BY <2>2 DEF UM!Next
<1>4. CASE SyscallWrite \/ SyscallWriteLong \/ SyscallWriteNothing
  BY <1>4, MapWrite DEF UM!Next
<1>5. ASSUME NEW p \in Pages, NEW w \in BOOLEAN, NEW v \in Values, Access(p, w, v)
      PROVE  UM!Next
  BY <1>5, MapAccess DEF UM!Next
<1>6. ASSUME NEW p \in Pages, NEW w \in BOOLEAN, handle_page_fault(p, w)
      PROVE  UM!Next
  <2>1. UM!Touch(p, w) \/ UM!Kill(p, w)
    BY <1>6, MapFault
  <2> HIDE DEF UM!Touch, UM!Kill
  <2> QED
    BY <2>1 DEF UM!Next
<1>7. ASSUME NEW seg \in Movable, NEW n \in ExpandArgs, SyscallExpand(seg, n)
      PROVE  UM!Next
  BY <1>7, MapExpand DEF UM!Next, UM!Movable, Movable
<1>8. ASSUME NEW seg \in Movable, NEW n \in ShrinkArgs, SyscallShrink(seg, n)
      PROVE  UM!Next
  BY <1>8, MapShrink DEF UM!Next, UM!Movable, Movable
<1> QED
  BY <1>1, <1>2, <1>3, <1>4, <1>5, <1>6, <1>7, <1>8 DEF Next

(* ProcessMemory implements UserMemory: a process sees what it wrote on the*)
(* pages its segments grant, old bytes on a page it touches first, and dies*)
(* of any other access, whatever frames, tables and TLB do below.          *)
THEOREM ProcessesSeeTheirMemory ==
  EnoughToStart /\ SizesDontWrap /\ Spec /\ []FramesLeft => ImplementsUserMemory
<1> SUFFICES ASSUME EnoughToStart, SizesDontWrap
             PROVE  Spec /\ []FramesLeft => ImplementsUserMemory
  OBVIOUS
<1>1. Init => MemInv /\ UM!Init
  BY InitMem, UMInit
<1>2. MemInv /\ FramesLeft /\ [Next]_vars => MemInv' /\ [UM!Next]_(UM!vars)
  BY MemStep, MapStep
<1> QED
  BY <1>1, <1>2, PTL DEF Spec, ImplementsUserMemory, UM!Spec
=============================================================================
