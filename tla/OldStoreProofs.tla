--------------------------- MODULE OldStoreProofs ---------------------------
(***************************************************************************)
(* The four earlier versions of the object store are maps of files, for    *)
(* every number of objects, pointers and blocks and every set of names and *)
(* contents, for clients that stay off what these versions get wrong:      *)
(* above all a rename onto an existing name and, where inodes are saved by *)
(* marks, an object across the end of the disk block its mark stands for.  *)
(***************************************************************************)
EXTENDS OldStore, FiniteSetTheorems, TLAPS

(* What is asked of the clients: what is under Careful in the handlers. *)
CarefulClients == Careful = TRUE

-----------------------------------------------------------------------------
(* Files by name: slots L are in use, slot s has the name K[s] and the      *)
(* contents C[s].                                                           *)
Apart(L, K) == \A s, t \in L : K[s] = K[t] => s = t
NamesOf(L, K) == {K[s] : s \in L}
SlotOf(L, K, k) == First({s \in L : K[s] = k})
FilesOf(L, K, C) == [k \in NamesOf(L, K) |-> C[SlotOf(L, K, k)]]

Added(f, k, c)     == [x \in DOMAIN f \cup {k} |-> IF x = k THEN c ELSE f[x]]
Changed(f, k, c)   == [f EXCEPT ![k] = c]
Removed(f, k)      == [x \in DOMAIN f \ {k} |-> f[x]]
Renamed(f, k, new) == [x \in (DOMAIN f \ {k}) \cup {new} |-> f[IF x = new THEN k ELSE x]]

(* A name that is in use leads to its object.                               *)
LEMMA SlotIs ==
  ASSUME NEW L, L \subseteq Slots, NEW K, Apart(L, K), NEW s \in L
  PROVE  SlotOf(L, K, K[s]) = s
<1>1. {t \in L : K[t] = K[s]} = {s}
  BY DEF Apart
<1>2. First({s}) = s
  <2>1. s <= s
    BY DEF Slots
  <2> QED
    BY <2>1 DEF First
<1> QED
  BY <1>1, <1>2 DEF SlotOf

(* What FilesOf has at each name.                                           *)
LEMMA FileAt ==
  ASSUME NEW L, L \subseteq Slots, NEW K, Apart(L, K), NEW C, NEW s \in L
  PROVE  K[s] \in NamesOf(L, K) /\ FilesOf(L, K, C)[K[s]] = C[s]
<1>1. K[s] \in NamesOf(L, K) /\ SlotOf(L, K, K[s]) = s
  BY SlotIs DEF NamesOf
<1> QED
  BY <1>1 DEF FilesOf

(* A map with those names and those contents is FilesOf. *)
LEMMA FilesEqual ==
  ASSUME NEW L, L \subseteq Slots, NEW K, Apart(L, K), NEW C, NEW g,
         g = [x \in NamesOf(L, K) |-> g[x]], \A s \in L : g[K[s]] = C[s]
  PROVE  FilesOf(L, K, C) = g
<1>1. ASSUME NEW k \in NamesOf(L, K)
      PROVE  FilesOf(L, K, C)[k] = g[k]
  <2>1. PICK s \in L : k = K[s]
    BY DEF NamesOf
  <2> QED
    BY <2>1, FileAt
<1>2. FilesOf(L, K, C) = [k \in NamesOf(L, K) |-> FilesOf(L, K, C)[k]]
  BY DEF FilesOf
<1> HIDE DEF FilesOf
<1> QED
  BY <1>1, <1>2

(* Only the names and contents of the slots in use matter. *)
LEMMA FilesSame ==
  ASSUME NEW L, L \subseteq Slots, NEW K, NEW C, NEW K2, NEW C2, Apart(L, K),
         \A s \in L : K2[s] = K[s] /\ C2[s] = C[s]
  PROVE  Apart(L, K2) /\ NamesOf(L, K2) = NamesOf(L, K) /\ FilesOf(L, K2, C2) = FilesOf(L, K, C)
<1>1. Apart(L, K2) /\ NamesOf(L, K2) = NamesOf(L, K)
  BY DEF Apart, NamesOf
<1>2. PICK g : g = FilesOf(L, K, C)
  OBVIOUS
<1>3. g = [x \in NamesOf(L, K) |-> g[x]]
  BY <1>2 DEF FilesOf
<1>4. \A s \in L : g[K2[s]] = C2[s]
  BY <1>2, FileAt
<1>5. FilesOf(L, K2, C2) = g
  BY <1>1, <1>3, <1>4, FilesEqual
<1> QED
  BY <1>1, <1>2, <1>5

(* A slot in use whose contents change changes one file. *)
LEMMA FileChanged ==
  ASSUME NEW L, L \subseteq Slots, NEW K, NEW C, NEW K2, NEW C2, Apart(L, K), NEW s \in L,
         NEW k, K[s] = k,
         \A t \in L : K2[t] = K[t] /\ (t # s => C2[t] = C[t])
  PROVE  FilesOf(L, K2, C2) = Changed(FilesOf(L, K, C), k, C2[s])
<1>1. Apart(L, K2) /\ NamesOf(L, K2) = NamesOf(L, K)
  BY DEF Apart, NamesOf
<1>2. PICK f : f = FilesOf(L, K, C)
  OBVIOUS
<1>3. PICK g : g = Changed(f, k, C2[s])
  OBVIOUS
<1>4. f = [x \in NamesOf(L, K) |-> f[x]] /\ \A t \in L : K[t] \in NamesOf(L, K) /\ f[K[t]] = C[t]
  <2>1. f = [x \in NamesOf(L, K) |-> f[x]]
    BY <1>2 DEF FilesOf
  <2> QED
    BY <1>2, <2>1, FileAt
<1>5. g = [x \in NamesOf(L, K2) |-> g[x]]
  BY <1>1, <1>3, <1>4 DEF Changed
<1>6. \A t \in L : g[K2[t]] = C2[t]
  BY <1>3, <1>4 DEF Changed, Apart
<1>7. FilesOf(L, K2, C2) = g
  BY <1>1, <1>5, <1>6, FilesEqual
<1> QED
  BY <1>2, <1>3, <1>7

(* A free slot that gets a name of its own is a new file. *)
LEMMA FileAdded ==
  ASSUME NEW L, L \subseteq Slots, NEW K, NEW C, NEW K2, NEW C2, Apart(L, K),
         NEW s \in Slots, s \notin L, NEW k, K2[s] = k, k \notin NamesOf(L, K),
         \A t \in L : K2[t] = K[t] /\ C2[t] = C[t]
  PROVE  /\ Apart(L \cup {s}, K2)
         /\ FilesOf(L \cup {s}, K2, C2) =
              Added(FilesOf(L, K, C), k, C2[s])
<1>1. Apart(L \cup {s}, K2) /\ NamesOf(L \cup {s}, K2) = NamesOf(L, K) \cup {K2[s]}
  BY DEF Apart, NamesOf
<1>2. PICK f : f = FilesOf(L, K, C)
  OBVIOUS
<1>3. PICK g : g = Added(f, k, C2[s])
  OBVIOUS
<1>4. DOMAIN f = NamesOf(L, K) /\ \A t \in L : K[t] \in NamesOf(L, K) /\ f[K[t]] = C[t]
  <2>1. DOMAIN f = NamesOf(L, K)
    BY <1>2 DEF FilesOf
  <2> QED
    BY <1>2, <2>1, FileAt
<1>5. g = [x \in NamesOf(L \cup {s}, K2) |-> g[x]]
  BY <1>1, <1>3, <1>4 DEF Added
<1>6. \A t \in L \cup {s} : g[K2[t]] = C2[t]
  BY <1>3, <1>4 DEF Added
<1>7. FilesOf(L \cup {s}, K2, C2) = g
  BY <1>1, <1>5, <1>6, FilesEqual
<1> QED
  BY <1>1, <1>2, <1>3, <1>7

(* A slot that is given up is a file removed. *)
LEMMA FileRemoved ==
  ASSUME NEW L, L \subseteq Slots, NEW K, NEW C, NEW K2, NEW C2, Apart(L, K), NEW s \in L,
         \A t \in L \ {s} : K2[t] = K[t] /\ C2[t] = C[t]
  PROVE  /\ Apart(L \ {s}, K2)
         /\ FilesOf(L \ {s}, K2, C2) =
              Removed(FilesOf(L, K, C), K[s])
<1>1. Apart(L \ {s}, K2) /\ NamesOf(L \ {s}, K2) = NamesOf(L, K) \ {K[s]}
  BY DEF Apart, NamesOf
<1>2. PICK f : f = FilesOf(L, K, C)
  OBVIOUS
<1>3. PICK g : g = Removed(f, K[s])
  OBVIOUS
<1>4. DOMAIN f = NamesOf(L, K) /\ \A t \in L : K[t] \in NamesOf(L, K) /\ f[K[t]] = C[t]
  <2>1. DOMAIN f = NamesOf(L, K)
    BY <1>2 DEF FilesOf
  <2> QED
    BY <1>2, <2>1, FileAt
<1>5. g = [x \in NamesOf(L \ {s}, K2) |-> g[x]]
  BY <1>1, <1>3, <1>4 DEF Removed
<1>6. \A t \in L \ {s} : g[K2[t]] = C2[t]
  BY <1>3, <1>4 DEF Removed, Apart
<1>7. FilesOf(L \ {s}, K2, C2) = g
  BY <1>1, <1>5, <1>6, FilesEqual
<1> QED
  BY <1>1, <1>2, <1>3, <1>7

(* A slot that gets another name takes its file along. *)
LEMMA FileRenamed ==
  ASSUME NEW L, L \subseteq Slots, NEW K, NEW C, NEW K2, NEW C2, Apart(L, K), NEW s \in L,
         NEW k, NEW new, K[s] = k, K2[s] = new, new \notin NamesOf(L, K),
         \A t \in L : C2[t] = C[t] /\ (t # s => K2[t] = K[t])
  PROVE  /\ Apart(L, K2)
         /\ FilesOf(L, K2, C2) =
              Renamed(FilesOf(L, K, C), k, new)
<1>1. Apart(L, K2) /\ NamesOf(L, K2) = (NamesOf(L, K) \ {K[s]}) \cup {K2[s]}
  BY DEF Apart, NamesOf
<1>2. PICK f : f = FilesOf(L, K, C)
  OBVIOUS
<1>3. PICK g : g = Renamed(f, k, new)
  OBVIOUS
<1>4. DOMAIN f = NamesOf(L, K) /\ \A t \in L : K[t] \in NamesOf(L, K) /\ f[K[t]] = C[t]
  <2>1. DOMAIN f = NamesOf(L, K)
    BY <1>2 DEF FilesOf
  <2> QED
    BY <1>2, <2>1, FileAt
<1>5. g = [x \in NamesOf(L, K2) |-> g[x]]
  BY <1>1, <1>3, <1>4 DEF Renamed
<1>6. \A t \in L : g[K2[t]] = C2[t]
  BY <1>3, <1>4 DEF Renamed, Apart, NamesOf
<1>7. FilesOf(L, K2, C2) = g
  BY <1>1, <1>5, <1>6, FilesEqual
<1> QED
  BY <1>1, <1>2, <1>3, <1>7

-----------------------------------------------------------------------------
(* Offsets and positions. *)

(* An offset beyond the direct pointers is an entry of a table.             *)
LEMMA AlphaAlp ==
  ASSUME Sizes, NEW o \in Offsets, o >= NDirect
  PROVE  /\ Alpha(o) \in Indirects /\ Alp(o) \in Entries
         /\ o = NDirect + Alpha(o) * NPer + Alp(o)
<1> DEFINE x == o - NDirect
<1>1. /\ NDirect \in Nat /\ NPer \in Nat /\ NPer > 0 /\ NIndirect \in Nat /\ o \in Int
      /\ x \in Nat /\ x < NIndirect * NPer
  BY DEF Offsets, Sizes
<1>2. x % NPer \in 0..NPer-1
  BY <1>1
<1> DEFINE q == x \div NPer
<1>3. q \in Nat /\ x = q * NPer + (x % NPer)
  <2>1. \A y, n \in Nat : n > 0 => y \div n \in Nat /\ y = (y \div n) * n + (y % n)
    OBVIOUS
  <2> HIDE DEF x
  <2> QED
    BY <1>1, <2>1
<1>4. q < NIndirect
  <2>1. \A m, n, k \in Nat : m >= n => m * k >= n * k
    OBVIOUS
  <2> HIDE DEF x, q
  <2> QED
    BY <1>1, <1>2, <1>3, <2>1
<1>5. o = NDirect + q * NPer + (x % NPer)
  <2>1. o = NDirect + x
    BY <1>1
  <2>2. q * NPer \in Nat
    BY <1>1, <1>3
  <2> HIDE DEF x, q
  <2> QED
    BY <1>1, <1>2, <1>3, <2>1, <2>2
<1> QED
  BY <1>2, <1>3, <1>4, <1>1, <1>5 DEF Alpha, Alp, Indirects, Entries

(* The position of the table of an offset, and what positions there are.    *)
TableOf(o) == -1 - Alpha(o)
TablePlaces == {p \in Positions : p < 0}

(* Positions are offsets and, below 0, tables; offsets are direct or        *)
(* entries of a table that has a position.                                  *)
LEMMA PositionsAre ==
  ASSUME Sizes
  PROVE  /\ Positions \subseteq Int /\ Offsets \subseteq Nat /\ Directs \subseteq Offsets
         /\ Offsets = {p \in Positions : p >= 0}
         /\ \A l \in Indirects : l \in Nat /\ -1 - l \in TablePlaces /\ -1 - (-1 - l) = l
         /\ \A p \in TablePlaces : -1 - p \in Indirects
         /\ \A o \in Offsets : o >= NDirect => TableOf(o) \in TablePlaces
         /\ \A o \in Offsets : ~(o >= NDirect) => o \in Directs
         /\ \A o \in Offsets : o < NDirect <=> ~(o >= NDirect)
         /\ \A o \in Directs : o < NDirect
<1>1. NDirect \in Nat /\ NPer \in Nat /\ NIndirect \in Nat /\ NIndirect * NPer \in Nat
  BY DEF Sizes
<1>2. PICK n \in Nat : n = NIndirect * NPer
  BY <1>1
<1>3. Offsets = 0..NDirect + n - 1 /\ Positions = -NIndirect..NDirect + n - 1
  BY <1>2 DEF Offsets, Positions
<1>4. \A l \in Indirects : l \in Nat /\ -1 - l \in TablePlaces /\ -1 - (-1 - l) = l
  BY <1>1, <1>2, <1>3 DEF Indirects, TablePlaces
<1>5. \A p \in TablePlaces : -1 - p \in Indirects
  BY <1>1, <1>2, <1>3 DEF Indirects, TablePlaces
<1>6. \A o \in Offsets : o >= NDirect => TableOf(o) \in TablePlaces
  BY <1>4, AlphaAlp DEF TableOf
<1>7. \A o \in Offsets : ~(o >= NDirect) => o \in Directs
  BY <1>1, <1>2, <1>3 DEF Directs
<1>8. Directs \subseteq Offsets /\ \A o \in Directs : o < NDirect
  BY <1>1, <1>2, <1>3 DEF Directs
<1>9. Offsets \subseteq Nat /\ Positions \subseteq Int /\ Offsets = {p \in Positions : p >= 0}
  BY <1>1, <1>2, <1>3
<1>10. \A o \in Offsets : o < NDirect <=> ~(o >= NDirect)
  BY <1>1, <1>9
<1> QED
  BY <1>4, <1>5, <1>6, <1>7, <1>8, <1>9, <1>10

(* No two offsets are the same entry of the same table. *)
LEMMA EntriesApart ==
  ASSUME Sizes, NEW o \in Offsets, NEW q \in Offsets, o >= NDirect, q >= NDirect,
         Alpha(o) = Alpha(q), Alp(o) = Alp(q)
  PROVE  o = q
  BY AlphaAlp

(* Some number comes first, in a set of slots, offsets or blocks: the       *)
(* numbers before all of them are finitely many, and if none of these were  *)
(* among them, each would have a successor.                                 *)
LEMMA FirstIs ==
  ASSUME NEW S \in SUBSET Nat, S # {}
  PROVE  First(S) \in S
<1> DEFINE Before == {x \in Nat : \A y \in S : x <= y}
           up == [x \in Before |-> x + 1]
<1>1. SUFFICES ASSUME \A x \in S : \E y \in S : ~(x <= y)
               PROVE  FALSE
  BY DEF First
<1>2. \A x \in Before : x + 1 \in Before
  BY <1>1
<1>3. IsFiniteSet(Before)
  <2>1. PICK m \in S : TRUE
    OBVIOUS
  <2> QED
    BY <2>1, FS_BoundedSetOfNaturals
<1>4. up \in Injection(Before, Before)
  BY <1>2 DEF Injection, IsInjective
<1>5. up \in Surjection(Before, Before)
  BY <1>3, <1>4, FS_Injection
<1>6. 0 \in Before
  OBVIOUS
<1>7. PICK x \in Before : up[x] = 0
  BY <1>5, <1>6 DEF Surjection
<1> QED
  BY <1>7

-----------------------------------------------------------------------------
(* Pointers and blocks: P[s][p] is the pointer of slot s at position p, m   *)
(* the bitmap.  The objects in use point to different blocks, which are     *)
(* those of the bitmap; an entry has its table and a table has an entry.    *)
Addrs == 0..WriteOffset+NBlocks-1
Pointers == [Slots -> [Positions -> Addrs]]

Linked(L, P, m) ==
    /\ \A s \in L, p \in Positions : P[s][p] # 0 => P[s][p] - WriteOffset \in m
    /\ \A s, t \in L : \A p, q \in Positions :
          P[s][p] = P[t][q] /\ P[s][p] # 0 => s = t /\ p = q
    /\ \A a \in m : \E s \in L, p \in Positions : P[s][p] = WriteOffset + a
TablesUsed(L, P) ==
    \A s \in L, p \in TablePlaces :
        P[s][p] # 0 <=> \E o \in Offsets : o >= NDirect /\ TableOf(o) = p /\ P[s][o] # 0

(* The contents are those of what the pointers reach. *)
Shown(L, P, C) ==
    \A s \in L : /\ C[s] \in [Offsets -> Values \cup {NoValue}]
                 /\ \A o \in Offsets : C[s][o] # NoValue <=> P[s][o] # 0

(* A set of blocks and the names of what is in them are equally many.       *)
LEMMA Counted ==
  ASSUME NEW D, NEW R, IsFiniteSet(D), NEW f \in [R -> D],
         \A x, y \in R : f[x] = f[y] => x = y,
         \A a \in D : \E x \in R : f[x] = a
  PROVE  Cardinality(R) = Cardinality(D)
<1>1. f \in Injection(R, D) /\ f \in Surjection(R, D)
  BY DEF Injection, Surjection, IsInjective
<1> QED
  BY <1>1, FS_Injection

(* The blocks in use are as many as the offsets written and the tables they *)
(* need: room runs out when the blocks do.                                  *)
LEMMA RoomIs ==
  ASSUME Sizes, NEW L, L \subseteq Slots, NEW K, Apart(L, K), NEW P \in Pointers, NEW C,
         NEW m, m \subseteq DataBlocks, Linked(L, P, m), TablesUsed(L, P), Shown(L, P, C)
  PROVE  Exhausted(FilesOf(L, K, C)) <=> m = DataBlocks
<1>1. PICK f : f = FilesOf(L, K, C)
  OBVIOUS
<1>2. DOMAIN f = NamesOf(L, K) /\ \A s \in L : K[s] \in NamesOf(L, K) /\ f[K[s]] = C[s]
  <2>1. DOMAIN f = NamesOf(L, K)
    BY <1>1 DEF FilesOf
  <2> QED
    BY <1>1, <2>1, FileAt
<1>3. /\ IsFiniteSet(DataBlocks) /\ Cardinality(DataBlocks) = NBlocks
      /\ IsFiniteSet(m) /\ Cardinality(m) \in Nat /\ Cardinality(m) <= NBlocks
      /\ Cardinality(m) = NBlocks <=> m = DataBlocks
  <2>1. NBlocks \in Nat \ {0}
    BY DEF Sizes
  <2>2. IsFiniteSet(DataBlocks) /\ Cardinality(DataBlocks) = NBlocks
    BY <2>1, FS_Interval DEF DataBlocks
  <2>3. /\ IsFiniteSet(m) /\ Cardinality(m) <= Cardinality(DataBlocks)
        /\ Cardinality(DataBlocks) = Cardinality(m) => DataBlocks = m
    BY <2>2, FS_Subset
  <2> QED
    BY <2>2, <2>3, FS_CardinalityType
<1> DEFINE D == {a \in m : \E s \in L, p \in Offsets : P[s][p] = WriteOffset + a}
           T == {a \in m : \E s \in L, p \in TablePlaces : P[s][p] = WriteOffset + a}
<1>4. /\ \A s \in L, p \in Positions : P[s][p] \in Int
      /\ WriteOffset \in Nat \ {0} /\ \A a \in m : a \in Nat
      /\ Positions = Offsets \cup TablePlaces /\ Offsets \cap TablePlaces = {}
  <2>1. Positions = Offsets \cup TablePlaces /\ Offsets \cap TablePlaces = {}
    BY PositionsAre DEF TablePlaces
  <2> QED
    BY <2>1 DEF Pointers, Addrs, Sizes, DataBlocks
<1>5. /\ m = D \cup T /\ D \cap T = {} /\ IsFiniteSet(D) /\ IsFiniteSet(T)
      /\ Cardinality(D) \in Nat /\ Cardinality(T) \in Nat
      /\ Cardinality(m) = Cardinality(D) + Cardinality(T)
  <2>1. m = D \cup T
    BY <1>4 DEF Linked
  <2>2. ASSUME NEW a \in D, a \in T
        PROVE  FALSE
    <3>1. PICK s \in L, p \in Offsets : P[s][p] = WriteOffset + a
      OBVIOUS
    <3>2. PICK t \in L, q \in TablePlaces : P[t][q] = WriteOffset + a
      BY <2>2
    <3>3. WriteOffset + a # 0
      BY <1>4
    <3> QED
      BY <1>4, <3>1, <3>2, <3>3 DEF Linked
  <2>3. D \cap T = {}
    BY <2>2
  <2>4. IsFiniteSet(D) /\ IsFiniteSet(T)
    BY <1>3, FS_Subset
  <2>5. Cardinality(D \cup T) = Cardinality(D) + Cardinality(T) - Cardinality(D \cap T)
    BY <2>4, FS_Union
  <2>6. Cardinality(D \cap T) = 0
    BY <2>3, FS_EmptySet
  <2>7. Cardinality(D) \in Nat /\ Cardinality(T) \in Nat
    BY <2>4, FS_CardinalityType
  <2> HIDE DEF D, T
  <2> QED
    BY <2>1, <2>3, <2>4, <2>5, <2>6, <2>7
<1>6. \A k \in NamesOf(L, K) : SlotOf(L, K, k) \in L /\ K[SlotOf(L, K, k)] = k
  BY SlotIs DEF NamesOf
<1>7. \A s \in L : SlotOf(L, K, K[s]) = s
  BY SlotIs
<1>8. Cardinality(Places(f)) = Cardinality(D)
  <2> DEFINE g == [r \in Places(f) |-> P[SlotOf(L, K, r[1])][r[2]] - WriteOffset]
  <2>1. ASSUME NEW r \in Places(f)
        PROVE  /\ r[1] \in NamesOf(L, K) /\ r[2] \in Offsets /\ r = <<r[1], r[2]>>
               /\ SlotOf(L, K, r[1]) \in L /\ P[SlotOf(L, K, r[1])][r[2]] # 0
               /\ P[SlotOf(L, K, r[1])][r[2]] \in Int
    <3>1. r[1] \in NamesOf(L, K) /\ r[2] \in Offsets /\ r = <<r[1], r[2]>> /\ f[r[1]][r[2]] # NoValue
      BY <1>2 DEF Places
    <3>2. PICK s : s = SlotOf(L, K, r[1])
      OBVIOUS
    <3>3. s \in L /\ K[s] = r[1]
      BY <1>6, <3>1, <3>2
    <3>4. C[s][r[2]] # NoValue
      BY <1>2, <3>1, <3>3
    <3> QED
      BY <1>4, <3>1, <3>2, <3>3, <3>4 DEF Shown
  <2>2. g \in [Places(f) -> D]
    <3>1. ASSUME NEW r \in Places(f)
          PROVE  P[SlotOf(L, K, r[1])][r[2]] - WriteOffset \in D
      <4>1. PICK s \in L, o \in Offsets : s = SlotOf(L, K, r[1]) /\ o = r[2] /\ P[s][o] # 0 /\ P[s][o] \in Int
        BY <2>1
      <4>2. P[s][o] - WriteOffset \in m
        BY <1>4, <4>1 DEF Linked
      <4>3. P[s][o] = WriteOffset + (P[s][o] - WriteOffset)
        BY <1>4, <4>1
      <4> QED
        BY <4>1, <4>2, <4>3
    <3> HIDE DEF D
    <3> QED
      BY <3>1
  <2>3. ASSUME NEW x \in Places(f), NEW y \in Places(f), g[x] = g[y]
        PROVE  x = y
    <3>1. P[SlotOf(L, K, x[1])][x[2]] = P[SlotOf(L, K, y[1])][y[2]]
      BY <1>4, <2>1, <2>3
    <3>2. SlotOf(L, K, x[1]) = SlotOf(L, K, y[1]) /\ x[2] = y[2]
      BY <1>4, <2>1, <3>1 DEF Linked
    <3>3. x[1] = y[1]
      BY <1>6, <2>1, <3>2
    <3> QED
      BY <2>1, <3>2, <3>3
  <2>4. ASSUME NEW a \in D
        PROVE  \E x \in Places(f) : g[x] = a
    <3>1. PICK s \in L, o \in Offsets : P[s][o] = WriteOffset + a
      OBVIOUS
    <3>2. P[s][o] # 0 /\ a \in Nat
      BY <1>4, <3>1
    <3>3. <<K[s], o>> \in Places(f)
      BY <1>2, <3>2 DEF Places, Shown
    <3>4. g[<<K[s], o>>] = P[s][o] - WriteOffset
      BY <1>7, <3>3
    <3> QED
      BY <1>4, <3>1, <3>2, <3>3, <3>4
  <2> HIDE DEF D, g
  <2> QED
    BY <1>5, <2>2, <2>3, <2>4, Counted
<1>9. Cardinality(Tables(f)) = Cardinality(T)
  <2> DEFINE g == [r \in Tables(f) |-> P[SlotOf(L, K, r[1])][-1 - r[2]] - WriteOffset]
  <2>1. ASSUME NEW r \in Tables(f)
        PROVE  /\ r[1] \in NamesOf(L, K) /\ r[2] \in Indirects /\ r = <<r[1], r[2]>>
               /\ SlotOf(L, K, r[1]) \in L /\ P[SlotOf(L, K, r[1])][-1 - r[2]] # 0
               /\ P[SlotOf(L, K, r[1])][-1 - r[2]] \in Int
    <3>1. PICK q \in Places(f) : q[2] >= NDirect /\ r = <<q[1], Alpha(q[2])>>
      BY DEF Tables
    <3>2. PICK k, o : k = q[1] /\ o = q[2]
      OBVIOUS
    <3>3. /\ k \in NamesOf(L, K) /\ o \in Offsets /\ o >= NDirect /\ f[k][o] # NoValue
          /\ r = <<k, Alpha(o)>>
      BY <1>2, <3>1, <3>2 DEF Places
    <3>4. PICK s : s = SlotOf(L, K, k)
      OBVIOUS
    <3>5. s \in L /\ K[s] = k
      BY <1>6, <3>3, <3>4
    <3>6. P[s][o] # 0
      BY <1>2, <3>3, <3>5 DEF Shown
    <3>7. Alpha(o) \in Indirects /\ TableOf(o) \in TablePlaces
      BY <3>3, AlphaAlp, PositionsAre
    <3>8. P[s][TableOf(o)] # 0
      BY <3>3, <3>5, <3>6, <3>7 DEF TablesUsed
    <3> QED
      BY <1>4, <3>3, <3>4, <3>5, <3>7, <3>8 DEF TableOf
  <2>2. g \in [Tables(f) -> D \cup T] /\ \A r \in Tables(f) : g[r] \in T
    <3>1. ASSUME NEW r \in Tables(f)
          PROVE  P[SlotOf(L, K, r[1])][-1 - r[2]] - WriteOffset \in T
      <4>1. PICK s \in L, p \in TablePlaces :
               s = SlotOf(L, K, r[1]) /\ p = -1 - r[2] /\ P[s][p] # 0 /\ P[s][p] \in Int
        BY <2>1, PositionsAre
      <4>2. P[s][p] - WriteOffset \in m
        BY <1>4, <4>1 DEF Linked
      <4>3. P[s][p] = WriteOffset + (P[s][p] - WriteOffset)
        BY <1>4, <4>1
      <4> QED
        BY <4>1, <4>2, <4>3
    <3> HIDE DEF D, T
    <3> QED
      BY <3>1
  <2>3. ASSUME NEW x \in Tables(f), NEW y \in Tables(f), g[x] = g[y]
        PROVE  x = y
    <3>1. P[SlotOf(L, K, x[1])][-1 - x[2]] = P[SlotOf(L, K, y[1])][-1 - y[2]]
      BY <1>4, <2>1, <2>3
    <3>2. \A l \in Indirects : -1 - l \in Positions /\ l \in Nat
      BY PositionsAre DEF TablePlaces
    <3>3. SlotOf(L, K, x[1]) = SlotOf(L, K, y[1]) /\ -1 - x[2] = -1 - y[2]
      BY <2>1, <3>1, <3>2 DEF Linked
    <3>4. x[1] = y[1] /\ x[2] = y[2]
      BY <1>6, <2>1, <3>2, <3>3
    <3> QED
      BY <2>1, <3>4
  <2>4. ASSUME NEW a \in T
        PROVE  \E x \in Tables(f) : g[x] = a
    <3>1. PICK s \in L, p \in TablePlaces : P[s][p] = WriteOffset + a
      OBVIOUS
    <3>2. P[s][p] # 0 /\ a \in Nat
      BY <1>4, <3>1
    <3>3. PICK o \in Offsets : o >= NDirect /\ TableOf(o) = p /\ P[s][o] # 0
      BY <3>2 DEF TablesUsed
    <3>4. <<K[s], o>> \in Places(f)
      BY <1>2, <3>3 DEF Places, Shown
    <3>5. <<K[s], Alpha(o)>> \in Tables(f)
      <4>1. PICK q : q = <<K[s], o>>
        OBVIOUS
      <4>2. q \in Places(f) /\ q[2] >= NDirect /\ <<q[1], Alpha(q[2])>> = <<K[s], Alpha(o)>>
        BY <3>3, <3>4, <4>1
      <4> QED
        BY <4>2 DEF Tables
    <3>6. g[<<K[s], Alpha(o)>>] = P[s][p] - WriteOffset
      BY <1>7, <3>3, <3>5 DEF TableOf
    <3> QED
      BY <1>4, <3>1, <3>2, <3>5, <3>6
  <2>5. g \in [Tables(f) -> T]
    <3> HIDE DEF T
    <3> QED
      BY <2>2
  <2> HIDE DEF D, T, g
  <2> QED
    BY <1>5, <2>3, <2>4, <2>5, Counted
<1>10. NBlocks \in Nat
  BY DEF Sizes
<1> HIDE DEF D, T
<1> QED
  BY <1>1, <1>3, <1>5, <1>8, <1>9, <1>10 DEF Exhausted

-----------------------------------------------------------------------------
(* A write points to new blocks from positions that had none: an offset,    *)
(* and its table if that is missing.                                        *)
Reaches(L, P, m, s, o, A, n, P2, m2) ==
    /\ L \subseteq Slots /\ P \in Pointers /\ P2 \in Pointers /\ m \subseteq DataBlocks
    /\ s \in L /\ o \in Offsets /\ o \in A /\ A \subseteq Positions
    /\ A = {o} \/ (o >= NDirect /\ A = {o, TableOf(o)})
    /\ n \in [A -> DataBlocks \ m] /\ \A p, q \in A : n[p] = n[q] => p = q
    /\ o >= NDirect => TableOf(o) \in A \/ P[s][TableOf(o)] # 0
    /\ \A p \in A : P[s][p] = 0 /\ P2[s][p] = WriteOffset + n[p]
    /\ \A t \in L, p \in Positions : t # s \/ p \notin A => P2[t][p] = P[t][p]
    /\ m2 = m \cup {n[p] : p \in A}

(* Such a write keeps every block with one pointer, and tables with an      *)
(* entry.                                                                   *)
LEMMA LinksGrow ==
  ASSUME Sizes, NEW L, NEW P, NEW m, NEW s, NEW o, NEW A, NEW n, NEW P2, NEW m2,
         Linked(L, P, m), TablesUsed(L, P), Reaches(L, P, m, s, o, A, n, P2, m2)
  PROVE  Linked(L, P2, m2) /\ TablesUsed(L, P2)
<1>   /\ L \subseteq Slots /\ P \in Pointers /\ P2 \in Pointers /\ m \subseteq DataBlocks
      /\ s \in L /\ o \in Offsets /\ o \in A /\ A \subseteq Positions
      /\ A = {o} \/ (o >= NDirect /\ A = {o, TableOf(o)})
      /\ n \in [A -> DataBlocks \ m] /\ \A p, q \in A : n[p] = n[q] => p = q
      /\ o >= NDirect => TableOf(o) \in A \/ P[s][TableOf(o)] # 0
      /\ \A p \in A : P[s][p] = 0 /\ P2[s][p] = WriteOffset + n[p]
      /\ \A t \in L, p \in Positions : t # s \/ p \notin A => P2[t][p] = P[t][p]
      /\ m2 = m \cup {n[p] : p \in A}
  BY DEF Reaches
<1>1. /\ WriteOffset \in Nat /\ WriteOffset # 0 /\ DataBlocks \subseteq Nat
      /\ \A t \in L, p \in Positions : P[t][p] \in Nat /\ P2[t][p] \in Nat
      /\ \A p \in A : n[p] \in Nat /\ n[p] \notin m
  BY DEF Sizes, DataBlocks, Pointers, Addrs
<1>2. ASSUME NEW t \in L, NEW p \in Positions, P2[t][p] # 0
      PROVE  P2[t][p] - WriteOffset \in m2
  <2>1. CASE t = s /\ p \in A
    <3>1. P2[t][p] - WriteOffset = n[p]
      BY <1>1, <2>1
    <3> QED
      BY <2>1, <3>1
  <2>2. CASE t # s \/ p \notin A
    BY <1>2, <2>2 DEF Linked
  <2> QED
    BY <2>1, <2>2
<1>3. ASSUME NEW t \in L, NEW u \in L, NEW p \in Positions, NEW q \in Positions,
             P2[t][p] = P2[u][q], P2[t][p] # 0
      PROVE  t = u /\ p = q
  <2>1. CASE t = s /\ p \in A /\ u = s /\ q \in A
    BY <1>1, <1>3, <2>1
  <2>2. CASE ~(t = s /\ p \in A) /\ ~(u = s /\ q \in A)
    BY <1>3, <2>2 DEF Linked
  <2>3. ASSUME NEW x \in L, NEW r \in Positions, NEW a \in A, ~(x = s /\ r \in A), P2[x][r] = P2[s][a]
        PROVE  FALSE
    <3>1. P[x][r] = WriteOffset + n[a] /\ P[x][r] # 0
      BY <1>1, <2>3
    <3>2. P[x][r] - WriteOffset \in m
      BY <3>1 DEF Linked
    <3>3. P[x][r] - WriteOffset = n[a]
      BY <1>1, <3>1
    <3> QED
      BY <1>1, <3>2, <3>3
  <2> QED
    BY <1>3, <2>1, <2>2, <2>3
<1>4. ASSUME NEW a \in m2
      PROVE  \E t \in L, p \in Positions : P2[t][p] = WriteOffset + a
  <2>1. CASE a \in m
    <3>1. PICK t \in L, p \in Positions : P[t][p] = WriteOffset + a
      BY <2>1 DEF Linked
    <3>2. P[t][p] # 0
      BY <1>1, <2>1, <3>1
    <3>3. P2[t][p] = P[t][p]
      BY <3>2
    <3> QED
      BY <3>1, <3>3
  <2>2. CASE a \notin m
    BY <2>2
  <2> QED
    BY <2>1, <2>2
<1>5. Linked(L, P2, m2)
  BY <1>2, <1>3, <1>4 DEF Linked
<1>6. ASSUME NEW t \in L, NEW p \in TablePlaces
      PROVE  P2[t][p] # 0 <=> \E q \in Offsets : q >= NDirect /\ TableOf(q) = p /\ P2[t][q] # 0
  <2>1. /\ p \in Positions /\ Offsets \subseteq Positions
        /\ \A q \in Offsets : q \in A => q = o
        /\ p \in A => o >= NDirect /\ p = TableOf(o)
    BY PositionsAre DEF TablePlaces
  <2>2. P2[s][o] # 0
    BY <1>1
  <2>3. \A q \in Offsets : t # s \/ q # o => P2[t][q] = P[t][q]
    BY <2>1
  <2>4. CASE t # s
    BY <2>1, <2>3, <2>4 DEF TablesUsed
  <2>5. CASE t = s /\ o >= NDirect /\ p = TableOf(o)
    <3>1. P2[s][p] # 0
      BY <1>1, <2>1, <2>5
    <3> QED
      BY <2>2, <2>5, <3>1
  <2>6. CASE t = s /\ ~(o >= NDirect /\ p = TableOf(o))
    <3>1. P2[t][p] = P[t][p]
      BY <2>1, <2>6
    <3>2. \A q \in Offsets : q >= NDirect /\ TableOf(q) = p => P2[t][q] = P[t][q]
      BY <2>3, <2>6
    <3> QED
      BY <3>1, <3>2 DEF TablesUsed
  <2> QED
    BY <2>4, <2>5, <2>6
<1> QED
  BY <1>5, <1>6 DEF TablesUsed

(* A removal takes the blocks of the object, and no other. *)
BlocksOf(P, s) == {a \in DataBlocks : \E p \in Positions : P[s][p] = WriteOffset + a}

(* What is left after a removal is linked as before. *)
LEMMA LinksShrink ==
  ASSUME Sizes, NEW L, L \subseteq Slots, NEW P \in Pointers, NEW m, m \subseteq DataBlocks,
         Linked(L, P, m), TablesUsed(L, P), NEW s \in L, NEW P2,
         \A t \in L \ {s}, p \in Positions : P2[t][p] = P[t][p]
  PROVE  Linked(L \ {s}, P2, m \ BlocksOf(P, s)) /\ TablesUsed(L \ {s}, P2)
<1>1. /\ WriteOffset \in Nat /\ WriteOffset # 0 /\ DataBlocks \subseteq Nat
      /\ \A t \in L, p \in Positions : P[t][p] \in Nat
      /\ TablePlaces \subseteq Positions /\ Offsets \subseteq Positions
  BY PositionsAre DEF Sizes, DataBlocks, Pointers, Addrs, TablePlaces
<1>2. ASSUME NEW t \in L \ {s}, NEW p \in Positions, P[t][p] # 0
      PROVE  P[t][p] - WriteOffset \in m \ BlocksOf(P, s)
  <2>1. P[t][p] - WriteOffset \in m
    BY <1>2 DEF Linked
  <2>2. ASSUME NEW q \in Positions, P[s][q] = WriteOffset + (P[t][p] - WriteOffset)
        PROVE  FALSE
    <3>1. P[s][q] = P[t][p]
      BY <1>1, <2>2
    <3> QED
      BY <1>2, <3>1 DEF Linked
  <2> QED
    BY <2>1, <2>2 DEF BlocksOf
<1>3. ASSUME NEW a \in m \ BlocksOf(P, s)
      PROVE  \E t \in L \ {s}, p \in Positions : P[t][p] = WriteOffset + a
  <2>1. PICK t \in L, p \in Positions : P[t][p] = WriteOffset + a
    BY DEF Linked
  <2>2. t # s
    BY <2>1 DEF BlocksOf
  <2> QED
    BY <2>1, <2>2
<1>4. Linked(L \ {s}, P2, m \ BlocksOf(P, s))
  BY <1>2, <1>3 DEF Linked
<1>5. TablesUsed(L \ {s}, P2)
  <2>1. \A t \in L \ {s}, p \in TablePlaces : P2[t][p] = P[t][p]
    BY <1>1
  <2>2. \A t \in L \ {s}, q \in Offsets : P2[t][q] = P[t][q]
    BY <1>1
  <2> QED
    BY <2>1, <2>2 DEF TablesUsed
<1> QED
  BY <1>4, <1>5

(* Taking a bit for each pointer in turn, the removal clears exactly those  *)
(* bits: no two pointers of the object lead to one block.                   *)
FlippedBy(m, P, s, H) ==
    {d \in DataBlocks :
        (d \in m) # (Cardinality({p \in H : P[s][p] = WriteOffset + d}) % 2 = 1)}

(* No two pointers of an object meet, so the bits that change are its own. *)
LEMMA FlippedIs ==
  ASSUME Sizes, NEW L, L \subseteq Slots, NEW P \in Pointers, NEW m, m \subseteq DataBlocks,
         Linked(L, P, m), NEW s \in L, NEW H, H = {p \in Positions : P[s][p] # 0}
  PROVE  FlippedBy(m, P, s, H) = m \ BlocksOf(P, s)
<1>1. /\ WriteOffset \in Nat /\ WriteOffset # 0 /\ DataBlocks \subseteq Nat
      /\ \A p \in Positions : P[s][p] \in Nat
  BY DEF Sizes, DataBlocks, Pointers, Addrs
<1>2. ASSUME NEW d \in DataBlocks
      PROVE  (d \in m) # (Cardinality({p \in H : P[s][p] = WriteOffset + d}) % 2 = 1)
               <=> d \in m \ BlocksOf(P, s)
  <2>1. CASE d \in BlocksOf(P, s)
    <3>1. PICK p \in Positions : P[s][p] = WriteOffset + d
      BY <2>1 DEF BlocksOf
    <3>2. P[s][p] # 0 /\ P[s][p] - WriteOffset = d
      BY <1>1, <3>1
    <3>3. d \in m
      BY <3>2 DEF Linked
    <3>4. {q \in H : P[s][q] = WriteOffset + d} = {p}
      BY <3>1, <3>2 DEF Linked
    <3>5. Cardinality({q \in H : P[s][q] = WriteOffset + d}) % 2 = 1
      <4>1. Cardinality({q \in H : P[s][q] = WriteOffset + d}) = 1
        BY <3>4, FS_Singleton
      <4> QED
        BY <4>1
    <3> QED
      BY <2>1, <3>3, <3>5
  <2>2. CASE d \notin BlocksOf(P, s)
    <3>1. {q \in H : P[s][q] = WriteOffset + d} = {}
      BY <2>2 DEF BlocksOf
    <3>2. ~(Cardinality({q \in H : P[s][q] = WriteOffset + d}) % 2 = 1)
      <4>1. Cardinality({q \in H : P[s][q] = WriteOffset + d}) = 0
        BY <3>1, FS_EmptySet
      <4> QED
        BY <4>1
    <3> QED
      BY <2>2, <3>2
  <2> QED
    BY <2>1, <2>2
<1> QED
  BY <1>2 DEF FlippedBy

-----------------------------------------------------------------------------
(* The tables of a store: inodes b, slots in use L, bitmap m, disk d. *)
Blocks  == [kind : {"data"}, value : Values \cup {NoValue}]
             \cup [kind : {"table"}, ptr : [Entries -> Addrs]]
Objects == [key : Keys \cup {NoKey}, size : Nat, direct : [Directs -> Addrs],
            indirect : [Indirects -> Addrs]]

ValueIn(d, a) == IF d[a].kind = "data" THEN d[a].value ELSE NoValue
TableIn(d, a) == IF d[a].kind = "table" THEN d[a].ptr ELSE NoEntries
PtrOf(b, d, s, p) ==
    IF p < 0 THEN b[s].indirect[-1 - p]
    ELSE IF p < NDirect THEN b[s].direct[p]
    ELSE IF b[s].indirect[Alpha(p)] = 0 THEN 0
    ELSE TableIn(d, b[s].indirect[Alpha(p)])[Alp(p)]

PtrsOf(b, d) == [s \in Slots |-> [p \in Positions |-> PtrOf(b, d, s, p)]]
KeysOf(b)    == [s \in Slots |-> b[s].key]
ContentsOf(b, d) ==
    [s \in Slots |-> [o \in Offsets |-> IF PtrOf(b, d, s, o) = 0 THEN NoValue
                                        ELSE ValueIn(d, PtrOf(b, d, s, o))]]

Typed(b, L, m, d) ==
    /\ b \in [Slots -> Objects] /\ L \subseteq Slots
    /\ m \subseteq DataBlocks /\ d \in [Addrs -> Blocks]
(* A table is where the pointers say, and so is something written. *)
Filled(L, P, d) ==
    \A s \in L, p \in Positions : P[s][p] # 0 =>
        IF p < 0 THEN d[P[s][p]].kind = "table"
        ELSE d[P[s][p]].kind = "data" /\ d[P[s][p]].value \in Values
SizesCount(b, L, P) ==
    \A s \in Slots : b[s].size = IF s \in L THEN Cardinality({o \in Offsets : P[s][o] # 0}) ELSE 0

Store(b, L, m, d) ==
    /\ Typed(b, L, m, d)
    /\ Apart(L, KeysOf(b)) /\ \A s \in L : b[s].key \in Keys
    /\ Linked(L, PtrsOf(b, d), m) /\ TablesUsed(L, PtrsOf(b, d))
    /\ Filled(L, PtrsOf(b, d), d) /\ SizesCount(b, L, PtrsOf(b, d))

(* Every pointer is a disk address. *)
LEMMA PtrsType ==
  ASSUME Sizes, NEW b \in [Slots -> Objects], NEW d \in [Addrs -> Blocks]
  PROVE  PtrsOf(b, d) \in Pointers
<1>1. 0 \in Addrs
  BY DEF Addrs, Sizes
<1>2. \A a \in Addrs : TableIn(d, a) \in [Entries -> Addrs]
  BY <1>1 DEF TableIn, NoEntries, Blocks
<1>3. ASSUME NEW s \in Slots, NEW p \in Positions
      PROVE  PtrOf(b, d, s, p) \in Addrs
  <2>1. b[s] \in Objects
    OBVIOUS
  <2>2. CASE p < 0
    <3>1. -1 - p \in Indirects
      BY <2>2, PositionsAre DEF TablePlaces
    <3> QED
      BY <2>1, <2>2, <3>1 DEF PtrOf, Objects
  <2>3. CASE ~(p < 0) /\ p < NDirect
    <3>1. p \in Directs
      BY <2>3, PositionsAre
    <3> QED
      BY <2>1, <2>3, <3>1 DEF PtrOf, Objects
  <2>4. CASE ~(p < 0) /\ ~(p < NDirect)
    <3>1. Alpha(p) \in Indirects /\ Alp(p) \in Entries
      BY <2>4, PositionsAre, AlphaAlp
    <3>2. b[s].indirect[Alpha(p)] \in Addrs
      BY <2>1, <3>1 DEF Objects
    <3> QED
      BY <1>1, <1>2, <2>4, <3>1, <3>2 DEF PtrOf
  <2> QED
    BY <2>2, <2>3, <2>4
<1> QED
  BY <1>3 DEF PtrsOf, Pointers

-----------------------------------------------------------------------------
(* The invariant: the tables are in order, and what was last saved differs  *)
(* from them only where the inode table is marked as changed; slots that do *)
(* not fit are left alone.                                                  *)
SavedRight ==
    IF Forgetful THEN saved.objs = [s \in Slots |-> NoObject]
    ELSE \A s \in Slots :
            /\ MarkOf(s) \notin d_bit_map => saved.objs[s] = objs[s]
            /\ ~Fits(s) => s \notin bit_map_inode /\ saved.objs[s] = objs[s]

VInv ==
    /\ version \in Versions
    /\ Store(objs, bit_map_inode, bit_map_data, disk)
    /\ SavedRight

(* The files that OldStore maps its state to. *)
Files == [k \in KeysInUse |-> Contents(k)]

(* The pointers of the module are those of PtrOf, before a step and after.  *)
LEMMA PointersNow ==
  ASSUME Sizes
  PROVE  /\ \A s \in Slots, p \in Positions : Target(s, p) = PtrsOf(objs, disk)[s][p]
         /\ \A s \in Slots, o \in Offsets : /\ Pointer(s, o) = PtrsOf(objs, disk)[s][o]
                                            /\ Pointer(s, o) = PtrOf(objs, disk, s, o)
<1>1. \A s \in Slots, o \in Offsets : Pointer(s, o) = PtrOf(objs, disk, s, o)
  <2>1. \A o \in Offsets : ~(o < 0)
    BY PositionsAre
  <2> QED
    BY <2>1 DEF Pointer, PtrOf, TableAt, TableIn
<1>2. \A s \in Slots, p \in Positions : Target(s, p) = PtrOf(objs, disk, s, p)
  BY DEF Target, Pointer, PtrOf, TableAt, TableIn
<1> QED
  BY <1>1, <1>2, PositionsAre DEF PtrsOf

(* After a step, too. *)
LEMMA PointersNext ==
  ASSUME Sizes
  PROVE  \A s \in Slots, o \in Offsets : Pointer(s, o)' = PtrOf(objs', disk', s, o)
<1>1. \A o \in Offsets : ~(o < 0)
  BY PositionsAre
<1> QED
  BY <1>1 DEF Pointer, PtrOf, TableAt, TableIn

(* They are the files of the tables, before a step. *)
LEMMA FilesNow ==
  ASSUME Sizes, VInv
  PROVE  /\ Files = FilesOf(bit_map_inode, KeysOf(objs), ContentsOf(objs, disk))
         /\ DOMAIN Files = NamesOf(bit_map_inode, KeysOf(objs))
         /\ \A k : Matches(k) = {s \in bit_map_inode : KeysOf(objs)[s] = k}
<1> DEFINE K == KeysOf(objs)
<1>1. bit_map_inode \subseteq Slots /\ Apart(bit_map_inode, K)
  BY DEF VInv, Store, Typed
<1>2. \A s \in Slots : K[s] = objs[s].key
  BY DEF KeysOf
<1> HIDE DEF K
<1>3. \A k : Matches(k) = {s \in bit_map_inode : K[s] = k}
  BY <1>1, <1>2 DEF Matches
<1>4. KeysInUse = NamesOf(bit_map_inode, K)
  BY <1>1, <1>2 DEF KeysInUse, NamesOf
<1>5. ASSUME NEW k \in NamesOf(bit_map_inode, K)
      PROVE  Contents(k) = ContentsOf(objs, disk)[SlotOf(bit_map_inode, K, k)]
  <2>1. PICK s \in bit_map_inode : k = K[s] /\ s = SlotOf(bit_map_inode, K, k) /\ s \in Slots
    BY <1>1, SlotIs DEF NamesOf
  <2>2. First(Matches(k)) = s
    BY <1>3, <2>1 DEF SlotOf
  <2>3. Contents(k) = [o \in Offsets |-> IF Pointer(s, o) = 0 THEN NoValue
                                         ELSE ValueAt(Pointer(s, o))]
    BY <2>2 DEF Contents
  <2>4. \A o \in Offsets : Pointer(s, o) = PtrOf(objs, disk, s, o)
    BY <2>1, PointersNow
  <2> QED
    BY <2>1, <2>3, <2>4 DEF ContentsOf, ValueAt, ValueIn
<1>6. Files = FilesOf(bit_map_inode, K, ContentsOf(objs, disk))
  BY <1>4, <1>5 DEF Files, FilesOf
<1> QED
  BY <1>3, <1>4, <1>6 DEF K, Files

(* And after it. *)
LEMMA FilesNext ==
  ASSUME Sizes, VInv'
  PROVE  Files' = FilesOf(bit_map_inode', KeysOf(objs'), ContentsOf(objs', disk'))
<1> DEFINE K == KeysOf(objs')
<1>1. bit_map_inode' \subseteq Slots /\ Apart(bit_map_inode', K)
  BY DEF VInv, Store, Typed
<1>2. \A s \in Slots : K[s] = objs'[s].key
  BY DEF KeysOf
<1> HIDE DEF K
<1>3. \A k : Matches(k)' = {s \in bit_map_inode' : K[s] = k}
  BY <1>1, <1>2 DEF Matches
<1>4. KeysInUse' = NamesOf(bit_map_inode', K)
  BY <1>1, <1>2 DEF KeysInUse, NamesOf
<1>5. ASSUME NEW k \in NamesOf(bit_map_inode', K)
      PROVE  Contents(k)' = ContentsOf(objs', disk')[SlotOf(bit_map_inode', K, k)]
  <2>1. PICK s \in bit_map_inode' : k = K[s] /\ s = SlotOf(bit_map_inode', K, k) /\ s \in Slots
    BY <1>1, SlotIs DEF NamesOf
  <2>2. First(Matches(k)') = s
    BY <1>3, <2>1 DEF SlotOf
  <2>3. Contents(k)' = [o \in Offsets |-> IF Pointer(s, o)' = 0 THEN NoValue
                                          ELSE ValueIn(disk', Pointer(s, o)')]
    BY <2>2 DEF Contents, ValueAt, ValueIn
  <2>4. \A o \in Offsets : Pointer(s, o)' = PtrOf(objs', disk', s, o)
    BY <2>1, PointersNext
  <2> QED
    BY <2>1, <2>3, <2>4 DEF ContentsOf
<1>6. Files' = FilesOf(bit_map_inode', K, ContentsOf(objs', disk'))
  BY <1>4, <1>5 DEF Files, FilesOf
<1> QED
  BY <1>6 DEF K

(* The names that find_object looks up are those of files. *)
LEMMA NamesNow ==
  ASSUME Sizes, VInv, NEW k
  PROVE  /\ Matches(k) = {} <=> k \notin DOMAIN Files
         /\ Matches(k) # {} => /\ First(Matches(k)) \in bit_map_inode
                               /\ objs[First(Matches(k))].key = k
                               /\ KeysOf(objs)[First(Matches(k))] = k
<1> DEFINE K == KeysOf(objs)
<1>1. bit_map_inode \subseteq Slots /\ Apart(bit_map_inode, K)
  BY DEF VInv, Store, Typed
<1>2. /\ DOMAIN Files = NamesOf(bit_map_inode, K)
      /\ Matches(k) = {s \in bit_map_inode : K[s] = k}
  BY FilesNow
<1>3. \A s \in Slots : K[s] = objs[s].key
  BY DEF KeysOf
<1> HIDE DEF K
<1>4. ASSUME Matches(k) # {}
      PROVE  First(Matches(k)) \in bit_map_inode /\ K[First(Matches(k))] = k
  <2>1. PICK s \in bit_map_inode : K[s] = k
    BY <1>2, <1>4
  <2>2. SlotOf(bit_map_inode, K, K[s]) = s
    BY <1>1, SlotIs
  <2> QED
    BY <1>2, <2>1, <2>2 DEF SlotOf
<1> QED
  BY <1>1, <1>2, <1>3, <1>4 DEF NamesOf, K

(* What is written is marked. *)
LEMMA SavedStays ==
  ASSUME SavedRight, UNCHANGED <<version, saved>>, d_bit_map \subseteq d_bit_map',
         ~Forgetful => \A s \in Slots :
             /\ objs'[s] = objs[s] \/ (Fits(s) /\ MarkOf(s) \in d_bit_map')
             /\ s \in bit_map_inode' => s \in bit_map_inode \/ Fits(s)
  PROVE  SavedRight'
<1>1. Forgetful' <=> Forgetful
  BY DEF Forgetful
<1>2. CASE Forgetful
  BY <1>1, <1>2 DEF SavedRight
<1>3. CASE ~Forgetful
  BY <1>1, <1>3 DEF SavedRight
<1> QED
  BY <1>2, <1>3

(* A slot in use fits. *)
LEMMA UsedFits ==
  ASSUME SavedRight, ~Forgetful, NEW s \in Slots, s \in bit_map_inode
  PROVE  Fits(s)
  BY DEF SavedRight

(* A step that leaves the tables alone leaves the files alone. *)
LEMMA TablesStay ==
  ASSUME Sizes, VInv,
         UNCHANGED <<version, objs, bit_map_inode, bit_map_data, d_bit_map, disk, saved>>
  PROVE  VInv' /\ Files' = Files
<1>1. SavedRight'
  BY SavedStays DEF VInv
<1>2. VInv'
  BY <1>1 DEF VInv
<1> QED
  BY <1>2, FilesNow, FilesNext

(* Names and sizes are no part of the pointers, nor is what the others have. *)
LEMMA PtrsSame ==
  ASSUME NEW b, NEW b2, NEW d, NEW s \in Slots,
         b2[s].direct = b[s].direct, b2[s].indirect = b[s].indirect
  PROVE  /\ PtrsOf(b2, d)[s] = PtrsOf(b, d)[s]
         /\ ContentsOf(b2, d)[s] = ContentsOf(b, d)[s]
<1>1. \A p : PtrOf(b2, d, s, p) = PtrOf(b, d, s, p)
  BY DEF PtrOf
<1> QED
  BY <1>1 DEF PtrsOf, ContentsOf

(* The contents are something written where there is a pointer. *)
LEMMA ShownNow ==
  ASSUME Sizes, NEW b, NEW L, NEW m, NEW d, Store(b, L, m, d)
  PROVE  Shown(L, PtrsOf(b, d), ContentsOf(b, d))
<1>1. L \subseteq Slots /\ Offsets \subseteq Positions /\ \A o \in Offsets : ~(o < 0)
  BY PositionsAre DEF Store, Typed
<1>2. ASSUME NEW s \in L, NEW o \in Offsets
      PROVE  /\ PtrsOf(b, d)[s][o] = PtrOf(b, d, s, o)
             /\ PtrOf(b, d, s, o) # 0 => ValueIn(d, PtrOf(b, d, s, o)) \in Values
  <2>1. PtrsOf(b, d)[s][o] = PtrOf(b, d, s, o)
    BY <1>1 DEF PtrsOf
  <2>2. ASSUME PtrOf(b, d, s, o) # 0
        PROVE  ValueIn(d, PtrOf(b, d, s, o)) \in Values
    BY <1>1, <2>1, <2>2 DEF Store, Filled, ValueIn
  <2> QED
    BY <2>1, <2>2
<1>3. NoValue \notin Values
  BY DEF Sizes
<1>4. \A s \in L : ContentsOf(b, d)[s] = [o \in Offsets |-> IF PtrOf(b, d, s, o) = 0 THEN NoValue
                                                      ELSE ValueIn(d, PtrOf(b, d, s, o))]
  BY <1>1 DEF ContentsOf
<1>5. ASSUME NEW s \in L
      PROVE  /\ ContentsOf(b, d)[s] \in [Offsets -> Values \cup {NoValue}]
             /\ \A o \in Offsets : ContentsOf(b, d)[s][o] # NoValue <=> PtrsOf(b, d)[s][o] # 0
  <2>1. PICK c : c = ContentsOf(b, d)[s]
    OBVIOUS
  <2>2. c = [o \in Offsets |-> IF PtrOf(b, d, s, o) = 0 THEN NoValue
                               ELSE ValueIn(d, PtrOf(b, d, s, o))]
    BY <1>4, <2>1
  <2>3. \A o \in Offsets : /\ c[o] \in Values \cup {NoValue}
                           /\ c[o] # NoValue <=> PtrOf(b, d, s, o) # 0
    BY <1>2, <1>3, <2>2
  <2> QED
    BY <1>2, <2>1, <2>2, <2>3
<1> QED
  BY <1>5 DEF Shown

(* The map counts with an instance of the same Cardinality. *)
LEMMA SameCount == ASSUME NEW S PROVE Map!Cardinality(S) = Cardinality(S)
  BY DEF Map!Cardinality, Cardinality

(* How many files there are. *)
LEMMA NamesCounted ==
  ASSUME Sizes, NEW L, L \subseteq Slots, NEW K, Apart(L, K)
  PROVE  Cardinality(NamesOf(L, K)) = NObjs <=> L = Slots
<1>1. IsFiniteSet(Slots) /\ Cardinality(Slots) = NObjs
  <2>1. NObjs \in Nat \ {0}
    BY DEF Sizes
  <2> QED
    BY <2>1, FS_Interval DEF Slots
<1>2. /\ IsFiniteSet(L)
      /\ Cardinality(Slots) = Cardinality(L) => Slots = L
  BY <1>1, FS_Subset
<1>3. PICK f : f = [s \in L |-> K[s]]
  OBVIOUS
<1>4. f \in Surjection(L, NamesOf(L, K)) /\ f \in Injection(L, NamesOf(L, K))
  BY <1>3 DEF Surjection, Injection, IsInjective, NamesOf, Apart
<1>5. Cardinality(NamesOf(L, K)) = Cardinality(L)
  BY <1>2, <1>4, FS_Surjection
<1> QED
  BY <1>1, <1>2, <1>5

-----------------------------------------------------------------------------
(* What the calls do in whichever version. *)

(* Whichever version creates, it is the same create, and those that save    *)
(* mark the slot.                                                           *)
LEMMA CreateIs ==
  ASSUME version \in Versions, NEW k, objfs_create(k)
  PROVE  /\ CreateObject(k) /\ d_bit_map \subseteq d_bit_map'
         /\ FreeSlots = {} => d_bit_map' = d_bit_map
         /\ FreeSlots # {} /\ ~Forgetful => MarkOf(First(FreeSlots)) \in d_bit_map'
<1>1. CASE version = "succes"
  BY <1>1 DEF objfs_create, SuccesCreate, Forgetful
<1>2. CASE version = "wi_per"
  BY <1>2 DEF objfs_create, WiPerCreate, Forgetful
<1>3. CASE version = "without_cache"
  BY <1>3 DEF objfs_create, WithoutCacheCreate, Mark
<1>4. CASE version = "corect"
  BY <1>4 DEF objfs_create, CorectCreate, Mark
<1> QED
  BY <1>1, <1>2, <1>3, <1>4 DEF Versions

(* A removal leaves the slot with its pointers or without, and those that   *)
(* save mark it.                                                            *)
LEMMA UnlinkIs ==
  ASSUME version \in Versions, NEW k, objfs_unlink(k), NEW s, s = First(Matches(k))
  PROVE  /\ \/ DestroyObject(s, Sizeless(objs[s]))
            \/ DestroyObject(s, Emptied(Sizeless(objs[s])))
         /\ d_bit_map \subseteq d_bit_map'
         /\ ~Forgetful => MarkOf(s) \in d_bit_map'
<1>1. CASE version = "succes"
  BY <1>1 DEF objfs_unlink, SuccesDestroy, Forgetful
<1>2. CASE version = "wi_per"
  BY <1>2 DEF objfs_unlink, WiPerDestroy, Forgetful
<1>3. CASE version = "without_cache"
  BY <1>3 DEF objfs_unlink, WithoutCacheDestroy, Mark
<1>4. CASE version = "corect"
  BY <1>4 DEF objfs_unlink, CorectDestroy, Mark
<1> QED
  BY <1>1, <1>2, <1>3, <1>4 DEF Versions

(* A renaming is the same in all, and those that save mark the slot. *)
LEMMA RenameIs ==
  ASSUME version \in Versions, NEW k, NEW new, objfs_rename_key(k, new)
  PROVE  /\ RenameObject(k, new) /\ d_bit_map \subseteq d_bit_map'
         /\ ~Forgetful => MarkOf(First(Matches(k))) \in d_bit_map'
<1>1. CASE version = "succes"
  BY <1>1 DEF objfs_rename_key, SuccesRename, Forgetful
<1>2. CASE version = "wi_per"
  BY <1>2 DEF objfs_rename_key, WiPerRename, Forgetful
<1>3. CASE version = "without_cache"
  BY <1>3 DEF objfs_rename_key, WithoutCacheRename, Mark
<1>4. CASE version = "corect"
  BY <1>4 DEF objfs_rename_key, CorectRename, Mark
<1> QED
  BY <1>1, <1>2, <1>3, <1>4 DEF Versions

(* For a careful client the offset written is the one asked for, was empty, *)
(* and room for a table is there.                                           *)
LEMMA WriteIs ==
  ASSUME version \in Versions, CarefulClients, NEW s, NEW o, NEW v, objfs_write(s, o, v)
  PROVE  /\ PutBlock(s, o, v) /\ d_bit_map \subseteq d_bit_map'
         /\ ~Forgetful => MarkOf(s) \in d_bit_map'
         /\ Pointer(s, o) = 0
         /\ TakesTable(s, o) => Cardinality(DataBlocks \ bit_map_data) # 1
<1>0. /\ Pointer(s, o) = 0
      /\ version = "succes" => o = First(EmptyPlaces(s))
      /\ TakesTable(s, o) => Cardinality(DataBlocks \ bit_map_data) # 1
  BY DEF objfs_write, CarefulClients
<1>1. CASE version = "succes"
  BY <1>0, <1>1 DEF objfs_write, SuccesWrite, Forgetful
<1>2. CASE version = "wi_per"
  BY <1>0, <1>2 DEF objfs_write, WiPerWrite, Forgetful
<1>3. CASE version = "without_cache"
  BY <1>0, <1>3 DEF objfs_write, WithoutCacheWrite, Mark
<1>4. CASE version = "corect"
  BY <1>0, <1>4 DEF objfs_write, CorectWrite, Mark
<1> QED
  BY <1>1, <1>2, <1>3, <1>4 DEF Versions

(* Opening looks the name up. *)
LEMMA OpenIs ==
  ASSUME version \in Versions, NEW k, objfs_open(k)
  PROVE  FindObject(k)
  BY DEF objfs_open, Versions, SuccesFind, WiPerFind, WithoutCacheFind, CorectFind

(* Attributes are the size in the inode. *)
LEMMA GetattrIs ==
  ASSUME version \in Versions, NEW k, objfs_getattr(k)
  PROVE  SizeOf(k)
  BY DEF objfs_getattr, Versions, SuccesStat, WiPerStat, WithoutCacheStat, CorectStat

(* A read fetches the block its pointer leads to. *)
LEMMA ReadIs ==
  ASSUME version \in Versions, NEW s, NEW o, objfs_read(s, o)
  PROVE  FetchBlock(s, o)
  BY DEF objfs_read, Versions, SuccesRead, WiPerRead, WithoutCacheRead, CorectRead

(* A remount forgets everything or saves and loads everything. *)
LEMMA RemountIs ==
  ASSUME version \in Versions, Remount
  PROVE  /\ Forgetful => UNCHANGED saved /\ LoadTableOnly
         /\ ~Forgetful => SaveMarked /\ LoadAll
  BY DEF Remount, Versions, Forgetful, SuccesRemount, WiPerRemount, WithoutCacheRemount,
         CorectRemount

-----------------------------------------------------------------------------
(* Each operation keeps the invariant and is one of the map. *)

(* create_object takes a slot that points to nothing, where its user looked. *)
LEMMA CreateMaps ==
  ASSUME Sizes, CarefulClients, VInv, NEW k \in Keys, objfs_create(k)
  PROVE  VInv' /\ Map!Create(k)
<1> DEFINE L == bit_map_inode
           K == KeysOf(objs)
           P == PtrsOf(objs, disk)
           C == ContentsOf(objs, disk)
<1>1. /\ version \in Versions /\ Store(objs, L, bit_map_data, disk) /\ SavedRight
      /\ objs \in [Slots -> Objects] /\ L \subseteq Slots /\ Apart(L, K)
  BY DEF VInv, Store, Typed
<1>2. /\ CreateObject(k) /\ d_bit_map \subseteq d_bit_map'
      /\ FreeSlots = {} => d_bit_map' = d_bit_map
      /\ FreeSlots # {} /\ ~Forgetful => MarkOf(First(FreeSlots)) \in d_bit_map'
      /\ FreeSlots # {} => Held(First(FreeSlots)) = {}
      /\ FreeSlots # {} /\ ~Forgetful => Fits(First(FreeSlots))
      /\ call' = <<"create", k>> /\ UNCHANGED <<version, bit_map_data, disk, saved>>
  BY <1>1, CreateIs DEF objfs_create, CarefulClients
<1>3. /\ Files = FilesOf(L, K, C) /\ DOMAIN Files = NamesOf(L, K) /\ k \notin DOMAIN Files
      /\ Map!Cardinality(DOMAIN Files) = NObjs <=> FreeSlots = {}
  <2>1. Files = FilesOf(L, K, C) /\ DOMAIN Files = NamesOf(L, K)
    BY FilesNow
  <2>2. k \notin DOMAIN Files
    BY NamesNow DEF objfs_create
  <2>3. Cardinality(NamesOf(L, K)) = NObjs <=> L = Slots
    BY <1>1, NamesCounted
  <2>4. FreeSlots = {} <=> L = Slots
    BY <1>1 DEF FreeSlots
  <2> HIDE DEF K, C, L
  <2> QED
    BY <2>1, <2>2, <2>3, <2>4, SameCount
<1>4. CASE FreeSlots = {}
  <2>1. ans' = Failed /\ UNCHANGED <<objs, bit_map_inode, d_bit_map>>
    BY <1>2, <1>4 DEF CreateObject
  <2>2. VInv' /\ Files' = Files
    BY <1>2, <2>1, TablesStay
  <2>3. Map!Create(k)
    BY <1>2, <1>3, <1>4, <2>1, <2>2 DEF Map!Create, Map!Refuse, Files
  <2> QED
    BY <2>2, <2>3
<1>5. CASE FreeSlots # {}
  <2>1. PICK s : s = First(FreeSlots)
    OBVIOUS
  <2>2. s \in Slots /\ s \notin L
    <3>1. FreeSlots \in SUBSET Nat
      BY DEF FreeSlots, Slots
    <3> QED
      BY <1>5, <2>1, <3>1, FirstIs DEF FreeSlots
  <2>3. /\ objs' = [objs EXCEPT ![s].key = k] /\ bit_map_inode' = L \cup {s} /\ ans' = Done
        /\ ~Forgetful => Fits(s) /\ MarkOf(s) \in d_bit_map'
    BY <1>2, <1>5, <2>1 DEF CreateObject
  <2>4. \A p \in Positions : P[s][p] = 0
    BY <1>2, <1>5, <2>1, <2>2, PointersNow DEF Held
  <2>5. /\ objs' \in [Slots -> Objects]
        /\ objs'[s].key = k /\ \A t \in Slots \ {s} : objs'[t] = objs[t]
        /\ \A t \in Slots : /\ objs'[t].direct = objs[t].direct /\ objs'[t].size = objs[t].size
                            /\ objs'[t].indirect = objs[t].indirect
    <3>1. objs[s] \in Objects /\ [objs[s] EXCEPT !.key = k] \in Objects
      BY <1>1, <2>2 DEF Objects
    <3> QED
      BY <1>1, <2>2, <2>3, <3>1 DEF Objects
  <2> DEFINE K2 == KeysOf(objs')
             P2 == PtrsOf(objs', disk)
             C2 == ContentsOf(objs', disk)
  <2>6. \A t \in Slots : P2[t] = P[t] /\ C2[t] = C[t]
    BY <2>5, PtrsSame
  <2>7. P2 = P
    BY <2>6 DEF PtrsOf
  <2>8. /\ K2[s] = k /\ k \notin NamesOf(L, K)
        /\ \A t \in L : K2[t] = K[t] /\ C2[t] = C[t]
    BY <1>1, <1>3, <2>2, <2>5, <2>6 DEF KeysOf
  <2>9. /\ Apart(L \cup {s}, K2)
        /\ FilesOf(L \cup {s}, K2, C2) = Added(FilesOf(L, K, C), k, C2[s])
    <3> HIDE DEF K, K2, C, C2, L
    <3> QED
      BY <1>1, <2>2, <2>8, FileAdded
  <2>10. C2[s] = Map!Empty
    <3>1. \A o \in Offsets : o \in Positions /\ PtrOf(objs', disk, s, o) = 0
      BY <2>2, <2>4, <2>7, PositionsAre DEF PtrsOf
    <3> QED
      BY <2>2, <3>1 DEF ContentsOf, Map!Empty
  <2>11. Store(objs', L \cup {s}, bit_map_data, disk)
    <3>1. /\ Linked(L, P, bit_map_data) /\ TablesUsed(L, P) /\ Filled(L, P, disk)
          /\ SizesCount(objs, L, P) /\ Typed(objs, L, bit_map_data, disk)
          /\ \A t \in L : objs[t].key \in Keys
      BY <1>1 DEF Store
    <3>2. Offsets \subseteq Positions /\ TablePlaces \subseteq Positions
      BY PositionsAre DEF TablePlaces
    <3>3. Linked(L \cup {s}, P, bit_map_data)
      <4> HIDE DEF P
      <4> QED
        BY <2>4, <3>1 DEF Linked
    <3>4. TablesUsed(L \cup {s}, P)
      <4> HIDE DEF P
      <4> QED
        BY <2>4, <3>1, <3>2 DEF TablesUsed
    <3>5. Filled(L \cup {s}, P, disk)
      <4> HIDE DEF P
      <4> QED
        BY <2>4, <3>1 DEF Filled
    <3>6. SizesCount(objs', L \cup {s}, P)
      <4>1. {o \in Offsets : P[s][o] # 0} = {} /\ Cardinality({}) = 0
        BY <2>4, <3>2, FS_EmptySet
      <4> HIDE DEF P
      <4> QED
        BY <2>2, <2>5, <3>1, <4>1 DEF SizesCount
    <3>7. Typed(objs', L \cup {s}, bit_map_data, disk) /\ \A t \in L \cup {s} : objs'[t].key \in Keys
      BY <1>1, <2>2, <2>5, <3>1 DEF Typed
    <3> QED
      BY <2>7, <2>9, <3>3, <3>4, <3>5, <3>6, <3>7 DEF Store
  <2>12. VInv'
    <3>1. SavedRight'
      BY <1>1, <1>2, <2>3, <2>5, SavedStays
    <3> QED
      BY <1>1, <1>2, <2>3, <2>11, <3>1 DEF VInv
  <2>13. Files' = [x \in DOMAIN Files \cup {k} |-> IF x = k THEN Map!Empty ELSE Files[x]]
    <3>1. Files' = FilesOf(L \cup {s}, K2, C2)
      BY <1>2, <2>3, <2>12, FilesNext
    <3> HIDE DEF K, K2, C, C2, L
    <3> QED
      BY <1>3, <2>9, <2>10, <3>1 DEF Added
  <2>14. Map!Create(k)
    BY <1>2, <1>3, <1>5, <2>3, <2>13 DEF Map!Create, Files
  <2> QED
    BY <2>12, <2>14
<1> QED
  BY <1>4, <1>5

(* destroy_object frees the blocks of one object. *)
LEMMA UnlinkMaps ==
  ASSUME Sizes, VInv, NEW k \in Keys, objfs_unlink(k)
  PROVE  VInv' /\ Map!Unlink(k)
<1> DEFINE L == bit_map_inode
           K == KeysOf(objs)
           P == PtrsOf(objs, disk)
           C == ContentsOf(objs, disk)
<1>1. /\ version \in Versions /\ Store(objs, L, bit_map_data, disk) /\ SavedRight
      /\ objs \in [Slots -> Objects] /\ L \subseteq Slots /\ Apart(L, K)
      /\ Typed(objs, L, bit_map_data, disk) /\ bit_map_data \subseteq DataBlocks
  BY DEF VInv, Store, Typed
<1>2. PICK s : s = First(Matches(k))
  OBVIOUS
<1>3. /\ k \in DOMAIN Files /\ s \in L /\ s \in Slots /\ K[s] = k
      /\ Files = FilesOf(L, K, C) /\ DOMAIN Files = NamesOf(L, K)
  BY <1>1, <1>2, NamesNow, FilesNow DEF objfs_unlink
<1>4. /\ bit_map_inode' = L \ {s} /\ bit_map_data' = Released(s) /\ ans' = Done
      /\ d_bit_map \subseteq d_bit_map'
      /\ ~Forgetful => MarkOf(s) \in d_bit_map'
      /\ call' = <<"unlink", k>> /\ UNCHANGED <<version, disk, saved>>
      /\ \/ objs' = [objs EXCEPT ![s] = Sizeless(objs[s])]
         \/ objs' = [objs EXCEPT ![s] = Emptied(Sizeless(objs[s]))]
  BY <1>1, <1>2, UnlinkIs DEF objfs_unlink, DestroyObject
<1>5. /\ objs' \in [Slots -> Objects] /\ objs'[s].size = 0
      /\ \A t \in Slots \ {s} : objs'[t] = objs[t]
  <2>1. objs[s] \in Objects
    BY <1>1, <1>3
  <2>2. Sizeless(objs[s]) \in Objects /\ Sizeless(objs[s]).size = 0
    BY <2>1 DEF Objects, Sizeless
  <2>3. Emptied(Sizeless(objs[s])) \in Objects /\ Emptied(Sizeless(objs[s])).size = 0
    <3>1. 0 \in Addrs
      BY DEF Addrs, Sizes
    <3>2. PICK o \in Objects : o = Sizeless(objs[s]) /\ o.size = 0
      BY <2>2
    <3>3. [NoObject EXCEPT !.key = o.key, !.size = o.size] \in Objects
      BY <3>1, <3>2 DEF Objects, NoObject
    <3>4. [NoObject EXCEPT !.key = o.key, !.size = o.size].size = o.size
      BY <3>2 DEF NoObject
    <3> QED
      BY <3>2, <3>3, <3>4 DEF Emptied
  <2> QED
    BY <1>1, <1>3, <1>4, <2>2, <2>3
<1> DEFINE K2 == KeysOf(objs')
           P2 == PtrsOf(objs', disk)
           C2 == ContentsOf(objs', disk)
<1>6. \A t \in L \ {s} : P2[t] = P[t] /\ C2[t] = C[t] /\ K2[t] = K[t]
  <2>1. L \ {s} \subseteq Slots /\ \A t \in L \ {s} : t \in Slots
    BY <1>1
  <2>2. \A t \in L \ {s} : objs'[t].direct = objs[t].direct /\ objs'[t].indirect = objs[t].indirect
    BY <1>5, <2>1
  <2>3. \A t \in L \ {s} : P2[t] = P[t] /\ C2[t] = C[t]
    BY <2>1, <2>2, PtrsSame
  <2> QED
    BY <1>5, <2>1, <2>3 DEF KeysOf
<1>7. P \in Pointers
  BY <1>1, PtrsType DEF Typed
<1>8. bit_map_data' = bit_map_data \ BlocksOf(P, s)
  <2>1. \A p \in Positions : Target(s, p) = P[s][p]
    BY <1>3, PointersNow
  <2>2. PICK H : H = Held(s)
    OBVIOUS
  <2>3. H = {p \in Positions : P[s][p] # 0} /\ \A p \in H : Target(s, p) = P[s][p]
    BY <2>1, <2>2 DEF Held
  <2>4. \A d : {p \in H : Target(s, p) = WriteOffset + d} = {p \in H : P[s][p] = WriteOffset + d}
    BY <2>3
  <2>5. bit_map_data' = FlippedBy(bit_map_data, P, s, H)
    BY <1>4, <2>2, <2>4 DEF Released, Flipped, FlippedBy
  <2>6. Linked(L, P, bit_map_data)
    BY <1>1 DEF Store
  <2> HIDE DEF P, L
  <2> QED
    BY <1>1, <1>3, <1>7, <2>3, <2>5, <2>6, FlippedIs
<1>9. /\ Apart(L \ {s}, K2)
      /\ FilesOf(L \ {s}, K2, C2) = Removed(FilesOf(L, K, C), k)
  <2> HIDE DEF K, K2, C, C2, L
  <2> QED
    BY <1>1, <1>3, <1>6, FileRemoved
<1>10. Store(objs', L \ {s}, bit_map_data', disk)
  <2>1. /\ Linked(L, P, bit_map_data) /\ TablesUsed(L, P) /\ Filled(L, P, disk)
        /\ SizesCount(objs, L, P) /\ \A t \in L : objs[t].key \in Keys
    BY <1>1 DEF Store
  <2>2. Linked(L \ {s}, P2, bit_map_data') /\ TablesUsed(L \ {s}, P2)
    <3>1. \A t \in L \ {s}, p \in Positions : P2[t][p] = P[t][p]
      BY <1>6
    <3> HIDE DEF P, P2, L
    <3> QED
      BY <1>1, <1>3, <1>7, <1>8, <2>1, <3>1, LinksShrink
  <2>3. Filled(L \ {s}, P2, disk)
    <3> HIDE DEF P, P2, L
    <3> QED
      BY <1>6, <2>1 DEF Filled
  <2>4. SizesCount(objs', L \ {s}, P2)
    <3> HIDE DEF P, P2, L
    <3> QED
      BY <1>1, <1>3, <1>5, <1>6, <2>1 DEF SizesCount
  <2>5. Typed(objs', L \ {s}, bit_map_data', disk) /\ \A t \in L \ {s} : objs'[t].key \in Keys
    <3>1. L \ {s} \subseteq Slots /\ bit_map_data' \subseteq DataBlocks
      BY <1>1, <1>8
    <3>2. \A t \in L \ {s} : objs'[t].key \in Keys
      BY <1>1, <1>5, <2>1
    <3> QED
      BY <1>1, <1>5, <3>1, <3>2 DEF Typed
  <2> QED
    BY <1>9, <2>2, <2>3, <2>4, <2>5 DEF Store
<1>11. VInv'
  <2>1. SavedRight'
    <3>1. ~Forgetful => \A t \in Slots : objs'[t] = objs[t] \/ (Fits(t) /\ MarkOf(t) \in d_bit_map')
      BY <1>1, <1>3, <1>4, <1>5, UsedFits
    <3> QED
      BY <1>1, <1>4, <3>1, SavedStays
  <2> QED
    BY <1>1, <1>4, <1>10, <2>1 DEF VInv
<1>12. Files' = Map!Restrict(Files, DOMAIN Files \ {k})
  <2>1. Files' = FilesOf(L \ {s}, K2, C2)
    BY <1>4, <1>11, FilesNext
  <2> HIDE DEF K, K2, C, C2, L
  <2> QED
    BY <1>3, <1>9, <2>1 DEF Map!Restrict, Removed
<1> QED
  BY <1>3, <1>4, <1>11, <1>12 DEF Map!Unlink, Files

(* rename_object changes the name, and nothing is overwritten. *)
LEMMA RenameMaps ==
  ASSUME Sizes, CarefulClients, VInv, NEW k \in Keys, NEW new \in Keys, objfs_rename_key(k, new)
  PROVE  VInv' /\ Map!Rename(k, new)
<1> DEFINE L == bit_map_inode
           K == KeysOf(objs)
           P == PtrsOf(objs, disk)
           C == ContentsOf(objs, disk)
<1>1. /\ version \in Versions /\ Store(objs, L, bit_map_data, disk) /\ SavedRight
      /\ objs \in [Slots -> Objects] /\ L \subseteq Slots /\ Apart(L, K)
  BY DEF VInv, Store, Typed
<1>2. PICK s : s = First(Matches(k))
  OBVIOUS
<1>3. /\ k \in DOMAIN Files /\ s \in L /\ s \in Slots /\ K[s] = k /\ new \notin DOMAIN Files
      /\ Files = FilesOf(L, K, C) /\ DOMAIN Files = NamesOf(L, K)
  BY <1>1, <1>2, NamesNow, FilesNow DEF objfs_rename_key, CarefulClients
<1>4. /\ objs' = [objs EXCEPT ![s].key = new] /\ ans' = Done
      /\ d_bit_map \subseteq d_bit_map'
      /\ ~Forgetful => MarkOf(s) \in d_bit_map'
      /\ call' = <<"rename", k, new>>
      /\ UNCHANGED <<version, bit_map_inode, bit_map_data, disk, saved>>
  BY <1>1, <1>2, RenameIs DEF objfs_rename_key, RenameObject
<1>5. /\ objs' \in [Slots -> Objects]
      /\ objs'[s].key = new /\ \A t \in Slots \ {s} : objs'[t] = objs[t]
      /\ \A t \in Slots : /\ objs'[t].direct = objs[t].direct /\ objs'[t].size = objs[t].size
                          /\ objs'[t].indirect = objs[t].indirect
  <2>1. objs[s] \in Objects /\ [objs[s] EXCEPT !.key = new] \in Objects
    BY <1>1, <1>3 DEF Objects
  <2> QED
    BY <1>1, <1>3, <1>4, <2>1 DEF Objects
<1> DEFINE K2 == KeysOf(objs')
           P2 == PtrsOf(objs', disk)
           C2 == ContentsOf(objs', disk)
<1>6. \A t \in Slots : P2[t] = P[t] /\ C2[t] = C[t]
  BY <1>5, PtrsSame
<1>7. P2 = P
  BY <1>6 DEF PtrsOf
<1>8. K2[s] = new /\ \A t \in L : C2[t] = C[t] /\ (t # s => K2[t] = K[t])
  BY <1>1, <1>3, <1>5, <1>6 DEF KeysOf
<1>9. /\ Apart(L, K2)
      /\ FilesOf(L, K2, C2) = Renamed(FilesOf(L, K, C), k, new)
  <2> HIDE DEF K, K2, C, C2, L
  <2>1. new \notin NamesOf(L, K)
    BY <1>3
  <2> QED
    BY <1>1, <1>3, <1>8, <2>1, FileRenamed
<1>10. Store(objs', L, bit_map_data, disk)
  <2>1. /\ Linked(L, P, bit_map_data) /\ TablesUsed(L, P) /\ Filled(L, P, disk)
        /\ SizesCount(objs, L, P) /\ Typed(objs, L, bit_map_data, disk)
        /\ \A t \in L : objs[t].key \in Keys
    BY <1>1 DEF Store
  <2>2. SizesCount(objs', L, P)
    <3> HIDE DEF P, L
    <3> QED
      BY <1>5, <2>1 DEF SizesCount
  <2>3. Typed(objs', L, bit_map_data, disk) /\ \A t \in L : objs'[t].key \in Keys
    BY <1>1, <1>3, <1>5, <2>1 DEF Typed
  <2> QED
    BY <1>7, <1>9, <2>1, <2>2, <2>3 DEF Store
<1>11. VInv'
  <2>1. SavedRight'
    <3>1. ~Forgetful => \A t \in Slots : objs'[t] = objs[t] \/ (Fits(t) /\ MarkOf(t) \in d_bit_map')
      BY <1>1, <1>3, <1>4, <1>5, UsedFits
    <3> QED
      BY <1>1, <1>4, <3>1, SavedStays
  <2> QED
    BY <1>1, <1>4, <1>10, <2>1 DEF VInv
<1>12. Files' = [x \in (DOMAIN Files \ {k}) \cup {new} |-> Files[IF x = new THEN k ELSE x]]
  <2>1. Files' = FilesOf(L, K2, C2)
    BY <1>4, <1>11, FilesNext
  <2> HIDE DEF K, K2, C, C2, L
  <2> QED
    BY <1>3, <1>9, <2>1 DEF Renamed
<1>13. Map!Rename(k, new)
  BY <1>3, <1>4, <1>12 DEF Map!Rename, Files
<1> QED
  BY <1>11, <1>13

(* The calls that only look. *)
LEMMA OpenMaps ==
  ASSUME Sizes, VInv, NEW k \in Keys, objfs_open(k)
  PROVE  VInv' /\ Map!Open(k)
<1>1. ans' = (IF Matches(k) = {} THEN Failed ELSE Done) /\ call' = <<"open", k>>
  BY OpenIs DEF VInv, objfs_open, FindObject
<1>2. VInv' /\ Files' = Files
  BY TablesStay DEF objfs_open
<1>3. Matches(k) = {} <=> k \notin DOMAIN Files
  BY NamesNow
<1>4. Map!Open(k)
  BY <1>1, <1>2, <1>3 DEF Map!Open, Files
<1> QED
  BY <1>2, <1>4

(* The file of a slot. *)
LEMMA FileOf ==
  ASSUME Sizes, VInv, NEW s \in bit_map_inode
  PROVE  /\ objs[s].key \in DOMAIN Files /\ objs[s].key \in Keys
         /\ Files[objs[s].key] = ContentsOf(objs, disk)[s]
         /\ \A o \in Offsets : Pointer(s, o) # 0 => ContentsOf(objs, disk)[s][o] = ValueAt(Pointer(s, o))
         /\ \A o \in Offsets : Files[objs[s].key][o] # NoValue <=> Pointer(s, o) # 0
         /\ objs[s].size = Cardinality({o \in Offsets : Pointer(s, o) # 0})
<1> DEFINE L == bit_map_inode
           K == KeysOf(objs)
           C == ContentsOf(objs, disk)
           P == PtrsOf(objs, disk)
<1>1. /\ Store(objs, L, bit_map_data, disk) /\ L \subseteq Slots /\ Apart(L, K)
      /\ objs[s].key \in Keys /\ SizesCount(objs, L, P) /\ s \in L
  BY DEF VInv, Store, Typed
<1>2. K[s] = objs[s].key
  BY <1>1 DEF KeysOf
<1>3. Shown(L, P, C)
  BY <1>1, ShownNow
<1>4. \A o \in Offsets : Pointer(s, o) = P[s][o] /\ Pointer(s, o) = PtrOf(objs, disk, s, o)
  BY <1>1, PointersNow
<1>5. \A o \in Offsets : Pointer(s, o) # 0 => C[s][o] = ValueAt(Pointer(s, o))
  BY <1>1, <1>4 DEF ContentsOf, ValueAt, ValueIn
<1>6. Files = FilesOf(L, K, C) /\ DOMAIN Files = NamesOf(L, K)
  BY FilesNow
<1>7. K[s] \in NamesOf(L, K) /\ FilesOf(L, K, C)[K[s]] = C[s]
  <2> HIDE DEF K, C, L
  <2> QED
    BY <1>1, FileAt
<1>8. {o \in Offsets : Pointer(s, o) # 0} = {o \in Offsets : P[s][o] # 0}
  BY <1>4
<1>9. objs[s].size = Cardinality({o \in Offsets : P[s][o] # 0})
  BY <1>1 DEF SizesCount
<1>10. \A o \in Offsets : C[s][o] # NoValue <=> P[s][o] # 0
  BY <1>3 DEF Shown
<1> HIDE DEF K, C, P, L
<1> QED
  BY <1>1, <1>2, <1>4, <1>5, <1>6, <1>7, <1>8, <1>9, <1>10 DEF K, C, P, L

(* The size is the number of blocks written. *)
LEMMA GetattrMaps ==
  ASSUME Sizes, VInv, NEW k \in Keys, objfs_getattr(k)
  PROVE  VInv' /\ Map!Stat(k)
<1>1. /\ ans' = (IF Matches(k) = {} THEN Failed ELSE objs[First(Matches(k))].size)
      /\ call' = <<"getattr", k>>
  BY GetattrIs DEF VInv, objfs_getattr, SizeOf
<1>2. VInv' /\ Files' = Files
  BY TablesStay DEF objfs_getattr
<1>3. CASE Matches(k) = {}
  <2>1. k \notin DOMAIN Files
    BY <1>3, NamesNow
  <2>2. Map!Stat(k)
    BY <1>1, <1>2, <1>3, <2>1 DEF Map!Stat, Files
  <2> QED
    BY <1>2, <2>2
<1>4. CASE Matches(k) # {}
  <2>1. PICK s \in bit_map_inode : s = First(Matches(k)) /\ objs[s].key = k
    BY <1>4, NamesNow
  <2>2. /\ k \in DOMAIN Files /\ objs[s].size = Cardinality({o \in Offsets : Pointer(s, o) # 0})
        /\ \A o \in Offsets : Files[k][o] # NoValue <=> Pointer(s, o) # 0
    BY <2>1, FileOf
  <2>3. Map!Written(k) = {o \in Offsets : Pointer(s, o) # 0}
    BY <2>2 DEF Map!Written, Files
  <2>4. Map!Cardinality(Map!Written(k)) = objs[s].size
    BY <2>2, <2>3, SameCount
  <2>5. Map!Stat(k)
    BY <1>1, <1>2, <1>4, <2>1, <2>2, <2>4 DEF Map!Stat, Files
  <2> QED
    BY <1>2, <2>5
<1> QED
  BY <1>3, <1>4

(* A read fetches what the file has. *)
LEMMA ReadMaps ==
  ASSUME Sizes, VInv, NEW s \in Slots, NEW o \in Offsets, objfs_read(s, o)
  PROVE  VInv' /\ Map!Read(objs[s].key, o) /\ objs[s].key \in Keys
<1>1. /\ s \in bit_map_inode /\ Pointer(s, o) # 0 /\ ans' = ValueAt(Pointer(s, o))
      /\ call' = <<"read", objs[s].key, o>>
  BY ReadIs DEF VInv, objfs_read, FetchBlock
<1>2. VInv' /\ Files' = Files
  BY TablesStay DEF objfs_read
<1>3. PICK k : k = objs[s].key
  OBVIOUS
<1>4. k \in DOMAIN Files /\ k \in Keys /\ Files[k][o] = ValueAt(Pointer(s, o)) /\ Files[k][o] # NoValue
  BY <1>1, <1>3, FileOf
<1>5. o \in Map!Written(k)
  BY <1>4 DEF Map!Written, Files
<1>6. Map!Read(k, o)
  BY <1>1, <1>2, <1>3, <1>4, <1>5 DEF Map!Read, Files
<1> QED
  BY <1>2, <1>3, <1>4, <1>6

(* A store without objects is in order. *)
LEMMA EmptyStore ==
  ASSUME Sizes, NEW d \in [Addrs -> Blocks]
  PROVE  Store([s \in Slots |-> NoObject], {}, {}, d)
<1>1. 0 \in Addrs
  BY DEF Addrs, Sizes
<1>2. NoObject \in Objects /\ NoObject.size = 0
  BY <1>1 DEF NoObject, Objects
<1>3. Typed([s \in Slots |-> NoObject], {}, {}, d)
  BY <1>2 DEF Typed
<1> QED
  BY <1>2, <1>3 DEF Store, Apart, Linked, TablesUsed, Filled, SizesCount

(* The next mount has every inode again, or no object at all. *)
LEMMA RemountMaps ==
  ASSUME Sizes, VInv, Remount
  PROVE  VInv' /\ Map!Remount
<1>1. /\ version \in Versions /\ version' = version /\ disk' = disk
      /\ ans' = Done /\ call' = <<"mount">> /\ Forgetful' = Forgetful
  BY DEF VInv, Remount, Forgetful
<1>2. /\ Store(objs, bit_map_inode, bit_map_data, disk) /\ objs \in [Slots -> Objects]
      /\ disk \in [Addrs -> Blocks] /\ SavedRight
  BY DEF VInv, Store, Typed
<1>3. CASE ~Forgetful
  <2>1. SaveMarked /\ LoadAll
    BY <1>1, <1>3, RemountIs
  <2>2. saved'.objs = [s \in Slots |-> SavedInode(s)]
    BY <2>1 DEF SaveMarked
  <2>3. /\ \A s \in Slots : saved'.objs[s] = objs[s]
        /\ saved'.objs = objs
    <3>1. ASSUME NEW s \in Slots PROVE SavedInode(s) = objs[s]
      <4>1. objs[s] \in Objects
        BY <1>2
      <4>2. CASE saved.objs[s] = objs[s]
        BY <4>1, <4>2 DEF SavedInode, Objects
      <4>3. CASE Fits(s) /\ MarkOf(s) \in d_bit_map
        <5>1. Saves(s, "key") /\ Saves(s, "size") /\ Saves(s, "direct") /\ Saves(s, "indirect")
          BY <4>3 DEF Saves, Fits, Fields
        <5> QED
          BY <4>1, <5>1 DEF SavedInode, Objects
      <4> QED
        BY <1>2, <1>3, <4>2, <4>3 DEF SavedRight
    <3> QED
      BY <1>2, <2>2, <3>1
  <2>4. objs' = objs /\ bit_map_inode' = bit_map_inode /\ bit_map_data' = bit_map_data
    BY <2>1, <2>3 DEF SaveMarked, LoadAll
  <2>5. SavedRight'
    BY <1>1, <1>2, <1>3, <2>3, <2>4 DEF SavedRight
  <2>6. VInv'
    BY <1>1, <1>2, <2>4, <2>5 DEF VInv
  <2>7. Files' = Files
    BY <1>1, <2>4, <2>6, FilesNow, FilesNext
  <2>8. Map!Remount
    BY <1>1, <1>3, <2>7 DEF Map!Remount, Files
  <2> QED
    BY <2>6, <2>8
<1>4. CASE Forgetful
  <2>1. UNCHANGED saved /\ LoadTableOnly
    BY <1>1, <1>4, RemountIs
  <2>2. /\ saved' = saved /\ objs' = [s \in Slots |-> NoObject]
        /\ bit_map_inode' = {} /\ bit_map_data' = {}
    BY <1>2, <1>4, <2>1 DEF LoadTableOnly, SavedRight
  <2>3. VInv'
    <3>1. SavedRight'
      BY <1>1, <1>2, <1>4, <2>2 DEF SavedRight
    <3>2. Store(objs', bit_map_inode', bit_map_data', disk')
      BY <1>1, <1>2, <2>2, EmptyStore
    <3> QED
      BY <1>1, <3>1, <3>2 DEF VInv
  <2>4. Files' = [k \in {} |-> Map!Empty]
    <3>1. NamesOf({}, KeysOf(objs')) = {}
      BY DEF NamesOf
    <3>2. Files' = FilesOf({}, KeysOf(objs'), ContentsOf(objs', disk'))
      BY <2>2, <2>3, FilesNext
    <3>3. \A K, C : NamesOf({}, K) = {} => FilesOf({}, K, C) = [k \in {} |-> Map!Empty]
      BY DEF FilesOf
    <3> QED
      BY <3>1, <3>2, <3>3
  <2>5. Map!Remount
    BY <1>1, <1>4, <2>4 DEF Map!Remount, Map!NoFiles, Files
  <2> QED
    BY <2>3, <2>5
<1> QED
  BY <1>3, <1>4

-----------------------------------------------------------------------------
(* A write. *)

(* The store after a write of v at offset o of slot s, and its files.       *)
Wrote(b, L, m, d, s, o, v, b2, m2, d2) ==
    /\ Store(b2, L, m2, d2)
    /\ FilesOf(L, KeysOf(b2), ContentsOf(b2, d2)) =
         [FilesOf(L, KeysOf(b), ContentsOf(b, d)) EXCEPT ![b[s].key][o] = v]
    /\ \A t \in Slots : t # s => b2[t] = b[t]

(* The inodes after it: one size counts the new block.                      *)
OneMore(b, s, b2) ==
    /\ b2[s].key = b[s].key /\ b2[s].size = b[s].size + 1
    /\ \A t \in Slots : t # s => b2[t] = b[t]

(* The disk after it: the value at the new block, a table at that of a new  *)
(* table, and in place everything pointed to.                               *)
Laid(L, P, d, A, n, o, v, d2) ==
    /\ d2[WriteOffset + n[o]] = Data(v)
    /\ \A p \in A : p < 0 => d2[WriteOffset + n[p]].kind = "table"
    /\ \A t \in L, p \in Positions : P[t][p] # 0 =>
          /\ d2[P[t][p]].kind = d[P[t][p]].kind
          /\ p >= 0 => d2[P[t][p]] = d[P[t][p]]

(* New blocks, pointed to from the offset and perhaps its table, are a      *)
(* write of one value.                                                      *)
LEMMA StoreGrows ==
  ASSUME Sizes, NEW b, NEW L, NEW m, NEW d, Store(b, L, m, d),
         NEW s, NEW o, NEW v \in Values, NEW A, NEW n, NEW P, P = PtrsOf(b, d),
         NEW b2, NEW m2, NEW d2, Typed(b2, L, m2, d2), OneMore(b, s, b2),
         NEW P2, P2 = PtrsOf(b2, d2), Reaches(L, P, m, s, o, A, n, P2, m2),
         Laid(L, P, d, A, n, o, v, d2)
  PROVE  Wrote(b, L, m, d, s, o, v, b2, m2, d2)
<1>   /\ L \subseteq Slots /\ P \in Pointers /\ P2 \in Pointers /\ m \subseteq DataBlocks
      /\ s \in L /\ o \in Offsets /\ o \in A /\ A \subseteq Positions
      /\ A = {o} \/ (o >= NDirect /\ A = {o, TableOf(o)})
      /\ n \in [A -> DataBlocks \ m] /\ \A p, q \in A : n[p] = n[q] => p = q
      /\ o >= NDirect => TableOf(o) \in A \/ P[s][TableOf(o)] # 0
      /\ \A p \in A : P[s][p] = 0 /\ P2[s][p] = WriteOffset + n[p]
      /\ \A t \in L, p \in Positions : t # s \/ p \notin A => P2[t][p] = P[t][p]
      /\ m2 = m \cup {n[p] : p \in A}
  BY DEF Reaches
<1>1. /\ Apart(L, KeysOf(b)) /\ Linked(L, P, m) /\ TablesUsed(L, P)
      /\ Filled(L, P, d) /\ SizesCount(b, L, P) /\ \A t \in L : b[t].key \in Keys
  BY DEF Store
<1>2. Linked(L, P2, m2) /\ TablesUsed(L, P2)
  BY <1>1, LinksGrow
<1>3. /\ Offsets \subseteq Positions /\ Positions \subseteq Int /\ o >= 0
      /\ \A q \in Offsets : ~(q < 0) /\ q >= 0 /\ (q \in A => q = o)
      /\ \A p \in A : p # o => p < 0
  <2>1. /\ Offsets \subseteq Positions /\ Positions \subseteq Int
        /\ \A q \in Offsets : q \in Nat
        /\ o >= NDirect => TableOf(o) < 0 /\ TableOf(o) \in Int
    BY PositionsAre DEF TablePlaces
  <2> QED
    BY <2>1
<1>4. WriteOffset + n[o] # 0 /\ WriteOffset + n[o] \in Nat
  BY DEF Sizes, DataBlocks
<1>5. Filled(L, P2, d2)
  <2> SUFFICES ASSUME NEW t \in L, NEW p \in Positions, P2[t][p] # 0
               PROVE  IF p < 0 THEN d2[P2[t][p]].kind = "table"
                      ELSE d2[P2[t][p]].kind = "data" /\ d2[P2[t][p]].value \in Values
    BY DEF Filled
  <2>1. CASE t = s /\ p = o
    <3>1. d2[P2[t][p]] = Data(v) /\ ~(p < 0)
      BY <1>3, <2>1 DEF Laid
    <3> QED
      BY <3>1 DEF Data
  <2>2. CASE t = s /\ p \in A /\ p # o
    BY <1>3, <2>2 DEF Laid
  <2>3. CASE t # s \/ p \notin A
    <3>1. P2[t][p] = P[t][p] /\ P[t][p] # 0
      BY <2>3
    <3>2. CASE p < 0
      BY <1>1, <3>1, <3>2 DEF Filled, Laid
    <3>3. CASE ~(p < 0)
      <4>1. p >= 0
        BY <1>3, <3>3
      <4> QED
        BY <1>1, <3>1, <3>3, <4>1 DEF Filled, Laid
    <3> QED
      BY <3>2, <3>3
  <2> QED
    BY <2>1, <2>2, <2>3
<1>6. SizesCount(b2, L, P2)
  <2> DEFINE N(R, t) == {q \in Offsets : R[t][q] # 0}
  <2>1. N(P2, s) = N(P, s) \cup {o} /\ o \notin N(P, s)
    <3>1. P[s][o] = 0 /\ P2[s][o] # 0
      BY <1>4
    <3>2. \A q \in Offsets : q # o => P2[s][q] = P[s][q]
      BY <1>3
    <3> QED
      BY <3>1, <3>2
  <2>2. \A t \in L : t # s => N(P2, t) = N(P, t)
    BY <1>3
  <2>3. IsFiniteSet(Offsets)
    <3>1. 0 \in Int /\ NDirect + NIndirect * NPer - 1 \in Int
      BY DEF Sizes
    <3> QED
      BY <3>1, FS_Interval DEF Offsets
  <2>4. IsFiniteSet(N(P, s)) /\ Cardinality(N(P, s)) \in Nat
    <3>1. N(P, s) \in SUBSET Offsets
      OBVIOUS
    <3> HIDE DEF N
    <3> QED
      BY <2>3, <3>1, FS_Subset, FS_CardinalityType
  <2>5. Cardinality(N(P2, s)) = Cardinality(N(P, s)) + 1
    <3> HIDE DEF N
    <3>1. Cardinality(N(P, s) \cup {o}) = Cardinality(N(P, s)) + 1
      BY <2>1, <2>4, FS_AddElement
    <3> QED
      BY <2>1, <3>1
  <2>6. \A t \in Slots : b[t].size = IF t \in L THEN Cardinality(N(P, t)) ELSE 0
    BY <1>1 DEF SizesCount
  <2>7. \A t \in Slots : b2[t].size = IF t \in L THEN Cardinality(N(P2, t)) ELSE 0
    <3> HIDE DEF N
    <3> QED
      BY <1>1, <2>2, <2>5, <2>6 DEF OneMore
  <2> QED
    BY <2>7 DEF SizesCount
<1>7. \A t \in Slots : KeysOf(b2)[t] = KeysOf(b)[t] /\ KeysOf(b)[t] = b[t].key /\ b2[t].key = b[t].key
  BY <1>1 DEF KeysOf, OneMore
<1> DEFINE K == KeysOf(b)
           K2 == KeysOf(b2)
           C == ContentsOf(b, d)
           C2 == ContentsOf(b2, d2)
<1>8. \A t \in L, q \in Offsets :
         /\ C[t][q] = IF P[t][q] = 0 THEN NoValue ELSE ValueIn(d, P[t][q])
         /\ C2[t][q] = IF P2[t][q] = 0 THEN NoValue ELSE ValueIn(d2, P2[t][q])
  BY <1>1, <1>3 DEF ContentsOf, PtrsOf
<1>9. \A t \in L : C[t] = [q \in Offsets |-> C[t][q]] /\ C2[t] = [q \in Offsets |-> C2[t][q]]
  BY <1>1 DEF ContentsOf
<1> HIDE DEF K, K2, C, C2
<1>10. \A t \in L, q \in Offsets : t # s \/ q # o => C2[t][q] = C[t][q]
  <2>1. \A t \in L, q \in Offsets : P[t][q] # 0 => d2[P[t][q]] = d[P[t][q]]
    BY <1>3 DEF Laid
  <2>2. \A t \in L, q \in Offsets : t # s \/ q # o => P2[t][q] = P[t][q]
    BY <1>3
  <2> QED
    BY <1>8, <2>1, <2>2 DEF ValueIn
<1>11. C2[s][o] = v
  <2>1. P2[s][o] = WriteOffset + n[o] /\ P2[s][o] # 0 /\ d2[P2[s][o]] = Data(v)
    BY <1>4 DEF Laid
  <2> QED
    BY <1>8, <2>1 DEF ValueIn, Data
<1>12. C2[s] = [C[s] EXCEPT ![o] = v] /\ \A t \in L : t # s => C2[t] = C[t]
  <2>1. C2[s] = [C[s] EXCEPT ![o] = v]
    <3>1. PICK f, g : f = C[s] /\ g = C2[s]
      OBVIOUS
    <3>2. f = [q \in Offsets |-> f[q]] /\ g = [q \in Offsets |-> g[q]]
      BY <1>9, <3>1
    <3>3. g[o] = v /\ \A q \in Offsets : q # o => g[q] = f[q]
      BY <1>10, <1>11, <3>1
    <3>4. g = [f EXCEPT ![o] = v]
      BY <3>2, <3>3
    <3> QED
      BY <3>1, <3>4
  <2>2. ASSUME NEW t \in L, t # s
        PROVE  C2[t] = C[t]
    <3>1. PICK f, g : f = C[t] /\ g = C2[t]
      OBVIOUS
    <3>2. f = [q \in Offsets |-> f[q]] /\ g = [q \in Offsets |-> g[q]]
      BY <1>9, <3>1
    <3>3. \A q \in Offsets : g[q] = f[q]
      BY <1>10, <2>2, <3>1
    <3> QED
      BY <3>1, <3>2, <3>3
  <2> QED
    BY <2>1, <2>2
<1>13. Apart(L, K) /\ Apart(L, K2) /\ \A t \in L : K2[t] = K[t] /\ K[t] = b[t].key
  BY <1>1, <1>7 DEF Apart, K, K2
<1>14. FilesOf(L, K2, C2) = [FilesOf(L, K, C) EXCEPT ![b[s].key][o] = v]
  <2>1. PICK k : k = b[s].key
    OBVIOUS
  <2>2. K[s] = k /\ \A t \in L : K2[t] = K[t] /\ (t # s => C2[t] = C[t])
    BY <1>12, <1>13, <2>1
  <2>3. FilesOf(L, K2, C2) = Changed(FilesOf(L, K, C), k, C2[s])
    BY <1>1, <1>13, <2>2, FileChanged
  <2>4. FilesOf(L, K, C)[k] = C[s]
    BY <1>1, <1>13, <2>2, FileAt
  <2>5. PICK f : f = FilesOf(L, K, C)
    OBVIOUS
  <2>6. Changed(f, k, C2[s]) = [f EXCEPT ![k][o] = v]
    BY <1>12, <2>4, <2>5 DEF Changed
  <2> QED
    BY <2>1, <2>3, <2>5, <2>6
<1>15. Store(b2, L, m2, d2)
  <2>1. \A t \in L : b2[t].key \in Keys
    BY <1>1, <1>7
  <2> QED
    BY <1>2, <1>5, <1>6, <1>13, <2>1 DEF Store, K2
<1> QED
  BY <1>14, <1>15 DEF Wrote, OneMore, K, K2, C, C2

-----------------------------------------------------------------------------
(* The inode after a direct pointer, or the place of a table, is set.       *)
DirectSet(b, s, l, a) == [b EXCEPT ![s].direct[l] = a, ![s].size = @ + 1]
TableSet(b, s, l, a)  == [b EXCEPT ![s].indirect[l] = a, ![s].size = @ + 1]

(* Setting a direct pointer changes one inode, there and in its size. *)
LEMMA DirectSetIs ==
  ASSUME NEW b \in [Slots -> Objects], NEW s \in Slots, NEW l \in Directs, NEW a \in Addrs,
         NEW b2, b2 = DirectSet(b, s, l, a)
  PROVE  /\ b2 \in [Slots -> Objects] /\ OneMore(b, s, b2)
         /\ b2[s].direct[l] = a /\ \A i \in Directs : i # l => b2[s].direct[i] = b[s].direct[i]
         /\ b2[s].indirect = b[s].indirect
<1>1. PICK x \in Objects : x = b[s]
  OBVIOUS
<1>2. PICK k, n, f, g : x = [key |-> k, size |-> n, direct |-> f, indirect |-> g]
  BY DEF Objects
<1>3. PICK y : y = [key |-> k, size |-> n + 1, direct |-> [f EXCEPT ![l] = a], indirect |-> g]
  OBVIOUS
<1>4. b2 = [b EXCEPT ![s] = y]
  <2>1. PICK c : c = [b EXCEPT ![s].direct[l] = a]
    OBVIOUS
  <2>2. PICK z : z = [x EXCEPT !.direct = [x.direct EXCEPT ![l] = a]]
    OBVIOUS
  <2>3. c = [b EXCEPT ![s] = z]
    BY <1>1, <2>1, <2>2
  <2>4. z.size = n /\ y = [z EXCEPT !.size = n + 1]
    <3>1. z = [key |-> k, size |-> n, direct |-> [f EXCEPT ![l] = a], indirect |-> g]
      BY <1>2, <2>2
    <3> QED
      BY <1>3, <3>1
  <2>5. b2 = [c EXCEPT ![s].size = @ + 1]
    BY <2>1 DEF DirectSet
  <2> QED
    BY <2>3, <2>4, <2>5
<1>5. /\ y \in Objects /\ y.key = x.key /\ y.size = x.size + 1 /\ y.indirect = x.indirect
      /\ y.direct[l] = a /\ \A i \in Directs : i # l => y.direct[i] = x.direct[i]
  BY <1>2, <1>3 DEF Objects
<1>6. b2 \in [Slots -> Objects] /\ b2[s] = y /\ \A t \in Slots : t # s => b2[t] = b[t]
  BY <1>4, <1>5
<1> QED
  BY <1>1, <1>5, <1>6 DEF OneMore

(* Setting the place of a table changes one inode, there and in its size. *)
LEMMA TableSetIs ==
  ASSUME NEW b \in [Slots -> Objects], NEW s \in Slots, NEW l \in Indirects, NEW a \in Addrs,
         NEW b2, b2 = TableSet(b, s, l, a)
  PROVE  /\ b2 \in [Slots -> Objects] /\ OneMore(b, s, b2)
         /\ b2[s].indirect[l] = a
         /\ \A i \in Indirects : i # l => b2[s].indirect[i] = b[s].indirect[i]
         /\ b2[s].direct = b[s].direct
<1>1. PICK x \in Objects : x = b[s]
  OBVIOUS
<1>2. PICK k, n, f, g : x = [key |-> k, size |-> n, direct |-> f, indirect |-> g]
  BY DEF Objects
<1>3. PICK y : y = [key |-> k, size |-> n + 1, direct |-> f, indirect |-> [g EXCEPT ![l] = a]]
  OBVIOUS
<1>4. b2 = [b EXCEPT ![s] = y]
  <2>1. PICK c : c = [b EXCEPT ![s].indirect[l] = a]
    OBVIOUS
  <2>2. PICK z : z = [x EXCEPT !.indirect = [x.indirect EXCEPT ![l] = a]]
    OBVIOUS
  <2>3. c = [b EXCEPT ![s] = z]
    BY <1>1, <2>1, <2>2
  <2>4. z.size = n /\ y = [z EXCEPT !.size = n + 1]
    <3>1. z = [key |-> k, size |-> n, direct |-> f, indirect |-> [g EXCEPT ![l] = a]]
      BY <1>2, <2>2
    <3> QED
      BY <1>3, <3>1
  <2>5. b2 = [c EXCEPT ![s].size = @ + 1]
    BY <2>1 DEF TableSet
  <2> QED
    BY <2>3, <2>4, <2>5
<1>5. /\ y \in Objects /\ y.key = x.key /\ y.size = x.size + 1 /\ y.direct = x.direct
      /\ y.indirect[l] = a /\ \A i \in Indirects : i # l => y.indirect[i] = x.indirect[i]
  BY <1>2, <1>3 DEF Objects
<1>6. b2 \in [Slots -> Objects] /\ b2[s] = y /\ \A t \in Slots : t # s => b2[t] = b[t]
  BY <1>4, <1>5
<1> QED
  BY <1>1, <1>5, <1>6 DEF OneMore

(* Where pointers lead: to blocks of the bitmap, so not to a free one, and  *)
(* those of tables are the inode's.                                         *)
LEMMA Leads ==
  ASSUME Sizes, NEW b, NEW L, NEW m, NEW d, Store(b, L, m, d), NEW P, P = PtrsOf(b, d)
  PROVE  /\ P \in Pointers /\ L \subseteq Slots /\ m \subseteq DataBlocks
         /\ b \in [Slots -> Objects] /\ d \in [Addrs -> Blocks]
         /\ \A x \in DataBlocks : WriteOffset + x \in Addrs /\ WriteOffset + x # 0
         /\ \A x, y \in DataBlocks : WriteOffset + x = WriteOffset + y => x = y
         /\ \A t \in L, p \in Positions : P[t][p] \in Addrs
         /\ \A t \in L, p \in Positions, x \in DataBlocks \ m :
               P[t][p] # 0 => P[t][p] # WriteOffset + x
         /\ \A t \in L, i \in Indirects : P[t][-1 - i] = b[t].indirect[i]
<1>1. /\ P \in Pointers /\ L \subseteq Slots /\ m \subseteq DataBlocks
      /\ b \in [Slots -> Objects] /\ d \in [Addrs -> Blocks] /\ Linked(L, P, m)
  BY PtrsType DEF Store, Typed
<1>2. /\ \A x \in DataBlocks : x \in Nat /\ WriteOffset + x \in Addrs /\ WriteOffset + x # 0
      /\ \A x, y \in DataBlocks : WriteOffset + x = WriteOffset + y => x = y
      /\ \A x \in DataBlocks : (WriteOffset + x) - WriteOffset = x
  BY DEF DataBlocks, Addrs, Sizes
<1>3. \A t \in L, p \in Positions : P[t][p] \in Addrs
  BY <1>1 DEF Pointers
<1>4. \A t \in L, p \in Positions, x \in DataBlocks \ m :
         P[t][p] # 0 => P[t][p] # WriteOffset + x
  BY <1>1, <1>2 DEF Linked
<1>5. ASSUME NEW t \in L, NEW i \in Indirects
      PROVE  P[t][-1 - i] = b[t].indirect[i]
  <2>1. -1 - i \in Positions /\ -1 - i < 0 /\ -1 - (-1 - i) = i
    BY PositionsAre DEF TablePlaces
  <2> QED
    BY <1>1, <2>1 DEF PtrsOf, PtrOf
<1> QED
  BY <1>1, <1>2, <1>3, <1>4, <1>5
-----------------------------------------------------------------------------
(* The three ways in which a block is linked, each a write of one value.    *)

(* What is laid down is of the types of the disk. *)
LEMMA BlocksAre ==
  ASSUME Sizes
  PROVE  /\ \A v \in Values : Data(v) \in Blocks
         /\ \A f \in [Entries -> Addrs] : Table(f) \in Blocks /\ Table(f).kind = "table"
                                          /\ Table(f).ptr = f
         /\ NoEntries \in [Entries -> Addrs]
<1>1. 0 \in Addrs
  BY DEF Addrs, Sizes
<1> QED
  BY <1>1 DEF Blocks, Data, Table, NoEntries

(* A direct pointer. *)
LEMMA DirectGrows ==
  ASSUME Sizes, NEW b, NEW L, NEW m, NEW d, Store(b, L, m, d),
         NEW s \in L, NEW o \in Directs, NEW v \in Values, NEW x \in DataBlocks \ m,
         PtrsOf(b, d)[s][o] = 0,
         NEW b2, b2 = DirectSet(b, s, o, WriteOffset + x),
         NEW d2, d2 = [d EXCEPT ![WriteOffset + x] = Data(v)]
  PROVE  Wrote(b, L, m, d, s, o, v, b2, m \cup {x}, d2)
<1> DEFINE P == PtrsOf(b, d)
           P2 == PtrsOf(b2, d2)
           A == {o}
           n == [p \in A |-> x]
<1>1. /\ P \in Pointers /\ L \subseteq Slots /\ m \subseteq DataBlocks
      /\ b \in [Slots -> Objects] /\ d \in [Addrs -> Blocks]
      /\ WriteOffset + x \in Addrs
      /\ \A t \in L, p \in Positions : P[t][p] \in Addrs
      /\ \A t \in L, p \in Positions : P[t][p] # 0 => P[t][p] # WriteOffset + x
      /\ \A t \in L, i \in Indirects : P[t][-1 - i] = b[t].indirect[i]
  BY Leads
<1>2. /\ b2 \in [Slots -> Objects] /\ OneMore(b, s, b2)
      /\ b2[s].direct[o] = WriteOffset + x
      /\ \A i \in Directs : i # o => b2[s].direct[i] = b[s].direct[i]
      /\ b2[s].indirect = b[s].indirect
  BY <1>1, DirectSetIs
<1>3. /\ o \in Offsets /\ o \in Positions /\ ~(o < 0) /\ o < NDirect /\ ~(o >= NDirect)
      /\ \A p \in Positions : p < 0 => -1 - p \in Indirects
      /\ \A p \in Offsets : p \in Positions /\ ~(p < 0) /\ (p >= NDirect => ~(p < NDirect))
  BY PositionsAre DEF TablePlaces
<1>4. d2 \in [Addrs -> Blocks] /\ d2[WriteOffset + x] = Data(v)
      /\ \A a \in Addrs : a # WriteOffset + x => d2[a] = d[a]
  BY <1>1, BlocksAre
<1>5. Typed(b2, L, m \cup {x}, d2)
  BY <1>1, <1>2, <1>4 DEF Typed
<1>6. P2 \in Pointers
  BY <1>2, <1>4, PtrsType
<1>7. P2[s][o] = WriteOffset + x
  <2>1. PtrOf(b2, d2, s, o) = WriteOffset + x
    BY <1>2, <1>3 DEF PtrOf
  <2> QED
    BY <1>1, <1>3, <2>1 DEF PtrsOf
<1>8. \A t \in Slots : b2[t].indirect = b[t].indirect
  BY <1>2 DEF OneMore
<1>9. ASSUME NEW t \in L, NEW p \in Positions, t # s \/ p # o
      PROVE  P2[t][p] = P[t][p]
  <2>1. p \in Directs => b2[t].direct[p] = b[t].direct[p]
    BY <1>1, <1>2, <1>9 DEF OneMore
  <2>2. ASSUME p \in Offsets, p >= NDirect
        PROVE  PtrOf(b2, d2, t, p) = PtrOf(b, d, t, p)
    <3>1. Alpha(p) \in Indirects
      BY <2>2, AlphaAlp
    <3>2. PICK i \in Indirects : i = Alpha(p)
      BY <3>1
    <3>3. -1 - i \in Positions
      BY PositionsAre DEF TablePlaces
    <3>4. b[t].indirect[i] # 0 => d2[b[t].indirect[i]] = d[b[t].indirect[i]]
      BY <1>1, <1>4, <3>3
    <3>5. ~(p < 0) /\ ~(p < NDirect) /\ b2[t].indirect[i] = b[t].indirect[i]
      BY <1>1, <1>3, <1>8, <2>2
    <3> QED
      BY <3>2, <3>4, <3>5 DEF PtrOf, TableIn
  <2>3. t \in Slots
    BY <1>1
  <2>4. b2[t].indirect[-1 - p] = b[t].indirect[-1 - p]
    BY <1>8, <2>3
  <2>5. PtrOf(b2, d2, t, p) = PtrOf(b, d, t, p)
    <3>1. p < 0 \/ p \in Directs \/ (p \in Offsets /\ p >= NDirect)
      BY PositionsAre
    <3>2. p \in Directs => ~(p < 0) /\ p < NDirect
      BY PositionsAre
    <3> QED
      BY <2>1, <2>2, <2>3, <2>4, <3>1, <3>2 DEF PtrOf
  <2> QED
    BY <1>1, <2>5 DEF PtrsOf
<1>10. Laid(L, P, d, A, n, o, v, d2)
  BY <1>1, <1>3, <1>4 DEF Laid
<1>11. Reaches(L, P, m, s, o, A, n, P2, m \cup {x})
  <2>1. \A t \in L, p \in Positions : t # s \/ p \notin A => P2[t][p] = P[t][p]
    BY <1>9
  <2>2. \A p \in A : P[s][p] = 0 /\ P2[s][p] = WriteOffset + n[p]
    BY <1>7
  <2> HIDE DEF P, P2
  <2> QED
    BY <1>1, <1>3, <1>6, <2>1, <2>2 DEF Reaches
<1> HIDE DEF P, P2, A, n
<1> QED
  BY <1>2, <1>3, <1>5, <1>10, <1>11, StoreGrows DEF P, P2

(* An entry of a table that is there. *)
LEMMA EntryGrows ==
  ASSUME Sizes, NEW b, NEW L, NEW m, NEW d, Store(b, L, m, d),
         NEW s \in L, NEW o \in Offsets, o >= NDirect, NEW v \in Values,
         NEW x \in DataBlocks \ m, PtrsOf(b, d)[s][o] = 0,
         NEW a, a = b[s].indirect[Alpha(o)], a # 0,
         NEW b2, b2 = TableSet(b, s, Alpha(o), a),
         NEW d2, d2 = [d EXCEPT ![WriteOffset + x] = Data(v),
                                ![a] = Table([TableIn(d, a) EXCEPT ![Alp(o)] = WriteOffset + x])]
  PROVE  Wrote(b, L, m, d, s, o, v, b2, m \cup {x}, d2)
<1> DEFINE P == PtrsOf(b, d)
           P2 == PtrsOf(b2, d2)
           A == {o}
           n == [p \in A |-> x]
           f == TableIn(d, a)
           g == [f EXCEPT ![Alp(o)] = WriteOffset + x]
<1>1. /\ P \in Pointers /\ L \subseteq Slots /\ m \subseteq DataBlocks
      /\ b \in [Slots -> Objects] /\ d \in [Addrs -> Blocks]
      /\ WriteOffset + x \in Addrs /\ WriteOffset + x # 0
      /\ \A t \in L, p \in Positions : P[t][p] \in Addrs
      /\ \A t \in L, p \in Positions : P[t][p] # 0 => P[t][p] # WriteOffset + x
      /\ \A t \in L, i \in Indirects : P[t][-1 - i] = b[t].indirect[i]
  BY Leads
<1>2. Alpha(o) \in Indirects /\ Alp(o) \in Entries
  BY AlphaAlp
<1>3. /\ o \in Positions /\ ~(o < 0) /\ ~(o < NDirect) /\ TableOf(o) \in Positions /\ TableOf(o) < 0
      /\ \A p \in Positions : p < 0 => -1 - p \in Indirects
      /\ \A p \in Offsets : p \in Positions /\ ~(p < 0) /\ (p >= NDirect => ~(p < NDirect))
      /\ \A i \in Indirects : -1 - i \in Positions /\ i \in Nat
      /\ \A p \in Positions : p >= 0 => ~(p < 0)
  BY PositionsAre DEF TablePlaces
<1>4. a = P[s][TableOf(o)] /\ a \in Addrs /\ a # WriteOffset + x
  BY <1>1, <1>2, <1>3 DEF TableOf
<1>5. /\ b2 \in [Slots -> Objects] /\ OneMore(b, s, b2)
      /\ b2[s].indirect[Alpha(o)] = a
      /\ \A i \in Indirects : i # Alpha(o) => b2[s].indirect[i] = b[s].indirect[i]
      /\ b2[s].direct = b[s].direct
  BY <1>1, <1>2, <1>4, TableSetIs
<1>6. \A t \in Slots : b2[t].direct = b[t].direct /\ \A i \in Indirects : b2[t].indirect[i] = b[t].indirect[i]
  BY <1>5 DEF OneMore
<1>7. f \in [Entries -> Addrs]
  BY <1>1, <1>4, BlocksAre DEF TableIn, Blocks
<1>8. g \in [Entries -> Addrs] /\ g[Alp(o)] = WriteOffset + x
      /\ \A e \in Entries : e # Alp(o) => g[e] = f[e]
  BY <1>1, <1>2, <1>7
<1> HIDE DEF f, g
<1>9. /\ d2 \in [Addrs -> Blocks] /\ d2[WriteOffset + x] = Data(v) /\ d2[a] = Table(g)
      /\ \A c \in Addrs : c # WriteOffset + x /\ c # a => d2[c] = d[c]
  <2>1. d2 = [d EXCEPT ![WriteOffset + x] = Data(v), ![a] = Table(g)]
    BY DEF f, g
  <2> QED
    BY <1>1, <1>4, <1>8, <2>1, BlocksAre
<1>10. TableIn(d2, a) = g
  BY <1>8, <1>9, BlocksAre DEF TableIn
<1>11. Typed(b2, L, m \cup {x}, d2)
  BY <1>1, <1>5, <1>9 DEF Typed
<1>12. P2 \in Pointers
  BY <1>5, <1>9, PtrsType
<1>13. P2[s][o] = WriteOffset + x
  <2>1. PtrOf(b2, d2, s, o) = WriteOffset + x
    BY <1>3, <1>5, <1>8, <1>10 DEF PtrOf
  <2> QED
    BY <1>1, <1>3, <2>1 DEF PtrsOf
<1>14. Linked(L, P, m) /\ Filled(L, P, d)
  BY DEF Store
<1>15. ASSUME NEW t \in L, NEW p \in Positions, t # s \/ p # o
      PROVE  P2[t][p] = P[t][p]
  <2>1. ASSUME p \in Offsets, p >= NDirect
        PROVE  PtrOf(b2, d2, t, p) = PtrOf(b, d, t, p)
    <3>1. Alpha(p) \in Indirects /\ Alp(p) \in Entries
      BY <2>1, AlphaAlp
    <3>2. PICK i \in Indirects, e \in Entries : i = Alpha(p) /\ e = Alp(p)
      BY <3>1
    <3>3. PICK c : c = b[t].indirect[i]
      OBVIOUS
    <3>4. /\ c = P[t][-1 - i] /\ -1 - i \in Positions /\ c \in Addrs /\ b2[t].indirect[i] = c
          /\ c # 0 => c # WriteOffset + x
      BY <1>1, <1>3, <1>6, <3>3
    <3>7. ~(p < 0) /\ ~(p < NDirect)
      BY <1>3, <2>1
    <3>5. CASE c # a
      <4>1. c # 0 => d2[c] = d[c]
        BY <1>9, <3>4, <3>5
      <4> QED
        BY <3>2, <3>3, <3>4, <3>7, <4>1 DEF PtrOf, TableIn
    <3>6. CASE c = a
      <4>1. t = s /\ -1 - i = TableOf(o)
        <5>1. \A p1, q1 \in Positions : P[t][p1] = P[s][q1] /\ P[t][p1] # 0 => t = s /\ p1 = q1
          BY <1>14 DEF Linked
        <5> HIDE DEF P
        <5> QED
          BY <1>3, <1>4, <3>4, <3>6, <5>1
      <4>2. i = Alpha(o)
        BY <1>2, <1>3, <4>1 DEF TableOf
      <4>3. e # Alp(o)
        BY <1>15, <2>1, <3>2, <4>1, <4>2, EntriesApart
      <4>4. TableIn(d2, c)[e] = TableIn(d, c)[e]
        BY <1>8, <1>10, <3>6, <4>3 DEF f
      <4> QED
        BY <3>2, <3>3, <3>4, <3>7, <4>4 DEF PtrOf
    <3> QED
      BY <3>5, <3>6
  <2>2. t \in Slots
    BY <1>1
  <2>3. p < 0 => b2[t].indirect[-1 - p] = b[t].indirect[-1 - p]
    BY <1>3, <1>6, <2>2
  <2>4. b2[t].direct[p] = b[t].direct[p]
    BY <1>6, <2>2
  <2>5. PtrOf(b2, d2, t, p) = PtrOf(b, d, t, p)
    <3>1. p < 0 \/ p \in Directs \/ (p \in Offsets /\ p >= NDirect)
      BY PositionsAre
    <3>2. p \in Directs => ~(p < 0) /\ p < NDirect
      BY PositionsAre
    <3> QED
      BY <2>1, <2>2, <2>3, <2>4, <3>1, <3>2 DEF PtrOf
  <2> QED
    BY <1>1, <2>5 DEF PtrsOf
<1>16. Laid(L, P, d, A, n, o, v, d2)
  <2>1. ASSUME NEW t \in L, NEW p \in Positions, P[t][p] # 0
        PROVE  /\ d2[P[t][p]].kind = d[P[t][p]].kind
               /\ p >= 0 => d2[P[t][p]] = d[P[t][p]]
    <3>1. CASE P[t][p] = a
      <4>1. p = TableOf(o)
        BY <1>3, <1>4, <1>14, <2>1, <3>1 DEF Linked
      <4>2. d[a].kind = "table"
        BY <1>3, <1>4, <1>14 DEF Filled
      <4>3. d2[a].kind = "table"
        BY <1>8, <1>9, BlocksAre
      <4> QED
        BY <1>3, <3>1, <4>1, <4>2, <4>3
    <3>2. CASE P[t][p] # a
      BY <1>1, <1>9, <2>1, <3>2
    <3> QED
      BY <3>1, <3>2
  <2> HIDE DEF P
  <2> QED
    BY <1>3, <1>9, <2>1 DEF Laid
<1>17. Reaches(L, P, m, s, o, A, n, P2, m \cup {x})
  <2>1. \A t \in L, p \in Positions : t # s \/ p \notin A => P2[t][p] = P[t][p]
    BY <1>15
  <2>2. \A p \in A : P[s][p] = 0 /\ P2[s][p] = WriteOffset + n[p]
    BY <1>13
  <2> HIDE DEF P, P2
  <2> QED
    BY <1>1, <1>3, <1>4, <1>12, <2>1, <2>2 DEF Reaches
<1> HIDE DEF P, P2, A, n
<1> QED
  BY <1>5, <1>11, <1>16, <1>17, StoreGrows DEF P, P2
(* An entry of a new table, for which a second block is taken. *)
LEMMA NewTableGrows ==
  ASSUME Sizes, NEW b, NEW L, NEW m, NEW d, Store(b, L, m, d),
         NEW s \in L, NEW o \in Offsets, o >= NDirect, NEW v \in Values,
         NEW x \in DataBlocks \ m, NEW y \in DataBlocks \ m, x # y,
         b[s].indirect[Alpha(o)] = 0,
         NEW b2, b2 = TableSet(b, s, Alpha(o), WriteOffset + y),
         NEW d2, d2 = [d EXCEPT ![WriteOffset + x] = Data(v),
                                ![WriteOffset + y] = Table([NoEntries EXCEPT ![Alp(o)] = WriteOffset + x])]
  PROVE  Wrote(b, L, m, d, s, o, v, b2, m \cup {x, y}, d2)
<1> DEFINE P == PtrsOf(b, d)
           P2 == PtrsOf(b2, d2)
           A == {o, TableOf(o)}
           n == [p \in A |-> IF p = o THEN x ELSE y]
           g == [NoEntries EXCEPT ![Alp(o)] = WriteOffset + x]
<1>1. /\ P \in Pointers /\ L \subseteq Slots /\ m \subseteq DataBlocks
      /\ b \in [Slots -> Objects] /\ d \in [Addrs -> Blocks]
      /\ WriteOffset + x \in Addrs /\ WriteOffset + x # 0
      /\ WriteOffset + y \in Addrs /\ WriteOffset + y # 0 /\ WriteOffset + x # WriteOffset + y
      /\ \A t \in L, p \in Positions : P[t][p] \in Addrs
      /\ \A t \in L, p \in Positions : P[t][p] # 0 => /\ P[t][p] # WriteOffset + x
                                                      /\ P[t][p] # WriteOffset + y
      /\ \A t \in L, i \in Indirects : P[t][-1 - i] = b[t].indirect[i]
  BY Leads
<1>2. Alpha(o) \in Indirects /\ Alp(o) \in Entries
  BY AlphaAlp
<1>3. /\ o \in Positions /\ ~(o < 0) /\ ~(o < NDirect) /\ TableOf(o) \in Positions /\ TableOf(o) < 0
      /\ \A p \in Positions : p < 0 => -1 - p \in Indirects
      /\ \A p \in Offsets : p \in Positions /\ ~(p < 0) /\ (p >= NDirect => ~(p < NDirect))
      /\ \A i \in Indirects : -1 - i \in Positions /\ i \in Nat /\ -1 - (-1 - i) = i
      /\ Positions \subseteq Int
  BY PositionsAre DEF TablePlaces
<1>4. P[s][TableOf(o)] = 0
  BY <1>1, <1>2 DEF TableOf
<1>5. /\ b2 \in [Slots -> Objects] /\ OneMore(b, s, b2)
      /\ b2[s].indirect[Alpha(o)] = WriteOffset + y
      /\ \A i \in Indirects : i # Alpha(o) => b2[s].indirect[i] = b[s].indirect[i]
      /\ b2[s].direct = b[s].direct
  BY <1>1, <1>2, TableSetIs
<1>6. \A t \in Slots : /\ b2[t].direct = b[t].direct
                       /\ \A i \in Indirects : t # s \/ i # Alpha(o) =>
                             b2[t].indirect[i] = b[t].indirect[i]
  BY <1>5 DEF OneMore
<1>7. g \in [Entries -> Addrs] /\ g[Alp(o)] = WriteOffset + x
      /\ \A e \in Entries : e # Alp(o) => g[e] = 0
  <2>1. NoEntries \in [Entries -> Addrs]
    BY BlocksAre
  <2>2. \A e \in Entries : NoEntries[e] = 0
    BY DEF NoEntries
  <2> QED
    BY <1>1, <1>2, <2>1, <2>2
<1> HIDE DEF g
<1>8. /\ d2 \in [Addrs -> Blocks] /\ d2[WriteOffset + x] = Data(v) /\ d2[WriteOffset + y] = Table(g)
      /\ \A c \in Addrs : c # WriteOffset + x /\ c # WriteOffset + y => d2[c] = d[c]
  <2>1. d2 = [d EXCEPT ![WriteOffset + x] = Data(v), ![WriteOffset + y] = Table(g)]
    BY DEF g
  <2> QED
    BY <1>1, <1>7, <2>1, BlocksAre
<1>9. TableIn(d2, WriteOffset + y) = g
  BY <1>7, <1>8, BlocksAre DEF TableIn
<1>10. Typed(b2, L, m \cup {x, y}, d2)
  BY <1>1, <1>5, <1>8 DEF Typed
<1>11. P2 \in Pointers
  BY <1>5, <1>8, PtrsType
<1>12. P[s][o] = 0
  <2>1. PtrOf(b, d, s, o) = 0
    BY <1>3 DEF PtrOf
  <2> QED
    BY <1>1, <1>3, <2>1 DEF PtrsOf
<1>13. P2[s][o] = WriteOffset + x
  <2>1. PtrOf(b2, d2, s, o) = WriteOffset + x
    BY <1>1, <1>3, <1>5, <1>7, <1>9 DEF PtrOf
  <2> QED
    BY <1>1, <1>3, <2>1 DEF PtrsOf
<1>14. P2[s][TableOf(o)] = WriteOffset + y
  <2>1. -1 - TableOf(o) = Alpha(o)
    BY <1>2, <1>3 DEF TableOf
  <2>2. PtrOf(b2, d2, s, TableOf(o)) = WriteOffset + y
    BY <1>3, <1>5, <2>1 DEF PtrOf
  <2> QED
    BY <1>1, <1>3, <2>2 DEF PtrsOf
<1>15. ASSUME NEW t \in L, NEW p \in Positions, t # s \/ p \notin A
       PROVE  P2[t][p] = P[t][p]
  <2>1. ASSUME p \in Offsets, p >= NDirect
        PROVE  PtrOf(b2, d2, t, p) = PtrOf(b, d, t, p)
    <3>1. Alpha(p) \in Indirects /\ Alp(p) \in Entries /\ ~(p < 0) /\ ~(p < NDirect)
      BY <1>3, <2>1, AlphaAlp
    <3>2. PICK i \in Indirects, e \in Entries : i = Alpha(p) /\ e = Alp(p)
      BY <3>1
    <3>3. CASE t = s /\ i = Alpha(o)
      <4>1. e # Alp(o)
        BY <1>15, <2>1, <3>2, <3>3, EntriesApart
      <4>2. PtrOf(b, d, t, p) = 0
        BY <3>1, <3>2, <3>3 DEF PtrOf
      <4>3. PtrOf(b2, d2, t, p) = g[e]
        BY <1>1, <1>5, <1>9, <3>1, <3>2, <3>3 DEF PtrOf
      <4> QED
        BY <1>7, <4>1, <4>2, <4>3
    <3>4. CASE ~(t = s /\ i = Alpha(o))
      <4>1. PICK c : c = b[t].indirect[i]
        OBVIOUS
      <4>2. b2[t].indirect[i] = c /\ c \in Addrs /\ (c # 0 => d2[c] = d[c])
        BY <1>1, <1>3, <1>6, <1>8, <3>4, <4>1
      <4> QED
        BY <3>1, <3>2, <4>1, <4>2 DEF PtrOf, TableIn
    <3> QED
      BY <3>3, <3>4
  <2>2. t \in Slots
    BY <1>1
  <2>3. p < 0 => b2[t].indirect[-1 - p] = b[t].indirect[-1 - p]
    <3>1. ASSUME p < 0, t = s
          PROVE  -1 - p # Alpha(o)
      BY <1>2, <1>3, <1>15, <3>1 DEF TableOf
    <3> QED
      BY <1>3, <1>6, <2>2, <3>1
  <2>4. b2[t].direct[p] = b[t].direct[p]
    BY <1>6, <2>2
  <2>5. PtrOf(b2, d2, t, p) = PtrOf(b, d, t, p)
    <3>1. p < 0 \/ p \in Directs \/ (p \in Offsets /\ p >= NDirect)
      BY PositionsAre
    <3>2. p \in Directs => ~(p < 0) /\ p < NDirect
      BY PositionsAre
    <3> QED
      BY <2>1, <2>3, <2>4, <3>1, <3>2 DEF PtrOf
  <2> QED
    BY <1>1, <2>5 DEF PtrsOf
<1>16. /\ n \in [A -> DataBlocks \ m] /\ n[o] = x /\ n[TableOf(o)] = y
       /\ \A p, q \in A : n[p] = n[q] => p = q
       /\ m \cup {x, y} = m \cup {n[p] : p \in A}
  BY <1>3
<1>17. Laid(L, P, d, A, n, o, v, d2)
  <2>1. d2[WriteOffset + y].kind = "table"
    BY <1>7, <1>8, BlocksAre
  <2>2. \A t \in L, p \in Positions : P[t][p] # 0 => d2[P[t][p]] = d[P[t][p]]
    BY <1>1, <1>8
  <2>3. \A p \in A : p < 0 => p = TableOf(o)
    BY <1>3
  <2> HIDE DEF P, A, n
  <2> QED
    BY <1>8, <1>16, <2>1, <2>2, <2>3 DEF Laid
<1>18. Reaches(L, P, m, s, o, A, n, P2, m \cup {x, y})
  <2>1. \A t \in L, p \in Positions : t # s \/ p \notin A => P2[t][p] = P[t][p]
    BY <1>15
  <2>2. \A p \in A : P[s][p] = 0 /\ P2[s][p] = WriteOffset + n[p]
    BY <1>4, <1>12, <1>13, <1>14, <1>16
  <2>3. o \in A /\ TableOf(o) \in A /\ A \subseteq Positions /\ A = {o, TableOf(o)}
    BY <1>3
  <2> HIDE DEF P, P2, A, n
  <2> QED
    BY <1>1, <1>11, <1>16, <2>1, <2>2, <2>3 DEF Reaches
<1> HIDE DEF P, P2, A, n
<1> QED
  BY <1>5, <1>10, <1>17, <1>18, StoreGrows DEF P, P2
(* A write takes one block, or two if a table is wanted, from a bitmap that *)
(* has them: only a full one refuses it.                                    *)
LEMMA WriteMaps ==
  ASSUME Sizes, CarefulClients, VInv, NEW s \in Slots, NEW o \in Offsets, NEW v \in Values,
         objfs_write(s, o, v)
  PROVE  VInv' /\ Map!Write(objs[s].key, o, v) /\ objs[s].key \in Keys
<1> DEFINE L == bit_map_inode
           m == bit_map_data
           P == PtrsOf(objs, disk)
           K == KeysOf(objs)
           C == ContentsOf(objs, disk)
           free == DataBlocks \ m
<1>1. /\ version \in Versions /\ SavedRight /\ s \in L
      /\ L \subseteq Slots /\ m \subseteq DataBlocks /\ Apart(L, K)
      /\ Linked(L, P, m) /\ TablesUsed(L, P)
      /\ objs \in [Slots -> Objects] /\ disk \in [Addrs -> Blocks]
  BY DEF VInv, Store, Typed, objfs_write
<1>2. /\ PutBlock(s, o, v) /\ d_bit_map \subseteq d_bit_map'
      /\ ~Forgetful => MarkOf(s) \in d_bit_map'
      /\ Pointer(s, o) = 0
      /\ TakesTable(s, o) => Cardinality(free) # 1
      /\ call' = <<"write", objs[s].key, o, v>> /\ UNCHANGED <<version, bit_map_inode, saved>>
  BY <1>1, WriteIs DEF objfs_write
<1>3. Store(objs, L, m, disk)
  BY DEF VInv
<1>4. Files = FilesOf(L, K, C) /\ objs[s].key \in DOMAIN Files /\ objs[s].key \in Keys
  BY <1>1, FilesNow, FileOf
<1>5. Exhausted(Files) <=> free = {}
  <2>1. Shown(L, P, C) /\ P \in Pointers
    BY <1>1, <1>3, ShownNow, PtrsType
  <2>2. free = {} <=> m = DataBlocks
    BY <1>1
  <2> HIDE DEF L, m, P, K, C, free
  <2> QED
    BY <1>1, <1>4, <2>1, <2>2, RoomIs
<1>6. CASE free = {}
  <2>1. ans' = Failed /\ UNCHANGED <<objs, bit_map_data, disk>>
    BY <1>2, <1>6 DEF PutBlock
  <2>2. SavedRight'
    BY <1>1, <1>2, <2>1, SavedStays
  <2>3. VInv'
    BY <1>1, <1>2, <1>3, <2>1, <2>2 DEF VInv
  <2>4. Files' = Files
    BY <1>2, <2>1, <2>3, FilesNow, FilesNext
  <2>5. Map!Write(objs[s].key, o, v)
    BY <1>2, <1>4, <1>5, <1>6, <2>1, <2>4 DEF Map!Write, Map!Refuse, Files
  <2> QED
    BY <1>4, <2>3, <2>5
<1>7. CASE free # {}
  <2>1. \A S \in SUBSET DataBlocks : S # {} => First(S) \in S
    BY FirstIs DEF DataBlocks
  <2>2. PICK x \in DataBlocks \ m : x = First(free)
    BY <1>7, <2>1
  <2>3. PtrsOf(objs, disk)[s][o] = 0
    BY <1>1, <1>2, PointersNow
  <2>4. \A w : Replaced(w, 0) = w
    BY DEF Replaced
  <2>5. Wrote(objs, L, m, disk, s, o, v, objs', bit_map_data', disk')
    <3>1. CASE o < NDirect
      <4>1. o \in Directs /\ objs[s].direct[o] = 0
        <5>1. o \in Directs
          BY <3>1, PositionsAre
        <5> QED
          BY <1>2, <3>1, <5>1 DEF Pointer
      <4>2. PutDirect(s, o, v, x)
        BY <1>2, <1>7, <2>2, <3>1 DEF PutBlock
      <4>3. /\ objs' = DirectSet(objs, s, o, WriteOffset + x)
            /\ bit_map_data' = m \cup {x}
            /\ disk' = [disk EXCEPT ![WriteOffset + x] = Data(v)]
        BY <2>4, <4>1, <4>2 DEF PutDirect, DirectSet
      <4> HIDE DEF L, m
      <4> QED
        BY <1>1, <1>3, <2>3, <4>1, <4>3, DirectGrows
    <3>2. CASE ~(o < NDirect)
      <4>1. o >= NDirect
        BY <3>2, PositionsAre
      <4>2. PutEntry(s, o, v, x)
        BY <1>2, <1>7, <2>2, <3>2 DEF PutBlock
      <4>3. PICK a : a = objs[s].indirect[Alpha(o)]
        OBVIOUS
      <4>4. CASE a # 0
        <5>1. /\ objs' = TableSet(objs, s, Alpha(o), a)
              /\ bit_map_data' = m \cup {x}
              /\ disk' = [disk EXCEPT ![WriteOffset + x] = Data(v),
                            ![a] = Table([TableIn(disk, a) EXCEPT ![Alp(o)] = WriteOffset + x])]
          BY <1>2, <2>4, <4>2, <4>3, <4>4 DEF PutEntry, TableSet, TableAt, TableIn
        <5> HIDE DEF L, m
        <5> QED
          BY <1>1, <1>3, <2>3, <4>1, <4>3, <4>4, <5>1, EntryGrows
      <4>5. CASE a = 0
        <5> DEFINE rest == DataBlocks \ (m \cup {x})
        <5>1. rest # {}
          <6>1. Cardinality(free) # 1
            BY <1>2, <4>1, <4>3, <4>5 DEF TakesTable
          <6>2. free # {x}
            BY <6>1, FS_Singleton
          <6> QED
            BY <6>2
        <5>2. PICK y \in rest : y = First(rest)
          BY <2>1, <5>1
        <5>3. y \in DataBlocks \ m /\ x # y
          BY <5>2
        <5>4. /\ objs' = TableSet(objs, s, Alpha(o), WriteOffset + y)
              /\ bit_map_data' = m \cup {x, y}
              /\ disk' = [disk EXCEPT ![WriteOffset + x] = Data(v),
                            ![WriteOffset + y] =
                                Table([NoEntries EXCEPT ![Alp(o)] = WriteOffset + x])]
          <6>1. /\ Pointer(s, o) = 0 /\ objs[s].indirect[Alpha(o)] = 0
                /\ DataBlocks \ (bit_map_data \cup {x}) # {}
                /\ First(DataBlocks \ (bit_map_data \cup {x})) = y
            BY <1>2, <4>3, <4>5, <5>1, <5>2
          <6> QED
            BY <2>4, <4>2, <6>1 DEF PutEntry, TableSet
        <5> HIDE DEF L, m
        <5> QED
          BY <1>1, <1>3, <2>2, <4>1, <4>3, <4>5, <5>3, <5>4, NewTableGrows
      <4> QED
        BY <4>4, <4>5
    <3> QED
      BY <3>1, <3>2
  <2>6. ans' = Done
    BY <1>2, <1>7 DEF PutBlock
  <2>7. VInv'
    <3>1. /\ \A t \in Slots : objs'[t] = objs[t] \/ t = s
          /\ ~Forgetful => Fits(s)
      BY <1>1, <2>5, UsedFits DEF Wrote
    <3>2. SavedRight'
      BY <1>1, <1>2, <3>1, SavedStays
    <3>3. Store(objs', bit_map_inode', bit_map_data', disk')
      BY <1>2, <2>5 DEF Wrote
    <3> QED
      BY <1>1, <1>2, <3>2, <3>3 DEF VInv
  <2>8. Files' = [Files EXCEPT ![objs[s].key][o] = v]
    <3>1. Files' = FilesOf(L, KeysOf(objs'), ContentsOf(objs', disk'))
      BY <1>2, <2>7, FilesNext
    <3> QED
      BY <1>4, <2>5, <3>1 DEF Wrote
  <2>9. Map!Write(objs[s].key, o, v)
    BY <1>2, <1>4, <1>5, <1>7, <2>6, <2>8 DEF Map!Write, Files
  <2> QED
    BY <1>4, <2>7, <2>9
<1> QED
  BY <1>6, <1>7

(* The first mount has no files. *)
LEMMA InitMaps == Sizes /\ Init => VInv /\ Map!Init
<1> SUFFICES ASSUME Sizes, Init
             PROVE  VInv /\ Map!Init
  OBVIOUS
<1>1. /\ version \in Versions /\ objs = [s \in Slots |-> NoObject]
      /\ bit_map_inode = {} /\ bit_map_data = {} /\ d_bit_map = {}
      /\ disk = [a \in Addrs |-> Data(NoValue)] /\ saved.objs = objs
      /\ call = <<"mount">> /\ ans = Done
  BY DEF Init, Addrs
<1>2. disk \in [Addrs -> Blocks]
  BY <1>1 DEF Blocks, Data
<1>3. Store(objs, bit_map_inode, bit_map_data, disk)
  BY <1>1, <1>2, EmptyStore
<1>4. VInv
  BY <1>1, <1>3 DEF VInv, SavedRight
<1>5. Files = Map!NoFiles
  <2>1. KeysInUse = {}
    BY <1>1 DEF KeysInUse
  <2> QED
    BY <2>1 DEF Files, Map!NoFiles
<1>6. Map!Init
  BY <1>1, <1>5 DEF Map!Init, Files
<1> QED
  BY <1>4, <1>6

(* Every step of a version is one of the map, or none. *)
LEMMA NextMaps ==
  Sizes /\ CarefulClients /\ VInv /\ [Next]_vars => VInv' /\ [Map!Next]_(Map!vars)
<1> SUFFICES ASSUME Sizes, CarefulClients, VInv, [Next]_vars
             PROVE  VInv' /\ [Map!Next]_(Map!vars)
  OBVIOUS
<1>0. ASSUME version' = version
      PROVE  (~Forgetful)' = ~Forgetful
  BY <1>0 DEF Forgetful
<1>1. ASSUME NEW k \in Keys, objfs_create(k)
      PROVE  VInv' /\ Map!Next
  BY <1>0, <1>1, CreateMaps DEF Map!Next, objfs_create
<1>2. ASSUME NEW k \in Keys, objfs_unlink(k)
      PROVE  VInv' /\ Map!Next
  BY <1>0, <1>2, UnlinkMaps DEF Map!Next, objfs_unlink
<1>3. ASSUME NEW k \in Keys, NEW new \in Keys, objfs_rename_key(k, new)
      PROVE  VInv' /\ Map!Next
  BY <1>0, <1>3, RenameMaps DEF Map!Next, objfs_rename_key
<1>4. ASSUME NEW k \in Keys, objfs_open(k)
      PROVE  VInv' /\ Map!Next
  BY <1>0, <1>4, OpenMaps DEF Map!Next, objfs_open
<1>5. ASSUME NEW k \in Keys, objfs_getattr(k)
      PROVE  VInv' /\ Map!Next
  BY <1>0, <1>5, GetattrMaps DEF Map!Next, objfs_getattr
<1>6. ASSUME NEW s \in Slots, NEW o \in Offsets, objfs_read(s, o)
      PROVE  VInv' /\ Map!Next
  BY <1>0, <1>6, ReadMaps DEF Map!Next, objfs_read
<1>7. ASSUME NEW s \in Slots, NEW o \in Offsets, NEW v \in Values, objfs_write(s, o, v)
      PROVE  VInv' /\ Map!Next
  BY <1>0, <1>7, WriteMaps DEF Map!Next, objfs_write
<1>8. CASE Remount
  BY <1>0, <1>8, RemountMaps DEF Map!Next, Remount
<1>9. CASE UNCHANGED vars
  <2>1. VInv' /\ Files' = Files
    BY <1>9, TablesStay DEF vars
  <2>2. UNCHANGED Map!vars
    BY <1>0, <1>9, <2>1 DEF vars, Map!vars, Files
  <2> QED
    BY <2>1, <2>2
<1> QED
  BY <1>1, <1>2, <1>3, <1>4, <1>5, <1>6, <1>7, <1>8, <1>9 DEF Next

(* All four versions are a map of files for a careful client, for every    *)
(* number of objects, pointers and blocks and every set of names and       *)
(* contents: a read answers what was written at that offset, the size      *)
(* counts what is written, no removed block shows in another file, and a   *)
(* call fails only when the slots, or the blocks that the files and their  *)
(* tables need, are used up; the two that save have every file again.  The *)
(* clients rename onto no existing name, create no object in a slot whose  *)
(* inode a remount keeps in part (from the 43rd on) or that kept pointers, *)
(* and write no offset again (without_cache.c:98, 199, 219, 443).          *)
THEOREM OldVersionsAreMaps ==
  ASSUME Sizes, CarefulClients
  PROVE  Spec => OldImplementsMap
<1>1. Init => VInv /\ Map!Init
  BY InitMaps
<1>2. VInv /\ [Next]_vars => VInv' /\ [Map!Next]_(Map!vars)
  BY NextMaps
<1> QED
  BY <1>1, <1>2, PTL DEF Spec, OldImplementsMap, Map!Spec
=============================================================================
