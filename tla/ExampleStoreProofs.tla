------------------------- MODULE ExampleStoreProofs -------------------------
(***************************************************************************)
(* Both example stores, in both builds, are a map of files, for every      *)
(* number of objects and every set of names and contents, as long as       *)
(* nobody renames onto an existing name (which leaves two objects of one   *)
(* name) or renames an object that was not read or written since the mount *)
(* (the build with CACHE then writes back a page it never loaded); and     *)
(* with the four earlier stores, all the versions beside each other.       *)
(***************************************************************************)
EXTENDS MCStoreVersions, FiniteSetTheorems, TLAPS

(* What is asked of the clients: no rename onto an existing name, none of   *)
(* an object that was not read or written since the mount, and with the    *)
(* earlier stores what objfs_create and objfs_write of OldStore leave out. *)
CarefulClients == Careful = TRUE

-----------------------------------------------------------------------------
(* The files of a store, as a function of its tables.                       *)

Objects  == [id : Nat, size : {0, 1}, cache_index : Int, dirty : {0, 1},
             key : Keys \cup {NoKey}]
Blocks   == Values \cup {NoValue}
LiveIn(b) == {s \in Slots : b[s].id # 0}
KeysIn(b) == {b[s].key : s \in LiveIn(b)}

(* What an object holds whose page is c and whose block is d. *)
Holds(w, o, c, d) ==
    IF o.size = 0 THEN NoValue ELSE IF w /\ o.cache_index >= 0 THEN c ELSE d

File(v) == [x \in {0} |-> v]
SlotOf(b, k) == First({s \in LiveIn(b) : b[s].key = k})
FilesOf(w, b, c, d) ==
    [k \in KeysIn(b) |-> File(Holds(w, b[SlotOf(b, k)], c[SlotOf(b, k)], d[SlotOf(b, k)]))]

(* Names lead to one object each. *)
Apart(b) == \A s, t \in LiveIn(b) : b[s].key = b[t].key => s = t

(* What a slot keeps: an object without a name has no size, one with a size *)
(* holds something that was written; a dirty page is loaded, and a page     *)
(* that is loaded and not dirty is the one on the disk.                     *)
Sound(w, o, c, d) ==
    /\ o.id # 0 => o.key \in Keys
    /\ o.id = 0 => o.size = 0
    /\ o.size = 1 => Holds(w, o, c, d) \in Values
    /\ w /\ o.dirty = 1 => o.cache_index >= 0
    /\ w /\ o.size = 1 /\ o.dirty = 0 /\ o.cache_index >= 0 => c = d

Typed(w, b, c, d) ==
    /\ w \in BOOLEAN /\ b \in [Slots -> Objects]
    /\ c \in [Slots -> Blocks] /\ d \in [Slots -> Blocks]

Store(w, b, c, d) ==
    /\ Typed(w, b, c, d)
    /\ Apart(b)
    /\ \A s \in Slots : Sound(w, b[s], c[s], d[s])

XInv == Store(cached, objs, cache, disk)

(* A name that is in use leads to its object.                               *)
LEMMA SlotIs ==
  ASSUME NEW b, Apart(b), NEW s \in LiveIn(b)
  PROVE  SlotOf(b, b[s].key) = s
<1>1. {t \in LiveIn(b) : b[t].key = b[s].key} = {s}
  BY DEF Apart
<1>2. First({s}) = s
  <2>1. s <= s
    BY DEF LiveIn, Slots
  <2> QED
    BY <2>1 DEF First
<1> QED
  BY <1>1, <1>2 DEF SlotOf

(* What FilesOf has at each name, and what is needed to be it.              *)
LEMMA FileAt ==
  ASSUME NEW w, NEW b, NEW c, NEW d, Apart(b), NEW s \in LiveIn(b)
  PROVE  /\ b[s].key \in KeysIn(b)
         /\ FilesOf(w, b, c, d)[b[s].key] = File(Holds(w, b[s], c[s], d[s]))
<1>1. b[s].key \in KeysIn(b) /\ SlotOf(b, b[s].key) = s
  BY SlotIs DEF KeysIn
<1> QED
  BY <1>1 DEF FilesOf

(* Its names are those in use. *)
LEMMA FilesAre ==
  ASSUME NEW w, NEW b, NEW c, NEW d
  PROVE  /\ DOMAIN FilesOf(w, b, c, d) = KeysIn(b)
         /\ FilesOf(w, b, c, d) = [k \in KeysIn(b) |-> FilesOf(w, b, c, d)[k]]
  BY DEF FilesOf

(* A map with those names and those contents is FilesOf. *)
LEMMA FilesEqual ==
  ASSUME NEW w, NEW b, NEW c, NEW d, Apart(b), NEW g,
         g = [k \in DOMAIN g |-> g[k]], DOMAIN g = KeysIn(b),
         \A s \in LiveIn(b) : g[b[s].key] = File(Holds(w, b[s], c[s], d[s]))
  PROVE  FilesOf(w, b, c, d) = g
<1> DEFINE f == FilesOf(w, b, c, d)
<1>1. \A k \in KeysIn(b) : \E s \in LiveIn(b) : k = b[s].key
  BY DEF KeysIn
<1>2. \A s \in LiveIn(b) : f[b[s].key] = File(Holds(w, b[s], c[s], d[s]))
  BY FileAt
<1>3. f = [k \in KeysIn(b) |-> f[k]] /\ DOMAIN f = KeysIn(b)
  BY FilesAre
<1> HIDE DEF f
<1>4. \A k \in KeysIn(b) : f[k] = g[k]
  BY <1>1, <1>2
<1> QED
  BY <1>3, <1>4 DEF f

(* The files that ExampleStore maps its state to, now and after a step.     *)
Files == [k \in {objs[s].key : s \in Live} |-> Contents(k)]

(* The cases of Contents are those of Holds. *)
LEMMA ContentsAre ==
  ASSUME NEW w, NEW b, NEW c, NEW d, Store(w, b, c, d), NEW k \in KeysIn(b), NEW s, s = SlotOf(b, k)
  PROVE  (IF b[s].size = 0 THEN NoValue
          ELSE IF w THEN IF b[s].cache_index < 0 THEN d[s] ELSE c[s] ELSE d[s])
           = Holds(w, b[s], c[s], d[s])
<1>1. PICK t \in LiveIn(b) : k = b[t].key
  BY DEF KeysIn
<1>2. s \in Slots
  BY <1>1, SlotIs DEF Store, LiveIn
<1>3. b[s].cache_index \in Int /\ w \in BOOLEAN
  BY <1>2 DEF Store, Typed, Objects
<1>4. b[s].cache_index < 0 <=> ~(b[s].cache_index >= 0)
  BY <1>3
<1> QED
  BY <1>3, <1>4 DEF Holds

(* They are the files of the tables, before a step. *)
LEMMA FilesNow == XInv => Files = FilesOf(cached, objs, cache, disk)
<1> SUFFICES ASSUME XInv
             PROVE  Files = FilesOf(cached, objs, cache, disk)
  OBVIOUS
<1>1. Live = LiveIn(objs) /\ {objs[s].key : s \in Live} = KeysIn(objs)
  BY DEF Live, LiveIn, KeysIn
<1>2. \A k : First(Matches(k)) = SlotOf(objs, k)
  BY <1>1 DEF SlotOf, Matches
<1>3. ASSUME NEW k \in KeysIn(objs)
      PROVE  Contents(k) = File(Holds(cached, objs[SlotOf(objs, k)],
                                                cache[SlotOf(objs, k)], disk[SlotOf(objs, k)]))
  <2>1. PICK s : s = SlotOf(objs, k)
    OBVIOUS
  <2>2. (IF objs[s].size = 0 THEN NoValue
          ELSE IF cached THEN IF objs[s].cache_index < 0 THEN disk[s] ELSE cache[s] ELSE disk[s])
           = Holds(cached, objs[s], cache[s], disk[s])
    BY <2>1, ContentsAre DEF XInv
  <2>3. Contents(k) = File(Holds(cached, objs[s], cache[s], disk[s]))
    BY <1>2, <2>1, <2>2 DEF Contents, LoadPage, File
  <2> QED
    BY <2>1, <2>3
<1> QED
  BY <1>1, <1>3 DEF Files, FilesOf

(* And after it. *)
LEMMA FilesNext == XInv' => Files' = FilesOf(cached', objs', cache', disk')
<1> SUFFICES ASSUME XInv'
             PROVE  Files' = FilesOf(cached', objs', cache', disk')
  OBVIOUS
<1>1. Live' = LiveIn(objs') /\ {objs'[s].key : s \in Live'} = KeysIn(objs')
  BY DEF Live, LiveIn, KeysIn
<1>2. \A k : First(Matches(k)') = SlotOf(objs', k)
  BY <1>1 DEF SlotOf, Matches
<1>3. ASSUME NEW k \in KeysIn(objs')
      PROVE  Contents(k)' = File(Holds(cached', objs'[SlotOf(objs', k)],
                                                 cache'[SlotOf(objs', k)], disk'[SlotOf(objs', k)]))
  <2>1. PICK s : s = SlotOf(objs', k)
    OBVIOUS
  <2>2. (IF objs'[s].size = 0 THEN NoValue
          ELSE IF cached' THEN IF objs'[s].cache_index < 0 THEN disk'[s] ELSE cache'[s] ELSE disk'[s])
           = Holds(cached', objs'[s], cache'[s], disk'[s])
    BY <2>1, ContentsAre DEF XInv
  <2>3. Contents(k)' = File(Holds(cached', objs'[s], cache'[s], disk'[s]))
    BY <1>2, <2>1, <2>2 DEF Contents, LoadPage, File
  <2> QED
    BY <2>1, <2>3
<1> QED
  BY <1>1, <1>3 DEF Files, FilesOf

(* The map counts with an instance of the same Cardinality. *)
LEMMA SameCount == ASSUME NEW S PROVE Map!Cardinality(S) = Cardinality(S)
  BY DEF Map!Cardinality, Cardinality

(* How many files there are. *)
LEMMA KeysCounted ==
  ASSUME NEW b, Apart(b)
  PROVE  /\ Cardinality(KeysIn(b)) = Cardinality(LiveIn(b))
         /\ Cardinality(LiveIn(b)) = NObjs <=> LiveIn(b) = Slots
<1>1. IsFiniteSet(Slots) /\ Cardinality(Slots) = NObjs
  BY HandedOut, FS_Interval DEF Slots
<1>2. LiveIn(b) \subseteq Slots
  BY DEF LiveIn
<1>3. /\ IsFiniteSet(LiveIn(b)) /\ Cardinality(LiveIn(b)) <= Cardinality(Slots)
      /\ Cardinality(LiveIn(b)) = Cardinality(Slots) => LiveIn(b) = Slots
  BY <1>1, <1>2, FS_Subset
<1>5. PICK f : f = [s \in LiveIn(b) |-> b[s].key]
  OBVIOUS
<1>6. f \in Bijection(LiveIn(b), KeysIn(b))
  <2>1. f \in [LiveIn(b) -> KeysIn(b)]
    BY <1>5 DEF KeysIn
  <2>2. \A s, t \in LiveIn(b) : f[s] = f[t] => s = t
    BY <1>5 DEF Apart
  <2>3. \A k \in KeysIn(b) : \E s \in LiveIn(b) : f[s] = k
    BY <1>5 DEF KeysIn
  <2> QED
    BY <2>1, <2>2, <2>3 DEF Bijection, Injection, Surjection, IsInjective
<1>7. Cardinality(KeysIn(b)) = Cardinality(LiveIn(b))
  BY <1>3, <1>6, FS_Bijection DEF ExistsBijection
<1> QED
  BY <1>1, <1>3, <1>7

(* Some slot comes first: the slots before all of them are finitely many,   *)
(* and if none of these were among them, each would have a successor.       *)
LEMMA FirstIs ==
  ASSUME NEW S, S \subseteq Slots, S # {}
  PROVE  First(S) \in S
<1> DEFINE Before == {x \in Nat : \A y \in S : x <= y}
           up == [x \in Before |-> x + 1]
<1>0. S \subseteq Nat
  BY DEF Slots
<1>1. SUFFICES ASSUME \A x \in S : \E y \in S : ~(x <= y)
               PROVE  FALSE
  BY DEF First
<1>2. \A x \in Before : x + 1 \in Before
  BY <1>0, <1>1
<1>3. IsFiniteSet(Before)
  <2>1. PICK m \in S : TRUE
    OBVIOUS
  <2> QED
    BY <1>0, <2>1, FS_BoundedSetOfNaturals
<1>4. up \in Injection(Before, Before)
  BY <1>2 DEF Injection, IsInjective
<1>5. up \in Surjection(Before, Before)
  BY <1>3, <1>4, FS_Injection
<1>6. 0 \in Before
  BY <1>0
<1>7. PICK x \in Before : up[x] = 0
  BY <1>5, <1>6 DEF Surjection
<1> QED
  BY <1>7

-----------------------------------------------------------------------------
(* One slot changes: what the tables are afterwards, and the files. *)

Others(s, b, c, d, b2, c2, d2) ==
    \A t \in Slots \ {s} : b2[t] = b[t] /\ c2[t] = c[t] /\ d2[t] = d[t]

(* The store is kept if the slot is sound and its name nobody else's. *)
LEMMA OneSlot ==
  ASSUME NEW w, NEW b, NEW c, NEW d, Store(w, b, c, d), NEW s \in Slots,
         NEW b2, NEW c2, NEW d2, Typed(w, b2, c2, d2), Others(s, b, c, d, b2, c2, d2),
         Sound(w, b2[s], c2[s], d2[s]),
         b2[s].id # 0 => \A t \in LiveIn(b) \ {s} : b[t].key # b2[s].key
  PROVE  /\ Store(w, b2, c2, d2)
         /\ b2[s].id # 0 => LiveIn(b2) = LiveIn(b) \cup {s}
         /\ b2[s].id = 0 => LiveIn(b2) = LiveIn(b) \ {s}
         /\ Apart(b) /\ Apart(b2)
<1>1. \A t \in LiveIn(b2) : t = s \/ (t \in LiveIn(b) \ {s} /\ b2[t] = b[t])
  BY DEF LiveIn, Others
<1>2. Apart(b2)
  BY <1>1 DEF Apart, Store, LiveIn
<1>3. \A t \in Slots : Sound(w, b2[t], c2[t], d2[t])
  BY DEF Others, Store
<1>4. /\ b2[s].id # 0 => LiveIn(b2) = LiveIn(b) \cup {s}
      /\ b2[s].id = 0 => LiveIn(b2) = LiveIn(b) \ {s}
  BY DEF LiveIn, Others
<1> QED
  BY <1>2, <1>3, <1>4 DEF Store

(* An object that stays has its file, with what it holds now.              *)
LEMMA FileStays ==
  ASSUME NEW w, NEW b, NEW c, NEW d, Store(w, b, c, d), NEW s \in LiveIn(b),
         NEW b2, NEW c2, NEW d2, Typed(w, b2, c2, d2), Others(s, b, c, d, b2, c2, d2),
         Sound(w, b2[s], c2[s], d2[s]), b2[s].id # 0, b2[s].key = b[s].key
  PROVE  /\ Store(w, b2, c2, d2)
         /\ FilesOf(w, b2, c2, d2) =
               [FilesOf(w, b, c, d) EXCEPT ![b[s].key] = File(Holds(w, b2[s], c2[s], d2[s]))]
<1> DEFINE f == FilesOf(w, b, c, d)
           g == [f EXCEPT ![b[s].key] = File(Holds(w, b2[s], c2[s], d2[s]))]
<1>1. s \in Slots /\ \A t \in LiveIn(b) \ {s} : b[t].key # b2[s].key
  BY DEF Store, Apart, LiveIn
<1>2. Store(w, b2, c2, d2) /\ LiveIn(b2) = LiveIn(b) /\ Apart(b) /\ Apart(b2)
  <2>1. LiveIn(b) \cup {s} = LiveIn(b)
    OBVIOUS
  <2>2. /\ Store(w, b2, c2, d2) /\ Apart(b) /\ Apart(b2)
        /\ b2[s].id # 0 => LiveIn(b2) = LiveIn(b) \cup {s}
    <3>1. b2[s].id # 0 => \A t \in LiveIn(b) \ {s} : b[t].key # b2[s].key
      BY <1>1
    <3> QED
      BY <1>1, <3>1, OneSlot
  <2> QED
    BY <2>1, <2>2
<1>3. \A t \in LiveIn(b) : b2[t].key = b[t].key /\ (t # s => b2[t] = b[t] /\ c2[t] = c[t] /\ d2[t] = d[t])
  BY DEF Others, LiveIn
<1>4. KeysIn(b2) = KeysIn(b)
  BY <1>2, <1>3 DEF KeysIn
<1>5. /\ f = [k \in KeysIn(b) |-> f[k]] /\ DOMAIN f = KeysIn(b)
      /\ \A t \in LiveIn(b) : b[t].key \in KeysIn(b) /\ f[b[t].key] = File(Holds(w, b[t], c[t], d[t]))
  <2>1. f = [k \in KeysIn(b) |-> f[k]] /\ DOMAIN f = KeysIn(b)
    BY FilesAre
  <2>2. Apart(b)
    BY <1>2
  <2> QED
    BY <2>1, <2>2, FileAt
<1> HIDE DEF f
<1>6. g = [k \in DOMAIN g |-> g[k]] /\ DOMAIN g = KeysIn(b2)
  BY <1>4, <1>5
<1>7. ASSUME NEW t \in LiveIn(b2)
      PROVE  g[b2[t].key] = File(Holds(w, b2[t], c2[t], d2[t]))
  <2>1. CASE t = s
    BY <1>2, <1>3, <1>5, <2>1
  <2>2. CASE t # s
    <3>1. b2[t].key # b[s].key
      BY <1>2, <1>3, <2>2 DEF Apart
    <3>2. g[b2[t].key] = f[b[t].key]
      BY <1>2, <1>3, <1>5, <3>1
    <3>3. b2[t] = b[t] /\ c2[t] = c[t] /\ d2[t] = d[t] /\ t \in LiveIn(b)
      BY <1>2, <1>3, <2>2
    <3>4. f[b[t].key] = File(Holds(w, b[t], c[t], d[t]))
      BY <1>5, <3>3
    <3> QED
      BY <3>2, <3>3, <3>4
  <2> QED
    BY <2>1, <2>2
<1> HIDE DEF g
<1>8. FilesOf(w, b2, c2, d2) = g
  BY <1>2, <1>6, <1>7, FilesEqual
<1> QED
  BY <1>2, <1>8 DEF f, g

(* A free slot that gets a name is a new, empty file. *)
LEMMA FileAdded ==
  ASSUME NEW w, NEW b, NEW c, NEW d, Store(w, b, c, d), NEW s \in Slots, s \notin LiveIn(b),
         NEW b2, Typed(w, b2, c, d), Others(s, b, c, d, b2, c, d),
         Sound(w, b2[s], c[s], d[s]), b2[s].id # 0, b2[s].size = 0, b2[s].key \notin KeysIn(b)
  PROVE  /\ Store(w, b2, c, d)
         /\ FilesOf(w, b2, c, d) =
               [k \in KeysIn(b) \cup {b2[s].key} |->
                   IF k = b2[s].key THEN File(NoValue) ELSE FilesOf(w, b, c, d)[k]]
<1> DEFINE f == FilesOf(w, b, c, d)
           g == [k \in KeysIn(b) \cup {b2[s].key} |->
                    IF k = b2[s].key THEN File(NoValue) ELSE f[k]]
<1>1. \A t \in LiveIn(b) \ {s} : b[t].key # b2[s].key
  BY DEF KeysIn
<1>2. Store(w, b2, c, d) /\ LiveIn(b2) = LiveIn(b) \cup {s} /\ Apart(b) /\ Apart(b2)
  BY <1>1, OneSlot
<1>3. \A t \in LiveIn(b) : b2[t] = b[t]
  BY DEF Others, LiveIn
<1>4. KeysIn(b2) = KeysIn(b) \cup {b2[s].key}
  BY <1>2, <1>3 DEF KeysIn
<1>5. \A t \in LiveIn(b) : b[t].key \in KeysIn(b) /\ f[b[t].key] = File(Holds(w, b[t], c[t], d[t]))
  <2>1. Apart(b)
    BY <1>2
  <2> QED
    BY <2>1, FileAt
<1> HIDE DEF f
<1>6. g = [k \in DOMAIN g |-> g[k]] /\ DOMAIN g = KeysIn(b2)
  BY <1>4
<1>7. ASSUME NEW t \in LiveIn(b2)
      PROVE  g[b2[t].key] = File(Holds(w, b2[t], c[t], d[t]))
  <2>1. CASE t = s
    BY <2>1 DEF Holds
  <2>2. CASE t # s
    <3>1. t \in LiveIn(b) /\ b2[t] = b[t] /\ b2[t].key # b2[s].key
      BY <1>1, <1>2, <1>3, <2>2
    <3>2. b[t].key \in KeysIn(b) /\ f[b[t].key] = File(Holds(w, b[t], c[t], d[t]))
      BY <1>5, <3>1
    <3>3. g[b2[t].key] = f[b[t].key]
      BY <1>4, <3>1, <3>2
    <3> QED
      BY <3>1, <3>2, <3>3
  <2> QED
    BY <2>1, <2>2
<1> HIDE DEF g
<1>8. FilesOf(w, b2, c, d) = g
  BY <1>2, <1>6, <1>7, FilesEqual
<1> QED
  BY <1>2, <1>8 DEF f, g

(* A slot that loses its id is a file removed. *)
LEMMA FileRemoved ==
  ASSUME NEW w, NEW b, NEW c, NEW d, Store(w, b, c, d), NEW s \in LiveIn(b),
         NEW b2, Typed(w, b2, c, d), Others(s, b, c, d, b2, c, d),
         Sound(w, b2[s], c[s], d[s]), b2[s].id = 0
  PROVE  /\ Store(w, b2, c, d)
         /\ FilesOf(w, b2, c, d) = [k \in KeysIn(b) \ {b[s].key} |-> FilesOf(w, b, c, d)[k]]
<1> DEFINE f == FilesOf(w, b, c, d)
           g == [k \in KeysIn(b) \ {b[s].key} |-> f[k]]
<1>1. s \in Slots
  BY DEF LiveIn
<1>2. Store(w, b2, c, d) /\ LiveIn(b2) = LiveIn(b) \ {s} /\ Apart(b) /\ Apart(b2)
  BY <1>1, OneSlot
<1>3. \A t \in LiveIn(b) \ {s} : b2[t] = b[t] /\ b[t].key # b[s].key
  BY <1>2 DEF Others, LiveIn, Apart
<1>4. KeysIn(b2) = KeysIn(b) \ {b[s].key}
  BY <1>2, <1>3 DEF KeysIn
<1>5. \A t \in LiveIn(b) : b[t].key \in KeysIn(b) /\ f[b[t].key] = File(Holds(w, b[t], c[t], d[t]))
  <2>1. Apart(b)
    BY <1>2
  <2> QED
    BY <2>1, FileAt
<1> HIDE DEF f
<1>6. g = [k \in DOMAIN g |-> g[k]] /\ DOMAIN g = KeysIn(b2)
  BY <1>4
<1>7. ASSUME NEW t \in LiveIn(b2)
      PROVE  g[b2[t].key] = File(Holds(w, b2[t], c[t], d[t]))
  <2>1. t \in LiveIn(b) /\ b2[t] = b[t] /\ b[t].key # b[s].key
    BY <1>2, <1>3
  <2>2. b[t].key \in KeysIn(b) /\ f[b[t].key] = File(Holds(w, b[t], c[t], d[t]))
    BY <1>5, <2>1
  <2>3. g[b2[t].key] = f[b[t].key]
    BY <2>1, <2>2
  <2> QED
    BY <2>1, <2>2, <2>3
<1> HIDE DEF g
<1>8. FilesOf(w, b2, c, d) = g
  BY <1>2, <1>6, <1>7, FilesEqual
<1> QED
  BY <1>2, <1>8 DEF f, g

(* A slot that gets another name takes its file along. *)
LEMMA FileRenamed ==
  ASSUME NEW w, NEW b, NEW c, NEW d, Store(w, b, c, d), NEW s \in LiveIn(b),
         NEW b2, Typed(w, b2, c, d), Others(s, b, c, d, b2, c, d),
         Sound(w, b2[s], c[s], d[s]), b2[s].id # 0, b2[s].key \notin KeysIn(b),
         Holds(w, b2[s], c[s], d[s]) = Holds(w, b[s], c[s], d[s])
  PROVE  /\ Store(w, b2, c, d)
         /\ FilesOf(w, b2, c, d) =
               [k \in (KeysIn(b) \ {b[s].key}) \cup {b2[s].key} |->
                   FilesOf(w, b, c, d)[IF k = b2[s].key THEN b[s].key ELSE k]]
<1> DEFINE f == FilesOf(w, b, c, d)
           g == [k \in (KeysIn(b) \ {b[s].key}) \cup {b2[s].key} |->
                    f[IF k = b2[s].key THEN b[s].key ELSE k]]
<1>1. s \in Slots /\ \A t \in LiveIn(b) \ {s} : b[t].key # b2[s].key
  BY DEF LiveIn, KeysIn
<1>2. Store(w, b2, c, d) /\ LiveIn(b2) = LiveIn(b) /\ Apart(b) /\ Apart(b2)
  <2>1. LiveIn(b) \cup {s} = LiveIn(b)
    OBVIOUS
  <2>2. /\ Store(w, b2, c, d) /\ Apart(b) /\ Apart(b2)
        /\ b2[s].id # 0 => LiveIn(b2) = LiveIn(b) \cup {s}
    <3>1. b2[s].id # 0 => \A t \in LiveIn(b) \ {s} : b[t].key # b2[s].key
      BY <1>1
    <3> QED
      BY <1>1, <3>1, OneSlot
  <2> QED
    BY <2>1, <2>2
<1>3. \A t \in LiveIn(b) \ {s} : b2[t] = b[t] /\ b[t].key # b[s].key
  BY <1>2 DEF Others, LiveIn, Apart
<1>4. KeysIn(b2) = (KeysIn(b) \ {b[s].key}) \cup {b2[s].key}
  BY <1>2, <1>3 DEF KeysIn
<1>5. \A t \in LiveIn(b) : b[t].key \in KeysIn(b) /\ f[b[t].key] = File(Holds(w, b[t], c[t], d[t]))
  <2>1. Apart(b)
    BY <1>2
  <2> QED
    BY <2>1, FileAt
<1> HIDE DEF f
<1>6. g = [k \in DOMAIN g |-> g[k]] /\ DOMAIN g = KeysIn(b2)
  BY <1>4
<1>7. ASSUME NEW t \in LiveIn(b2)
      PROVE  g[b2[t].key] = File(Holds(w, b2[t], c[t], d[t]))
  <2>1. CASE t = s
    BY <1>2, <1>5, <2>1
  <2>2. CASE t # s
    <3>1. t \in LiveIn(b) /\ b2[t] = b[t] /\ b2[t].key # b2[s].key /\ b[t].key # b[s].key
      BY <1>1, <1>2, <1>3, <2>2
    <3>2. b[t].key \in KeysIn(b) /\ f[b[t].key] = File(Holds(w, b[t], c[t], d[t]))
      BY <1>5, <3>1
    <3>3. g[b2[t].key] = f[b[t].key]
      BY <1>4, <3>1, <3>2
    <3> QED
      BY <3>1, <3>2, <3>3
  <2> QED
    BY <2>1, <2>2
<1> HIDE DEF g
<1>8. FilesOf(w, b2, c, d) = g
  BY <1>2, <1>6, <1>7, FilesEqual
<1> QED
  BY <1>2, <1>8 DEF f, g

-----------------------------------------------------------------------------
(* Each operation keeps the store and is one of the map. *)

(* A step that leaves the tables alone leaves the files alone. *)
LEMMA TablesStay ==
  ASSUME XInv, UNCHANGED <<cached, objs, cache, disk>>
  PROVE  XInv' /\ Files' = Files
<1>1. XInv'
  BY DEF XInv
<1> QED
  BY <1>1, FilesNow, FilesNext

(* The names that find_object_id looks up are those of files. *)
LEMMA NamesNow ==
  ASSUME XInv, NEW k
  PROVE  /\ DOMAIN Files = KeysIn(objs)
         /\ Matches(k) = {} <=> k \notin DOMAIN Files
         /\ Matches(k) # {} => /\ First(Matches(k)) \in LiveIn(objs)
                               /\ First(Matches(k)) = SlotOf(objs, k)
                               /\ objs[First(Matches(k))].key = k
<1>1. DOMAIN Files = KeysIn(objs)
  BY FilesNow, FilesAre
<1>2. Matches(k) = {s \in LiveIn(objs) : objs[s].key = k}
  BY DEF Matches, Live, LiveIn
<1>3. First(Matches(k)) = SlotOf(objs, k)
  BY <1>2 DEF SlotOf
<1>4. ASSUME Matches(k) # {}
      PROVE  First(Matches(k)) \in LiveIn(objs) /\ objs[First(Matches(k))].key = k
  <2>1. PICK s \in LiveIn(objs) : objs[s].key = k
    BY <1>2, <1>4
  <2>2. SlotOf(objs, objs[s].key) = s
    BY SlotIs DEF XInv, Store
  <2> QED
    BY <1>3, <2>1, <2>2
<1> QED
  BY <1>1, <1>2, <1>3, <1>4 DEF KeysIn

(* create_object takes a slot without an object, whose size is 0. *)
LEMMA CreateMaps ==
  ASSUME XInv, NEW k \in Keys, objfs_create(k)
  PROVE  XInv' /\ Map!Create(k)
<1>1. /\ k \notin DOMAIN Files /\ DOMAIN Files = KeysIn(objs) /\ k \notin KeysIn(objs)
      /\ Files = FilesOf(cached, objs, cache, disk)
      /\ Cardinality(DOMAIN Files) = NObjs <=> Live = Slots
  <2>1. Live = LiveIn(objs) /\ Apart(objs)
    BY DEF Live, LiveIn, XInv, Store
  <2> QED
    BY <2>1, NamesNow, FilesNow, KeysCounted DEF objfs_create
<1>2. CASE Live = Slots
  <2>1. ans' = Failed /\ call' = <<"create", k>> /\ UNCHANGED <<cached, objs, cache, disk>>
    BY <1>2 DEF objfs_create, CreateObject
  <2>2. XInv' /\ Files' = Files
    BY <2>1, TablesStay
  <2>3. Map!Cardinality(DOMAIN Files) = NObjs
    BY <1>1, <1>2, SameCount
  <2>4. Map!Create(k)
    BY <1>1, <2>1, <2>2, <2>3 DEF Map!Create, Map!Refuse, Files
  <2> QED
    BY <2>2, <2>4
<1>3. CASE Live # Slots
  <2>1. PICK s : s = First(Slots \ Live)
    OBVIOUS
  <2>2. s \in Slots /\ s \notin LiveIn(objs) /\ objs[s].id = 0 /\ objs[s].size = 0
    <3>1. s \in Slots \ Live
      BY <1>3, <2>1, FirstIs DEF Live
    <3> QED
      BY <3>1 DEF Live, LiveIn, XInv, Store, Sound
  <2>3. /\ objs' = [objs EXCEPT ![s].id = Id(s), ![s].key = k]
        /\ ans' = Done /\ call' = <<"create", k>> /\ UNCHANGED <<cached, cache, disk>>
    BY <1>3, <2>1 DEF objfs_create, CreateObject
  <2>4. s + 2 \in Nat /\ s + 2 # 0 /\ objs \in [Slots -> Objects]
    BY <2>2 DEF Slots, XInv, Store, Typed
  <2>5. /\ objs' \in [Slots -> Objects]
        /\ objs'[s] = [objs[s] EXCEPT !.id = s + 2, !.key = k]
        /\ \A t \in Slots \ {s} : objs'[t] = objs[t]
    <3>1. PICK o : o = [objs[s] EXCEPT !.id = s + 2, !.key = k]
      OBVIOUS
    <3>2. objs[s] \in Objects /\ o \in Objects
      BY <2>2, <2>4, <3>1 DEF Objects
    <3>3. objs' = [objs EXCEPT ![s] = o]
      BY <2>2, <2>3, <2>4, <3>1 DEF Id
    <3> QED
      BY <2>2, <2>4, <3>1, <3>2, <3>3
  <2>6. /\ objs'[s].id = s + 2 /\ objs'[s].key = k /\ objs'[s].size = 0
        /\ objs'[s].cache_index = objs[s].cache_index /\ objs'[s].dirty = objs[s].dirty
    BY <2>2, <2>4, <2>5 DEF Objects
  <2>7. Sound(cached, objs'[s], cache[s], disk[s])
    BY <2>2, <2>4, <2>6 DEF Sound, XInv, Store
  <2>8. Typed(cached, objs', cache, disk) /\ Others(s, objs, cache, disk, objs', cache, disk)
    BY <2>5 DEF Typed, Others, XInv, Store
  <2>9. /\ Store(cached, objs', cache, disk)
        /\ FilesOf(cached, objs', cache, disk) =
              [x \in KeysIn(objs) \cup {k} |->
                  IF x = k THEN File(NoValue) ELSE FilesOf(cached, objs, cache, disk)[x]]
    BY <1>1, <2>2, <2>4, <2>6, <2>7, <2>8, FileAdded DEF XInv
  <2>10. XInv' /\ Files' = FilesOf(cached, objs', cache, disk)
    <3>1. XInv'
      BY <2>3, <2>9 DEF XInv
    <3> QED
      BY <2>3, <3>1, FilesNext
  <2>11. Files' = [x \in DOMAIN Files \cup {k} |-> IF x = k THEN Map!Empty ELSE Files[x]]
    BY <1>1, <2>9, <2>10 DEF Map!Empty, File
  <2>12. Map!Cardinality(DOMAIN Files) # NObjs
    BY <1>1, <1>3, SameCount
  <2>13. Map!Create(k)
    BY <1>1, <2>3, <2>11, <2>12 DEF Map!Create, Files
  <2> QED
    BY <2>10, <2>13
<1> QED
  BY <1>2, <1>3

(* destroy_object leaves a slot without size, and not dirty. *)
LEMMA UnlinkMaps ==
  ASSUME XInv, NEW k \in Keys, objfs_unlink(k)
  PROVE  XInv' /\ Map!Unlink(k)
<1>1. PICK s : s = First(Matches(k))
  OBVIOUS
<1>2. /\ k \in DOMAIN Files /\ DOMAIN Files = KeysIn(objs) /\ s \in LiveIn(objs)
      /\ objs[s].key = k /\ Files = FilesOf(cached, objs, cache, disk)
  BY <1>1, NamesNow, FilesNow DEF objfs_unlink
<1>3. /\ DestroyObject(s) /\ ans' = Done /\ call' = <<"unlink", k>>
      /\ UNCHANGED <<cached, cache, disk>>
  BY <1>1 DEF objfs_unlink
<1>4. s \in Slots /\ objs \in [Slots -> Objects] /\ objs[s] \in Objects /\ cached \in BOOLEAN
  BY <1>2 DEF LiveIn, XInv, Store, Typed
<1>5. PICK o : o = [(IF cached THEN [objs[s] EXCEPT !.cache_index = -1, !.dirty = 0] ELSE objs[s])
                       EXCEPT !.size = 0, !.id = 0]
  OBVIOUS
<1>6. objs' = [objs EXCEPT ![s] = o]
  BY <1>3, <1>5 DEF DestroyObject, Sizeless, ObjectUncached
<1>7. o \in Objects /\ o.id = 0 /\ o.size = 0 /\ (cached => o.dirty = 0)
  <2>1. CASE cached
    <3>1. PICK p : p = [objs[s] EXCEPT !.cache_index = -1, !.dirty = 0]
      OBVIOUS
    <3>2. p \in Objects /\ p.dirty = 0
      <4>1. PICK none : none = -1
        OBVIOUS
      <4>2. none \in Int
        BY <4>1
      <4>3. p = [objs[s] EXCEPT !.cache_index = none, !.dirty = 0]
        BY <3>1, <4>1
      <4> QED
        BY <1>4, <4>2, <4>3 DEF Objects
    <3>3. o = [p EXCEPT !.size = 0, !.id = 0]
      BY <1>5, <2>1, <3>1
    <3> QED
      BY <3>2, <3>3 DEF Objects
  <2>2. CASE ~cached
    <3>1. o = [objs[s] EXCEPT !.size = 0, !.id = 0]
      BY <1>5, <2>2
    <3> QED
      BY <1>4, <2>2, <3>1 DEF Objects
  <2> QED
    BY <2>1, <2>2
<1>8. objs'[s] = o /\ objs' \in [Slots -> Objects] /\ \A t \in Slots \ {s} : objs'[t] = objs[t]
  BY <1>4, <1>6, <1>7
<1>9. Sound(cached, objs'[s], cache[s], disk[s])
  BY <1>7, <1>8 DEF Sound
<1>10. Typed(cached, objs', cache, disk) /\ Others(s, objs, cache, disk, objs', cache, disk)
  BY <1>8 DEF Typed, Others, XInv, Store
<1>11. /\ Store(cached, objs', cache, disk)
       /\ FilesOf(cached, objs', cache, disk) =
             [x \in KeysIn(objs) \ {k} |-> FilesOf(cached, objs, cache, disk)[x]]
  <2>1. Store(cached, objs, cache, disk) /\ objs'[s].id = 0
    BY <1>7, <1>8 DEF XInv
  <2> QED
    BY <1>2, <1>9, <1>10, <2>1, FileRemoved
<1>12. XInv' /\ Files' = FilesOf(cached, objs', cache, disk)
  <2>1. XInv'
    BY <1>3, <1>11 DEF XInv
  <2> QED
    BY <1>3, <2>1, FilesNext
<1>13. Files' = Map!Restrict(Files, DOMAIN Files \ {k})
  BY <1>2, <1>11, <1>12 DEF Map!Restrict
<1> QED
  BY <1>2, <1>3, <1>12, <1>13 DEF Map!Unlink, Files

(* The client has read or written the object, so that its page is loaded,  *)
(* and the new name is free; a long one is refused.                        *)
LEMMA RenameMaps ==
  ASSUME CarefulClients, XInv, NEW k \in Keys, NEW new \in Keys,
         objfs_rename_key(k, new)
  PROVE  XInv' /\ Map!Rename(k, new)
<1>1. PICK s : s = First(Matches(k))
  OBVIOUS
<1>2. /\ k \in DOMAIN Files /\ DOMAIN Files = KeysIn(objs) /\ s \in LiveIn(objs)
      /\ objs[s].key = k /\ Files = FilesOf(cached, objs, cache, disk)
      /\ new \notin DOMAIN Files
  BY <1>1, NamesNow, FilesNow DEF objfs_rename_key, CarefulClients
<1>a. CASE new \in LongNames
  <2>1. /\ UNCHANGED <<cached, objs, cache, disk>>
        /\ ans' = Failed /\ call' = <<"rename", k, new>>
    BY <1>a DEF objfs_rename_key, RenameObject
  <2>2. XInv' /\ Files' = Files
    BY <2>1, TablesStay
  <2>3. Map!Rename(k, new)
    BY <1>2, <1>a, <2>1, <2>2 DEF Map!Rename, Map!Refuse, Files
  <2> QED
    BY <2>2, <2>3
<1> SUFFICES ASSUME new \notin LongNames
             PROVE  XInv' /\ Map!Rename(k, new)
  BY <1>a
<1>3. /\ objs' = [objs EXCEPT ![s].key = new, ![s].dirty = 1]
      /\ ans' = Done /\ call' = <<"rename", k, new>> /\ UNCHANGED <<cached, cache, disk>>
      /\ ~cached \/ objs[s].cache_index >= 0
  BY <1>1 DEF objfs_rename_key, RenameObject, CarefulClients
<1>4. s \in Slots /\ objs \in [Slots -> Objects] /\ objs[s] \in Objects /\ objs[s].id # 0
  BY <1>2 DEF LiveIn, XInv, Store, Typed
<1>5. /\ objs' \in [Slots -> Objects]
      /\ objs'[s] = [objs[s] EXCEPT !.key = new, !.dirty = 1]
      /\ \A t \in Slots \ {s} : objs'[t] = objs[t]
  BY <1>3, <1>4 DEF Objects
<1>6. /\ objs'[s].id = objs[s].id /\ objs'[s].key = new /\ objs'[s].size = objs[s].size
      /\ objs'[s].cache_index = objs[s].cache_index /\ objs'[s].dirty = 1
  BY <1>4, <1>5 DEF Objects
<1>7. Holds(cached, objs'[s], cache[s], disk[s]) = Holds(cached, objs[s], cache[s], disk[s])
  BY <1>6 DEF Holds
<1>8. Sound(cached, objs'[s], cache[s], disk[s])
  BY <1>3, <1>4, <1>6, <1>7 DEF Sound, XInv, Store
<1>9. Typed(cached, objs', cache, disk) /\ Others(s, objs, cache, disk, objs', cache, disk)
  BY <1>5 DEF Typed, Others, XInv, Store
<1>10. /\ Store(cached, objs', cache, disk)
       /\ FilesOf(cached, objs', cache, disk) =
             [x \in (KeysIn(objs) \ {k}) \cup {new} |->
                 FilesOf(cached, objs, cache, disk)[IF x = new THEN k ELSE x]]
  <2>1. Store(cached, objs, cache, disk)
    BY DEF XInv
  <2>2. objs'[s].id # 0 /\ objs'[s].key \notin KeysIn(objs)
    BY <1>2, <1>4, <1>6
  <2> QED
    BY <1>2, <1>6, <1>7, <1>8, <1>9, <2>1, <2>2, FileRenamed
<1>11. XInv' /\ Files' = FilesOf(cached, objs', cache, disk)
  <2>1. XInv'
    BY <1>3, <1>10 DEF XInv
  <2> QED
    BY <1>3, <2>1, FilesNext
<1>12. Files' = [x \in (DOMAIN Files \ {k}) \cup {new} |-> Files[IF x = new THEN k ELSE x]]
  BY <1>2, <1>10, <1>11
<1>13. Map!Rename(k, new)
  BY <1>2, <1>3, <1>12 DEF Map!Rename, Files
<1> QED
  BY <1>11, <1>13

(* An open finds the names of files. *)
LEMMA OpenMaps ==
  ASSUME XInv, NEW k \in Keys, objfs_open(k)
  PROVE  XInv' /\ Map!Open(k)
<1>1. ans' = (IF Matches(k) = {} THEN Failed ELSE Done) /\ call' = <<"open", k>>
  BY DEF objfs_open, FindObjectId
<1>2. XInv' /\ Files' = Files
  BY TablesStay DEF objfs_open
<1>3. Matches(k) = {} <=> k \notin DOMAIN Files
  BY NamesNow
<1>4. Map!Open(k)
  BY <1>1, <1>2, <1>3 DEF Map!Open, Files
<1> QED
  BY <1>2, <1>4

(* A file has one block, or none. *)
LEMMA FileOf ==
  ASSUME XInv, NEW s \in LiveIn(objs)
  PROVE  /\ objs[s].key \in DOMAIN Files /\ objs[s].key \in Keys
         /\ Files[objs[s].key] = File(Holds(cached, objs[s], cache[s], disk[s]))
         /\ objs[s].size \in {0, 1}
         /\ Map!Written(objs[s].key) = IF objs[s].size = 0 THEN {} ELSE {0}
<1>1. /\ Files = FilesOf(cached, objs, cache, disk) /\ Apart(objs)
      /\ Sound(cached, objs[s], cache[s], disk[s]) /\ objs[s].id # 0
  BY FilesNow DEF XInv, Store, LiveIn
<1>2. /\ objs[s].key \in DOMAIN Files
      /\ Files[objs[s].key] = File(Holds(cached, objs[s], cache[s], disk[s]))
  BY <1>1, FileAt, FilesAre
<1>3. objs[s].size \in {0, 1}
  BY DEF XInv, Store, Typed, Objects, LiveIn
<1>4. objs[s].size = 0 => Holds(cached, objs[s], cache[s], disk[s]) = NoValue
  BY DEF Holds
<1>5. objs[s].size # 0 => Holds(cached, objs[s], cache[s], disk[s]) # NoValue
  BY HandedOut, <1>1, <1>3 DEF Sound
<1>6. Map!Written(objs[s].key) = {o \in {0} : Files[objs[s].key][o] # NoValue}
  BY DEF Map!Written, Files
<1>7. Files[objs[s].key][0] = Holds(cached, objs[s], cache[s], disk[s])
  BY <1>2 DEF File
<1>8. Map!Written(objs[s].key) = IF objs[s].size = 0 THEN {} ELSE {0}
  BY <1>3, <1>4, <1>5, <1>6, <1>7
<1> QED
  BY <1>1, <1>2, <1>3, <1>8 DEF Sound

(* The size is the number of blocks written. *)
LEMMA GetattrMaps ==
  ASSUME XInv, NEW k \in Keys, objfs_getattr(k)
  PROVE  XInv' /\ Map!Stat(k)
<1>1. /\ ans' = (IF Matches(k) = {} THEN Failed ELSE objs[First(Matches(k))].size)
      /\ call' = <<"getattr", k>>
  BY DEF objfs_getattr, FillupSize
<1>2. XInv' /\ Files' = Files
  BY TablesStay DEF objfs_getattr
<1>3. CASE Matches(k) = {}
  <2>1. k \notin DOMAIN Files
    BY <1>3, NamesNow
  <2>2. Map!Stat(k)
    BY <1>1, <1>2, <1>3, <2>1 DEF Map!Stat, Files
  <2> QED
    BY <1>2, <2>2
<1>4. CASE Matches(k) # {}
  <2>1. PICK s \in LiveIn(objs) : s = First(Matches(k)) /\ objs[s].key = k /\ k \in DOMAIN Files
    BY <1>4, NamesNow
  <2>2. objs[s].size \in {0, 1} /\ Map!Written(k) = IF objs[s].size = 0 THEN {} ELSE {0}
    BY <2>1, FileOf
  <2>3. Cardinality({}) = 0 /\ Cardinality({0}) = 1
    BY FS_EmptySet, FS_Singleton
  <2>4. Map!Cardinality(Map!Written(k)) = objs[s].size
    BY <2>2, <2>3, SameCount
  <2>5. Map!Stat(k)
    BY <1>1, <1>2, <1>4, <2>1, <2>4 DEF Map!Stat, Files
  <2> QED
    BY <1>2, <2>5
<1> QED
  BY <1>3, <1>4

(* A slot that stays changes the contents of its file and of no other. *)
LEMMA SlotMaps ==
  ASSUME XInv, NEW s \in LiveIn(objs), UNCHANGED cached,
         Typed(cached, objs', cache', disk'),
         Others(s, objs, cache, disk, objs', cache', disk'),
         Sound(cached, objs'[s], cache'[s], disk'[s]),
         objs'[s].id # 0, objs'[s].key = objs[s].key
  PROVE  /\ XInv'
         /\ Files' = [Files EXCEPT ![objs[s].key] =
                         File(Holds(cached, objs'[s], cache'[s], disk'[s]))]
<1>1. Store(cached, objs, cache, disk)
  BY DEF XInv
<1>2. /\ Store(cached, objs', cache', disk')
      /\ FilesOf(cached, objs', cache', disk') =
            [FilesOf(cached, objs, cache, disk) EXCEPT
               ![objs[s].key] = File(Holds(cached, objs'[s], cache'[s], disk'[s]))]
  BY <1>1, FileStays
<1>3. XInv'
  BY <1>2 DEF XInv
<1> QED
  BY <1>2, <1>3, FilesNow, FilesNext

(* A read loads the page if it is not there, and answers what the object   *)
(* holds in either build.                                                  *)
LEMMA ReadMaps ==
  ASSUME XInv, NEW s \in Slots, objfs_read(s)
  PROVE  XInv' /\ Map!Read(objs[s].key, 0)
<1>1. /\ s \in LiveIn(objs) /\ objs[s].size # 0 /\ call' = <<"read", objs[s].key, 0>>
      /\ UNCHANGED cached /\ objs[s].id # 0
  BY DEF objfs_read, Live, LiveIn
<1>2. /\ Typed(cached, objs, cache, disk) /\ objs[s] \in Objects
      /\ Sound(cached, objs[s], cache[s], disk[s]) /\ s + 2 \in Nat
  BY DEF XInv, Store, Typed, Slots
<1>3. /\ ans' = Holds(cached, objs[s], cache[s], disk[s])
      /\ XInv' /\ Files' = Files
  <2>1. CASE ~cached
    <3>1. ans' = disk[s] /\ UNCHANGED <<objs, cache, disk>>
      BY <2>1 DEF objfs_read, ObjstoreRead, FindReadUncached
    <3> QED
      BY <1>1, <2>1, <3>1, TablesStay DEF Holds
  <2>2. CASE cached
    <3>1. /\ cache' = [cache EXCEPT ![s] = LoadPage(s)] /\ ans' = cache'[s] /\ UNCHANGED disk
          /\ objs' = [objs EXCEPT ![s].cache_index = IF @ < 0 THEN Id(s) ELSE @]
      BY <2>2 DEF objfs_read, ObjstoreRead, FindReadCached
    <3>2. LoadPage(s) = Holds(cached, objs[s], cache[s], disk[s]) /\ LoadPage(s) \in Blocks
      BY <1>1, <1>2, <2>2 DEF LoadPage, Holds, Typed, Objects
    <3>3. /\ cache' \in [Slots -> Blocks] /\ cache'[s] = LoadPage(s)
          /\ \A t \in Slots \ {s} : cache'[t] = cache[t]
      BY <1>2, <3>1, <3>2 DEF Typed
    <3>4. PICK n : n = IF objs[s].cache_index < 0 THEN s + 2 ELSE objs[s].cache_index
      OBVIOUS
    <3>5. n \in Int /\ n >= 0 /\ (objs[s].cache_index >= 0 => n = objs[s].cache_index)
      BY <1>2, <3>4 DEF Objects
    <3>6. /\ objs' \in [Slots -> Objects] /\ objs'[s] = [objs[s] EXCEPT !.cache_index = n]
          /\ \A t \in Slots \ {s} : objs'[t] = objs[t]
      BY <1>2, <3>1, <3>4, <3>5 DEF Objects, Typed, Id
    <3>7. /\ objs'[s].id = objs[s].id /\ objs'[s].key = objs[s].key /\ objs'[s].size = objs[s].size
          /\ objs'[s].cache_index = n /\ objs'[s].dirty = objs[s].dirty
      BY <1>2, <3>5, <3>6 DEF Objects
    <3>8. Holds(cached, objs'[s], cache'[s], disk'[s]) = Holds(cached, objs[s], cache[s], disk[s])
      BY <1>1, <2>2, <3>2, <3>3, <3>5, <3>7 DEF Holds
    <3>9. Sound(cached, objs'[s], cache'[s], disk'[s])
      <4>1. objs[s].size = 1 => Holds(cached, objs'[s], cache'[s], disk'[s]) \in Values
        BY <1>2, <3>8 DEF Sound
      <4>2. objs[s].dirty = 0 /\ objs[s].size = 1 => cache'[s] = disk[s]
        BY <1>1, <1>2, <2>2, <3>2, <3>3 DEF Holds, Sound, Objects
      <4> QED
        BY <1>1, <1>2, <3>1, <3>5, <3>7, <4>1, <4>2 DEF Sound
    <3>10. /\ Typed(cached, objs', cache', disk')
           /\ Others(s, objs, cache, disk, objs', cache', disk')
      BY <1>2, <3>1, <3>3, <3>6 DEF Typed, Others
    <3>11. XInv' /\ Files' = [Files EXCEPT ![objs[s].key] =
                                 File(Holds(cached, objs'[s], cache'[s], disk'[s]))]
      BY <1>1, <3>7, <3>9, <3>10, SlotMaps
    <3>12. /\ Files[objs[s].key] = File(Holds(cached, objs[s], cache[s], disk[s]))
           /\ Files = [k \in DOMAIN Files |-> Files[k]]
      BY <1>1, FileOf DEF Files
    <3>13. Files' = Files
      BY <3>8, <3>11, <3>12
    <3> QED
      BY <3>1, <3>2, <3>3, <3>11, <3>13
  <2> QED
    BY <2>1, <2>2
<1>4. /\ objs[s].key \in DOMAIN Files /\ 0 \in Map!Written(objs[s].key)
      /\ Files[objs[s].key][0] = Holds(cached, objs[s], cache[s], disk[s])
  <2>1. /\ objs[s].key \in DOMAIN Files
        /\ Map!Written(objs[s].key) = IF objs[s].size = 0 THEN {} ELSE {0}
        /\ Files[objs[s].key] = File(Holds(cached, objs[s], cache[s], disk[s]))
    BY <1>1, FileOf
  <2> QED
    BY <1>1, <2>1 DEF File
<1>5. Map!Read(objs[s].key, 0)
  BY <1>1, <1>3, <1>4 DEF Map!Read, Files
<1> QED
  BY <1>3, <1>5

(* A write goes to the page or to the block, whichever the object holds.   *)
LEMMA WriteMaps ==
  ASSUME XInv, NEW s \in Slots, NEW v \in Values, objfs_write(s, v)
  PROVE  XInv' /\ Map!Write(objs[s].key, 0, v)
<1>1. /\ s \in LiveIn(objs) /\ call' = <<"write", objs[s].key, 0, v>> /\ ans' = Done
      /\ UNCHANGED cached /\ objs[s].id # 0
  BY DEF objfs_write, Live, LiveIn
<1>2. /\ Typed(cached, objs, cache, disk) /\ objs[s] \in Objects /\ v \in Blocks
      /\ Sound(cached, objs[s], cache[s], disk[s]) /\ s + 2 \in Nat
  BY DEF XInv, Store, Typed, Slots, Blocks
<1>3. /\ Typed(cached, objs', cache', disk')
      /\ Others(s, objs, cache, disk, objs', cache', disk')
      /\ objs'[s].id = objs[s].id /\ objs'[s].key = objs[s].key
      /\ Sound(cached, objs'[s], cache'[s], disk'[s])
      /\ Holds(cached, objs'[s], cache'[s], disk'[s]) = v
  <2>1. CASE ~cached
    <3>1. /\ disk' = [disk EXCEPT ![s] = v] /\ UNCHANGED cache
          /\ objs' = [objs EXCEPT ![s].size = 1]
      BY <2>1 DEF objfs_write, ObjstoreWrite, FindWriteUncached
    <3>2. /\ disk' \in [Slots -> Blocks] /\ disk'[s] = v
          /\ \A t \in Slots \ {s} : disk'[t] = disk[t]
      BY <1>2, <3>1 DEF Typed
    <3>3. /\ objs' \in [Slots -> Objects] /\ objs'[s] = [objs[s] EXCEPT !.size = 1]
          /\ \A t \in Slots \ {s} : objs'[t] = objs[t]
      BY <1>2, <3>1 DEF Objects, Typed
    <3>4. /\ objs'[s].id = objs[s].id /\ objs'[s].key = objs[s].key /\ objs'[s].size = 1
      BY <1>2, <3>3 DEF Objects
    <3>5. Holds(cached, objs'[s], cache'[s], disk'[s]) = v
      BY <2>1, <3>2, <3>4 DEF Holds
    <3>6. Sound(cached, objs'[s], cache'[s], disk'[s])
      BY <1>1, <1>2, <2>1, <3>4, <3>5 DEF Sound
    <3>7. /\ Typed(cached, objs', cache', disk')
          /\ Others(s, objs, cache, disk, objs', cache', disk')
      BY <1>2, <3>1, <3>2, <3>3 DEF Typed, Others
    <3> QED
      BY <3>4, <3>5, <3>6, <3>7
  <2>2. CASE cached
    <3>1. /\ cache' = [cache EXCEPT ![s] = v] /\ UNCHANGED disk
          /\ objs' = [objs EXCEPT ![s].cache_index = IF @ < 0 THEN Id(s) ELSE @,
                                  ![s].dirty = 1, ![s].size = 1]
      BY <2>2 DEF objfs_write, ObjstoreWrite, FindWriteCached
    <3>2. /\ cache' \in [Slots -> Blocks] /\ cache'[s] = v
          /\ \A t \in Slots \ {s} : cache'[t] = cache[t]
      BY <1>2, <3>1 DEF Typed
    <3>3. PICK n : n = IF objs[s].cache_index < 0 THEN s + 2 ELSE objs[s].cache_index
      OBVIOUS
    <3>4. n \in Int /\ n >= 0
      BY <1>2, <3>3 DEF Objects
    <3>5. objs'[s] = [objs[s] EXCEPT !.cache_index = n, !.dirty = 1, !.size = 1]
      BY <1>2, <3>1, <3>3 DEF Typed, Id
    <3>6. /\ objs'[s] \in Objects
          /\ objs'[s].id = objs[s].id /\ objs'[s].key = objs[s].key /\ objs'[s].size = 1
          /\ objs'[s].cache_index = n /\ objs'[s].dirty = 1
      BY <1>2, <3>4, <3>5 DEF Objects
    <3>7. objs' \in [Slots -> Objects] /\ \A t \in Slots \ {s} : objs'[t] = objs[t]
      BY <1>2, <3>1, <3>6 DEF Typed
    <3>8. Holds(cached, objs'[s], cache'[s], disk'[s]) = v
      BY <2>2, <3>2, <3>4, <3>6 DEF Holds
    <3>9. Sound(cached, objs'[s], cache'[s], disk'[s])
      BY <1>1, <1>2, <3>4, <3>6, <3>8 DEF Sound
    <3>10. /\ Typed(cached, objs', cache', disk')
           /\ Others(s, objs, cache, disk, objs', cache', disk')
      BY <1>2, <3>1, <3>2, <3>7 DEF Typed, Others
    <3> QED
      BY <3>6, <3>8, <3>9, <3>10
  <2> QED
    BY <2>1, <2>2
<1>4. XInv' /\ Files' = [Files EXCEPT ![objs[s].key] = File(v)]
  BY <1>1, <1>3, SlotMaps
<1>5. /\ objs[s].key \in DOMAIN Files
      /\ Files[objs[s].key] = File(Holds(cached, objs[s], cache[s], disk[s]))
  BY <1>1, FileOf
<1>6. [Files[objs[s].key] EXCEPT ![0] = v] = File(v)
  BY <1>5 DEF File
<1>7. Files' = [Files EXCEPT ![objs[s].key][0] = v]
  BY <1>4, <1>6
<1>8. Map!Write(objs[s].key, 0, v)
  BY <1>1, <1>5, <1>7 DEF Map!Write, NeverFull, Files
<1> QED
  BY <1>4, <1>8

(* What one slot is after an unmount and a mount: what the object held is   *)
(* then on the disk.                                                        *)
Remounted(w, o, c, d, o2, d2) ==
    /\ w /\ o.id # 0 => /\ o2 = [[o EXCEPT !.dirty = 0] EXCEPT !.cache_index = -1, !.dirty = 0]
                        /\ d2 = IF o.dirty = 1 THEN c ELSE d
    /\ ~(w /\ o.id # 0) => o2 = o /\ d2 = d

(* A remount leaves a slot in order and its contents as they were. *)
LEMMA SlotRemounted ==
  ASSUME NEW w \in BOOLEAN, NEW o \in Objects, NEW c \in Blocks, NEW d \in Blocks,
         Sound(w, o, c, d), NEW o2, NEW d2, Remounted(w, o, c, d, o2, d2)
  PROVE  /\ o2 \in Objects /\ d2 \in Blocks /\ o2.id = o.id /\ o2.key = o.key
         /\ Holds(w, o2, NoValue, d2) = Holds(w, o, c, d)
         /\ Sound(w, o2, NoValue, d2)
<1>1. /\ o.id \in Nat /\ o.size \in {0, 1} /\ o.cache_index \in Int /\ o.dirty \in {0, 1}
      /\ o.key \in Keys \cup {NoKey}
  BY DEF Objects
<1>2. CASE w /\ o.id # 0
  <2>1. PICK none : none = -1
    OBVIOUS
  <2>2. none \in Int /\ ~(none >= 0)
    BY <2>1
  <2>3. o2 = [o EXCEPT !.dirty = 0, !.cache_index = none]
    BY <1>2, <2>1 DEF Objects, Remounted
  <2>4. /\ o2 \in Objects /\ o2.id = o.id /\ o2.key = o.key /\ o2.size = o.size
        /\ o2.cache_index = none /\ o2.dirty = 0
    BY <2>2, <2>3 DEF Objects
  <2>5. d2 = IF o.dirty = 1 THEN c ELSE d
    BY <1>2 DEF Remounted
  <2>6. Holds(w, o2, NoValue, d2) = Holds(w, o, c, d)
    BY <1>1, <1>2, <2>2, <2>4, <2>5 DEF Holds, Sound
  <2>7. Sound(w, o2, NoValue, d2)
    <3>1. o.id # 0 /\ o.key \in Keys /\ (o.size = 1 => Holds(w, o, c, d) \in Values)
      BY <1>2 DEF Sound
    <3> QED
      BY <2>2, <2>4, <2>6, <3>1 DEF Sound
  <2> QED
    BY <2>4, <2>5, <2>6, <2>7
<1>3. CASE ~(w /\ o.id # 0)
  <2>1. o2 = o /\ d2 = d
    BY <1>3 DEF Remounted
  <2>2. CASE ~w
    BY <2>1, <2>2 DEF Holds, Sound
  <2>3. CASE o.id = 0
    BY <1>1, <2>1, <2>3 DEF Holds, Sound
  <2> QED
    BY <1>3, <2>1, <2>2, <2>3
<1> QED
  BY <1>2, <1>3

(* Dirty pages are written back, so every file outlives the mount. *)
LEMMA RemountMaps ==
  ASSUME XInv, Remount
  PROVE  XInv' /\ Map!Remount
<1>1. /\ ans' = Done /\ call' = <<"mount">> /\ UNCHANGED cached
      /\ cached \in BOOLEAN /\ Apart(objs) /\ Typed(cached, objs, cache, disk)
  BY DEF Remount, XInv, Store, Typed
<1>2. /\ cache' = [s \in Slots |-> NoValue]
      /\ disk' = [s \in Slots |-> IF cached /\ s \in Live THEN Synced(s) ELSE disk[s]]
      /\ objs' = [s \in Slots |-> IF cached /\ Saved(s).id # 0 THEN ObjectUncached(Saved(s))
                                  ELSE Saved(s)]
  BY DEF Remount, ObjstoreDestroy, ObjstoreInit
<1>3. ASSUME NEW s \in Slots
      PROVE  /\ objs'[s] \in Objects /\ disk'[s] \in Blocks
             /\ objs'[s].id = objs[s].id /\ objs'[s].key = objs[s].key
             /\ Holds(cached, objs'[s], cache'[s], disk'[s]) = Holds(cached, objs[s], cache[s], disk[s])
             /\ Sound(cached, objs'[s], cache'[s], disk'[s])
  <2>1. s \in Live <=> objs[s].id # 0
    BY DEF Live
  <2>2. objs[s] \in Objects /\ cache[s] \in Blocks /\ disk[s] \in Blocks
    BY <1>1 DEF Typed
  <2>3. Sound(cached, objs[s], cache[s], disk[s])
    BY DEF XInv, Store
  <2>4. cached /\ objs[s].id # 0 =>
           /\ objs'[s] = [[objs[s] EXCEPT !.dirty = 0] EXCEPT !.cache_index = -1, !.dirty = 0]
           /\ disk'[s] = IF objs[s].dirty = 1 THEN cache[s] ELSE disk[s]
    <3>1. SUFFICES ASSUME cached, objs[s].id # 0
                   PROVE  /\ objs'[s] = [[objs[s] EXCEPT !.dirty = 0] EXCEPT !.cache_index = -1, !.dirty = 0]
                          /\ disk'[s] = IF objs[s].dirty = 1 THEN cache[s] ELSE disk[s]
      OBVIOUS
    <3>2. Saved(s) = [objs[s] EXCEPT !.dirty = 0]
      BY <2>1, <3>1 DEF Saved
    <3>3. Saved(s).id # 0
      BY <2>2, <3>1, <3>2 DEF Objects
    <3> QED
      BY <1>2, <2>1, <3>1, <3>2, <3>3 DEF Synced, ObjectUncached
  <2>5. ~(cached /\ objs[s].id # 0) => objs'[s] = objs[s] /\ disk'[s] = disk[s]
    BY <1>2, <2>1 DEF Saved
  <2>6. cache'[s] = NoValue
    BY <1>2
  <2>7. /\ objs'[s] \in Objects /\ disk'[s] \in Blocks
        /\ objs'[s].id = objs[s].id /\ objs'[s].key = objs[s].key
        /\ Holds(cached, objs'[s], NoValue, disk'[s]) = Holds(cached, objs[s], cache[s], disk[s])
        /\ Sound(cached, objs'[s], NoValue, disk'[s])
    <3>1. Remounted(cached, objs[s], cache[s], disk[s], objs'[s], disk'[s])
      BY <2>4, <2>5 DEF Remounted
    <3> QED
      BY <1>1, <2>2, <2>3, <3>1, SlotRemounted
  <2> QED
    BY <2>6, <2>7
<1>4. Typed(cached, objs', cache', disk')
  BY <1>1, <1>2, <1>3 DEF Typed, Blocks
<1>5. LiveIn(objs') = LiveIn(objs) /\ KeysIn(objs') = KeysIn(objs)
  <2>1. LiveIn(objs') = LiveIn(objs)
    BY <1>3 DEF LiveIn
  <2>2. \A s \in LiveIn(objs) : objs'[s].key = objs[s].key
    BY <1>3 DEF LiveIn
  <2> QED
    BY <2>1, <2>2 DEF KeysIn
<1>6. Apart(objs')
  BY <1>1, <1>3, <1>5 DEF Apart, LiveIn
<1>7. XInv'
  BY <1>1, <1>3, <1>4, <1>6 DEF XInv, Store
<1>8. Files' = Files
  <2>1. Files = FilesOf(cached, objs, cache, disk) /\ Files' = FilesOf(cached, objs', cache', disk')
    BY <1>1, <1>7, FilesNow, FilesNext
  <2>2. DOMAIN Files = KeysIn(objs') /\ Files = [k \in DOMAIN Files |-> Files[k]]
    BY <1>5, <2>1, FilesAre
  <2>3. ASSUME NEW s \in LiveIn(objs')
        PROVE  Files[objs'[s].key] = File(Holds(cached, objs'[s], cache'[s], disk'[s]))
    <3>1. s \in LiveIn(objs) /\ s \in Slots
      BY <1>5 DEF LiveIn
    <3>2. Files[objs[s].key] = File(Holds(cached, objs[s], cache[s], disk[s]))
      BY <1>1, <2>1, <3>1, FileAt
    <3> QED
      BY <1>3, <3>1, <3>2
  <2> QED
    BY <1>6, <2>1, <2>2, <2>3, FilesEqual
<1>9. Map!Remount
  BY <1>1, <1>8 DEF Map!Remount, Files
<1> QED
  BY <1>7, <1>9

(* The first mount has no files. *)
LEMMA InitMaps == Init => XInv /\ Map!Init
<1> SUFFICES ASSUME Init
             PROVE  XInv /\ Map!Init
  OBVIOUS
<1>1. LiveIn(objs) = {} /\ Live = {}
  BY DEF Init, LiveIn, Live
<1>2. Typed(cached, objs, cache, disk)
  BY DEF Init, Typed, Objects, Blocks
<1>3. \A s \in Slots : Sound(cached, objs[s], cache[s], disk[s])
  BY DEF Init, Sound
<1>4. XInv
  BY <1>1, <1>2, <1>3 DEF XInv, Store, Apart
<1>5. Map!Init
  BY <1>1 DEF Init, Map!Init, Map!NoFiles
<1> QED
  BY <1>4, <1>5

(* Every step of the store is one of the map, or none. *)
LEMMA NextMaps == CarefulClients /\ XInv /\ [Next]_vars => XInv' /\ [Map!Next]_(Map!vars)
<1> SUFFICES ASSUME CarefulClients, XInv, [Next]_vars
             PROVE  XInv' /\ [Map!Next]_(Map!vars)
  OBVIOUS
<1>1. ASSUME NEW k \in Keys, objfs_create(k)
      PROVE  XInv' /\ Map!Next
  BY <1>1, CreateMaps DEF Map!Next
<1>2. ASSUME NEW k \in Keys, objfs_unlink(k)
      PROVE  XInv' /\ Map!Next
  BY <1>2, UnlinkMaps DEF Map!Next
<1>3. ASSUME NEW k \in Keys, NEW new \in Keys, objfs_rename_key(k, new)
      PROVE  XInv' /\ Map!Next
  BY <1>3, RenameMaps DEF Map!Next
<1>4. ASSUME NEW k \in Keys, objfs_open(k)
      PROVE  XInv' /\ Map!Next
  BY <1>4, OpenMaps DEF Map!Next
<1>5. ASSUME NEW k \in Keys, objfs_getattr(k)
      PROVE  XInv' /\ Map!Next
  BY <1>5, GetattrMaps DEF Map!Next
<1>6. ASSUME NEW s \in Slots, objfs_read(s)
      PROVE  XInv' /\ Map!Next
  <2>1. s \in LiveIn(objs)
    BY <1>6 DEF objfs_read, Live, LiveIn
  <2>2. objs[s].key \in Keys
    BY <2>1, FileOf
  <2> QED
    BY <1>6, <2>2, ReadMaps DEF Map!Next
<1>7. ASSUME NEW s \in Slots, NEW v \in Values, objfs_write(s, v)
      PROVE  XInv' /\ Map!Next
  <2>1. s \in LiveIn(objs)
    BY <1>7 DEF objfs_write, Live, LiveIn
  <2>2. objs[s].key \in Keys
    BY <2>1, FileOf
  <2> QED
    BY <1>7, <2>2, WriteMaps DEF Map!Next
<1>8. CASE Remount
  BY <1>8, RemountMaps DEF Map!Next
<1>9. CASE UNCHANGED vars
  <2>1. XInv' /\ Files' = Files
    BY <1>9, TablesStay DEF vars
  <2>2. UNCHANGED Map!vars
    BY <1>9, <2>1 DEF vars, Map!vars, Files
  <2> QED
    BY <2>1, <2>2
<1> QED
  BY <1>1, <1>2, <1>3, <1>4, <1>5, <1>6, <1>7, <1>8, <1>9 DEF Next

(* Both example stores, in both builds, are a map of files whose reads     *)
(* answer what was last written, across any number of remounts, for every  *)
(* number of objects and every set of names and contents: no write is lost *)
(* by the cache, no removed object shows in a new one, a create fails only *)
(* when every object is in use, and a rename only for a name that is too   *)
(* long.  Clients rename onto no existing name, which would leave two      *)
(* objects of it (objstore.c:196-208), and no object they have not read or *)
(* written since the mount.                                                *)
THEOREM ExamplesAreMaps ==
  ASSUME CarefulClients
  PROVE  Spec => ExampleImplementsMap
<1>1. Init => XInv /\ Map!Init
  BY InitMaps
<1>2. XInv /\ [Next]_vars => XInv' /\ [Map!Next]_(Map!vars)
  BY NextMaps
<1> QED
  BY <1>1, <1>2, PTL DEF Spec, ExampleImplementsMap, Map!Spec

(* Whichever version of either family runs, it is a map of files for        *)
(* careful clients: the specification that TLC checks on a small instance,  *)
(* for every number of objects, pointers and blocks, every set of names and *)
(* contents, and every split of the inode table into marks and disk blocks. *)
THEOREM VersionsAreMaps ==
  ASSUME Old!Sizes, CarefulClients
  PROVE  MCSpec => OldImplementsMap /\ ExampleImplementsMap
<1>1. MCInit => Old!Init /\ Init
  BY DEF MCInit
<1>2. [MCNext]_mcVars => [Old!Next]_(Old!vars) /\ [Next]_vars
  BY DEF MCNext, mcVars, oldVars, Old!vars
<1>3. MCSpec => Old!Spec /\ Spec
  BY <1>1, <1>2, PTL DEF MCSpec, Old!Spec, Spec
<1>4. Old!Spec => Old!OldImplementsMap
  BY Old!OldVersionsAreMaps DEF CarefulClients, Old!CarefulClients
<1>5. Spec => ExampleImplementsMap
  BY ExamplesAreMaps
<1> QED
  BY <1>3, <1>4, <1>5 DEF OldImplementsMap
=============================================================================
