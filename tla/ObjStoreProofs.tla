--------------------------- MODULE ObjStoreProofs ---------------------------
(***************************************************************************)
(* The object store for every number of threads, slots, pointers and       *)
(* blocks, whatever calls overlap and whatever offsets are rewritten:      *)
(* types, what a removed object leaves behind, and what a mount finds of   *)
(* the inodes that unmounts keep; for clients that keep to what the store  *)
(* can do, that no block is lost or shared, that it is the key-value store *)
(* of KeyStore, and that the size of an object is right.                   *)
(***************************************************************************)
EXTENDS ObjStore, TLAPS, FiniteSetTheorems

Objects == [key : Keys \cup {NoKey}, size : Nat,
            direct : [Directs -> Addresses], indirect : [Indirects -> Addresses]]
DiskBlocks == [kind : {"data"}, value : Values \cup {NoValue}]
                \cup [kind : {"table"}, ptr : [Entries -> Addresses]]
Metadata == [objs : [Slots -> Objects], inodes : SUBSET Slots, blocks : SUBSET DataBlocks]

CallOps == {"none", "create", "unlink", "rename", "getattr", "open", "read", "write"}
Lists == UNION {[S -> Int] : S \in SUBSET Nat}
Locals == [op : CallOps, obj : Slots \cup {-1}, off : Offsets,
           value : Values \cup {NoValue}, blk : Addresses, word : SUBSET DataBlocks,
           todo : Lists, ans : Values \cup {NoValue, Failed} \cup Int]

Labels == {"idle", "fill", "free", "load", "store", "lock", "mark",
           "data", "link", "grab", "entry", "fetch", "done"}

(* TypeOK, and the types of what it leaves open. *)
DataTyped ==
    /\ objs \in [Slots -> Objects]
    /\ bit_map_inode \subseteq Slots
    /\ bit_map_data \subseteq DataBlocks
    /\ d_bit_map \subseteq {MarkOf(s) : s \in Slots}
    /\ temp \in Slots \cup {-1}
    /\ lock_data \in Threads \cup {NoThread}
    /\ disk \in [Addresses -> DiskBlocks]
    /\ saved \in Metadata
    /\ mounted \in BOOLEAN

(* The steps of each handler. *)
StepsOf(op) == CASE op \in {"create", "rename", "open"} -> {"done"}
                 [] op = "getattr" -> {"fill", "done"}
                 [] op = "unlink"  -> {"free", "load", "store", "done"}
                 [] op = "write"   -> {"lock", "mark", "data", "link", "grab",
                                       "load", "store", "done"}
                 [] op = "read"    -> {"entry", "fetch", "done"}
                 [] op = "none"    -> {}

(* What the local variables hold where a handler uses them. *)
InPlace(l, c) ==
    /\ l \in StepsOf(c.op)
    /\ c.op \in {"unlink", "rename", "read", "write"} \/ l = "fill" => c.obj \in Slots
    /\ c.op = "write" /\ l \notin {"lock", "done"} => c.blk \in DataBlocks
    /\ l \in {"load", "store"} => DOMAIN c.todo # {}
    /\ c.op = "write" /\ l \in {"grab", "load", "store"} => DOMAIN c.todo = {0}
    /\ l = "grab" => c.off \notin Directs /\ c.todo[0] \in DataBlocks \cup {-1}
    /\ l = "entry" => c.off \notin Directs

CallsInPlace == \A t \in Threads : pc[t] # "idle" => InPlace(pc[t], loc[t])

TInv ==
    /\ DataTyped
    /\ pc \in [Threads -> Labels]
    /\ loc \in [Threads -> Locals]
    /\ CallsInPlace

(* Changes of the directory do not overlap. *)
DirAlone ==
    \A t, u \in Threads :
        t # u /\ pc[t] # "idle" /\ pc[u] # "idle" /\ loc[t].op \in DirOps
            => loc[u].op \notin DirOps

(* An object is neither removed nor saved behind the back of a write. *)
WritesInUse ==
    \A t \in Threads : pc[t] # "idle" /\ loc[t].op = "write" => loc[t].obj \in bit_map_inode

NoPointers(s) == UsedDirects(s) = {} /\ UsedIndirects(s) = {}

Removing(t, s) == pc[t] # "idle" /\ loc[t].op = "unlink" /\ loc[t].obj = s

(* A slot is freed before its pointers are. *)
UnlinksClear ==
    \A t \in Threads, s \in Slots : Removing(t, s) =>
        /\ s \notin bit_map_inode /\ objs[s].size = 0
        /\ pc[t] = "done" => NoPointers(s)

FreeEmpty ==
    \A s \in Slots \ bit_map_inode :
        Kept(s) /\ (\A t \in Threads : ~Removing(t, s)) => objs[s].size = 0 /\ NoPointers(s)

(* Whoever changes an object has marked its part of the inode table. *)
ChangesMarked ==
    \A t \in Threads :
        pc[t] # "idle" /\ loc[t].op \in {"write", "unlink"} => MarkOf(loc[t].obj) \in d_bit_map

SavedRest ==
    \A s \in Slots : MarkOf(s) \notin d_bit_map => saved.objs[s] = objs[s]

SavedAtUnmount ==
    ~mounted =>
        /\ saved.inodes = bit_map_inode /\ saved.blocks = bit_map_data
        /\ \A s \in Slots : Kept(s) => saved.objs[s] = objs[s]
        /\ \A t \in Threads : pc[t] = "idle"

(* Clients that do not spill leave the slots alone that do not fit. *)
Unspilled ==
    ~Spill => \A s \in Slots : ~Fits(s) =>
        /\ s \notin bit_map_inode /\ saved.objs[s] = objs[s]
        /\ \A t \in Threads : ~Removing(t, s)

(* Then an unmount loses nothing. *)
RemountsFit == ~Spill \/ "unmount" \notin Ops

(* What SInv adds to TInv. *)
Facts == /\ DirAlone /\ WritesInUse /\ UnlinksClear /\ FreeEmpty
         /\ ChangesMarked /\ SavedRest /\ SavedAtUnmount /\ Unspilled

SInv == TInv /\ Facts

-----------------------------------------------------------------------------
(* A set of numbers has a first one: otherwise its lower bounds, of which   *)
(* there are finitely many, would go on for ever.                           *)
LEMMA FirstIs ==
  ASSUME NEW S \in SUBSET Nat, S # {}
  PROVE  First(S) \in S /\ \A y \in S : First(S) <= y
<1> DEFINE Below == {k \in Nat : \A y \in S : k <= y}
           next  == [k \in Below |-> k + 1]
<1>1. SUFFICES ASSUME \A x \in S : \E y \in S : ~(x <= y) PROVE FALSE
  BY DEF First
<1>2. \A k \in Below : k + 1 \in Below
  BY <1>1
<1>3. PICK m \in S : TRUE
  OBVIOUS
<1>4. IsFiniteSet(Below)
  <2>1. \A k \in Below : k <= m
    OBVIOUS
  <2> QED
    BY <2>1, FS_BoundedSetOfNaturals
<1>5. next \in Injection(Below, Below)
  BY <1>2 DEF Injection, IsInjective
<1>6. next \in Surjection(Below, Below)
  BY <1>4, <1>5, FS_Injection
<1>7. 0 \in Below
  OBVIOUS
<1>8. PICK k \in Below : next[k] = 0
  BY <1>6, <1>7 DEF Surjection
<1> QED
  BY <1>8

(* Slots, blocks and pointers are numbered from 0, and so is the disk, whose *)
(* data begins after at least one other block.                              *)
LEMMA Numbers ==
  /\ Slots \subseteq Nat /\ DataBlocks \subseteq Nat /\ Directs \subseteq Nat
  /\ Indirects \subseteq Nat /\ Entries \subseteq Nat /\ 0 \in Slots /\ 0 \in Offsets
  /\ Directs \subseteq Offsets /\ Addresses \subseteq Nat /\ 0 \in Addresses
  /\ DataBlocks \subseteq Addresses
  /\ \A b \in DataBlocks \cup {-1} : WriteOffset + b \in Addresses /\ b \in Int
<1>1. 0 <= NIndirect * NPer
  BY SizesAssumption
<1> QED
  BY <1>1, SizesAssumption
     DEF Slots, DataBlocks, Directs, Indirects, Entries, Offsets, Addresses

(* Addresses are numbers. *)
LEMMA AddressInt == \A a \in Addresses : a \in Int /\ a >= 0
BY Numbers

(* An offset beyond the direct pointers has an indirect one and an entry.   *)
LEMMA AlphaAlp ==
  ASSUME NEW o \in Offsets, o \notin Directs
  PROVE  Alpha(o) \in Indirects /\ Alp(o) \in Entries
<1> DEFINE x == o - NDirect
<1>1. /\ NDirect \in Nat /\ NPer \in Nat /\ NPer > 0 /\ NIndirect \in Nat
      /\ x \in Nat /\ x < NIndirect * NPer
  BY SizesAssumption DEF Offsets, Directs
<1>2. x % NPer \in 0..NPer-1
  BY <1>1
<1> DEFINE q == x \div NPer
<1>3. q \in Nat /\ x = q * NPer + (x % NPer)
  <2>1. \A y, n \in Nat : n > 0 => y \div n \in Nat /\ y = (y \div n) * n + (y % n)
    OBVIOUS
  <2> HIDE DEF x
  <2> QED
    BY <1>1, <2>1
<1>4. q < NIndirect
  <2>1. \A m, n, k \in Nat : m >= n => m * k >= n * k
    OBVIOUS
  <2> HIDE DEF x, q
  <2> QED
    BY <1>1, <1>2, <1>3, <2>1
<1> QED
  BY <1>2, <1>3, <1>4, <1>1 DEF Alpha, Alp, Indirects, Entries

(* The lists of no pointer and of one. *)
LEMMA Lists1 ==
  /\ NoCall.todo \in Lists /\ DOMAIN NoCall.todo = {}
  /\ \A p \in Int : Just(p) \in Lists /\ DOMAIN Just(p) = {0} /\ Just(p)[0] = p
<1>1. NoCall.todo = [i \in {} |-> 0]
  BY DEF NoCall
<1>2. [i \in {} |-> 0] \in [{} -> Int] /\ DOMAIN [i \in {} |-> 0] = {}
  OBVIOUS
<1>3. NoCall.todo \in Lists /\ DOMAIN NoCall.todo = {}
  BY <1>1, <1>2 DEF Lists
<1>4. ASSUME NEW p \in Int
      PROVE  Just(p) \in [{0} -> Int] /\ DOMAIN Just(p) = {0} /\ Just(p)[0] = p
  BY DEF Just
<1> QED
  BY <1>3, <1>4 DEF Lists

(* Pointers by number are a list, and so is the rest of it. *)
LEMMA ListsAre ==
  ASSUME NEW S \in SUBSET Nat, NEW f \in [S -> Int]
  PROVE  f \in Lists /\ \A T : Restrict(f, DOMAIN f \ T) \in Lists
<1>1. \A T : Restrict(f, DOMAIN f \ T) \in [S \ T -> Int]
  BY DEF Restrict
<1> QED
  BY <1>1 DEF Lists

(* What a list has are pointers, and so has its rest. *)
LEMMA ListIs ==
  ASSUME NEW f \in Lists
  PROVE  /\ DOMAIN f \subseteq Nat
         /\ \A i \in DOMAIN f : f[i] \in Int
         /\ \A T : Restrict(f, DOMAIN f \ T) \in Lists
<1>1. PICK S \in SUBSET Nat : f \in [S -> Int]
  BY DEF Lists
<1> QED
  BY <1>1, ListsAre

(* The local variables of a new call.                                       *)
LEMMA NewCall ==
  ASSUME NEW op \in CallOps, NEW s \in Slots \cup {-1}, NEW o \in Offsets,
         NEW v \in Values \cup {NoValue}
  PROVE  /\ NoCall \in Locals /\ NoCall.op = "none"
         /\ [NoCall EXCEPT !.op = op, !.obj = s, !.off = o, !.value = v] \in Locals
<1>1. [i \in {} |-> 0] \in Lists
  BY Lists1 DEF NoCall
<1>2. NoCall \in Locals
  BY <1>1, Numbers DEF NoCall, Locals, CallOps
<1> QED
  BY <1>1, <1>2, Numbers DEF NoCall, Locals

(* A step of one thread, whose call stays in place. *)
LEMMA CallStep ==
  ASSUME TInv, NEW t \in Threads, NEW label, NEW c,
         pc' = [pc EXCEPT ![t] = label], loc' = [loc EXCEPT ![t] = c],
         c \in Locals, label = "idle" \/ InPlace(label, c), DataTyped'
  PROVE  /\ TInv'
         /\ \A u \in Threads : /\ pc'[u] = IF u = t THEN label ELSE pc[u]
                               /\ loc'[u] = IF u = t THEN c ELSE loc[u]
<1>1. pc \in [Threads -> Labels] /\ loc \in [Threads -> Locals] /\ CallsInPlace
  BY DEF TInv
<1>2. label \in Labels
  BY DEF InPlace, StepsOf, Locals, CallOps, Labels
<1>3. \A u \in Threads : /\ pc'[u] = IF u = t THEN label ELSE pc[u]
                         /\ loc'[u] = IF u = t THEN c ELSE loc[u]
  BY <1>1
<1>4. pc' \in [Threads -> Labels] /\ loc' \in [Threads -> Locals] /\ CallsInPlace'
  BY <1>1, <1>2, <1>3 DEF CallsInPlace
<1> QED
  BY <1>3, <1>4 DEF TInv

-----------------------------------------------------------------------------
(* Types, action by action: first the steps that start a call. *)
LEMMA MatchesFirst ==
  ASSUME TInv, NEW k, k \in KeysInUse
  PROVE  First(Matches(k)) \in bit_map_inode /\ First(Matches(k)) \in Slots
<1>1. Matches(k) \in SUBSET bit_map_inode /\ Matches(k) # {} /\ bit_map_inode \subseteq Slots
  BY DEF Matches, KeysInUse, DataTyped, TInv
<1>2. First(Matches(k)) \in Matches(k)
  BY <1>1, FirstIs, Numbers
<1> QED
  BY <1>1, <1>2

(* A step that changes nothing but the table of objects and its bitmap. *)
LEMMA StartTypes ==
  ASSUME TInv, NEW t \in Threads, NEW op \in CallOps, NEW s \in Slots \cup {-1}, NEW o \in Offsets,
         NEW v \in Values \cup {NoValue}, Start(t, op, s, o, v),
         NEW label, Goto(t, label), label \in StepsOf(op), label \in {"done", "fill", "free", "lock"},
         op \in {"unlink", "rename", "read", "write"} \/ label = "fill" => s \in Slots,
         objs' \in [Slots -> Objects], bit_map_inode' \subseteq Slots,
         d_bit_map' \subseteq {MarkOf(x) : x \in Slots}, temp' \in Slots \cup {-1},
         UNCHANGED <<bit_map_data, lock_data, diskVars>>
  PROVE  TInv'
<1> DEFINE c == [NoCall EXCEPT !.op = op, !.obj = s, !.off = o, !.value = v]
<1>1. c \in Locals /\ c.op = op /\ c.obj = s
  BY NewCall DEF NoCall
<1>2. InPlace(label, c)
  BY <1>1 DEF InPlace, StepsOf
<1>3. DataTyped'
  BY DEF DataTyped, diskVars, TInv
<1>4. loc' = [loc EXCEPT ![t] = c] /\ pc' = [pc EXCEPT ![t] = label]
  BY DEF Start, Goto
<1> HIDE DEF c
<1> QED
  BY <1>1, <1>2, <1>3, <1>4, CallStep

(* Creating keeps the types. *)
LEMMA CreateTypes ==
  ASSUME TInv, NEW t \in Threads, NEW k \in Keys, Create(t, k)
  PROVE  TInv'
<1> DEFINE free == Slots \ bit_map_inode
           s == First(free)
<1>t. DataTyped
  BY DEF TInv
<1>1. free # {} => s \in Slots /\ s \notin bit_map_inode
  BY FirstIs, Numbers
<1>2. /\ objs' \in [Slots -> Objects] /\ bit_map_inode' \subseteq Slots
      /\ d_bit_map' \subseteq {MarkOf(x) : x \in Slots}
  <2>1. CASE free = {}
    BY <1>t, <2>1 DEF Create, metaVars, DataTyped
  <2>2. CASE free # {}
    <3>1. /\ objs' = [objs EXCEPT ![s].key = k] /\ s \in Slots
          /\ bit_map_inode' = bit_map_inode \cup {s} /\ d_bit_map' = d_bit_map \cup {MarkOf(s)}
      BY <1>1, <2>2 DEF Create
    <3> QED
      BY <1>t, <3>1 DEF DataTyped, Objects
  <2> QED
    BY <2>1, <2>2
<1>3. /\ Start(t, "create", IF free = {} THEN -1 ELSE s, 0, NoValue) /\ Goto(t, "done")
      /\ UNCHANGED <<bit_map_data, temp, lock_data, diskVars>>
  BY DEF Create
<1>4. (IF free = {} THEN -1 ELSE s) \in Slots \cup {-1}
  BY <1>1
<1> QED
  BY <1>t, <1>2, <1>3, <1>4, StartTypes, Numbers DEF DataTyped, CallOps, StepsOf

(* Renaming keeps the types. *)
LEMMA RenameTypes ==
  ASSUME TInv, NEW t \in Threads, NEW k \in Keys, NEW new \in Keys, Rename(t, k, new)
  PROVE  TInv'
<1> DEFINE s == First(Matches(k))
<1>t. DataTyped /\ s \in Slots
  BY MatchesFirst DEF Rename, TInv
<1>1. /\ objs' \in [Slots -> Objects] /\ bit_map_inode' \subseteq Slots
      /\ d_bit_map' \subseteq {MarkOf(x) : x \in Slots}
  BY <1>t DEF Rename, DataTyped, Objects
<1>2. Start(t, "rename", s, 0, NoValue) /\ Goto(t, "done")
      /\ UNCHANGED <<bit_map_data, temp, lock_data, diskVars>>
  BY DEF Rename
<1> QED
  BY <1>t, <1>1, <1>2, StartTypes, Numbers DEF DataTyped, CallOps, StepsOf

(* Looking a name up keeps the types. *)
LEMMA FindTypes ==
  ASSUME TInv, NEW t \in Threads, NEW k \in Keys, NEW op, Find(t, op, k)
  PROVE  TInv'
<1> DEFINE s == First(Matches(k))
           label == IF op = "open" THEN "done" ELSE "fill"
<1>t. DataTyped /\ s \in Slots
  BY MatchesFirst DEF Find, TInv
<1>1. /\ Start(t, op, s, 0, NoValue) /\ Goto(t, label) /\ temp' = s
      /\ op \in {"open", "getattr"}
      /\ UNCHANGED <<metaVars, bit_map_data, lock_data, diskVars>>
  BY DEF Find
<1>2. label \in StepsOf(op) /\ label \in {"done", "fill"} /\ op \in CallOps
  BY <1>1 DEF StepsOf, CallOps
<1> HIDE DEF label, s
<1> QED
  BY <1>t, <1>1, <1>2, StartTypes, Numbers DEF DataTyped, metaVars

(* Looking a name up in vain keeps the types. *)
LEMMA FindNothingTypes ==
  ASSUME TInv, NEW t \in Threads, NEW k \in Keys, NEW op, FindNothing(t, op, k)
  PROVE  TInv'
<1> DEFINE c == [NoCall EXCEPT !.op = op, !.obj = -1, !.ans = Failed]
<1>1. /\ loc' = [loc EXCEPT ![t] = c] /\ pc' = [pc EXCEPT ![t] = "done"]
      /\ op \in {"open", "getattr"} /\ op \in CallOps
      /\ UNCHANGED <<metaVars, bit_map_data, temp, lock_data, diskVars>>
  BY DEF FindNothing, Goto, CallOps
<1>2. NoCall \in Locals
  BY NewCall, Numbers DEF CallOps
<1>3. c \in Locals /\ InPlace("done", c)
  BY <1>1, <1>2 DEF Locals, InPlace, StepsOf
<1>4. DataTyped'
  BY <1>1 DEF DataTyped, metaVars, diskVars, TInv
<1> QED
  BY <1>1, <1>3, <1>4, CallStep

(* Starting a removal keeps the types. *)
LEMMA UnlinkTypes ==
  ASSUME TInv, NEW t \in Threads, NEW k \in Keys, Unlink(t, k)
  PROVE  TInv'
<1> DEFINE s == First(Matches(k))
<1>t. DataTyped /\ s \in Slots
  BY MatchesFirst DEF Unlink, TInv
<1>1. /\ objs' \in [Slots -> Objects] /\ bit_map_inode' \subseteq Slots
      /\ d_bit_map' \subseteq {MarkOf(x) : x \in Slots}
  BY <1>t DEF Unlink, ClearInode, DataTyped, Objects
<1>2. Start(t, "unlink", s, 0, NoValue) /\ Goto(t, "free")
      /\ UNCHANGED <<bit_map_data, temp, lock_data, diskVars>>
  BY DEF Unlink
<1> QED
  BY <1>t, <1>1, <1>2, StartTypes, Numbers DEF DataTyped, CallOps, StepsOf

(* Starting a write keeps the types. *)
LEMMA WriteTypes ==
  ASSUME TInv, NEW t \in Threads, NEW s \in Slots, NEW o \in Offsets, NEW v \in Values,
         Write(t, s, o, v)
  PROVE  TInv'
<1>t. DataTyped
  BY DEF TInv
<1>1. /\ Start(t, "write", s, o, v) /\ Goto(t, "lock") /\ d_bit_map' = d_bit_map \cup {MarkOf(s)}
      /\ UNCHANGED <<objs, bit_map_inode, bit_map_data, temp, lock_data, diskVars>>
  BY DEF Write, MarkDirty
<1> QED
  BY <1>t, <1>1, StartTypes DEF DataTyped, CallOps, StepsOf

(* The pointer of an offset is one of a direct pointer or an entry. *)
LEMMA PointerType ==
  ASSUME DataTyped
  PROVE  /\ \A a \in Addresses : TableAt(a) \in [Entries -> Addresses]
         /\ \A s \in Slots, o \in Offsets :
               /\ Pointer(s, o) \in Addresses
               /\ o \in Directs <=> o < NDirect
               /\ o \in Directs => objs[s].direct[o] \in Addresses
               /\ o \notin Directs => objs[s].indirect[Alpha(o)] \in Addresses
<1>1. \A a \in Addresses : TableAt(a) \in [Entries -> Addresses]
  BY Numbers DEF TableAt, NoEntries, DataTyped, DiskBlocks
<1>2. \A o \in Offsets : o \in Directs <=> o < NDirect
  BY SizesAssumption DEF Offsets, Directs
<1>3. ASSUME NEW s \in Slots, NEW o \in Offsets
      PROVE  /\ Pointer(s, o) \in Addresses
             /\ o \in Directs => objs[s].direct[o] \in Addresses
             /\ o \notin Directs => objs[s].indirect[Alpha(o)] \in Addresses
  <2>1. CASE o \in Directs
    BY <1>2, <2>1 DEF Pointer, DataTyped, Objects
  <2>2. CASE o \notin Directs
    <3>1. objs[s].indirect[Alpha(o)] \in Addresses /\ Alp(o) \in Entries
      BY <2>2, AlphaAlp DEF DataTyped, Objects
    <3> QED
      BY <1>1, <1>2, <2>2, <3>1, Numbers DEF Pointer
  <2> QED
    BY <2>1, <2>2
<1> QED
  BY <1>1, <1>2, <1>3

(* Starting a read keeps the types. *)
LEMMA ReadTypes ==
  ASSUME TInv, NEW t \in Threads, NEW s \in Slots, NEW o \in Offsets, Read(t, s, o)
  PROVE  TInv'
<1> DEFINE blk == IF o < NDirect THEN objs[s].direct[o] ELSE objs[s].indirect[Alpha(o)]
           c == [NoCall EXCEPT !.op = "read", !.obj = s, !.off = o, !.blk = blk]
           label == IF o < NDirect THEN "fetch" ELSE "entry"
<1>t. DataTyped
  BY DEF TInv
<1>1. /\ loc' = [loc EXCEPT ![t] = c] /\ pc' = [pc EXCEPT ![t] = label]
      /\ UNCHANGED <<metaVars, bit_map_data, temp, lock_data, diskVars>>
  BY DEF Read, Goto
<1>2. blk \in Addresses /\ (o \in Directs <=> o < NDirect) /\ NoCall \in Locals
  BY <1>t, PointerType, NewCall, Numbers DEF CallOps
<1> HIDE DEF blk
<1>3. c \in Locals /\ c.op = "read" /\ c.obj = s /\ c.off = o
  BY <1>2 DEF Locals, CallOps
<1>4. InPlace(label, c)
  BY <1>2, <1>3 DEF InPlace, StepsOf
<1>5. DataTyped'
  BY <1>t, <1>1 DEF DataTyped, metaVars, diskVars
<1> QED
  BY <1>1, <1>3, <1>4, <1>5, CallStep
-----------------------------------------------------------------------------
(* Then the steps within a call.                                            *)
LEMMA Flipped ==
  ASSUME NEW word, word \subseteq DataBlocks, NEW d
  PROVE  Flip(word, d) \subseteq DataBlocks
BY DEF Flip

(* What a call within has in its locals is of the types of its place. *)
LEMMA InCall ==
  ASSUME TInv, NEW t \in Threads, pc[t] # "idle"
  PROVE  DataTyped /\ loc[t] \in Locals /\ InPlace(pc[t], loc[t])
BY DEF TInv, CallsInPlace

(* Reading a size keeps the types. *)
LEMMA FillupSizeTypes ==
  ASSUME TInv, NEW t \in Threads, FillupSize(t)
  PROVE  TInv'
<1> DEFINE ans == IF temp = loc[t].obj THEN objs[temp].size ELSE -1
           c == [loc[t] EXCEPT !.ans = ans]
<1>t. DataTyped /\ loc[t] \in Locals /\ InPlace("fill", loc[t]) /\ loc \in [Threads -> Locals]
  BY InCall DEF FillupSize, TInv
<1>1. /\ loc' = [loc EXCEPT ![t] = c] /\ pc' = [pc EXCEPT ![t] = "done"]
      /\ UNCHANGED <<metaVars, bit_map_data, temp, lock_data, diskVars>>
  BY DEF FillupSize, Goto
<1>2. ans \in Int
  BY <1>t DEF DataTyped, Objects, InPlace
<1>3. c \in Locals /\ InPlace("done", c)
  BY <1>t, <1>2 DEF Locals, InPlace, StepsOf, CallOps
<1>4. DataTyped'
  BY <1>1, <1>t DEF DataTyped, metaVars, diskVars
<1> HIDE DEF c
<1> QED
  BY <1>1, <1>3, <1>4, CallStep

(* Loading the bitmap word keeps the types. *)
LEMMA LoadWordTypes ==
  ASSUME TInv, NEW t \in Threads, LoadWord(t)
  PROVE  TInv'
<1> DEFINE c == [loc[t] EXCEPT !.word = bit_map_data]
<1>t. DataTyped /\ loc[t] \in Locals /\ InPlace("load", loc[t])
  BY InCall DEF LoadWord
<1>1. /\ loc' = [loc EXCEPT ![t] = c] /\ pc' = [pc EXCEPT ![t] = "store"]
      /\ UNCHANGED <<metaVars, bit_map_data, temp, lock_data, diskVars>>
  BY DEF LoadWord, Goto
<1>3. c \in Locals /\ InPlace("store", c)
  BY <1>t DEF Locals, InPlace, StepsOf, CallOps, DataTyped
<1>4. DataTyped'
  BY <1>1, <1>t DEF DataTyped, metaVars, diskVars
<1> HIDE DEF c
<1> QED
  BY <1>1, <1>3, <1>4, CallStep

(* The fields of an inode are of their types. *)
LEMMA ObjectIs ==
  ASSUME DataTyped, NEW s \in Slots
  PROVE  /\ objs[s] \in Objects /\ objs[s].size \in Nat
         /\ objs[s].direct \in [Directs -> Addresses] /\ objs[s].indirect \in [Indirects -> Addresses]
         /\ \A l \in Directs : objs[s].direct[l] \in Addresses /\ objs[s].direct[l] \in Int
         /\ \A l \in Indirects : objs[s].indirect[l] \in Addresses /\ objs[s].indirect[l] \in Int
<1>1. objs[s] \in Objects
  BY DEF DataTyped
<1>2. /\ objs[s].size \in Nat
      /\ objs[s].direct \in [Directs -> Addresses] /\ objs[s].indirect \in [Indirects -> Addresses]
  BY <1>1 DEF Objects
<1>3. /\ \A l \in Directs : objs[s].direct[l] \in Addresses
      /\ \A l \in Indirects : objs[s].indirect[l] \in Addresses
  BY <1>2
<1> QED
  BY <1>1, <1>2, <1>3, AddressInt

(* What an object has left to free. *)
LEMMA UsedAre ==
  ASSUME DataTyped, NEW s \in Slots
  PROVE  /\ UsedDirects(s) # {} => /\ First(UsedDirects(s)) \in UsedDirects(s)
                                   /\ First(UsedDirects(s)) \in Directs
         /\ UsedIndirects(s) # {} => /\ First(UsedIndirects(s)) \in UsedIndirects(s)
                                     /\ First(UsedIndirects(s)) \in Indirects
<1>1. UsedDirects(s) \in SUBSET Directs /\ UsedIndirects(s) \in SUBSET Indirects
  BY DEF UsedDirects, UsedIndirects
<1> QED
  BY <1>1, FirstIs, Numbers

(* The blocks of a table are those of its entries that are set, and its own *)
(* last.                                                                    *)
LEMMA TableBlocksAre ==
  ASSUME DataTyped, NEW a \in Addresses
  PROVE  /\ DOMAIN TableBlocks(a) = {x \in Entries : TableAt(a)[x] # 0} \cup {NPer}
         /\ NPer \notin Entries /\ NPer \in Nat
         /\ TableBlocks(a)[NPer] = a
         /\ \A x \in DOMAIN TableBlocks(a) \ {NPer} : TableBlocks(a)[x] = TableAt(a)[x]
         /\ \A x \in DOMAIN TableBlocks(a) : TableBlocks(a)[x] \in Addresses /\ x \in Nat
<1>1. NPer \notin Entries /\ NPer \in Nat
  BY SizesAssumption DEF Entries
<1> QED
  BY <1>1, PointerType, Numbers DEF TableBlocks

(* Going to the next pointer of a removal keeps the types. *)
LEMMA NextPointerTypes ==
  ASSUME TInv, NEW t \in Threads, NextPointer(t)
  PROVE  TInv'
<1> DEFINE s == loc[t].obj
           list == IF UsedDirects(s) # {} THEN Just(objs[s].direct[First(UsedDirects(s))])
                ELSE IF UsedIndirects(s) # {}
                     THEN TableBlocks(objs[s].indirect[First(UsedIndirects(s))])
                     ELSE NoCall.todo
           c == [loc[t] EXCEPT !.todo = [i \in DOMAIN list |-> list[i] - WriteOffset]]
           label == IF DOMAIN list = {} THEN "done" ELSE "load"
<1>t. /\ DataTyped /\ loc[t] \in Locals /\ InPlace("free", loc[t])
      /\ loc[t].op = "unlink" /\ s \in Slots
  <2>1. DataTyped /\ loc[t] \in Locals /\ InPlace("free", loc[t])
    BY InCall DEF NextPointer
  <2> QED
    BY <2>1 DEF InPlace, StepsOf, Locals, CallOps
<1>1. /\ loc' = [loc EXCEPT ![t] = c] /\ pc' = [pc EXCEPT ![t] = label]
      /\ UNCHANGED <<metaVars, bit_map_data, temp, lock_data, diskVars>>
  BY DEF NextPointer, Goto
<1>2. DOMAIN list \subseteq Nat /\ \A i \in DOMAIN list : list[i] \in Int
  <2>1. CASE UsedDirects(s) # {}
    <3>1. objs[s].direct[First(UsedDirects(s))] \in Int
      BY <1>t, <2>1, UsedAre, ObjectIs
    <3> QED
      BY <2>1, <3>1, Lists1
  <2>2. CASE UsedDirects(s) = {} /\ UsedIndirects(s) # {}
    <3>1. objs[s].indirect[First(UsedIndirects(s))] \in Addresses
      BY <1>t, <2>2, UsedAre, ObjectIs
    <3> DEFINE a == objs[s].indirect[First(UsedIndirects(s))]
    <3>2. list = TableBlocks(a)
      BY <2>2
    <3> HIDE DEF list, a
    <3>3. \A i \in DOMAIN TableBlocks(a) : TableBlocks(a)[i] \in Addresses /\ i \in Nat
      BY <1>t, <3>1, TableBlocksAre DEF a
    <3> QED
      BY <3>2, <3>3, AddressInt
  <2>3. CASE UsedDirects(s) = {} /\ UsedIndirects(s) = {}
    BY <2>3, Lists1
  <2> QED
    BY <2>1, <2>2, <2>3
<1> HIDE DEF list
<1>3. [i \in DOMAIN list |-> list[i] - WriteOffset] \in [DOMAIN list -> Int]
  BY <1>2, SizesAssumption
<1>4. [i \in DOMAIN list |-> list[i] - WriteOffset] \in Lists
  BY <1>2, <1>3, ListsAre
<1>5. c \in Locals /\ InPlace(label, c)
  BY <1>t, <1>4 DEF Locals, InPlace, StepsOf, CallOps
<1>6. DataTyped'
  BY <1>1, <1>t DEF DataTyped, metaVars, diskVars
<1> HIDE DEF c, label
<1> QED
  BY <1>1, <1>5, <1>6, CallStep

(* Freeing a block keeps the types. *)
LEMMA FreeBlockTypes ==
  ASSUME TInv, NEW t \in Threads, FreeBlock(t)
  PROVE  TInv'
<1> DEFINE next == First(DOMAIN loc[t].todo)
           last == DOMAIN loc[t].todo = {next}
           rest == Restrict(loc[t].todo, DOMAIN loc[t].todo \ {next})
           c == [loc[t] EXCEPT !.todo = rest, !.word = {}]
           label == IF last THEN "free" ELSE "load"
           s == loc[t].obj
<1>t. /\ DataTyped /\ loc[t] \in Locals /\ InPlace("store", loc[t])
      /\ loc[t].op = "unlink" /\ s \in Slots /\ loc \in [Threads -> Locals]
  <2>1. DataTyped /\ loc[t] \in Locals /\ InPlace("store", loc[t]) /\ loc[t].op = "unlink"
    BY InCall DEF FreeBlock
  <2> QED
    BY <2>1 DEF InPlace, StepsOf, Locals, CallOps, TInv
<1>1. /\ loc' = [loc EXCEPT ![t] = c] /\ pc' = [pc EXCEPT ![t] = label]
      /\ bit_map_data' = Flip(loc[t].word, loc[t].todo[next])
      /\ objs' = objs \/ ClearPointer(s)
      /\ UNCHANGED <<bit_map_inode, d_bit_map, temp, lock_data, diskVars>>
  BY DEF FreeBlock, Goto
<1>2. objs' \in [Slots -> Objects]
  <2>1. CASE ClearPointer(s)
    <3>1. objs' = [objs EXCEPT ![s] = objs'[s]]
      BY <1>t, <2>1 DEF ClearPointer, DataTyped
    <3>2. objs'[s] \in Objects
      <4>1. \/ objs'[s] = [objs[s] EXCEPT !.direct[First(UsedDirects(s))] = 0]
            \/ objs'[s] = [objs[s] EXCEPT !.indirect[First(UsedIndirects(s))] = 0]
        BY <1>t, <2>1 DEF ClearPointer, DataTyped
      <4> QED
        BY <1>t, <4>1, ObjectIs, Numbers DEF Objects
    <3> QED
      BY <1>t, <3>1, <3>2 DEF DataTyped
  <2> QED
    BY <1>1, <1>t, <2>1 DEF DataTyped
<1>3. bit_map_data' \subseteq DataBlocks
  <2>1. loc[t].word \subseteq DataBlocks
    BY <1>t DEF Locals
  <2> QED
    BY <1>1, <2>1, Flipped
<1>4. rest \in Lists /\ next \in DOMAIN loc[t].todo
  <2>1. loc[t].todo \in Lists /\ DOMAIN loc[t].todo # {}
    BY <1>t DEF InPlace, Locals
  <2> QED
    BY <2>1, ListIs, FirstIs
<1>5. DOMAIN rest = DOMAIN loc[t].todo \ {next}
  BY DEF Restrict
<1>6. c \in Locals
  <2> HIDE DEF rest
  <2> QED
    BY <1>t, <1>4 DEF Locals
<1>7. InPlace(label, c)
  <2>1. /\ c.op = "unlink" /\ c.obj = s /\ c.todo = rest
        /\ label \in {"free", "load"}
    BY <1>t DEF Locals
  <2>2. label = "load" => DOMAIN rest # {}
    BY <1>4, <1>5
  <2> HIDE DEF rest, c, label
  <2> QED
    BY <1>t, <2>1, <2>2 DEF InPlace, StepsOf
<1>8. DataTyped'
  BY <1>1, <1>2, <1>3, <1>t DEF DataTyped, diskVars
<1> HIDE DEF c, label
<1> QED
  BY <1>1, <1>6, <1>7, <1>8, CallStep

(* Choosing a block keeps the types. *)
LEMMA ChooseBlockTypes ==
  ASSUME TInv, NEW t \in Threads, ChooseBlock(t)
  PROVE  TInv'
<1> DEFINE free == DataBlocks \ bit_map_data
           c == IF free = {} THEN [loc[t] EXCEPT !.ans = Failed]
                ELSE [loc[t] EXCEPT !.blk = First(free), !.word = bit_map_data]
           label == IF free = {} THEN "done" ELSE "mark"
<1>t. /\ DataTyped /\ loc[t] \in Locals /\ InPlace("lock", loc[t])
      /\ loc[t].op = "write" /\ loc[t].obj \in Slots
  <2>1. DataTyped /\ loc[t] \in Locals /\ InPlace("lock", loc[t])
    BY InCall DEF ChooseBlock
  <2> QED
    BY <2>1 DEF InPlace, StepsOf, Locals, CallOps
<1>1. /\ loc' = [loc EXCEPT ![t] = c] /\ pc' = [pc EXCEPT ![t] = label]
      /\ lock_data' = t
      /\ UNCHANGED <<metaVars, bit_map_data, temp, diskVars>>
  BY DEF ChooseBlock, Goto
<1>2. free # {} => First(free) \in DataBlocks
  BY FirstIs, Numbers
<1>3. c \in Locals
  <2>1. CASE free = {}
    BY <1>t, <2>1 DEF Locals
  <2>2. CASE free # {}
    BY <1>t, <1>2, <2>2, Numbers DEF Locals, DataTyped
  <2> QED
    BY <2>1, <2>2
<1>4. c.op = "write" /\ c.obj = loc[t].obj /\ (label = "mark" => c.blk \in DataBlocks)
  <2>1. CASE free = {}
    BY <1>t, <2>1 DEF Locals
  <2>2. CASE free # {}
    BY <1>t, <1>2, <2>2 DEF Locals
  <2> QED
    BY <2>1, <2>2
<1>5. DataTyped'
  BY <1>1, <1>t DEF DataTyped, metaVars, diskVars
<1> HIDE DEF c
<1>6. InPlace(label, c)
  BY <1>t, <1>4 DEF InPlace, StepsOf
<1> HIDE DEF label
<1> QED
  BY <1>1, <1>3, <1>5, <1>6, CallStep

(* Marking a block keeps the types. *)
LEMMA MarkBlockTypes ==
  ASSUME TInv, NEW t \in Threads, MarkBlock(t)
  PROVE  TInv'
<1> DEFINE c == [loc[t] EXCEPT !.word = {}]
<1>t. DataTyped /\ loc[t] \in Locals /\ InPlace("mark", loc[t])
  BY InCall DEF MarkBlock
<1>1. /\ loc' = [loc EXCEPT ![t] = c] /\ pc' = [pc EXCEPT ![t] = "data"]
      /\ bit_map_data' = loc[t].word \cup {loc[t].blk} /\ lock_data' = NoThread
      /\ UNCHANGED <<metaVars, temp, diskVars>>
  BY DEF MarkBlock, Goto, WithBlock, Unlock
<1>2. c \in Locals /\ InPlace("data", c)
  BY <1>t DEF Locals, InPlace, StepsOf, CallOps
<1>3. bit_map_data' \subseteq DataBlocks
  BY <1>1, <1>t DEF Locals, InPlace, StepsOf, CallOps
<1>4. DataTyped'
  BY <1>1, <1>3, <1>t DEF DataTyped, metaVars, diskVars
<1> HIDE DEF c
<1> QED
  BY <1>1, <1>2, <1>4, CallStep

(* What a write that has its block and links it works on. *)
LEMMA LinkingIs ==
  ASSUME TInv, NEW t \in Threads, NEW direct, NEW present, Linking(t, direct, present)
  PROVE  /\ DataTyped /\ loc[t] \in Locals /\ InPlace("link", loc[t]) /\ pc[t] = "link"
         /\ loc[t].op = "write" /\ loc[t].obj \in Slots /\ loc[t].off \in Offsets
         /\ loc[t].blk \in DataBlocks /\ loc[t].todo \in Lists
         /\ direct <=> loc[t].off \in Directs
<1>1. DataTyped /\ loc[t] \in Locals /\ InPlace("link", loc[t]) /\ pc[t] = "link"
  BY InCall DEF Linking
<1>2. loc[t].op = "write" /\ loc[t].obj \in Slots /\ loc[t].blk \in DataBlocks
  BY <1>1 DEF InPlace, StepsOf, Locals, CallOps
<1>3. loc[t].off \in Offsets /\ loc[t].todo \in Lists
  BY <1>1 DEF Locals
<1>4. loc[t].off \in Directs <=> loc[t].off < NDirect
  BY <1>1, <1>2, <1>3, PointerType
<1> QED
  BY <1>1, <1>2, <1>3, <1>4 DEF Linking

(* The pointers of an object, one of them changed, and its size. *)
LEMMA ObjectTyped ==
  ASSUME DataTyped, NEW s \in Slots, NEW grow \in Nat, NEW p \in Addresses
  PROVE  /\ \A l : [objs EXCEPT ![s].direct[l] = p, ![s].size = @ + grow] \in [Slots -> Objects]
         /\ \A l : [objs EXCEPT ![s].indirect[l] = p, ![s].size = @ + grow] \in [Slots -> Objects]
         /\ [objs EXCEPT ![s].size = @ + grow] \in [Slots -> Objects]
<1>1. /\ objs \in [Slots -> Objects] /\ objs[s] \in Objects /\ objs[s].size + grow \in Nat
  BY ObjectIs DEF DataTyped
<1>2. \A f \in [Directs -> Addresses] : \A l : [f EXCEPT ![l] = p] \in [Directs -> Addresses]
  OBVIOUS
<1>3. \A f \in [Indirects -> Addresses] : \A l : [f EXCEPT ![l] = p] \in [Indirects -> Addresses]
  OBVIOUS
<1>4. [objs[s] EXCEPT !.size = @ + grow] \in Objects
  BY <1>1 DEF Objects
<1>5. \A l : [objs[s] EXCEPT !.direct[l] = p, !.size = @ + grow] \in Objects
  BY <1>1, <1>2 DEF Objects
<1>6. \A l : [objs[s] EXCEPT !.indirect[l] = p, !.size = @ + grow] \in Objects
  BY <1>1, <1>3 DEF Objects
<1>7. \A o \in Objects : [objs EXCEPT ![s] = o] \in [Slots -> Objects]
  BY <1>1
<1> QED
  BY <1>1, <1>4, <1>5, <1>6, <1>7

(* A block is written with data or with an entry added to a table. *)
LEMMA EntryTyped ==
  ASSUME TInv, NEW t \in Threads, NEW a \in Addresses, NEW table \in [Entries -> Addresses],
         loc[t].blk \in DataBlocks, SetEntry(t, a, table)
  PROVE  disk' \in [Addresses -> DiskBlocks]
<1>1. disk \in [Addresses -> DiskBlocks] /\ WriteOffset + loc[t].blk \in Addresses
  BY Numbers DEF TInv, DataTyped
<1>2. [table EXCEPT ![Alp(loc[t].off)] = WriteOffset + loc[t].blk] \in [Entries -> Addresses]
  BY <1>1
<1>3. Table([table EXCEPT ![Alp(loc[t].off)] = WriteOffset + loc[t].blk]) \in DiskBlocks
  BY <1>2 DEF Table, DiskBlocks
<1> QED
  BY <1>1, <1>3 DEF SetEntry, WriteBlock

(* Writing the data keeps the types. *)
LEMMA WriteDataTypes ==
  ASSUME TInv, NEW t \in Threads, WriteData(t)
  PROVE  TInv'
<1>t. DataTyped /\ loc[t] \in Locals /\ InPlace("data", loc[t]) /\ loc \in [Threads -> Locals]
  BY InCall DEF WriteData, TInv
<1>1. /\ loc' = loc /\ pc' = [pc EXCEPT ![t] = "link"]
      /\ disk' = [disk EXCEPT ![WriteOffset + loc[t].blk] = Data(loc[t].value)]
      /\ UNCHANGED <<metaVars, bit_map_data, temp, lock_data, saved, mounted>>
  BY DEF WriteData, Goto, WriteBlock
<1>2. loc' = [loc EXCEPT ![t] = loc[t]] /\ InPlace("link", loc[t])
  BY <1>1, <1>t DEF InPlace, StepsOf, Locals, CallOps
<1>3. disk' \in [Addresses -> DiskBlocks]
  <2>1. Data(loc[t].value) \in DiskBlocks
    BY <1>t DEF Data, DiskBlocks, Locals
  <2> QED
    BY <1>1, <1>t, <2>1 DEF DataTyped
<1>4. DataTyped'
  BY <1>1, <1>3, <1>t DEF DataTyped, metaVars
<1> QED
  BY <1>1, <1>2, <1>4, <1>t, CallStep

(* Linking a block keeps the types. *)
LEMMA LinkTypes ==
  ASSUME TInv, NEW t \in Threads, LinkDirect(t) \/ LinkEntry(t)
  PROVE  TInv'
<1>1. CASE LinkDirect(t)
  <2>t. /\ DataTyped /\ loc[t] \in Locals /\ InPlace("link", loc[t]) /\ loc[t].op = "write"
        /\ loc[t].obj \in Slots /\ loc[t].blk \in DataBlocks /\ loc \in [Threads -> Locals]
    BY <1>1, LinkingIs DEF LinkDirect, TInv
  <2>1. /\ pc' = [pc EXCEPT ![t] = "done"] /\ loc' = [loc EXCEPT ![t] = loc[t]]
        /\ objs' = [objs EXCEPT ![loc[t].obj].direct[loc[t].off] = WriteOffset + loc[t].blk,
                                ![loc[t].obj].size = @ + 1]
        /\ UNCHANGED <<bit_map_inode, d_bit_map, bit_map_data, temp, lock_data, diskVars>>
    BY <1>1, <2>t DEF LinkDirect, SetDirect, Goto
  <2>2. objs' \in [Slots -> Objects]
    BY <2>1, <2>t, ObjectTyped, Numbers
  <2>3. DataTyped' /\ InPlace("done", loc[t])
    BY <2>1, <2>2, <2>t DEF DataTyped, diskVars, InPlace, StepsOf
  <2> QED
    BY <2>1, <2>3, <2>t, CallStep
<1>2. CASE LinkEntry(t)
  <2>t. /\ DataTyped /\ loc[t] \in Locals /\ InPlace("link", loc[t]) /\ loc[t].op = "write"
        /\ loc[t].obj \in Slots /\ loc[t].blk \in DataBlocks /\ loc \in [Threads -> Locals]
        /\ loc[t].off \notin Directs /\ loc[t].off \in Offsets
    BY <1>2, LinkingIs DEF LinkEntry, TInv
  <2>1. /\ pc' = [pc EXCEPT ![t] = "done"] /\ loc' = [loc EXCEPT ![t] = loc[t]]
        /\ SetEntry(t, Indirect(t), TableAt(Indirect(t)))
        /\ objs' = [objs EXCEPT ![loc[t].obj].size = @ + 1]
        /\ UNCHANGED <<bit_map_inode, d_bit_map, bit_map_data, temp, lock_data, saved, mounted>>
    BY <1>2, <2>t DEF LinkEntry, Goto
  <2>2. Indirect(t) \in Addresses /\ TableAt(Indirect(t)) \in [Entries -> Addresses]
    BY <2>t, PointerType DEF Indirect
  <2>3. disk' \in [Addresses -> DiskBlocks] /\ objs' \in [Slots -> Objects]
    BY <2>1, <2>2, <2>t, EntryTyped, ObjectTyped, Numbers
  <2>4. DataTyped' /\ InPlace("done", loc[t])
    BY <2>1, <2>3, <2>t DEF DataTyped, InPlace, StepsOf
  <2> QED
    BY <2>1, <2>4, <2>t, CallStep
<1> QED
  BY <1>1, <1>2

(* Linking a block in place of another keeps the types. *)
LEMMA RelinkTypes ==
  ASSUME TInv, NEW t \in Threads, RelinkDirect(t) \/ RelinkEntry(t)
  PROVE  TInv'
<1> DEFINE p == IF RelinkDirect(t) THEN objs[loc[t].obj].direct[loc[t].off]
                ELSE Pointer(loc[t].obj, loc[t].off)
           c == [loc[t] EXCEPT !.todo = Just(p)]
<1>t. /\ DataTyped /\ loc[t] \in Locals /\ loc[t].op = "write"
      /\ loc[t].obj \in Slots /\ loc[t].off \in Offsets /\ loc[t].blk \in DataBlocks
      /\ RelinkDirect(t) => loc[t].off \in Directs
  BY LinkingIs DEF RelinkDirect, RelinkEntry
<1>1. /\ pc' = [pc EXCEPT ![t] = "load"] /\ loc' = [loc EXCEPT ![t] = c]
      /\ UNCHANGED <<bit_map_inode, d_bit_map, bit_map_data, temp, lock_data, diskVars>>
  BY DEF RelinkDirect, RelinkEntry, Goto, metaVars
<1>2. p \in Addresses
  BY <1>t, PointerType
<1>3. objs' \in [Slots -> Objects]
  <2>1. CASE RelinkDirect(t)
    <3>1. objs' = [objs EXCEPT ![loc[t].obj].direct[loc[t].off] = loc[t].blk,
                               ![loc[t].obj].size = @ + 0]
      BY <2>1 DEF RelinkDirect, SetDirect
    <3> QED
      BY <3>1, <1>t, ObjectTyped, Numbers
  <2>2. CASE RelinkEntry(t)
    BY <2>2, <1>t DEF RelinkEntry, metaVars, DataTyped
  <2> QED
    BY <2>1, <2>2
<1>4. c \in Locals /\ InPlace("load", c)
  <2> HIDE DEF p
  <2>1. Just(p) \in Lists /\ DOMAIN Just(p) = {0}
    BY <1>2, AddressInt, Lists1
  <2>2. /\ c \in Locals /\ c.op = "write" /\ c.obj = loc[t].obj /\ c.todo = Just(p)
        /\ c.blk = loc[t].blk
    BY <2>1, <1>t DEF Locals
  <2> HIDE DEF c
  <2> QED
    BY <2>1, <2>2, <1>t DEF InPlace, StepsOf
<1>5. DataTyped'
  BY <1>1, <1>3, <1>t DEF DataTyped, diskVars
<1> HIDE DEF c
<1> QED
  BY <1>1, <1>4, <1>5, CallStep

(* Choosing the block of a table keeps the types. *)
LEMMA ChooseIndirectTypes ==
  ASSUME TInv, NEW t \in Threads, ChooseIndirect(t)
  PROVE  TInv'
<1> DEFINE free == DataBlocks \ bit_map_data
           b == IF free = {} THEN -1 ELSE First(free)
           c == [loc[t] EXCEPT !.todo = Just(b), !.word = bit_map_data]
<1>t. /\ DataTyped /\ loc[t] \in Locals /\ loc[t].op = "write"
      /\ loc[t].obj \in Slots /\ loc[t].off \in Offsets /\ loc[t].blk \in DataBlocks
      /\ loc[t].off \notin Directs
  BY LinkingIs DEF ChooseIndirect
<1>1. /\ pc' = [pc EXCEPT ![t] = "grab"] /\ loc' = [loc EXCEPT ![t] = c]
      /\ UNCHANGED <<metaVars, bit_map_data, temp, lock_data, diskVars>>
  BY DEF ChooseIndirect, Goto
<1>2. b \in DataBlocks \cup {-1} /\ b \in Int
  BY FirstIs, Numbers
<1> HIDE DEF b
<1>3. Just(b) \in Lists /\ DOMAIN Just(b) = {0} /\ Just(b)[0] = b
  BY <1>2, Lists1
<1>4. /\ c \in Locals /\ c.op = "write" /\ c.obj = loc[t].obj /\ c.todo = Just(b)
      /\ c.blk = loc[t].blk /\ c.off = loc[t].off
  BY <1>3, <1>t DEF Locals, DataTyped
<1> HIDE DEF c
<1>5. InPlace("grab", c)
  BY <1>2, <1>3, <1>4, <1>t DEF InPlace, StepsOf
<1>6. DataTyped'
  BY <1>1, <1>t DEF DataTyped, metaVars, diskVars
<1> QED
  BY <1>1, <1>4, <1>5, <1>6, CallStep

(* Taking the block of a table keeps the types. *)
LEMMA GrabIndirectTypes ==
  ASSUME TInv, NEW t \in Threads, GrabIndirect(t)
  PROVE  TInv'
<1> DEFINE b == loc[t].todo[0]
           c == [loc[t] EXCEPT !.todo = NoCall.todo, !.word = {}]
<1>t. DataTyped /\ loc[t] \in Locals /\ InPlace("grab", loc[t])
  BY InCall DEF GrabIndirect
<1>1. /\ pc' = [pc EXCEPT ![t] = "done"] /\ loc' = [loc EXCEPT ![t] = c]
      /\ bit_map_data' = IF b = -1 THEN bit_map_data ELSE loc[t].word \cup {b}
      /\ SetEntry(t, WriteOffset + b, NoEntries)
      /\ objs' = [objs EXCEPT ![loc[t].obj].indirect[Alpha(loc[t].off)] = WriteOffset + b,
                              ![loc[t].obj].size = @ + 1]
      /\ UNCHANGED <<bit_map_inode, d_bit_map, temp, lock_data, saved, mounted>>
  BY DEF GrabIndirect, Goto, WithBlock
<1>2. /\ loc[t].op = "write" /\ loc[t].obj \in Slots /\ loc[t].blk \in DataBlocks
      /\ b \in DataBlocks \cup {-1}
  BY <1>t DEF InPlace, StepsOf, Locals, CallOps
<1>3. WriteOffset + b \in Addresses /\ NoEntries \in [Entries -> Addresses]
  BY <1>2, Numbers DEF NoEntries
<1>4. disk' \in [Addresses -> DiskBlocks] /\ objs' \in [Slots -> Objects]
  BY <1>1, <1>2, <1>3, <1>t, EntryTyped, ObjectTyped
<1>5. bit_map_data' \subseteq DataBlocks
  BY <1>1, <1>2, <1>t DEF DataTyped, Locals
<1>6. c \in Locals /\ InPlace("done", c)
  BY <1>t, <1>2, Lists1 DEF Locals, InPlace, StepsOf
<1>7. DataTyped'
  BY <1>1, <1>4, <1>5, <1>t DEF DataTyped
<1> HIDE DEF c
<1> QED
  BY <1>1, <1>6, <1>7, CallStep

(* Freeing a block that was overwritten keeps the types. *)
LEMMA FreeOldTypes ==
  ASSUME TInv, NEW t \in Threads, FreeOld(t)
  PROVE  TInv'
<1> DEFINE c == [loc[t] EXCEPT !.todo = NoCall.todo, !.word = {}]
<1>t. /\ DataTyped /\ loc[t] \in Locals /\ InPlace("store", loc[t]) /\ loc[t].op = "write"
  BY InCall DEF FreeOld
<1>1. /\ pc' = [pc EXCEPT ![t] = "done"] /\ loc' = [loc EXCEPT ![t] = c]
      /\ bit_map_data' = Flip(loc[t].word, loc[t].todo[0])
      /\ IF loc[t].off < NDirect THEN UNCHANGED disk
         ELSE SetEntry(t, Indirect(t), TableAt(Indirect(t)))
      /\ UNCHANGED <<metaVars, temp, lock_data, saved, mounted>>
  BY DEF FreeOld, Goto
<1>2. /\ loc[t].obj \in Slots /\ loc[t].off \in Offsets /\ loc[t].word \subseteq DataBlocks
  BY <1>t DEF InPlace, StepsOf, Locals, CallOps
<1>6. c \in Locals /\ InPlace("done", c)
  BY <1>t, <1>2, Lists1 DEF Locals, InPlace, StepsOf
<1>7. disk' \in [Addresses -> DiskBlocks]
  <2>1. CASE loc[t].off < NDirect
    BY <1>1, <1>t, <2>1 DEF DataTyped
  <2>2. CASE ~(loc[t].off < NDirect)
    <3>1. Indirect(t) \in Addresses /\ TableAt(Indirect(t)) \in [Entries -> Addresses]
      BY <1>t, <1>2, <2>2, PointerType DEF Indirect
    <3> QED
      BY <1>1, <1>t, <2>2, <3>1, EntryTyped DEF InPlace
  <2> QED
    BY <2>1, <2>2
<1>8. bit_map_data' \subseteq DataBlocks
  BY <1>1, <1>2, Flipped
<1>9. DataTyped'
  BY <1>1, <1>7, <1>8, <1>t DEF DataTyped, metaVars
<1> HIDE DEF c
<1> QED
  BY <1>1, <1>6, <1>9, CallStep

(* Reading an entry keeps the types. *)
LEMMA ReadEntryTypes ==
  ASSUME TInv, NEW t \in Threads, ReadEntry(t)
  PROVE  TInv'
<1> DEFINE blk == TableAt(loc[t].blk)[Alp(loc[t].off)]
           c == [loc[t] EXCEPT !.blk = blk]
<1>t. DataTyped /\ loc[t] \in Locals /\ InPlace("entry", loc[t]) /\ loc \in [Threads -> Locals]
  BY InCall DEF ReadEntry, TInv
<1>1. /\ pc' = [pc EXCEPT ![t] = "fetch"] /\ loc' = [loc EXCEPT ![t] = c]
      /\ UNCHANGED <<metaVars, bit_map_data, temp, lock_data, diskVars>>
  BY <1>t DEF ReadEntry, Goto, Locals
<1>2. /\ loc[t].op = "read" /\ loc[t].off \in Offsets \ Directs /\ loc[t].blk \in Addresses
      /\ loc[t].obj \in Slots
  BY <1>t DEF InPlace, StepsOf, Locals, CallOps
<1>3. blk \in Addresses
  BY <1>2, <1>t, PointerType, AlphaAlp
<1> HIDE DEF blk
<1>4. c \in Locals /\ InPlace("fetch", c)
  BY <1>2, <1>3, <1>t DEF Locals, InPlace, StepsOf
<1>5. DataTyped'
  BY <1>1, <1>t DEF DataTyped, metaVars, diskVars
<1> HIDE DEF c
<1> QED
  BY <1>1, <1>4, <1>5, CallStep

(* Reading the data keeps the types. *)
LEMMA ReadDataTypes ==
  ASSUME TInv, NEW t \in Threads, ReadData(t)
  PROVE  TInv'
<1> DEFINE ans == ValueAt(loc[t].blk)
           c == [loc[t] EXCEPT !.ans = ans, !.blk = 0]
<1>t. DataTyped /\ loc[t] \in Locals /\ InPlace("fetch", loc[t])
  BY InCall DEF ReadData
<1>1. /\ pc' = [pc EXCEPT ![t] = "done"] /\ loc' = [loc EXCEPT ![t] = c]
      /\ UNCHANGED <<metaVars, bit_map_data, temp, lock_data, diskVars>>
  BY DEF ReadData, Goto
<1>2. loc[t].op = "read" /\ loc[t].blk \in Addresses
  BY <1>t DEF InPlace, StepsOf, Locals, CallOps
<1>3. ans \in Values \cup {NoValue}
  BY <1>2, <1>t DEF ValueAt, DataTyped, DiskBlocks
<1> HIDE DEF ans
<1>4. c \in Locals /\ InPlace("done", c)
  BY <1>2, <1>3, <1>t, Numbers DEF Locals, InPlace, StepsOf
<1>5. DataTyped'
  BY <1>1, <1>t DEF DataTyped, metaVars, diskVars
<1> HIDE DEF c
<1> QED
  BY <1>1, <1>4, <1>5, CallStep

(* Returning keeps the types. *)
LEMMA ReturnTypes ==
  ASSUME TInv, NEW t \in Threads, Return(t)
  PROVE  TInv'
<1>1. /\ pc' = [pc EXCEPT ![t] = "idle"] /\ loc' = [loc EXCEPT ![t] = NoCall]
      /\ UNCHANGED <<metaVars, bit_map_data, temp, lock_data, diskVars>>
  BY DEF Return, Goto
<1>2. NoCall \in Locals
  BY NewCall, Numbers DEF CallOps
<1>3. DataTyped'
  BY <1>1 DEF TInv, DataTyped, metaVars, diskVars
<1> QED
  BY <1>1, <1>2, <1>3, CallStep

(* An unmount saves an inode, field by field from the table or from what    *)
(* was saved before; the one of the table if its block is written, or if it *)
(* has not changed.                                                         *)
LEMMA SavedIs ==
  ASSUME DataTyped, NEW s \in Slots
  PROVE  /\ SavedInode(s) \in Objects
         /\ Fits(s) /\ MarkOf(s) \in d_bit_map => SavedInode(s) = objs[s]
         /\ saved.objs[s] = objs[s] => SavedInode(s) = objs[s]
<1>1. objs[s] \in Objects /\ saved.objs[s] \in Objects
  BY DEF DataTyped, Metadata
<1>2. SavedInode(s) \in Objects
  BY <1>1 DEF SavedInode, Objects
<1>3. ASSUME Fits(s), MarkOf(s) \in d_bit_map PROVE SavedInode(s) = objs[s]
  <2>1. Saves(s, "key") /\ Saves(s, "size") /\ Saves(s, "direct") /\ Saves(s, "indirect")
    BY <1>3 DEF Saves, Fits, Fields
  <2> QED
    BY <1>1, <2>1 DEF SavedInode, Objects
<1>4. ASSUME saved.objs[s] = objs[s] PROVE SavedInode(s) = objs[s]
  BY <1>1, <1>4 DEF SavedInode, Objects
<1> QED
  BY <1>2, <1>3, <1>4

(* Unmounting and mounting keep the types. *)
LEMMA MountTypes ==
  ASSUME TInv, Unmount \/ Mount
  PROVE  TInv'
<1>1. UNCHANGED <<pc, loc>> /\ mounted' \in BOOLEAN /\ disk' = disk
  BY DEF Unmount, Mount
<1>2. CASE Unmount
  <2>1. [s \in Slots |-> SavedInode(s)] \in [Slots -> Objects]
    BY SavedIs DEF TInv
  <2>2. saved' \in Metadata
    BY <1>2, <2>1 DEF Unmount, TInv, DataTyped, Metadata
  <2> QED
    BY <1>1, <1>2, <2>2 DEF Unmount, TInv, DataTyped, metaVars, CallsInPlace
<1>3. CASE Mount
  BY <1>1, <1>3 DEF Mount, TInv, DataTyped, Metadata, CallsInPlace
<1> QED
  BY <1>2, <1>3

(* Every step keeps the types. *)
LEMMA NextTInv == TInv /\ [Next]_vars => TInv'
<1> SUFFICES ASSUME TInv, [Next]_vars PROVE TInv'
  OBVIOUS
<1>1. ASSUME NEW t \in Threads, NEW k \in Keys,
             \/ Create(t, k) \/ Unlink(t, k) \/ \E new \in Keys : Rename(t, k, new)
             \/ \E op \in {"open", "getattr"} : Find(t, op, k) \/ FindNothing(t, op, k)
      PROVE  TInv'
  BY <1>1, CreateTypes, UnlinkTypes, RenameTypes, FindTypes, FindNothingTypes
<1>2. ASSUME NEW t \in Threads, NEW s \in Slots, NEW o \in Offsets,
             Read(t, s, o) \/ \E v \in Values : Write(t, s, o, v)
      PROVE  TInv'
  BY <1>2, ReadTypes, WriteTypes
<1>3. ASSUME NEW t \in Threads,
             \/ FillupSize(t) \/ NextPointer(t) \/ LoadWord(t) \/ FreeBlock(t) \/ ChooseBlock(t)
             \/ MarkBlock(t) \/ WriteData(t) \/ LinkDirect(t) \/ RelinkDirect(t)
      PROVE  TInv'
  BY <1>3, FillupSizeTypes, NextPointerTypes, LoadWordTypes, FreeBlockTypes, ChooseBlockTypes,
     MarkBlockTypes, WriteDataTypes, LinkTypes, RelinkTypes
<1>4. ASSUME NEW t \in Threads,
             \/ ChooseIndirect(t) \/ GrabIndirect(t) \/ LinkEntry(t) \/ RelinkEntry(t)
             \/ FreeOld(t) \/ ReadEntry(t) \/ ReadData(t) \/ Return(t)
      PROVE  TInv'
  BY <1>4, ChooseIndirectTypes, GrabIndirectTypes, LinkTypes, RelinkTypes, FreeOldTypes,
     ReadEntryTypes, ReadDataTypes, ReturnTypes
<1>5. CASE UNCHANGED vars
  BY <1>5 DEF vars, metaVars, diskVars, TInv, DataTyped, CallsInPlace
<1> QED
  BY <1>1, <1>2, <1>3, <1>4, <1>5, MountTypes DEF Next

(* The first mount is in order. *)
LEMMA InitSInv == Init => SInv
<1> SUFFICES ASSUME Init PROVE SInv
  OBVIOUS
<1>0. NoObject \in Objects /\ NoObject.size = 0 /\ (\A l \in Directs : NoObject.direct[l] = 0)
      /\ (\A l \in Indirects : NoObject.indirect[l] = 0)
  BY Numbers DEF NoObject, Objects
<1>1. Data(NoValue) \in DiskBlocks
  BY DEF Data, DiskBlocks
<1>2. NoCall \in Locals
  BY NewCall, Numbers DEF CallOps
<1>3. DataTyped
  BY <1>0, <1>1 DEF Init, DataTyped, Metadata
<1>4. TInv
  BY <1>2, <1>3 DEF Init, TInv, Labels, CallsInPlace
<1>5. \A s \in Slots : objs[s].size = 0 /\ NoPointers(s)
  BY <1>0 DEF Init, NoPointers, UsedDirects, UsedIndirects
<1>6. Facts
  BY <1>5 DEF Init, Facts, DirAlone, WritesInUse, UnlinksClear, FreeEmpty, ChangesMarked,
              SavedRest, SavedAtUnmount, Unspilled, Removing
<1> QED
  BY <1>4, <1>6 DEF SInv

-----------------------------------------------------------------------------
(* An object whose pointers stay has as many left as before. *)
LEMMA SamePointers ==
  ASSUME NEW s, objs'[s].direct = objs[s].direct, objs'[s].indirect = objs[s].indirect
  PROVE  NoPointers(s)' <=> NoPointers(s)
BY DEF NoPointers, UsedDirects, UsedIndirects

(* A step within a call changes no other object than its own. *)
LEMMA WithinCall ==
  ASSUME SInv, NEW t \in Threads, pc[t] # "idle", pc'[t] # "idle",
         \A u \in Threads \ {t} : pc'[u] = pc[u] /\ loc'[u] = loc[u],
         loc'[t].op = loc[t].op, loc'[t].obj = loc[t].obj,
         loc[t].op = "unlink" /\ pc'[t] = "done" => NoPointers(loc[t].obj)',
         \A s \in Slots : objs'[s] # objs[s] =>
             /\ s = loc[t].obj /\ loc[t].op \in {"write", "unlink"}
             /\ loc[t].op = "unlink" => objs'[s].size = objs[s].size,
         UNCHANGED <<bit_map_inode, d_bit_map, saved, mounted>>
  PROVE  Facts'
<1> USE DEF SInv, Facts
<1>1. mounted
  BY DEF SavedAtUnmount
<1>2. \A u \in Threads, s \in Slots : Removing(u, s)' <=> Removing(u, s)
  BY DEF Removing
<1>3. DirAlone'
  BY DEF DirAlone
<1>4. WritesInUse' /\ ChangesMarked'
  BY DEF WritesInUse, ChangesMarked
<1>5. \A s \in Slots : objs'[s] = objs[s] => (NoPointers(s)' <=> NoPointers(s))
  BY SamePointers
<1>6. UnlinksClear'
  <2>1. ASSUME NEW u \in Threads, NEW s \in Slots, Removing(u, s)
        PROVE  /\ s \notin bit_map_inode /\ objs'[s].size = 0
               /\ pc'[u] = "done" => NoPointers(s)'
    <3>0. s \notin bit_map_inode /\ objs[s].size = 0 /\ (pc[u] = "done" => NoPointers(s))
      BY <2>1 DEF UnlinksClear
    <3>1. CASE u = t
      BY <2>1, <3>0, <3>1 DEF Removing
    <3>2. CASE u # t
      <4>1. objs'[s] = objs[s]
        <5>1. loc[t].op = "write" => loc[t].obj # s
          BY <3>0 DEF WritesInUse
        <5>2. loc[t].op # "unlink"
          BY <2>1, <3>2 DEF Removing, DirAlone, DirOps
        <5> QED
          BY <5>1, <5>2
      <4> QED
        BY <1>5, <3>0, <3>2, <4>1
    <3> QED
      BY <3>1, <3>2
  <2> QED
    BY <1>2, <2>1 DEF UnlinksClear
<1>7. FreeEmpty'
  <2>1. ASSUME NEW s \in Slots, s \notin bit_map_inode, \A u \in Threads : ~Removing(u, s)
        PROVE  objs'[s] = objs[s]
    <3>1. loc[t].op = "write" => loc[t].obj # s
      BY <2>1 DEF WritesInUse
    <3>2. ~(loc[t].op = "unlink" /\ loc[t].obj = s)
      BY <2>1 DEF Removing
    <3> QED
      BY <3>1, <3>2
  <2> QED
    BY <1>2, <1>5, <2>1 DEF FreeEmpty, Kept
<1>8. SavedRest'
  BY DEF SavedRest, ChangesMarked
<1>9. SavedAtUnmount'
  BY <1>1 DEF SavedAtUnmount
<1>10. Unspilled'
  <2>1. ASSUME ~Spill, NEW s \in Slots, ~Fits(s) PROVE objs'[s] = objs[s]
    <3>1. loc[t].op = "write" => loc[t].obj # s
      BY <2>1 DEF WritesInUse, Unspilled
    <3>2. ~(loc[t].op = "unlink" /\ loc[t].obj = s)
      BY <2>1 DEF Removing, Unspilled
    <3> QED
      BY <3>1, <3>2
  <2> QED
    BY <1>2, <2>1 DEF Unspilled
<1> QED
  BY <1>3, <1>4, <1>6, <1>7, <1>8, <1>9, <1>10

(* A step that starts a call. *)
LEMMA StartOfCall ==
  ASSUME SInv, NEW t \in Threads, pc[t] = "idle", pc'[t] # "idle", mounted, mounted',
         NEW s, loc'[t].obj = s,
         \A u \in Threads \ {t} : pc'[u] = pc[u] /\ loc'[u] = loc[u],
         \A u \in Others(t) : /\ ~(loc'[t].op \in DirOps /\ loc[u].op \in DirOps)
                              /\ loc'[t].op = "unlink" => loc[u].obj # s,
         loc'[t].op = "unlink" => pc'[t] # "done" /\ objs'[s].size = 0,
         loc'[t].op = "write" => s \in bit_map_inode,
         loc'[t].op \in {"write", "unlink"} => MarkOf(s) \in d_bit_map',
         \A r \in Slots : r \in bit_map_inode' <=>
             \/ r \in bit_map_inode /\ ~(loc'[t].op = "unlink" /\ r = s)
             \/ loc'[t].op = "create" /\ r = s,
         d_bit_map \subseteq d_bit_map', bit_map_inode \subseteq Slots,
         \A r \in Slots : objs'[r] # objs[r] =>
             /\ r = s /\ loc'[t].op \in DirOps /\ MarkOf(r) \in d_bit_map'
             /\ objs'[r].direct = objs[r].direct /\ objs'[r].indirect = objs[r].indirect
             /\ objs'[r].size \in {objs[r].size, 0},
         loc'[t].op \in DirOps /\ s \in Slots => Fits(s) \/ Spill,
         saved' = saved
  PROVE  Facts'
<1> USE DEF SInv, Facts
<1>0. \A u \in Threads \ {t} : pc[u] # "idle" => u \in Others(t)
  BY DEF Others
<1>1. \A u \in Threads \ {t}, r \in Slots : Removing(u, r)' <=> Removing(u, r)
  BY DEF Removing
<1>2. \A r \in Slots : ~Removing(t, r)
  BY DEF Removing
<1>3. DirAlone'
  <2>1. \A u \in Threads \ {t} : pc[u] # "idle" =>
             ~(loc'[t].op \in DirOps /\ loc[u].op \in DirOps)
    BY <1>0
  <2> QED
    BY <2>1 DEF DirAlone
<1>4. WritesInUse'
  BY <1>0 DEF WritesInUse
<1>5. ChangesMarked'
  BY DEF ChangesMarked
<1>6. \A r \in Slots : NoPointers(r)' <=> NoPointers(r)
  BY SamePointers
<1>7. UnlinksClear'
  <2>1. ASSUME NEW u \in Threads, NEW r \in Slots, Removing(u, r)'
        PROVE  /\ r \notin bit_map_inode' /\ objs'[r].size = 0
               /\ pc'[u] = "done" => NoPointers(r)'
    <3>1. CASE u = t
      BY <2>1, <3>1 DEF Removing
    <3>2. CASE u # t
      <4>1. /\ Removing(u, r) /\ r \notin bit_map_inode /\ objs[r].size = 0
            /\ pc[u] = "done" => NoPointers(r)
        BY <1>1, <2>1, <3>2 DEF UnlinksClear
      <4>2. loc'[t].op \notin DirOps
        BY <1>0, <3>2, <4>1 DEF Removing, DirOps
      <4>3. loc'[t].op # "create"
        BY <4>2 DEF DirOps
      <4> QED
        BY <1>6, <3>2, <4>1, <4>2, <4>3
    <3> QED
      BY <3>1, <3>2
  <2> QED
    BY <2>1 DEF UnlinksClear
<1>8. FreeEmpty'
  <2>1. ASSUME NEW r \in Slots, r \notin bit_map_inode', Kept(r),
               \A u \in Threads : ~Removing(u, r)'
        PROVE  objs'[r].size = 0 /\ NoPointers(r)'
    <3>1. r \notin bit_map_inode
      BY <2>1 DEF Removing
    <3>2. \A u \in Threads : ~Removing(u, r)
      BY <1>1, <1>2, <2>1
    <3> QED
      BY <1>6, <2>1, <3>1, <3>2 DEF FreeEmpty
  <2> QED
    BY <2>1 DEF FreeEmpty, Kept
<1>9. SavedRest' /\ SavedAtUnmount'
  BY DEF SavedRest, SavedAtUnmount, Kept
<1>10. Unspilled'
  <2>1. ASSUME ~Spill, NEW r \in Slots, ~Fits(r)
        PROVE  /\ r \notin bit_map_inode' /\ objs'[r] = objs[r]
               /\ \A u \in Threads : ~Removing(u, r)'
    <3>1. r \notin bit_map_inode /\ \A u \in Threads : ~Removing(u, r)
      BY <2>1 DEF Unspilled
    <3>2. r # s \/ loc'[t].op \notin DirOps
      BY <2>1
    <3>3. ~(loc'[t].op = "create" /\ r = s) /\ ~Removing(t, r)'
      BY <3>2 DEF DirOps, Removing
    <3> QED
      BY <1>1, <3>1, <3>2, <3>3
  <2> QED
    BY <2>1 DEF Unspilled
<1> QED
  BY <1>3, <1>4, <1>5, <1>7, <1>8, <1>9, <1>10

-----------------------------------------------------------------------------
(* Facts, action by action: the steps within a call. *)
Within(t) ==
    /\ pc[t] # "idle" /\ pc'[t] # "idle"
    /\ \A u \in Threads \ {t} : pc'[u] = pc[u] /\ loc'[u] = loc[u]
    /\ loc'[t].op = loc[t].op /\ loc'[t].obj = loc[t].obj
    /\ UNCHANGED <<bit_map_inode, d_bit_map, saved, mounted>>

(* A call that goes on within moves no other call. *)
LEMMA GoesOn ==
  ASSUME TInv, NEW t \in Threads, pc[t] # "idle", NEW label, label # "idle", Goto(t, label)
  PROVE  /\ pc'[t] = label /\ pc'[t] # "idle" /\ \A u \in Threads \ {t} : pc'[u] = pc[u]
         /\ loc \in [Threads -> Locals]
BY DEF TInv, Goto

(* The steps that leave the table of objects alone. *)
LEMMA QuietWithin ==
  ASSUME TInv, NEW t \in Threads,
         \/ FillupSize(t) \/ LoadWord(t) \/ NextPointer(t) \/ ChooseBlock(t) \/ MarkBlock(t)
         \/ WriteData(t) \/ ChooseIndirect(t) \/ RelinkEntry(t) \/ FreeOld(t)
         \/ ReadEntry(t) \/ ReadData(t)
  PROVE  /\ Within(t) /\ objs' = objs
         /\ loc[t].op = "unlink" /\ pc'[t] = "done" => NoPointers(loc[t].obj)'
<1>t. loc \in [Threads -> Locals] /\ \A u \in Threads : loc[u] \in Locals
  BY DEF TInv
<1>1. ASSUME LoadWord(t) PROVE Within(t) /\ pc'[t] # "done" /\ objs' = objs
  <2>1. Goto(t, "store") /\ pc[t] = "load" /\ loc' = [loc EXCEPT ![t].word = bit_map_data]
        /\ UNCHANGED <<metaVars, diskVars>>
    BY <1>1 DEF LoadWord
  <2> QED
    BY <2>1, <1>t, GoesOn DEF Within, metaVars, diskVars, Locals
<1>2. ASSUME FillupSize(t) PROVE Within(t) /\ loc[t].op # "unlink" /\ objs' = objs
  <2>1. Goto(t, "done") /\ pc[t] = "fill" /\ UNCHANGED <<metaVars, diskVars>>
        /\ loc' = [loc EXCEPT ![t].ans = IF temp = loc[t].obj THEN objs[temp].size ELSE -1]
    BY <1>2 DEF FillupSize
  <2>2. loc[t].op # "unlink"
    BY <2>1, <1>t, InCall DEF InPlace, StepsOf
  <2> QED
    BY <2>1, <2>2, <1>t, GoesOn DEF Within, metaVars, diskVars, Locals
<1>3. ASSUME ChooseBlock(t) PROVE Within(t) /\ loc[t].op # "unlink" /\ objs' = objs
  <2>1. /\ pc[t] = "lock" /\ UNCHANGED <<metaVars, diskVars>>
        /\ \/ Goto(t, "done") /\ loc' = [loc EXCEPT ![t].ans = Failed]
           \/ Goto(t, "mark") /\ \E b : loc' = [loc EXCEPT ![t].blk = b, ![t].word = bit_map_data]
    BY <1>3 DEF ChooseBlock
  <2>2. loc[t].op # "unlink"
    BY <2>1, <1>t, InCall DEF InPlace, StepsOf
  <2>3. pc'[t] # "idle" /\ \A u \in Threads \ {t} : pc'[u] = pc[u]
    BY <2>1, <1>t, GoesOn
  <2> QED
    BY <2>1, <2>2, <2>3, <1>t DEF Within, metaVars, diskVars, Locals
<1>4. ASSUME MarkBlock(t) PROVE Within(t) /\ pc'[t] # "done" /\ objs' = objs
  <2>1. Goto(t, "data") /\ pc[t] = "mark" /\ UNCHANGED <<metaVars, diskVars>>
        /\ loc' = [loc EXCEPT ![t].word = {}]
    BY <1>4 DEF MarkBlock
  <2> QED
    BY <2>1, <1>t, GoesOn DEF Within, metaVars, diskVars, Locals
<1>5. ASSUME WriteData(t) PROVE Within(t) /\ pc'[t] # "done" /\ objs' = objs
  <2>1. Goto(t, "link") /\ pc[t] = "data" /\ UNCHANGED <<metaVars, saved, mounted, loc>>
    BY <1>5 DEF WriteData
  <2> QED
    BY <2>1, <1>t, GoesOn DEF Within, metaVars
<1>6. ASSUME ChooseIndirect(t) PROVE Within(t) /\ pc'[t] # "done" /\ objs' = objs
  <2>1. /\ Goto(t, "grab") /\ pc[t] = "link" /\ UNCHANGED <<metaVars, diskVars>>
        /\ \E l : loc' = [loc EXCEPT ![t].todo = l, ![t].word = bit_map_data]
    BY <1>6 DEF ChooseIndirect, Linking
  <2> QED
    BY <2>1, <1>t, GoesOn DEF Within, metaVars, diskVars, Locals
<1>7. ASSUME RelinkEntry(t) PROVE Within(t) /\ pc'[t] # "done" /\ objs' = objs
  <2>1. /\ Goto(t, "load") /\ pc[t] = "link" /\ UNCHANGED <<metaVars, diskVars>>
        /\ \E l : loc' = [loc EXCEPT ![t].todo = l]
    BY <1>7 DEF RelinkEntry, Linking
  <2> QED
    BY <2>1, <1>t, GoesOn DEF Within, metaVars, diskVars, Locals
<1>8. ASSUME FreeOld(t) PROVE Within(t) /\ loc[t].op # "unlink" /\ objs' = objs
  <2>1. /\ Goto(t, "done") /\ pc[t] = "store" /\ UNCHANGED <<metaVars, saved, mounted>>
        /\ loc[t].op = "write" /\ loc' = [loc EXCEPT ![t].todo = NoCall.todo, ![t].word = {}]
    BY <1>8 DEF FreeOld
  <2> QED
    BY <2>1, <1>t, GoesOn DEF Within, metaVars, Locals
<1>9. ASSUME ReadEntry(t) PROVE Within(t) /\ pc'[t] # "done" /\ objs' = objs
  <2>1. /\ Goto(t, "fetch") /\ pc[t] = "entry" /\ UNCHANGED <<metaVars, diskVars>>
        /\ \E b : loc' = [loc EXCEPT ![t].blk = b]
    BY <1>9, <1>t DEF ReadEntry, Locals
  <2> QED
    BY <2>1, <1>t, GoesOn DEF Within, metaVars, diskVars, Locals
<1>10. ASSUME ReadData(t) PROVE Within(t) /\ loc[t].op # "unlink" /\ objs' = objs
  <2>1. /\ Goto(t, "done") /\ pc[t] = "fetch" /\ UNCHANGED <<metaVars, diskVars>>
        /\ \E v : loc' = [loc EXCEPT ![t].ans = v, ![t].blk = 0]
    BY <1>10 DEF ReadData
  <2>2. loc[t].op # "unlink"
    BY <2>1, <1>t, InCall DEF InPlace, StepsOf
  <2> QED
    BY <2>1, <2>2, <1>t, GoesOn DEF Within, metaVars, diskVars, Locals
<1>11. ASSUME NextPointer(t)
       PROVE  Within(t) /\ objs' = objs /\ (pc'[t] = "done" => NoPointers(loc[t].obj))
  <2> DEFINE s == loc[t].obj
             list == IF UsedDirects(s) # {} THEN Just(objs[s].direct[First(UsedDirects(s))])
                ELSE IF UsedIndirects(s) # {}
                     THEN TableBlocks(objs[s].indirect[First(UsedIndirects(s))])
                     ELSE NoCall.todo
             label == IF DOMAIN list = {} THEN "done" ELSE "load"
  <2>1. /\ Goto(t, label) /\ pc[t] = "free" /\ UNCHANGED <<metaVars, diskVars>>
        /\ \E l : loc' = [loc EXCEPT ![t].todo = l]
    BY <1>11 DEF NextPointer
  <2>2. UsedDirects(s) # {} => DOMAIN list # {}
    BY DEF Just
  <2>3. UsedDirects(s) = {} /\ UsedIndirects(s) # {} => DOMAIN list # {}
    BY DEF TableBlocks
  <2>4. label = "done" => NoPointers(s)
    BY <2>2, <2>3 DEF NoPointers
  <2> HIDE DEF list
  <2>5. pc'[t] = label /\ pc'[t] # "idle" /\ \A u \in Threads \ {t} : pc'[u] = pc[u]
    BY <2>1, <1>t, GoesOn
  <2> QED
    BY <2>1, <2>4, <2>5, <1>t DEF Within, metaVars, diskVars, Locals
<1>12. objs' = objs => (NoPointers(loc[t].obj)' <=> NoPointers(loc'[t].obj))
  BY DEF NoPointers, UsedDirects, UsedIndirects
<1> QED
  BY <1>1, <1>2, <1>3, <1>4, <1>5, <1>6, <1>7, <1>8, <1>9, <1>10, <1>11, <1>12 DEF Within

(* Steps that touch no inode keep what is saved and what removals have      *)
(* cleared.                                                                 *)
LEMMA QuietSteps ==
  ASSUME SInv, NEW t \in Threads,
         \/ FillupSize(t) \/ LoadWord(t) \/ NextPointer(t) \/ ChooseBlock(t) \/ MarkBlock(t)
         \/ WriteData(t) \/ ChooseIndirect(t) \/ RelinkEntry(t) \/ FreeOld(t)
         \/ ReadEntry(t) \/ ReadData(t)
  PROVE  Facts'
<1>1. /\ Within(t) /\ objs' = objs
      /\ loc[t].op = "unlink" /\ pc'[t] = "done" => NoPointers(loc[t].obj)'
  BY QuietWithin DEF SInv
<1> QED
  BY <1>1, WithinCall DEF Within

(* The steps that change the object of the call. *)
LEMMA LinkWithin ==
  ASSUME TInv, NEW t \in Threads,
         \/ LinkDirect(t) \/ RelinkDirect(t) \/ GrabIndirect(t) \/ LinkEntry(t) \/ FreeBlock(t)
  PROVE  /\ Within(t) /\ loc[t].op \in {"write", "unlink"}
         /\ \A s \in Slots : objs'[s] # objs[s] => s = loc[t].obj
         /\ loc[t].op = "unlink" => /\ pc'[t] # "done"
                                   /\ \A s \in Slots : objs'[s].size = objs[s].size
<1>t. loc \in [Threads -> Locals] /\ objs \in [Slots -> Objects]
  BY DEF TInv, DataTyped
<1> DEFINE Goal == /\ Within(t) /\ loc[t].op \in {"write", "unlink"}
                   /\ \A s \in Slots : objs'[s] # objs[s] => s = loc[t].obj
                   /\ loc[t].op = "unlink" => /\ pc'[t] # "done"
                                             /\ \A s \in Slots : objs'[s].size = objs[s].size
<1>1. ASSUME LinkDirect(t) \/ LinkEntry(t) \/ RelinkDirect(t) PROVE Goal
  <2>1. pc[t] = "link" /\ loc[t].op = "write"
    BY <1>1, <1>t, LinkingIs DEF LinkDirect, LinkEntry, RelinkDirect
  <2>2. Goto(t, "done") \/ Goto(t, "load")
    BY <1>1 DEF LinkDirect, LinkEntry, RelinkDirect
  <2>3. \A s \in Slots : s # loc[t].obj => objs'[s] = objs[s]
    BY <1>1, <1>t DEF LinkDirect, LinkEntry, RelinkDirect, SetDirect
  <2>4. /\ \A u \in Threads \ {t} : loc'[u] = loc[u]
        /\ loc'[t].op = loc[t].op /\ loc'[t].obj = loc[t].obj
        /\ UNCHANGED <<bit_map_inode, d_bit_map, saved, mounted>>
    BY <1>1, <1>t DEF LinkDirect, LinkEntry, RelinkDirect, diskVars, Locals
  <2> QED
    BY <2>1, <2>2, <2>3, <2>4, <1>t, GoesOn DEF Within
<1>2. ASSUME GrabIndirect(t) PROVE Goal
  <2>1. pc[t] = "grab" /\ Goto(t, "done")
        /\ loc' = [loc EXCEPT ![t].todo = NoCall.todo, ![t].word = {}]
        /\ UNCHANGED <<bit_map_inode, d_bit_map, saved, mounted>>
    BY <1>2 DEF GrabIndirect
  <2>2. loc[t].op = "write"
    BY <2>1, <1>t, InCall DEF InPlace, StepsOf, Locals, CallOps
  <2>3. \A s \in Slots : s # loc[t].obj => objs'[s] = objs[s]
    BY <1>2, <1>t DEF GrabIndirect
  <2> QED
    BY <2>1, <2>2, <2>3, <1>t, GoesOn DEF Within, Locals
<1>3. ASSUME FreeBlock(t) PROVE Goal
  <2>1. /\ pc[t] = "store" /\ loc[t].op = "unlink" /\ (Goto(t, "free") \/ Goto(t, "load"))
        /\ \E l : loc' = [loc EXCEPT ![t].todo = l, ![t].word = {}]
        /\ ClearPointer(loc[t].obj) \/ UNCHANGED objs
        /\ UNCHANGED <<bit_map_inode, d_bit_map, saved, mounted>>
    BY <1>3, <1>t DEF FreeBlock, diskVars, Locals
  <2>2. /\ \A s \in Slots : s # loc[t].obj => objs'[s] = objs[s]
        /\ \A s \in Slots : objs'[s].size = objs[s].size
    <3>1. \A s \in Slots : s # loc[t].obj => objs'[s] = objs[s]
      BY <2>1, <1>t DEF ClearPointer
    <3>2. ASSUME NEW s \in Slots
          PROVE  \/ objs'[s] = objs[s]
                 \/ objs'[s] = [objs[s] EXCEPT !.direct[First(UsedDirects(loc[t].obj))] = 0]
                 \/ objs'[s] = [objs[s] EXCEPT !.indirect[First(UsedIndirects(loc[t].obj))] = 0]
      BY <2>1, <1>t DEF ClearPointer
    <3>3. ASSUME NEW s \in Slots PROVE objs'[s].size = objs[s].size
      <4>1. objs[s] \in Objects
        BY <1>t
      <4>2. CASE objs'[s] = [objs[s] EXCEPT !.direct[First(UsedDirects(loc[t].obj))] = 0]
        BY <4>1, <4>2 DEF Objects
      <4>3. CASE objs'[s] = [objs[s] EXCEPT !.indirect[First(UsedIndirects(loc[t].obj))] = 0]
        BY <4>1, <4>3 DEF Objects
      <4> QED
        BY <3>2, <4>2, <4>3
    <3> QED
      BY <3>1, <3>3
  <2>3. Within(t) /\ pc'[t] # "done"
    BY <2>1, <1>t, GoesOn DEF Within, Locals
  <2> QED
    BY <2>1, <2>2, <2>3
<1> QED
  BY <1>1, <1>2, <1>3

(* So do steps that change an inode: its block of the table is marked. *)
LEMMA LinkSteps ==
  ASSUME SInv, NEW t \in Threads,
         \/ LinkDirect(t) \/ RelinkDirect(t) \/ GrabIndirect(t) \/ LinkEntry(t) \/ FreeBlock(t)
  PROVE  Facts'
<1>1. /\ Within(t) /\ loc[t].op \in {"write", "unlink"}
      /\ \A s \in Slots : objs'[s] # objs[s] => s = loc[t].obj
      /\ loc[t].op = "unlink" => /\ pc'[t] # "done"
                                /\ \A s \in Slots : objs'[s].size = objs[s].size
  BY LinkWithin DEF SInv
<1> QED
  BY <1>1, WithinCall DEF Within

(* The steps that start a call. *)
LEMMA Starts ==
  ASSUME TInv, NEW t \in Threads, pc[t] = "idle", NEW label, Goto(t, label), label # "idle",
         NEW c, loc' = [loc EXCEPT ![t] = c]
  PROVE  /\ pc'[t] = label /\ loc'[t] = c
         /\ \A u \in Threads \ {t} : pc'[u] = pc[u] /\ loc'[u] = loc[u]
BY DEF TInv, Goto

(* A call that changes nothing but temp. *)
LEMMA LookStep ==
  ASSUME SInv, NEW t \in Threads, NEW op, NEW s, NEW o, Admitted(t, op, s, o),
         op \in {"open", "getattr", "read"}, NEW c, loc' = [loc EXCEPT ![t] = c],
         c.op = op, c.obj = s, NEW label, Goto(t, label), label # "idle",
         UNCHANGED <<metaVars, diskVars>>
  PROVE  Facts'
<1>t. TInv /\ bit_map_inode \subseteq Slots
  BY DEF SInv, TInv, DataTyped
<1>1. pc[t] = "idle" /\ mounted
  BY DEF Admitted
<1>2. /\ pc'[t] # "idle" /\ loc'[t] = c
      /\ \A u \in Threads \ {t} : pc'[u] = pc[u] /\ loc'[u] = loc[u]
  BY <1>t, <1>1, Starts
<1>3. loc'[t].op \notin {"create", "unlink", "rename", "write"}
  BY <1>2
<1> QED
  BY <1>t, <1>1, <1>2, <1>3, StartOfCall DEF metaVars, diskVars, DirOps

(* So do calls that only look. *)
LEMMA LookSteps ==
  ASSUME SInv, NEW t \in Threads,
         \/ \E k \in Keys : \E op \in {"open", "getattr"} : Find(t, op, k) \/ FindNothing(t, op, k)
         \/ \E s \in Slots, o \in Offsets : Read(t, s, o)
  PROVE  Facts'
<1>1. ASSUME NEW k \in Keys, NEW op \in {"open", "getattr"}, Find(t, op, k) PROVE Facts'
  <2> DEFINE s == First(Matches(k))
             c == [NoCall EXCEPT !.op = op, !.obj = s, !.off = 0, !.value = NoValue]
             label == IF op = "open" THEN "done" ELSE "fill"
  <2>1. /\ Admitted(t, op, s, 0) /\ loc' = [loc EXCEPT ![t] = c] /\ Goto(t, label)
        /\ label # "idle" /\ UNCHANGED <<metaVars, diskVars>>
    BY <1>1 DEF Find, Start
  <2>2. c.op = op /\ c.obj = s
    BY DEF NoCall
  <2> HIDE DEF c, label, s
  <2> QED
    BY <2>1, <2>2, LookStep
<1>2. ASSUME NEW k \in Keys, NEW op \in {"open", "getattr"}, FindNothing(t, op, k) PROVE Facts'
  <2> DEFINE c == [NoCall EXCEPT !.op = op, !.obj = -1, !.ans = Failed]
  <2>1. /\ Admitted(t, op, -1, 0) /\ loc' = [loc EXCEPT ![t] = c] /\ Goto(t, "done")
        /\ UNCHANGED <<metaVars, diskVars>>
    BY <1>2 DEF FindNothing
  <2>2. c.op = op /\ c.obj = -1
    BY DEF NoCall
  <2> HIDE DEF c
  <2> QED
    BY <2>1, <2>2, LookStep
<1>3. ASSUME NEW s \in Slots, NEW o \in Offsets, Read(t, s, o) PROVE Facts'
  <2> DEFINE blk == IF o < NDirect THEN objs[s].direct[o] ELSE objs[s].indirect[Alpha(o)]
             c == [NoCall EXCEPT !.op = "read", !.obj = s, !.off = o, !.blk = blk]
             label == IF o < NDirect THEN "fetch" ELSE "entry"
  <2>1. /\ Admitted(t, "read", s, o) /\ loc' = [loc EXCEPT ![t] = c] /\ Goto(t, label)
        /\ label # "idle" /\ UNCHANGED <<metaVars, diskVars>>
    BY <1>3 DEF Read
  <2>2. c.op = "read" /\ c.obj = s
    BY DEF NoCall
  <2> HIDE DEF c, label
  <2> QED
    BY <2>1, <2>2, LookStep
<1> QED
  BY <1>1, <1>2, <1>3

(* So do creating, removing and renaming, which the directory lock keeps    *)
(* apart.                                                                   *)
LEMMA DirSteps ==
  ASSUME SInv, NEW t \in Threads, NEW k \in Keys,
         Create(t, k) \/ Unlink(t, k) \/ \E new \in Keys : Rename(t, k, new)
  PROVE  Facts'
<1>t. /\ TInv /\ bit_map_inode \subseteq Slots /\ objs \in [Slots -> Objects]
      /\ \A s \in Slots : objs[s] \in Objects
  BY DEF SInv, TInv, DataTyped
<1>1. CASE Create(t, k)
  <2> DEFINE free == Slots \ bit_map_inode
             s == IF free = {} THEN -1 ELSE First(free)
             c == [NoCall EXCEPT !.op = "create", !.obj = s, !.off = 0, !.value = NoValue]
  <2>1. /\ Admitted(t, "create", -1, 0) /\ loc' = [loc EXCEPT ![t] = c] /\ Goto(t, "done")
        /\ UNCHANGED diskVars
    BY <1>1 DEF Create, Start
  <2>2. c.op = "create" /\ c.obj = s
    BY DEF NoCall
  <2> HIDE DEF c
  <2>0. pc[t] = "idle" /\ mounted
    BY <2>1 DEF Admitted
  <2>3. /\ pc'[t] = "done" /\ loc'[t] = c
        /\ \A u \in Threads \ {t} : pc'[u] = pc[u] /\ loc'[u] = loc[u]
    BY <1>t, <2>0, <2>1, Starts
  <2>4. \A u \in Others(t) : loc[u].op \notin DirOps
    BY <2>1 DEF Admitted, DirOps
  <2>5. CASE free = {}
    <3>1. UNCHANGED metaVars /\ s \notin Slots
      BY <1>1, <2>5, Numbers DEF Create
    <3> HIDE DEF s
    <3> QED
      BY <1>t, <2>1, <2>2, <2>0, <2>3, <2>4, <3>1, StartOfCall DEF metaVars, diskVars
  <2>6. CASE free # {}
    <3>1. /\ s \in Slots /\ objs' = [objs EXCEPT ![s].key = k] /\ (Fits(s) \/ Spill)
          /\ bit_map_inode' = bit_map_inode \cup {s} /\ d_bit_map' = d_bit_map \cup {MarkOf(s)}
      BY <1>1, <2>6, FirstIs, Numbers DEF Create
    <3> HIDE DEF s
    <3>2. \A r \in Slots : /\ r # s => objs'[r] = objs[r]
                           /\ objs'[r].direct = objs[r].direct /\ objs'[r].size = objs[r].size
                           /\ objs'[r].indirect = objs[r].indirect
      BY <1>t, <3>1 DEF Objects
    <3> QED
      BY <1>t, <2>1, <2>2, <2>0, <2>3, <2>4, <3>1, <3>2, StartOfCall DEF diskVars, DirOps
  <2> QED
    BY <2>5, <2>6
<1>2. CASE \E new \in Keys : Rename(t, k, new)
  <2> DEFINE s == First(Matches(k))
             c == [NoCall EXCEPT !.op = "rename", !.obj = s, !.off = 0, !.value = NoValue]
  <2>1. PICK new \in Keys :
        /\ Admitted(t, "rename", s, 0) /\ loc' = [loc EXCEPT ![t] = c] /\ Goto(t, "done")
        /\ objs' = [objs EXCEPT ![s].key = new] /\ k \in KeysInUse
        /\ d_bit_map' = d_bit_map \cup {MarkOf(s)} /\ UNCHANGED <<bit_map_inode, diskVars>>
    BY <1>2 DEF Rename, Start
  <2>2. c.op = "rename" /\ c.obj = s
    BY DEF NoCall
  <2> HIDE DEF c
  <2>0. pc[t] = "idle" /\ mounted
    BY <2>1 DEF Admitted
  <2>3. /\ pc'[t] = "done" /\ loc'[t] = c
        /\ \A u \in Threads \ {t} : pc'[u] = pc[u] /\ loc'[u] = loc[u]
    BY <1>t, <2>0, <2>1, Starts
  <2>4. \A u \in Others(t) : loc[u].op \notin DirOps
    BY <2>1 DEF Admitted, DirOps
  <2>5. s \in Slots /\ (Fits(s) \/ Spill)
    BY <1>t, <2>1, MatchesFirst DEF SInv, Facts, Unspilled
  <2> HIDE DEF s
  <2>6. \A r \in Slots : /\ r # s => objs'[r] = objs[r]
                         /\ objs'[r].direct = objs[r].direct /\ objs'[r].size = objs[r].size
                         /\ objs'[r].indirect = objs[r].indirect
    BY <1>t, <2>1, <2>5 DEF Objects
  <2> QED
    BY <1>t, <2>1, <2>2, <2>0, <2>3, <2>4, <2>5, <2>6, StartOfCall DEF diskVars, DirOps
<1>3. CASE Unlink(t, k)
  <2> DEFINE s == First(Matches(k))
             c == [NoCall EXCEPT !.op = "unlink", !.obj = s, !.off = 0, !.value = NoValue]
  <2>1. /\ Admitted(t, "unlink", s, 0) /\ loc' = [loc EXCEPT ![t] = c] /\ Goto(t, "free")
        /\ objs' = [objs EXCEPT ![s].size = 0] /\ k \in KeysInUse
        /\ bit_map_inode' = bit_map_inode \ {s}
        /\ d_bit_map' = d_bit_map \cup {MarkOf(s)} /\ UNCHANGED diskVars
    BY <1>3 DEF Unlink, Start, ClearInode
  <2>2. c.op = "unlink" /\ c.obj = s
    BY DEF NoCall
  <2> HIDE DEF c
  <2>0. pc[t] = "idle" /\ mounted
    BY <2>1 DEF Admitted
  <2>3. /\ pc'[t] = "free" /\ loc'[t] = c
        /\ \A u \in Threads \ {t} : pc'[u] = pc[u] /\ loc'[u] = loc[u]
    BY <1>t, <2>0, <2>1, Starts
  <2>4. \A u \in Others(t) : loc[u].op \notin DirOps /\ loc[u].obj # s
    BY <2>1 DEF Admitted, DirOps, Moves
  <2>5. s \in Slots /\ s \in bit_map_inode /\ (Fits(s) \/ Spill)
    BY <1>t, <2>1, MatchesFirst DEF SInv, Facts, Unspilled
  <2> HIDE DEF s
  <2>6. /\ \A r \in Slots : /\ r # s => objs'[r] = objs[r]
                            /\ objs'[r].direct = objs[r].direct
                            /\ objs'[r].indirect = objs[r].indirect
                            /\ objs'[r].size \in {objs[r].size, 0}
        /\ objs'[s].size = 0
    BY <1>t, <2>1, <2>5 DEF Objects
  <2> QED
    BY <1>t, <2>1, <2>2, <2>0, <2>3, <2>4, <2>5, <2>6, StartOfCall DEF diskVars, DirOps
<1> QED
  BY <1>1, <1>2, <1>3

(* So does a write that begins, on a slot in use. *)
LEMMA WriteStep ==
  ASSUME SInv, NEW t \in Threads, NEW s \in Slots, NEW o \in Offsets, NEW v, Write(t, s, o, v)
  PROVE  Facts'
<1> DEFINE c == [NoCall EXCEPT !.op = "write", !.obj = s, !.off = o, !.value = v]
<1>t. TInv /\ bit_map_inode \subseteq Slots
  BY DEF SInv, TInv, DataTyped
<1>1. /\ Admitted(t, "write", s, o) /\ loc' = [loc EXCEPT ![t] = c] /\ Goto(t, "lock")
      /\ s \in bit_map_inode /\ d_bit_map' = d_bit_map \cup {MarkOf(s)}
      /\ UNCHANGED <<objs, bit_map_inode, diskVars>>
  BY DEF Write, Start, MarkDirty
<1>2. c.op = "write" /\ c.obj = s
  BY DEF NoCall
<1> HIDE DEF c
<1>0. pc[t] = "idle" /\ mounted
  BY <1>1 DEF Admitted
<1>3. /\ pc'[t] = "lock" /\ loc'[t] = c
      /\ \A u \in Threads \ {t} : pc'[u] = pc[u] /\ loc'[u] = loc[u]
  BY <1>t, <1>0, <1>1, Starts
<1> QED
  BY <1>t, <1>1, <1>0, <1>2, <1>3, StartOfCall DEF diskVars, DirOps

(* A call that returns leaves nothing behind, not even a removal. *)
LEMMA ReturnStep ==
  ASSUME SInv, NEW t \in Threads, Return(t)
  PROVE  Facts'
<1>t. TInv /\ pc \in [Threads -> Labels] /\ loc \in [Threads -> Locals]
  BY DEF SInv, TInv
<1>1. /\ pc[t] = "done" /\ pc' = [pc EXCEPT ![t] = "idle"]
      /\ UNCHANGED <<objs, bit_map_inode, d_bit_map, saved, mounted>>
      /\ \A u \in Threads \ {t} : pc'[u] = pc[u] /\ loc'[u] = loc[u]
  BY <1>t DEF Return, Goto, metaVars, diskVars
<1>2. pc'[t] = "idle"
  BY <1>1, <1>t
<1> HIDE <1>t
<1> USE DEF SInv, Facts
<1>3. \A s \in Slots : NoPointers(s)' <=> NoPointers(s)
  BY <1>1, SamePointers
<1>4. \A u \in Threads \ {t}, s \in Slots : Removing(u, s)' <=> Removing(u, s)
  BY <1>1 DEF Removing
<1>5. \A s \in Slots : ~Removing(t, s)'
  BY <1>2 DEF Removing
<1>6. DirAlone' /\ WritesInUse' /\ ChangesMarked'
  BY <1>1, <1>2 DEF DirAlone, WritesInUse, ChangesMarked
<1>7. UnlinksClear'
  BY <1>1, <1>3, <1>4, <1>5 DEF UnlinksClear
<1>8. FreeEmpty'
  <2>1. ASSUME NEW s \in Slots, s \notin bit_map_inode, Kept(s),
               \A u \in Threads : ~Removing(u, s)'
        PROVE  objs[s].size = 0 /\ NoPointers(s)
    <3>1. CASE Removing(t, s)
      BY <1>1, <3>1 DEF UnlinksClear
    <3>2. CASE ~Removing(t, s)
      BY <1>4, <2>1, <3>2 DEF FreeEmpty
    <3> QED
      BY <3>1, <3>2
  <2> QED
    BY <1>1, <1>3, <2>1 DEF FreeEmpty, Kept
<1>9. SavedRest' /\ SavedAtUnmount' /\ Unspilled'
  BY <1>1, <1>4, <1>5 DEF SavedRest, SavedAtUnmount, Unspilled, Kept
<1> QED
  BY <1>6, <1>7, <1>8, <1>9

(* The inodes that an unmount leaves out have not changed, if they fit. *)
LEMMA MountSteps ==
  ASSUME SInv, Unmount \/ Mount
  PROVE  /\ Facts'
         /\ UNCHANGED <<bit_map_inode, bit_map_data>>
         /\ \A s \in Slots : Kept(s) => objs'[s] = objs[s]
         /\ RemountsFit => UNCHANGED objs
<1> USE DEF SInv, Facts
<1>t. TInv /\ DataTyped /\ objs \in [Slots -> Objects] /\ saved.objs \in [Slots -> Objects]
  BY DEF TInv, DataTyped, Metadata
<1>1. UNCHANGED <<bit_map_inode, bit_map_data, pc, loc>> /\ \A t \in Threads : pc[t] = "idle"
  BY DEF Unmount, Mount, SavedAtUnmount, metaVars
<1>2. DirAlone' /\ WritesInUse' /\ UnlinksClear' /\ ChangesMarked'
  BY <1>1 DEF DirAlone, WritesInUse, UnlinksClear, ChangesMarked, Removing
<1>3. \A s \in Slots, t \in Threads : ~Removing(t, s) /\ ~Removing(t, s)'
  BY <1>1 DEF Removing
<1>4. \A s \in Slots : Kept(s) => objs'[s] = objs[s]
  BY DEF Unmount, Mount, SavedAtUnmount, metaVars
<1>5. FreeEmpty'
  <2>1. ASSUME NEW s \in Slots, s \notin bit_map_inode, Kept(s)
        PROVE  objs'[s].size = 0 /\ NoPointers(s)'
    <3>1. objs[s].size = 0 /\ NoPointers(s)
      BY <1>3, <2>1 DEF FreeEmpty
    <3> QED
      BY <1>4, <2>1, <3>1, SamePointers
  <2> QED
    BY <1>1, <2>1 DEF FreeEmpty, Kept
<1>6. RemountsFit => UNCHANGED objs
  <2> SUFFICES ASSUME RemountsFit PROVE objs' = objs
    OBVIOUS
  <2>1. \A s \in Slots : objs'[s] = objs[s]
    BY <1>4 DEF RemountsFit, Kept
  <2>2. objs' \in [Slots -> Objects]
    BY <1>t DEF Unmount, Mount, metaVars
  <2> QED
    BY <1>t, <2>1, <2>2
<1>7. CASE Unmount
  <2>1. /\ saved'.inodes = bit_map_inode /\ saved'.blocks = bit_map_data
        /\ saved'.objs = [s \in Slots |-> SavedInode(s)]
        /\ UNCHANGED <<objs, d_bit_map>> /\ "unmount" \in Ops
    BY <1>7 DEF Unmount, metaVars
  <2>2. \A s \in Slots : saved'.objs[s] = SavedInode(s)
    BY <2>1
  <2>3. ASSUME NEW s \in Slots PROVE Fits(s) \/ saved.objs[s] = objs[s] => saved'.objs[s] = objs[s]
    <3>1. MarkOf(s) \in d_bit_map \/ saved.objs[s] = objs[s]
      BY DEF SavedRest
    <3> QED
      BY <1>t, <2>2, <3>1, SavedIs
  <2>4. SavedRest'
    BY <2>1, <2>3 DEF SavedRest
  <2>5. ASSUME NEW s \in Slots, Kept(s) PROVE saved'.objs[s] = objs[s]
    BY <2>1, <2>3, <2>5 DEF Kept, Unspilled
  <2>6. SavedAtUnmount' /\ Unspilled'
    BY <1>1, <1>3, <2>1, <2>3, <2>5 DEF SavedAtUnmount, Unspilled, Kept
  <2> QED
    BY <1>1, <1>2, <1>4, <1>5, <1>6, <2>4, <2>6
<1>8. CASE Mount
  <2>1. objs' = saved.objs /\ saved' = saved /\ mounted'
    BY <1>8 DEF Mount
  <2>2. SavedRest' /\ SavedAtUnmount' /\ Unspilled'
    BY <1>1, <1>3, <2>1 DEF SavedRest, SavedAtUnmount, Unspilled
  <2> QED
    BY <1>1, <1>2, <1>4, <1>5, <1>6, <2>2
<1> QED
  BY <1>7, <1>8

(* Every step does. *)
LEMMA NextSInv == SInv /\ [Next]_vars => SInv'
<1> SUFFICES ASSUME SInv, [Next]_vars PROVE SInv'
  OBVIOUS
<1>t. TInv'
  BY NextTInv DEF SInv
<1>1. ASSUME NEW t \in Threads, NEW k \in Keys,
             \/ Create(t, k) \/ Unlink(t, k) \/ \E new \in Keys : Rename(t, k, new)
             \/ \E op \in {"open", "getattr"} : Find(t, op, k) \/ FindNothing(t, op, k)
      PROVE  Facts'
  BY <1>1, DirSteps, LookSteps
<1>2. ASSUME NEW t \in Threads, NEW s \in Slots, NEW o \in Offsets,
             Read(t, s, o) \/ \E v \in Values : Write(t, s, o, v)
      PROVE  Facts'
  BY <1>2, LookSteps, WriteStep
<1>3. ASSUME NEW t \in Threads,
             \/ FillupSize(t) \/ NextPointer(t) \/ LoadWord(t) \/ FreeBlock(t) \/ ChooseBlock(t)
             \/ MarkBlock(t) \/ WriteData(t) \/ LinkDirect(t) \/ RelinkDirect(t)
      PROVE  Facts'
  BY <1>3, QuietSteps, LinkSteps
<1>4. ASSUME NEW t \in Threads,
             \/ ChooseIndirect(t) \/ GrabIndirect(t) \/ LinkEntry(t) \/ RelinkEntry(t)
             \/ FreeOld(t) \/ ReadEntry(t) \/ ReadData(t) \/ Return(t)
      PROVE  Facts'
  BY <1>4, QuietSteps, LinkSteps, ReturnStep
<1>5. ASSUME UNCHANGED vars PROVE Facts'
  BY <1>5 DEF vars, metaVars, diskVars, SInv, Facts, DirAlone, WritesInUse, UnlinksClear, FreeEmpty,
     ChangesMarked, SavedRest, SavedAtUnmount, Unspilled, Kept, Removing, NoPointers, UsedDirects,
     UsedIndirects
<1> QED
  BY <1>t, <1>1, <1>2, <1>3, <1>4, <1>5, MountSteps DEF Next, SInv

(* So it holds always. *)
LEMMA SInvAlways == Spec => []SInv
BY InitSInv, NextSInv, PTL DEF Spec

-----------------------------------------------------------------------------
(* The inode table, the bitmaps and the saved metadata keep their types:    *)
(* pointers stay inside the disk and block numbers inside the bitmap, even  *)
(* where a block number is taken for a pointer.                             *)
THEOREM StoreTypeCorrect == Spec => []TypeOK
<1>1. SInv => TypeOK
  BY DEF SInv, TInv, DataTyped, TypeOK, Objects, Metadata, Labels
<1> QED
  BY <1>1, SInvAlways, PTL

(* A slot that is free and that no running destroy_object still clears has  *)
(* no size and no pointers, so create_object may reset nothing but the name *)
(* (objstore.c:117-142, 164-217), whatever calls overlap, and after         *)
(* remounts as long as unmounts keep the slot.                              *)
THEOREM FreeSlotsAreEmpty == Spec => []FreeSlotsEmpty
<1>1. SInv => FreeSlotsEmpty
  <2> SUFFICES ASSUME SInv, NEW s \in Slots, s \notin bit_map_inode, Kept(s),
                      \A t \in Threads : ~Removing(t, s)
               PROVE  objs[s] = [NoObject EXCEPT !.key = objs[s].key]
    BY DEF FreeSlotsEmpty, Removing
  <2>1. objs[s].size = 0 /\ NoPointers(s)
    BY DEF SInv, Facts, FreeEmpty
  <2>2. objs[s] \in Objects /\ DataTyped
    BY ObjectIs DEF SInv, TInv
  <2>3. objs[s].direct = [l \in Directs |-> 0] /\ objs[s].indirect = [l \in Indirects |-> 0]
    BY <2>1, <2>2, ObjectIs DEF NoPointers, UsedDirects, UsedIndirects
  <2> QED
    BY <2>1, <2>2, <2>3 DEF Objects, NoObject
<1> QED
  BY <1>1, SInvAlways, PTL

(* What clients have to keep to so that nothing spills, with the sizes of   *)
(* the code: at most 42 objects at a time.  create_object takes the first   *)
(* free slot, and the first 42 inodes lie in the block they mark            *)
(* (objstore.c:12-18, 125, 500).                                            *)
THEOREM FewObjectsFit ==
  ASSUME PerMark = 46, BlockBytes = 4048, bit_map_inode \subseteq Slots,
         Slots \ bit_map_inode # {}, Cardinality(bit_map_inode) < 42
  PROVE  Fits(First(Slots \ bit_map_inode))
<1> DEFINE s == First(Slots \ bit_map_inode)
<1>1. s \in Slots /\ s \in Nat /\ \A r \in Slots \ bit_map_inode : s <= r
  BY FirstIs, Numbers
<1> HIDE DEF s
<1>2. 0..s-1 \subseteq bit_map_inode
  <2> SUFFICES ASSUME NEW r \in 0..s-1, r \notin bit_map_inode PROVE FALSE
    OBVIOUS
  <2>1. r \in 0..NObjs-1 /\ r < s
    BY <1>1, SizesAssumption DEF Slots
  <2> QED
    BY <1>1, <2>1 DEF Slots
<1>3. IsFiniteSet(Slots) /\ IsFiniteSet(bit_map_inode)
  <2>1. 0 \in Int /\ NObjs-1 \in Int
    BY SizesAssumption
  <2>2. IsFiniteSet(0..NObjs-1)
    BY ONLY <2>1, FS_Interval
  <2> QED
    BY <2>2, FS_Subset DEF Slots
<1>4. Cardinality(0..s-1) = s
  <2>1. 0 \in Int /\ s-1 \in Int /\ (0 > s-1 => s = 0)
    BY <1>1
  <2>2. Cardinality(0..s-1) = IF 0 > s-1 THEN 0 ELSE s-1-0+1
    BY ONLY <2>1, FS_Interval
  <2> QED
    BY <1>1, <2>1, <2>2
<1>5. s <= 41
  <2>1. Cardinality(bit_map_inode) \in Nat /\ Cardinality(0..s-1) <= Cardinality(bit_map_inode)
    BY <1>2, <1>3, FS_Subset, FS_CardinalityType
  <2> QED
    BY <1>1, <1>4, <2>1
<1>6. MarkOf(s) = 0
  BY <1>1, <1>5 DEF MarkOf
<1>7. \A f \in Fields : BlockOf(s, f) = 0
  BY <1>1, <1>5 DEF Fields, BlockOf, FieldAt, InodeBytes
<1> QED
  BY <1>6, <1>7 DEF Fits, s

(* A mount finds the bitmaps that the last unmount left, and the inode of   *)
(* every slot that lies in the block its mark stands for, although          *)
(* objstore_destroy saves only the marked blocks of the inode table         *)
(* (objstore.c:464-530); the slots across a block's end may change, and if  *)
(* nobody uses one, none does.                                              *)
THEOREM MountFindsLastUnmount == Spec => MountRestores
<1> DEFINE Restored == /\ UNCHANGED <<bit_map_inode, bit_map_data>>
                       /\ \A s \in Slots : Kept(s) => objs'[s] = objs[s]
<1>1. SInv /\ [Next]_vars => [~mounted => Restored]_vars
  <2> SUFFICES ASSUME SInv, Next, ~mounted PROVE Restored
    OBVIOUS
  <2>1. \A t \in Threads : pc[t] = "idle"
    BY DEF SInv, Facts, SavedAtUnmount
  <2>2. Mount
    <3>1. ~Unmount
      BY DEF Unmount
    <3>2. \A t \in Threads : \A op, s, o : ~Admitted(t, op, s, o)
      BY DEF Admitted
    <3>3. ASSUME NEW t \in Threads, NEW k \in Keys
          PROVE  /\ ~Create(t, k) /\ ~Unlink(t, k) /\ \A new \in Keys : ~Rename(t, k, new)
                 /\ \A op \in {"open", "getattr"} : ~Find(t, op, k) /\ ~FindNothing(t, op, k)
      BY <3>2 DEF Create, Unlink, Rename, Find, FindNothing
    <3>4. ASSUME NEW t \in Threads, NEW s \in Slots, NEW o \in Offsets
          PROVE  ~Read(t, s, o) /\ \A v \in Values : ~Write(t, s, o, v)
      BY <3>2 DEF Read, Write
    <3>5. ASSUME NEW t \in Threads
          PROVE  /\ ~FillupSize(t) /\ ~NextPointer(t) /\ ~LoadWord(t) /\ ~FreeBlock(t)
                 /\ ~ChooseBlock(t) /\ ~MarkBlock(t) /\ ~WriteData(t) /\ ~Return(t)
                 /\ ~FreeOld(t) /\ ~ReadEntry(t) /\ ~ReadData(t) /\ ~GrabIndirect(t)
      BY <2>1 DEF FillupSize, NextPointer, LoadWord, FreeBlock, ChooseBlock, MarkBlock, WriteData,
                  Return, FreeOld, ReadEntry, ReadData, GrabIndirect
    <3>6. ASSUME NEW t \in Threads
          PROVE  /\ ~LinkDirect(t) /\ ~RelinkDirect(t) /\ ~ChooseIndirect(t)
                 /\ ~LinkEntry(t) /\ ~RelinkEntry(t)
      BY <2>1 DEF LinkDirect, RelinkDirect, ChooseIndirect, LinkEntry, RelinkEntry, Linking
    <3> QED
      BY <3>1, <3>3, <3>4, <3>5, <3>6 DEF Next
  <2> QED
    BY <2>2, MountSteps
<1> QED
  BY <1>1, SInvAlways, PTL DEF Spec, MountRestores

-----------------------------------------------------------------------------
(* The mutex of the bitmap. *)
MarkHolds == \A t \in Threads : pc[t] = "mark" => lock_data = t

(* Only ChooseBlock takes the mutex, only MarkBlock and a mount release it. *)
LEMMA LockSteps ==
  ASSUME TInv, [Next]_vars
  PROVE  \/ \E t \in Threads : ChooseBlock(t)
         \/ \E t \in Threads : MarkBlock(t)
         \/ Mount
         \/ /\ lock_data' = lock_data
            /\ \A u \in Threads : pc'[u] = "mark" <=> pc[u] = "mark"
<1>t. pc \in [Threads -> Labels]
  BY DEF TInv
<1>0. \A t \in Threads : \A label : Goto(t, label) /\ label # "mark" /\ pc[t] # "mark"
        => \A u \in Threads : pc'[u] = "mark" <=> pc[u] = "mark"
  BY <1>t DEF Goto
<1> DEFINE Same == /\ lock_data' = lock_data
                   /\ \A u \in Threads : pc'[u] = "mark" <=> pc[u] = "mark"
<1>1. ASSUME NEW t \in Threads, NEW k \in Keys,
             \/ Create(t, k) \/ Unlink(t, k) \/ \E new \in Keys : Rename(t, k, new)
             \/ \E op \in {"open", "getattr"} : Find(t, op, k) \/ FindNothing(t, op, k)
      PROVE  Same
  <2>1. lock_data' = lock_data /\ pc[t] # "mark"
    BY <1>1 DEF Create, Unlink, Rename, Find, FindNothing, Admitted
  <2>2. Goto(t, "done") \/ Goto(t, "free") \/ Goto(t, "fill")
    BY <1>1 DEF Create, Unlink, Rename, Find, FindNothing
  <2> QED
    BY <2>1, <2>2, <1>0
<1>2. ASSUME NEW t \in Threads, NEW s \in Slots, NEW o \in Offsets,
             Read(t, s, o) \/ \E v \in Values : Write(t, s, o, v)
      PROVE  Same
  <2>1. lock_data' = lock_data /\ pc[t] # "mark"
    BY <1>2 DEF Read, Write, Admitted
  <2>2. Goto(t, "fetch") \/ Goto(t, "entry") \/ Goto(t, "lock")
    BY <1>2 DEF Read, Write
  <2> QED
    BY <2>1, <2>2, <1>0
<1>3. ASSUME NEW t \in Threads,
             \/ FillupSize(t) \/ NextPointer(t) \/ LoadWord(t) \/ FreeBlock(t) \/ WriteData(t)
      PROVE  Same
  <2>1. lock_data' = lock_data /\ pc[t] # "mark"
    BY <1>3 DEF FillupSize, NextPointer, LoadWord, FreeBlock, WriteData
  <2>2. Goto(t, "done") \/ Goto(t, "load") \/ Goto(t, "store") \/ Goto(t, "free") \/ Goto(t, "link")
    BY <1>3 DEF FillupSize, NextPointer, LoadWord, FreeBlock, WriteData
  <2> QED
    BY <2>1, <2>2, <1>0
<1>4. ASSUME NEW t \in Threads,
             \/ LinkDirect(t) \/ RelinkDirect(t) \/ ChooseIndirect(t) \/ GrabIndirect(t)
             \/ LinkEntry(t) \/ RelinkEntry(t)
      PROVE  Same
  <2>1. lock_data' = lock_data /\ pc[t] # "mark"
    BY <1>4 DEF LinkDirect, RelinkDirect, ChooseIndirect, GrabIndirect, LinkEntry, RelinkEntry, Linking
  <2>2. Goto(t, "done") \/ Goto(t, "load") \/ Goto(t, "grab")
    BY <1>4 DEF LinkDirect, RelinkDirect, ChooseIndirect, GrabIndirect, LinkEntry, RelinkEntry
  <2> QED
    BY <2>1, <2>2, <1>0
<1>5. ASSUME NEW t \in Threads, FreeOld(t) \/ ReadEntry(t) \/ ReadData(t) \/ Return(t)
      PROVE  Same
  <2>1. lock_data' = lock_data /\ pc[t] # "mark"
    BY <1>5 DEF FreeOld, ReadEntry, ReadData, Return
  <2>2. Goto(t, "done") \/ Goto(t, "fetch") \/ Goto(t, "idle")
    BY <1>5 DEF FreeOld, ReadEntry, ReadData, Return
  <2> QED
    BY <2>1, <2>2, <1>0
<1>6. ASSUME Unmount \/ UNCHANGED vars PROVE Same
  BY <1>6 DEF Unmount, vars
<1> HIDE DEF Same
<1>7. (\E t \in Threads : ChooseBlock(t)) \/ (\E t \in Threads : MarkBlock(t)) \/ Mount \/ Same
  BY <1>1, <1>2, <1>3, <1>4, <1>5, <1>6 DEF Next
<1> QED
  BY <1>7 DEF Same

(* Who chooses or marks a block holds the mutex, and only one does. *)
LEMMA NextMarkHolds == SInv /\ MarkHolds /\ [Next]_vars => MarkHolds'
<1> SUFFICES ASSUME SInv, MarkHolds, [Next]_vars PROVE MarkHolds'
  OBVIOUS
<1>t. TInv /\ pc \in [Threads -> Labels]
  BY DEF SInv, TInv
<1>1. ASSUME NEW t \in Threads, ChooseBlock(t) PROVE MarkHolds'
  <2>1. lock_data = NoThread /\ lock_data' = t /\ (Goto(t, "done") \/ Goto(t, "mark"))
    BY <1>1 DEF ChooseBlock, LockAvailable
  <2>2. \A u \in Threads : pc[u] # "mark"
    BY <2>1, ClientsAssumption DEF MarkHolds
  <2> QED
    BY <1>t, <2>1, <2>2 DEF MarkHolds, Goto
<1>2. ASSUME NEW t \in Threads, MarkBlock(t) PROVE MarkHolds'
  <2>1. pc[t] = "mark" /\ Goto(t, "data")
    BY <1>2 DEF MarkBlock
  <2> QED
    BY <1>t, <2>1 DEF MarkHolds, Goto
<1>3. ASSUME Mount PROVE MarkHolds'
  BY <1>3 DEF Mount, MarkHolds, SInv, Facts, SavedAtUnmount
<1> QED
  BY <1>t, <1>1, <1>2, <1>3, LockSteps DEF MarkHolds

(* Two writes never choose a block of data at the same time: lock_data      *)
(* excludes them between the load of the word and its store, so neither     *)
(* loses the other's block (objstore.c:269-275), rewrites and remounts      *)
(* included.                                                                *)
THEOREM OneMarksAtATime ==
  Spec => [](\A t, u \in Threads : pc[t] = "mark" /\ pc[u] = "mark" => t = u)
<1>1. Init => MarkHolds
  BY DEF Init, MarkHolds
<1>2. MarkHolds => \A t, u \in Threads : pc[t] = "mark" /\ pc[u] = "mark" => t = u
  BY DEF MarkHolds
<1> QED
  BY <1>1, <1>2, NextMarkHolds, SInvAlways, PTL DEF Spec

-----------------------------------------------------------------------------
(***************************************************************************)
(* The blocks of the object store: every block has one owner and the       *)
(* bitmap agrees with the pointers, for every number of threads, objects,  *)
(* pointers and blocks, as long as offsets are written once, no object     *)
(* that an unmount saves in part is created, nothing overlaps with a       *)
(* removal, and writes do not overlap where there are indirect blocks,     *)
(* which are chosen without the mutex.                                     *)
(***************************************************************************)

OneThread == \A t, u \in Threads : t = u
Orderly ==
    /\ ~Rewrite /\ RemountsFit
    /\ OneThread \/ ("unlink" \in Alone /\ (NIndirect = 0 \/ "write" \in Alone))

(* A write that needs a new indirect block finds a free one. *)
IndirectRoom ==
    \A t \in Threads : pc[t] = "link" /\ loc[t].off \notin Directs /\ Indirect(t) = 0
        => DataBlocks \ bit_map_data # {}

(* The pointers of an object: those of its offsets, and its indirect blocks *)
(* at the positions below 0.                                                *)
Tables == {-1 - i : i \in Indirects}
Positions == Offsets \cup Tables
Ptr(s, p) == IF p \in Offsets THEN Pointer(s, p) ELSE objs[s].indirect[-1 - p]
Points(b) == \E s \in Slots, p \in Positions : Ptr(s, p) = WriteOffset + b

Writing(t)  == pc[t] # "idle" /\ loc[t].op = "write" /\ pc[t] # "done"
Freeing(t)  == pc[t] \in {"load", "store"} /\ loc[t].op = "unlink"
Holding(t)  == pc[t] \in {"data", "link", "grab"}

(* What the next pointer of an object being removed stands for. *)
NextPositions(s) ==
    IF UsedDirects(s) # {} THEN {First(UsedDirects(s))}
    ELSE IF UsedIndirects(s) # {}
         THEN LET i == First(UsedIndirects(s)) IN
              {-1 - i} \cup {o \in Offsets \ Directs : Alpha(o) = i /\ Ptr(s, o) # 0}
         ELSE {}
NextBlocks(s) == {Ptr(s, p) - WriteOffset : p \in NextPositions(s)}
Rest(t) == {loc[t].todo[i] : i \in DOMAIN loc[t].todo}
Freed(b) == \E t \in Threads, s \in Slots :
    Freeing(t) /\ loc[t].obj = s /\ b \in NextBlocks(s) \ Rest(t)
Holds(t, b) == Holding(t) /\ loc[t].blk = b
Held(b) == \E t \in Threads : Holds(t, b)

(* Who overlaps with whom. *)
Apart ==
    \A t, u \in Threads : t # u /\ pc[t] # "idle" /\ pc[u] # "idle" =>
        /\ loc[t].op # "unlink"
        /\ loc[t].op = "write" /\ loc[u].op = "write" =>
              NIndirect = 0 /\ loc[t].obj # loc[u].obj

(* Every pointer leads to a data block, and no two to the same. *)
PointersInside ==
    \A s \in Slots, p \in Positions : Ptr(s, p) # 0 => Ptr(s, p) - WriteOffset \in DataBlocks
PointersApart ==
    \A s, r \in Slots, p, q \in Positions :
        Ptr(s, p) # 0 /\ Ptr(s, p) = Ptr(r, q) => s = r /\ p = q

(* The bitmap has the blocks the pointers lead to, without those that a     *)
(* removal has already freed, and those of the writes that have yet to link *)
(* them, which nobody else has.                                             *)
MapExact == \A b \in DataBlocks : b \in bit_map_data <=> (Points(b) /\ ~Freed(b)) \/ Held(b)
HeldOnce ==
    \A t \in Threads, b \in DataBlocks : Holds(t, b) =>
        ~Points(b) /\ \A u \in Threads : Holds(u, b) => u = t

(* A word that was loaded is still what the bitmap says. *)
WordsCurrent ==
    \A t \in Threads :
        /\ pc[t] \in {"mark", "store", "grab"} => loc[t].word = bit_map_data
        /\ pc[t] = "mark" => loc[t].blk \notin bit_map_data
        /\ pc[t] = "grab" => loc[t].todo[0] \in DataBlocks \ bit_map_data

(* A write finds no pointer at its offset until it has put one there. *)
OffsetsNew ==
    \A t \in Threads, s \in Slots, o \in Offsets :
        Writing(t) /\ loc[t].obj = s /\ loc[t].off = o =>
            /\ pc[t] \notin {"load", "store"} /\ Ptr(s, o) = 0
            /\ pc[t] = "grab" /\ o \notin Directs => Ptr(s, -1 - Alpha(o)) = 0

(* What a removal still has to free belongs to the next pointer. *)
RestsLeft ==
    \A t \in Threads, s \in Slots : Freeing(t) /\ loc[t].obj = s =>
        /\ Rest(t) \subseteq NextBlocks(s)
        /\ \A i, j \in DOMAIN loc[t].todo : loc[t].todo[i] = loc[t].todo[j] => i = j

Blocks == /\ Apart /\ PointersInside /\ PointersApart /\ MapExact /\ HeldOnce
          /\ WordsCurrent /\ OffsetsNew /\ RestsLeft

BInv == SInv /\ MarkHolds /\ Blocks

-----------------------------------------------------------------------------
(* Every entry of every indirect pointer is that of one offset.             *)
LEMMA OffsetOfEntry ==
  ASSUME NEW i \in Indirects, NEW e \in Entries
  PROVE  \E o \in Offsets \ Directs : Alpha(o) = i /\ Alp(o) = e
<1> DEFINE x == i * NPer + e
           o == NDirect + x
<1>1. /\ NDirect \in Nat /\ NPer \in Nat /\ NPer > 0 /\ NIndirect \in Nat
      /\ i \in Nat /\ i + 1 <= NIndirect /\ e \in Nat /\ e < NPer
  BY SizesAssumption DEF Indirects, Entries
<1>2. x \in Nat /\ x < NIndirect * NPer
  <2>1. \A m, n, k \in Nat : m <= n => m * k <= n * k
    OBVIOUS
  <2>2. (i + 1) * NPer <= NIndirect * NPer
    BY <1>1, <2>1
  <2>3. (i + 1) * NPer = i * NPer + NPer /\ i * NPer \in Nat
    BY <1>1
  <2> QED
    BY <1>1, <2>2, <2>3
<1>3. x \div NPer = i /\ (x % NPer) = e
  <2>1. \A k, n, r \in Nat : r < n => ((k * n + r) \div n) = k /\ ((k * n + r) % n) = r
    OBVIOUS
  <2> QED
    BY <1>1, <2>1
<1> HIDE DEF x
<1>4. o \in Offsets \ Directs /\ o - NDirect = x
  BY <1>1, <1>2 DEF Offsets, Directs
<1> QED
  BY <1>3, <1>4 DEF Alpha, Alp

(* No two offsets are the same entry of the same table. *)
LEMMA OneOffset ==
  ASSUME NEW o \in Offsets \ Directs, NEW q \in Offsets \ Directs,
         Alpha(o) = Alpha(q), Alp(o) = Alp(q)
  PROVE  o = q
<1>1. /\ NDirect \in Nat /\ NPer \in Nat /\ NPer > 0
      /\ o - NDirect \in Nat /\ q - NDirect \in Nat /\ o \in Int /\ q \in Int
  BY SizesAssumption DEF Offsets, Directs
<1>2. \A y, n \in Nat : n > 0 => y = (y \div n) * n + (y % n)
  OBVIOUS
<1>3. /\ o - NDirect = Alpha(o) * NPer + Alp(o)
      /\ q - NDirect = Alpha(q) * NPer + Alp(q)
  BY <1>1, <1>2 DEF Alpha, Alp
<1> QED
  BY <1>1, <1>3

(* The three kinds of pointers. *)
LEMMA PtrIs ==
  ASSUME DataTyped, NEW s \in Slots
  PROVE  /\ \A l \in Directs : Ptr(s, l) = objs[s].direct[l] /\ l \in Positions
         /\ \A i \in Indirects : Ptr(s, -1 - i) = objs[s].indirect[i] /\ -1 - i \in Tables
         /\ \A o \in Offsets \ Directs :
               /\ Ptr(s, o) = IF objs[s].indirect[Alpha(o)] = 0 THEN 0
                              ELSE TableAt(objs[s].indirect[Alpha(o)])[Alp(o)]
               /\ Alpha(o) \in Indirects /\ Alp(o) \in Entries
         /\ \A o \in Offsets : Ptr(s, o) = Pointer(s, o)
         /\ \A p \in Tables : -1 - p \in Indirects /\ p = -1 - (-1 - p) /\ p \notin Offsets
         /\ \A p \in Positions : Ptr(s, p) \in Addresses /\ Ptr(s, p) \in Int /\ p \in Int
<1>1. \A o \in Offsets : Ptr(s, o) = Pointer(s, o)
  BY DEF Ptr
<1>2. /\ \A i \in Indirects : i = -1 - (-1 - i) /\ -1 - i \notin Offsets /\ -1 - i \in Tables
      /\ \A p \in Tables : -1 - p \in Indirects /\ p = -1 - (-1 - p) /\ p \notin Offsets /\ p \in Int
      /\ \A o \in Offsets : o \in Int
  BY SizesAssumption DEF Tables, Indirects, Offsets
<1>3. \A i \in Indirects : Ptr(s, -1 - i) = objs[s].indirect[i]
  BY <1>2 DEF Ptr
<1>4. \A l \in Directs : Ptr(s, l) = objs[s].direct[l] /\ l \in Positions
  BY <1>1, Numbers, PointerType DEF Pointer, Positions
<1>5. \A o \in Offsets \ Directs :
               /\ Ptr(s, o) = IF objs[s].indirect[Alpha(o)] = 0 THEN 0
                              ELSE TableAt(objs[s].indirect[Alpha(o)])[Alp(o)]
               /\ Alpha(o) \in Indirects /\ Alp(o) \in Entries
  BY <1>1, AlphaAlp, PointerType DEF Pointer
<1>6. ASSUME NEW p \in Positions PROVE Ptr(s, p) \in Addresses
  <2>1. CASE p \in Offsets
    BY <1>1, <2>1, PointerType
  <2>2. CASE p \in Tables
    BY <1>2, <2>2, ObjectIs DEF Ptr
  <2> QED
    BY <2>1, <2>2 DEF Positions
<1> QED
  BY <1>1, <1>2, <1>3, <1>4, <1>5, <1>6, AddressInt DEF Positions

-----------------------------------------------------------------------------
(* Steps that leave the pointers and the bitmap alone. *)
PointersKept ==
    /\ \A s \in Slots : /\ objs'[s].direct = objs[s].direct
                        /\ objs'[s].indirect = objs[s].indirect
    /\ \A s \in Slots, p \in Positions : Ptr(s, p)' = Ptr(s, p)

(* Pointers stay if the inodes' do and their tables are not written. *)
LEMMA KeepPointers ==
  ASSUME DataTyped,
         \A s \in Slots : /\ objs'[s].direct = objs[s].direct
                          /\ objs'[s].indirect = objs[s].indirect,
         \A s \in Slots, i \in Indirects :
            objs[s].indirect[i] # 0 => disk'[objs[s].indirect[i]] = disk[objs[s].indirect[i]]
  PROVE  PointersKept
<1>1. ASSUME NEW s \in Slots, NEW o \in Offsets PROVE Pointer(s, o)' = Pointer(s, o)
  <2>1. CASE o < NDirect
    BY <2>1 DEF Pointer
  <2>2. CASE ~(o < NDirect)
    <3>1. Alpha(o) \in Indirects
      BY <2>2, AlphaAlp, PointerType
    <3> QED
      BY <2>2, <3>1 DEF Pointer, TableAt
  <2> QED
    BY <2>1, <2>2
<1> QED
  BY <1>1 DEF PointersKept, Ptr

(* The pointers a removal takes next are set, they are found by position,   *)
(* and there are none only at its end.                                      *)
LEMMA NextAre ==
  ASSUME DataTyped, NEW s \in Slots
  PROVE  /\ NextPositions(s) \subseteq Positions
         /\ \A p \in NextPositions(s) : Ptr(s, p) # 0
         /\ NextPositions(s) = {} => NoPointers(s)
         /\ \A b : b \in NextBlocks(s) =>
                \E p \in NextPositions(s) : Ptr(s, p) = WriteOffset + b /\ b \in Int
         /\ \A b \in Int : (\E p \in NextPositions(s) : Ptr(s, p) = WriteOffset + b)
                => b \in NextBlocks(s)
<1> DEFINE Goal == /\ NextPositions(s) \subseteq Positions
                   /\ \A p \in NextPositions(s) : Ptr(s, p) # 0
                   /\ NextPositions(s) = {} => NoPointers(s)
<1>1. ASSUME UsedDirects(s) # {} PROVE Goal
  <2> DEFINE l == First(UsedDirects(s))
  <2>1. NextPositions(s) = {l} /\ ~NoPointers(s) /\ l \in Directs /\ l \in UsedDirects(s)
    BY <1>1, UsedAre DEF NextPositions, NoPointers
  <2> HIDE DEF l
  <2>2. objs[s].direct[l] # 0
    BY <2>1 DEF UsedDirects
  <2>3. Ptr(s, l) # 0 /\ l \in Positions
    BY <2>1, <2>2, PtrIs
  <2> QED
    BY <2>1, <2>3
<1>2. ASSUME UsedDirects(s) = {} /\ UsedIndirects(s) # {} PROVE Goal
  <2> DEFINE i == First(UsedIndirects(s))
  <2>1. /\ NextPositions(s) = {-1 - i} \cup {o \in Offsets \ Directs : Alpha(o) = i /\ Ptr(s, o) # 0}
        /\ ~NoPointers(s) /\ i \in Indirects /\ i \in UsedIndirects(s)
    BY <1>2, UsedAre DEF NextPositions, NoPointers
  <2> HIDE DEF i
  <2>2. objs[s].indirect[i] # 0
    BY <2>1 DEF UsedIndirects
  <2>3. Ptr(s, -1 - i) # 0 /\ -1 - i \in Positions
    BY <2>1, <2>2, PtrIs DEF Positions
  <2>4. NextPositions(s) \subseteq Positions /\ NextPositions(s) # {}
    BY <2>1, <2>3 DEF Positions
  <2>5. \A p \in NextPositions(s) : Ptr(s, p) # 0
    BY <2>1, <2>3
  <2> QED
    BY <2>1, <2>4, <2>5
<1>3. ASSUME UsedDirects(s) = {} /\ UsedIndirects(s) = {} PROVE Goal
  <2>1. NextPositions(s) = {} /\ NoPointers(s)
    BY <1>3 DEF NextPositions, NoPointers
  <2> QED
    BY <2>1
<1>4. Goal
  BY <1>1, <1>2, <1>3
<1>5. \A p \in NextPositions(s) : Ptr(s, p) \in Int
  BY <1>4, PtrIs
<1>6. WriteOffset \in Int
  BY SizesAssumption
<1>7. ASSUME NEW b, b \in NextBlocks(s)
      PROVE  \E p \in NextPositions(s) : Ptr(s, p) = WriteOffset + b /\ b \in Int
  BY <1>5, <1>6, <1>7 DEF NextBlocks
<1>8. ASSUME NEW b \in Int, \E p \in NextPositions(s) : Ptr(s, p) = WriteOffset + b
      PROVE  b \in NextBlocks(s)
  BY <1>5, <1>6, <1>8 DEF NextBlocks
<1> QED
  BY <1>4, <1>7, <1>8

(* The pointers of an object being kept, so is what comes next.             *)
LEMMA SameNext ==
  ASSUME DataTyped, PointersKept, NEW s \in Slots
  PROVE  NextBlocks(s)' = NextBlocks(s)
<1>1. UsedDirects(s)' = UsedDirects(s) /\ UsedIndirects(s)' = UsedIndirects(s)
  BY DEF PointersKept, UsedDirects, UsedIndirects
<1>2. \A o \in Offsets \ Directs : Ptr(s, o)' = Ptr(s, o)
  BY DEF PointersKept, Positions
<1>3. NextPositions(s)' = NextPositions(s)
  BY <1>1, <1>2 DEF NextPositions
<1>4. NextPositions(s) \subseteq Positions
  BY NextAre
<1>5. \A p \in Positions : Ptr(s, p)' = Ptr(s, p)
  BY DEF PointersKept
<1> QED
  BY <1>3, <1>4, <1>5 DEF NextBlocks

(* If no pointer changes, what is pointed to does not, nor whether two      *)
(* meet.                                                                    *)
LEMMA SamePoints ==
  ASSUME PointersKept
  PROVE  /\ \A b : Points(b)' <=> Points(b)
         /\ PointersInside => PointersInside'
         /\ PointersApart => PointersApart'
BY DEF PointersKept, Points, PointersInside, PointersApart

(* A step of one thread that moves no pointer and no bit of the bitmap. *)
LEMMA QuietBlocks ==
  ASSUME DataTyped, Blocks, PointersKept, bit_map_data' = bit_map_data, Apart',
         NEW t \in Threads, \A u \in Threads \ {t} : pc'[u] = pc[u] /\ loc'[u] = loc[u],
         \A b \in DataBlocks : Holds(t, b)' <=> Holds(t, b),
         Freeing(t) => Freeing(t)' /\ loc'[t].obj = loc[t].obj /\ loc'[t].todo = loc[t].todo,
         Freeing(t)' /\ ~Freeing(t) => \A s \in Slots : loc'[t].obj = s =>
            /\ Rest(t)' = NextBlocks(s)
            /\ \A i, j \in DOMAIN loc'[t].todo : loc'[t].todo[i] = loc'[t].todo[j] => i = j,
         pc'[t] \in {"mark", "store", "grab"} => loc'[t].word = bit_map_data,
         pc'[t] = "mark" => loc'[t].blk \notin bit_map_data,
         pc'[t] = "grab" => loc'[t].todo[0] \in DataBlocks \ bit_map_data,
         \A s \in Slots, o \in Offsets : Writing(t)' /\ loc'[t].obj = s /\ loc'[t].off = o =>
            /\ pc'[t] \notin {"load", "store"} /\ Ptr(s, o) = 0
            /\ pc'[t] = "grab" /\ o \notin Directs => Ptr(s, -1 - Alpha(o)) = 0
  PROVE  Blocks'
<1>0. /\ Apart /\ PointersInside /\ PointersApart /\ MapExact /\ HeldOnce
      /\ WordsCurrent /\ OffsetsNew /\ RestsLeft
  BY DEF Blocks
<1>1. PointersInside' /\ PointersApart' /\ \A b : Points(b)' <=> Points(b)
  BY <1>0, SamePoints
<1>2. \A s \in Slots : NextBlocks(s)' = NextBlocks(s)
  BY SameNext
<1>3. \A u \in Threads \ {t} : /\ Freeing(u)' <=> Freeing(u)
                               /\ Writing(u)' <=> Writing(u)
                               /\ Rest(u)' = Rest(u)
                               /\ \A b : Holds(u, b)' <=> Holds(u, b)
  BY DEF Freeing, Writing, Holds, Holding, Rest
<1>4. Freeing(t) => Rest(t)' = Rest(t)
  BY DEF Rest
<1>5. \A b \in DataBlocks : Freed(b)' <=> Freed(b)
  <2>1. \A u \in Threads, s \in Slots, b \in DataBlocks :
          (Freeing(u)' /\ loc'[u].obj = s /\ b \in NextBlocks(s) /\ b \notin Rest(u)')
          <=> (Freeing(u) /\ loc[u].obj = s /\ b \in NextBlocks(s) /\ b \notin Rest(u))
    BY <1>3, <1>4
  <2> QED
    BY <1>2, <2>1 DEF Freed
<1>6. \A u \in Threads, b \in DataBlocks : Holds(u, b)' <=> Holds(u, b)
  BY <1>3
<1>7. MapExact' /\ HeldOnce'
  <2>1. \A b \in DataBlocks : Held(b)' <=> Held(b)
    BY <1>6 DEF Held
  <2>2. MapExact'
    BY <1>0, <1>1, <1>5, <2>1 DEF MapExact
  <2> QED
    BY <1>0, <1>1, <1>6, <2>2 DEF HeldOnce
<1>8. WordsCurrent'
  BY <1>0 DEF WordsCurrent
<1>9. OffsetsNew'
  <2>1. \A s \in Slots, o \in Offsets :
          /\ Ptr(s, o)' = Ptr(s, o)
          /\ o \notin Directs => Ptr(s, -1 - Alpha(o))' = Ptr(s, -1 - Alpha(o))
    BY AlphaAlp DEF PointersKept, Positions, Tables
  <2> QED
    BY <1>0, <1>3, <2>1 DEF OffsetsNew
<1>10. RestsLeft'
  BY <1>0, <1>2, <1>3, <1>4 DEF RestsLeft
<1> QED
  BY <1>1, <1>7, <1>8, <1>9, <1>10 DEF Blocks

(* Calls that may not overlap do not begin to while they go on. *)
LEMMA WithinApart ==
  ASSUME Apart, NEW t \in Threads, Within(t)
  PROVE  Apart'
BY DEF Apart, Within

(* Nor by a call that is admitted. *)
LEMMA StartApart ==
  ASSUME Orderly, Apart, NEW t \in Threads, NEW op, NEW s, NEW o, Admitted(t, op, s, o),
         \A u \in Threads \ {t} : pc'[u] = pc[u] /\ loc'[u] = loc[u],
         loc'[t].op = op, op = "write" => loc'[t].obj = s
  PROVE  Apart'
<1>1. ASSUME NEW u \in Threads \ {t}, pc[u] # "idle"
      PROVE  /\ op # "unlink" /\ loc[u].op # "unlink"
             /\ op = "write" /\ loc[u].op = "write" => NIndirect = 0 /\ loc[u].obj # s
  <2>1. u \in Others(t) /\ ~OneThread
    BY <1>1 DEF Others, OneThread
  <2>2. "unlink" \in Alone /\ (NIndirect = 0 \/ "write" \in Alone)
    BY <2>1 DEF Orderly
  <2>3. /\ op \notin Alone /\ loc[u].op \notin Alone
        /\ loc[u].obj = s => ~(op = "write" /\ loc[u].op = "write")
    BY <2>1 DEF Admitted
  <2> QED
    BY <2>2, <2>3
<1> QED
  BY <1>1 DEF Apart

(* A step that starts a call. *)
LEMMA StartBlocks ==
  ASSUME Orderly, BInv, NEW t \in Threads, NEW op, NEW s, NEW o, Admitted(t, op, s, o),
         NEW c, loc' = [loc EXCEPT ![t] = c], c.op = op,
         op = "write" => c.obj = s /\ c.off = o /\ Ptr(s, o) = 0,
         NEW label, Goto(t, label), label \in {"done", "fill", "free", "lock", "fetch", "entry"},
         PointersKept, bit_map_data' = bit_map_data
  PROVE  Blocks'
<1>1. DataTyped /\ TInv /\ Blocks /\ Apart
  BY DEF BInv, SInv, TInv, Blocks
<1>2. pc[t] = "idle"
  BY DEF Admitted
<1>3. /\ pc'[t] = label /\ loc'[t] = c
      /\ \A u \in Threads \ {t} : pc'[u] = pc[u] /\ loc'[u] = loc[u]
  BY <1>1, <1>2, Starts
<1>4. Apart'
  BY <1>1, <1>3, StartApart
<1>5. /\ ~Freeing(t) /\ ~Freeing(t)' /\ \A b : ~Holds(t, b) /\ ~Holds(t, b)'
      /\ pc'[t] \notin {"mark", "store", "grab", "load"}
  BY <1>2, <1>3 DEF Freeing, Holds, Holding
<1>6. \A r \in Slots, q \in Offsets : Writing(t)' /\ loc'[t].obj = r /\ loc'[t].off = q => Ptr(r, q) = 0
  BY <1>3 DEF Writing
<1> QED
  BY <1>1, <1>3, <1>4, <1>5, <1>6, QuietBlocks

(* The steps that start a call. *)
LEMMA BeginBlocks ==
  ASSUME Orderly, BInv, NEW t \in Threads,
         \/ \E k \in Keys : \/ Create(t, k) \/ Unlink(t, k) \/ \E new \in Keys : Rename(t, k, new)
                            \/ \E op \in {"open", "getattr"} : Find(t, op, k) \/ FindNothing(t, op, k)
         \/ \E s \in Slots, o \in Offsets : Read(t, s, o) \/ \E v \in Values : Write(t, s, o, v)
  PROVE  Blocks'
<1>t. /\ DataTyped /\ TInv /\ objs \in [Slots -> Objects] /\ \A s \in Slots : objs[s] \in Objects
  BY DEF BInv, SInv, TInv, DataTyped
<1>1. ASSUME NEW k \in Keys, Create(t, k) PROVE Blocks'
  <2> DEFINE free == Slots \ bit_map_inode
             r == IF free = {} THEN -1 ELSE First(free)
             c == [NoCall EXCEPT !.op = "create", !.obj = r, !.off = 0, !.value = NoValue]
  <2>1. /\ Admitted(t, "create", -1, 0) /\ loc' = [loc EXCEPT ![t] = c] /\ Goto(t, "done")
        /\ UNCHANGED <<bit_map_data, disk>>
    BY <1>1 DEF Create, Start, diskVars
  <2>2. c.op = "create"
    BY DEF NoCall
  <2> HIDE DEF c
  <2>3. \A s \in Slots : objs'[s].direct = objs[s].direct /\ objs'[s].indirect = objs[s].indirect
    <3>1. objs' = objs \/ \E s : objs' = [objs EXCEPT ![s].key = k]
      BY <1>1 DEF Create, metaVars
    <3> QED
      BY <3>1, <1>t DEF Objects
  <2> HIDE DEF r
  <2>4. PointersKept
    BY <1>t, <2>1, <2>3, KeepPointers
  <2> QED
    BY <2>1, <2>2, <2>4, StartBlocks
<1>2. ASSUME NEW k \in Keys, NEW new \in Keys, Rename(t, k, new) PROVE Blocks'
  <2> DEFINE s == First(Matches(k))
             c == [NoCall EXCEPT !.op = "rename", !.obj = s, !.off = 0, !.value = NoValue]
  <2>1. /\ Admitted(t, "rename", s, 0) /\ loc' = [loc EXCEPT ![t] = c] /\ Goto(t, "done")
        /\ UNCHANGED <<bit_map_data, disk>> /\ objs' = [objs EXCEPT ![s].key = new]
    BY <1>2 DEF Rename, Start, diskVars
  <2>2. c.op = "rename"
    BY DEF NoCall
  <2> HIDE DEF c, s
  <2>3. \A r \in Slots : objs'[r].direct = objs[r].direct /\ objs'[r].indirect = objs[r].indirect
    BY <2>1, <1>t DEF Objects
  <2>4. PointersKept
    BY <1>t, <2>1, <2>3, KeepPointers
  <2> QED
    BY <2>1, <2>2, <2>4, StartBlocks
<1>3. ASSUME NEW k \in Keys, Unlink(t, k) PROVE Blocks'
  <2> DEFINE s == First(Matches(k))
             c == [NoCall EXCEPT !.op = "unlink", !.obj = s, !.off = 0, !.value = NoValue]
  <2>1. /\ Admitted(t, "unlink", s, 0) /\ loc' = [loc EXCEPT ![t] = c] /\ Goto(t, "free")
        /\ UNCHANGED <<bit_map_data, disk>> /\ objs' = [objs EXCEPT ![s].size = 0]
    BY <1>3 DEF Unlink, Start, diskVars, ClearInode
  <2>2. c.op = "unlink"
    BY DEF NoCall
  <2> HIDE DEF c, s
  <2>3. \A r \in Slots : objs'[r].direct = objs[r].direct /\ objs'[r].indirect = objs[r].indirect
    BY <2>1, <1>t DEF Objects
  <2>4. PointersKept
    BY <1>t, <2>1, <2>3, KeepPointers
  <2> QED
    BY <2>1, <2>2, <2>4, StartBlocks
<1>4. ASSUME UNCHANGED <<objs, disk>> PROVE PointersKept
  BY <1>t, <1>4, KeepPointers
<1>5. ASSUME NEW k \in Keys, NEW op \in {"open", "getattr"}, Find(t, op, k) PROVE Blocks'
  <2> DEFINE s == First(Matches(k))
             c == [NoCall EXCEPT !.op = op, !.obj = s, !.off = 0, !.value = NoValue]
             label == IF op = "open" THEN "done" ELSE "fill"
  <2>1. /\ Admitted(t, op, s, 0) /\ loc' = [loc EXCEPT ![t] = c] /\ Goto(t, label)
        /\ label \in {"done", "fill"} /\ UNCHANGED <<objs, bit_map_data, disk>>
    BY <1>5 DEF Find, Start, metaVars, diskVars
  <2>2. c.op = op
    BY DEF NoCall
  <2> HIDE DEF c, label, s
  <2> QED
    BY <1>4, <2>1, <2>2, StartBlocks
<1>6. ASSUME NEW k \in Keys, NEW op \in {"open", "getattr"}, FindNothing(t, op, k) PROVE Blocks'
  <2> DEFINE c == [NoCall EXCEPT !.op = op, !.obj = -1, !.ans = Failed]
  <2>1. /\ Admitted(t, op, -1, 0) /\ loc' = [loc EXCEPT ![t] = c] /\ Goto(t, "done")
        /\ UNCHANGED <<objs, bit_map_data, disk>>
    BY <1>6 DEF FindNothing, metaVars, diskVars
  <2>2. c.op = op
    BY DEF NoCall
  <2> HIDE DEF c
  <2> QED
    BY <1>4, <2>1, <2>2, StartBlocks
<1>7. ASSUME NEW s \in Slots, NEW o \in Offsets, Read(t, s, o) PROVE Blocks'
  <2> DEFINE blk == IF o < NDirect THEN objs[s].direct[o] ELSE objs[s].indirect[Alpha(o)]
             c == [NoCall EXCEPT !.op = "read", !.obj = s, !.off = o, !.blk = blk]
             label == IF o < NDirect THEN "fetch" ELSE "entry"
  <2>1. /\ Admitted(t, "read", s, o) /\ loc' = [loc EXCEPT ![t] = c] /\ Goto(t, label)
        /\ label \in {"fetch", "entry"} /\ UNCHANGED <<objs, bit_map_data, disk>>
    BY <1>7 DEF Read, metaVars, diskVars
  <2>2. c.op = "read"
    BY DEF NoCall
  <2> HIDE DEF c, label
  <2> QED
    BY <1>4, <2>1, <2>2, StartBlocks
<1>8. ASSUME NEW s \in Slots, NEW o \in Offsets, NEW v \in Values, Write(t, s, o, v) PROVE Blocks'
  <2> DEFINE c == [NoCall EXCEPT !.op = "write", !.obj = s, !.off = o, !.value = v]
  <2>1. /\ Admitted(t, "write", s, o) /\ loc' = [loc EXCEPT ![t] = c] /\ Goto(t, "lock")
        /\ Pointer(s, o) = 0 /\ UNCHANGED <<objs, bit_map_data, disk>>
    BY <1>8 DEF Write, Start, diskVars, Orderly
  <2>2. c.op = "write" /\ c.obj = s /\ c.off = o /\ Ptr(s, o) = 0
    BY <2>1, <1>t, PtrIs DEF NoCall
  <2> HIDE DEF c
  <2> QED
    BY <1>4, <2>1, <2>2, StartBlocks
<1> QED
  BY <1>1, <1>2, <1>3, <1>5, <1>6, <1>7, <1>8

-----------------------------------------------------------------------------
(* The steps within a call that move no pointer and no bit.                 *)
LEMMA CallFields ==
  ASSUME BInv, NEW t \in Threads
  PROVE  /\ TInv /\ DataTyped /\ Blocks /\ Apart /\ loc \in [Threads -> Locals] /\ loc[t] \in Locals
         /\ pc \in [Threads -> Labels] /\ pc[t] \in Labels
BY DEF BInv, SInv, TInv, Blocks

(* Steps of a call that holds no block, before and after. *)
LEMMA PlainBlocks ==
  ASSUME BInv, NEW t \in Threads, Within(t), PointersKept, bit_map_data' = bit_map_data,
         ~Holding(t), ~Freeing(t), pc'[t] \in {"done", "fetch"}, ~Writing(t)'
  PROVE  Blocks'
<1>1. DataTyped /\ Blocks /\ Apart' /\ TInv
  BY CallFields, WithinApart
<1>2. ~Freeing(t)' /\ \A b : ~Holds(t, b) /\ ~Holds(t, b)'
  BY DEF Holds, Holding, Freeing
<1> QED
  BY <1>1, <1>2, QuietBlocks DEF Within

(* Reading changes no block's owner. *)
LEMMA ReadBlocks ==
  ASSUME BInv, NEW t \in Threads, FillupSize(t) \/ ReadEntry(t) \/ ReadData(t)
  PROVE  Blocks'
<1>1. /\ Within(t) /\ DataTyped /\ TInv /\ objs' = objs /\ pc \in [Threads -> Labels]
  BY CallFields, QuietWithin
<1>2. /\ bit_map_data' = bit_map_data /\ disk' = disk
      /\ pc[t] \in {"fill", "entry", "fetch"} /\ (Goto(t, "done") \/ Goto(t, "fetch"))
  BY DEF FillupSize, ReadEntry, ReadData, diskVars
<1>3. pc'[t] \in {"done", "fetch"}
  BY <1>1, <1>2 DEF Goto
<1>4. loc[t].op \in {"getattr", "read"}
  BY <1>1, <1>2, InCall DEF InPlace, StepsOf, Locals, CallOps
<1>5. PointersKept
  BY <1>1, <1>2, KeepPointers
<1>6. ~Holding(t) /\ ~Freeing(t) /\ ~Writing(t)'
  BY <1>1, <1>2, <1>3, <1>4 DEF Holding, Freeing, Writing, Within
<1> QED
  BY <1>1, <1>2, <1>3, <1>5, <1>6, PlainBlocks

(* Returning changes no block's owner. *)
LEMMA ReturnBlocks ==
  ASSUME BInv, NEW t \in Threads, Return(t)
  PROVE  Blocks'
<1>1. DataTyped /\ TInv /\ Blocks /\ Apart /\ pc \in [Threads -> Labels] /\ loc \in [Threads -> Locals]
  BY CallFields
<1>2. /\ pc[t] = "done" /\ pc'[t] = "idle" /\ bit_map_data' = bit_map_data /\ disk' = disk
      /\ objs' = objs /\ \A u \in Threads \ {t} : pc'[u] = pc[u] /\ loc'[u] = loc[u]
  BY <1>1 DEF Return, Goto, metaVars, diskVars
<1>3. PointersKept
  BY <1>1, <1>2, KeepPointers
<1>4. Apart'
  BY <1>1, <1>2 DEF Apart
<1>5. /\ ~Freeing(t) /\ ~Freeing(t)' /\ ~Writing(t)' /\ \A b : ~Holds(t, b) /\ ~Holds(t, b)'
      /\ pc'[t] \notin {"mark", "store", "grab", "load"}
  BY <1>2 DEF Freeing, Writing, Holds, Holding
<1> QED
  BY <1>1, <1>2, <1>3, <1>4, <1>5, QuietBlocks

(* A write at work has found no pointer: it overwrites none.                *)
LEMMA WriteIs ==
  ASSUME BInv, NEW t \in Threads, pc[t] \in {"lock", "mark", "data", "link", "grab"}
  PROVE  /\ DataTyped /\ TInv /\ Blocks /\ loc[t] \in Locals /\ loc[t].op = "write"
         /\ loc[t].obj \in Slots /\ loc[t].off \in Offsets /\ Ptr(loc[t].obj, loc[t].off) = 0
         /\ pc[t] # "lock" => loc[t].blk \in DataBlocks
         /\ Writing(t)
<1>1. DataTyped /\ TInv /\ Blocks /\ loc[t] \in Locals /\ InPlace(pc[t], loc[t])
  BY CallFields, InCall
<1>2. loc[t].op = "write" /\ loc[t].obj \in Slots /\ (pc[t] # "lock" => loc[t].blk \in DataBlocks)
  BY <1>1 DEF InPlace, StepsOf, Locals, CallOps
<1>3. loc[t].off \in Offsets /\ Writing(t)
  BY <1>1, <1>2 DEF Writing, Locals
<1>4. Ptr(loc[t].obj, loc[t].off) = 0
  BY <1>1, <1>2, <1>3 DEF Blocks, OffsetsNew
<1> QED
  BY <1>1, <1>2, <1>3, <1>4

(* Nothing is overwritten, so nothing takes the steps of an overwriting. *)
LEMMA NoOverwrite ==
  ASSUME BInv, NEW t \in Threads
  PROVE  ~RelinkDirect(t) /\ ~RelinkEntry(t) /\ ~FreeOld(t)
<1>1. ASSUME RelinkDirect(t) \/ RelinkEntry(t) PROVE FALSE
  <2>1. pc[t] = "link" /\ Pointer(loc[t].obj, loc[t].off) # 0
    BY <1>1 DEF RelinkDirect, RelinkEntry, Linking
  <2> QED
    BY <2>1, WriteIs, PtrIs
<1>2. ASSUME FreeOld(t) PROVE FALSE
  <2>1. DataTyped /\ TInv /\ Blocks /\ loc[t] \in Locals /\ InPlace(pc[t], loc[t])
        /\ pc[t] = "store" /\ loc[t].op = "write"
    BY <1>2, CallFields, InCall DEF FreeOld
  <2>2. loc[t].obj \in Slots /\ loc[t].off \in Offsets
    BY <2>1 DEF InPlace, Locals
  <2> QED
    BY <2>1, <2>2 DEF Blocks, OffsetsNew, Writing
<1> QED
  BY <1>1, <1>2

(* The word loaded is the bitmap as it is. *)
LEMMA LoadBlocks ==
  ASSUME BInv, NEW t \in Threads, LoadWord(t)
  PROVE  Blocks'
<1>1. /\ Within(t) /\ objs' = objs /\ DataTyped /\ TInv /\ Blocks /\ Apart'
      /\ loc \in [Threads -> Locals] /\ pc \in [Threads -> Labels] /\ loc[t] \in Locals
  BY CallFields, QuietWithin, WithinApart
<1>2. /\ pc[t] = "load" /\ pc'[t] = "store" /\ loc' = [loc EXCEPT ![t].word = bit_map_data]
      /\ bit_map_data' = bit_map_data /\ disk' = disk
  BY <1>1 DEF LoadWord, Goto, diskVars
<1>3. /\ loc'[t].op = loc[t].op /\ loc'[t].obj = loc[t].obj /\ loc'[t].todo = loc[t].todo
      /\ loc'[t].word = bit_map_data
  BY <1>1, <1>2 DEF Locals
<1>4. loc[t].op = "unlink"
  <2>1. InPlace("load", loc[t])
    BY <1>1, <1>2, InCall
  <2>2. loc[t].op \in {"unlink", "write"} /\ loc[t].obj \in Slots /\ loc[t].off \in Offsets
    BY <1>1, <2>1 DEF InPlace, StepsOf, Locals, CallOps
  <2> QED
    BY <1>1, <1>2, <2>2 DEF Blocks, OffsetsNew, Writing
<1>5. PointersKept
  BY <1>1, <1>2, KeepPointers
<1>6. /\ Freeing(t) /\ Freeing(t)' /\ ~Writing(t)' /\ \A b : ~Holds(t, b) /\ ~Holds(t, b)'
  BY <1>2, <1>3, <1>4 DEF Freeing, Writing, Holds, Holding
<1> QED
  BY <1>1, <1>2, <1>3, <1>5, <1>6, QuietBlocks DEF Within

(* The block chosen is nobody's. *)
LEMMA ChooseBlocks ==
  ASSUME BInv, NEW t \in Threads, ChooseBlock(t)
  PROVE  Blocks'
<1> DEFINE free == DataBlocks \ bit_map_data
<1>1. /\ Within(t) /\ objs' = objs /\ DataTyped /\ TInv /\ Blocks /\ Apart' /\ Apart
      /\ loc \in [Threads -> Locals] /\ pc \in [Threads -> Labels] /\ loc[t] \in Locals
  BY CallFields, QuietWithin, WithinApart
<1>2. /\ pc[t] = "lock" /\ bit_map_data' = bit_map_data /\ disk' = disk
  BY DEF ChooseBlock, diskVars
<1>3. \/ /\ free = {} /\ pc'[t] = "done" /\ loc' = [loc EXCEPT ![t].ans = Failed]
      \/ /\ free # {} /\ pc'[t] = "mark"
         /\ loc' = [loc EXCEPT ![t].blk = First(free), ![t].word = bit_map_data]
  BY <1>1 DEF ChooseBlock, Goto
<1>4. PointersKept
  BY <1>1, <1>2, KeepPointers
<1>5. free # {} => First(free) \in free
  BY FirstIs, Numbers
<1>6. /\ loc'[t].off = loc[t].off
      /\ pc'[t] = "mark" => loc'[t].word = bit_map_data /\ loc'[t].blk \notin bit_map_data
  BY <1>1, <1>3, <1>5 DEF Locals
<1>7. /\ ~Freeing(t) /\ ~Freeing(t)' /\ \A b : ~Holds(t, b) /\ ~Holds(t, b)'
      /\ pc'[t] \in {"done", "mark"}
  BY <1>2, <1>3 DEF Freeing, Holds, Holding
<1>8. loc[t].obj \in Slots /\ loc[t].off \in Offsets /\ Ptr(loc[t].obj, loc[t].off) = 0
  BY <1>2, WriteIs
<1>9. loc'[t].obj = loc[t].obj
  BY <1>1 DEF Within
<1> QED
  BY <1>1, <1>2, <1>4, <1>6, <1>7, <1>8, <1>9, QuietBlocks DEF Within

(* Writing the data changes no pointer: only a held block is written. *)
LEMMA DataStep ==
  ASSUME BInv, NEW t \in Threads, WriteData(t)
  PROVE  Blocks'
<1>1. /\ Within(t) /\ objs' = objs /\ DataTyped /\ TInv /\ Blocks /\ Apart'
      /\ loc \in [Threads -> Locals] /\ pc \in [Threads -> Labels] /\ loc[t] \in Locals
  BY CallFields, QuietWithin, WithinApart
<1>2. /\ pc[t] = "data" /\ pc'[t] = "link" /\ bit_map_data' = bit_map_data /\ loc' = loc
      /\ disk' = [disk EXCEPT ![WriteOffset + loc[t].blk] = Data(loc[t].value)]
  BY <1>1 DEF WriteData, Goto, WriteBlock
<1>3. /\ loc[t].obj \in Slots /\ loc[t].off \in Offsets /\ Ptr(loc[t].obj, loc[t].off) = 0
      /\ loc[t].blk \in DataBlocks /\ Writing(t) /\ loc[t].op = "write"
  BY <1>2, WriteIs
<1>4. ~Points(loc[t].blk)
  BY <1>1, <1>2, <1>3 DEF Blocks, HeldOnce, Holds, Holding
<1>5. \A s \in Slots, i \in Indirects : objs[s].indirect[i] # WriteOffset + loc[t].blk
  BY <1>1, <1>4, PtrIs DEF Points, Positions
<1>6. \A a \in Addresses : a # WriteOffset + loc[t].blk => disk'[a] = disk[a]
  BY <1>1, <1>2 DEF DataTyped
<1>7. \A s \in Slots, i \in Indirects : disk'[objs[s].indirect[i]] = disk[objs[s].indirect[i]]
  BY <1>1, <1>5, <1>6, ObjectIs
<1>8. PointersKept
  BY <1>1, <1>7, KeepPointers
<1>9. /\ ~Freeing(t) /\ ~Freeing(t)' /\ \A b : Holds(t, b)' <=> Holds(t, b)
  BY <1>2 DEF Freeing, Holds, Holding
<1> QED
  BY <1>1, <1>2, <1>3, <1>8, <1>9, QuietBlocks DEF Within

(* A new indirect block is one that is free.                                *)
LEMMA IndirectStep ==
  ASSUME BInv, IndirectRoom, NEW t \in Threads, ChooseIndirect(t)
  PROVE  Blocks'
<1> DEFINE free == DataBlocks \ bit_map_data
<1>1. /\ Within(t) /\ objs' = objs /\ DataTyped /\ TInv /\ Blocks /\ Apart'
      /\ loc \in [Threads -> Locals] /\ pc \in [Threads -> Labels] /\ loc[t] \in Locals
  BY CallFields, QuietWithin, WithinApart
<1>2. /\ pc[t] = "link" /\ loc[t].op = "write" /\ loc[t].off \in Offsets \ Directs
      /\ loc[t].obj \in Slots
  BY <1>1, LinkingIs DEF ChooseIndirect
<1>3. free # {} /\ First(free) \in free
  <2>1. free # {}
    BY <1>2 DEF ChooseIndirect, IndirectRoom
  <2> QED
    BY <2>1, FirstIs, Numbers
<1>4. /\ pc'[t] = "grab" /\ bit_map_data' = bit_map_data /\ disk' = disk /\ Indirect(t) = 0
      /\ loc' = [loc EXCEPT ![t].todo = Just(First(free)), ![t].word = bit_map_data]
  BY <1>1, <1>3 DEF ChooseIndirect, Goto, diskVars
<1>5. /\ loc'[t].blk = loc[t].blk /\ loc'[t].off = loc[t].off /\ loc'[t].word = bit_map_data
      /\ loc'[t].todo = Just(First(free)) /\ loc'[t].obj = loc[t].obj
  BY <1>1, <1>4 DEF Locals
<1>6. loc'[t].todo[0] \in free
  BY <1>3, <1>5 DEF Just
<1>7. PointersKept
  BY <1>1, <1>4, KeepPointers
<1>8. /\ ~Freeing(t) /\ ~Freeing(t)' /\ \A b : Holds(t, b)' <=> Holds(t, b)
  BY <1>2, <1>4, <1>5 DEF Freeing, Holds, Holding
<1>9. Ptr(loc[t].obj, loc[t].off) = 0 /\ Ptr(loc[t].obj, -1 - Alpha(loc[t].off)) = 0
  <2>1. Ptr(loc[t].obj, -1 - Alpha(loc[t].off)) = Indirect(t)
    BY <1>1, <1>2, PtrIs DEF Indirect
  <2> QED
    BY <1>2, <1>4, <2>1, WriteIs
<1>10. \A s \in Slots, o \in Offsets : loc'[t].obj = s /\ loc'[t].off = o =>
          Ptr(s, o) = 0 /\ Ptr(s, -1 - Alpha(o)) = 0
  BY <1>5, <1>9
<1>11. pc'[t] \notin {"mark", "store", "load"}
  BY <1>4
<1> HIDE DEF free
<1>12. \A u \in Threads \ {t} : pc'[u] = pc[u] /\ loc'[u] = loc[u]
  BY <1>1 DEF Within
<1>13. loc'[t].todo[0] \in DataBlocks \ bit_map_data
  BY <1>6 DEF free
<1> QED
  BY <1>1, <1>4, <1>5, <1>13, <1>7, <1>8, <1>10, <1>11, <1>12, QuietBlocks

(* The pointers that a removal frees next, in the order of NextPointer.     *)
NextList(s) == IF UsedDirects(s) # {} THEN Just(objs[s].direct[First(UsedDirects(s))])
               ELSE IF UsedIndirects(s) # {}
                    THEN TableBlocks(objs[s].indirect[First(UsedIndirects(s))])
                    ELSE NoCall.todo

(* The list of the pointers to free has each of them once. *)
LEMMA NextListIs ==
  ASSUME DataTyped, PointersApart, NEW s \in Slots
  PROVE  /\ \A x \in DOMAIN NextList(s) : \E p \in NextPositions(s) : NextList(s)[x] = Ptr(s, p)
         /\ \A p \in NextPositions(s) : \E x \in DOMAIN NextList(s) : NextList(s)[x] = Ptr(s, p)
         /\ \A x, y \in DOMAIN NextList(s) : NextList(s)[x] = NextList(s)[y] => x = y
<1> DEFINE list == NextList(s)
           Goal == /\ \A x \in DOMAIN list : \E p \in NextPositions(s) : list[x] = Ptr(s, p)
                   /\ \A p \in NextPositions(s) : \E x \in DOMAIN list : list[x] = Ptr(s, p)
                   /\ \A x, y \in DOMAIN list : list[x] = list[y] => x = y
<1>1. ASSUME UsedDirects(s) # {} PROVE Goal
  <2> DEFINE l == First(UsedDirects(s))
  <2>1. l \in Directs /\ NextPositions(s) = {l} /\ list = Just(objs[s].direct[l])
    BY <1>1, UsedAre DEF NextPositions, NextList
  <2> HIDE DEF list, l
  <2>2. DOMAIN list = {0} /\ list[0] = Ptr(s, l)
    BY <2>1, PtrIs DEF Just
  <2> QED
    BY <2>1, <2>2
<1>2. ASSUME UsedDirects(s) = {}, UsedIndirects(s) # {} PROVE Goal
  <2> DEFINE i == First(UsedIndirects(s))
             a == objs[s].indirect[i]
  <2>1. /\ i \in Indirects /\ i \in UsedIndirects(s) /\ list = TableBlocks(a)
        /\ NextPositions(s) = {-1 - i} \cup {o \in Offsets \ Directs : Alpha(o) = i /\ Ptr(s, o) # 0}
    BY <1>2, UsedAre DEF NextPositions, NextList
  <2> HIDE DEF list, i
  <2>2. /\ a \in Addresses /\ a # 0 /\ Ptr(s, -1 - i) = a /\ -1 - i \in Tables
    BY <2>1, PtrIs, ObjectIs DEF UsedIndirects
  <2>3. /\ DOMAIN list = {x \in Entries : TableAt(a)[x] # 0} \cup {NPer} /\ NPer \notin Entries
        /\ list[NPer] = a /\ \A x \in DOMAIN list \ {NPer} : list[x] = TableAt(a)[x]
    BY <2>1, <2>2, TableBlocksAre
  <2> HIDE DEF a
  <2>4. \A o \in Offsets \ Directs : Alpha(o) = i => Ptr(s, o) = TableAt(a)[Alp(o)] /\ Alp(o) \in Entries
    BY <2>1, <2>2, PtrIs DEF a
  <2>5. ASSUME NEW x \in DOMAIN list \ {NPer}
        PROVE  \E o \in Offsets \ Directs : o \in NextPositions(s) /\ list[x] = Ptr(s, o) /\ Alp(o) = x
    <3>1. x \in Entries /\ list[x] = TableAt(a)[x] /\ TableAt(a)[x] # 0
      BY <2>3, <2>5
    <3>2. PICK o \in Offsets \ Directs : Alpha(o) = i /\ Alp(o) = x
      BY <2>1, <3>1, OffsetOfEntry
    <3>3. Ptr(s, o) = TableAt(a)[x]
      BY <2>4, <3>2
    <3> QED
      BY <2>1, <3>1, <3>2, <3>3
  <2>6. \A x \in DOMAIN list : \E p \in NextPositions(s) : list[x] = Ptr(s, p)
    BY <2>1, <2>2, <2>3, <2>5
  <2>7. ASSUME NEW p \in NextPositions(s) PROVE \E x \in DOMAIN list : list[x] = Ptr(s, p)
    <3>1. CASE p = -1 - i
      BY <2>2, <2>3, <3>1
    <3>2. CASE p \in Offsets \ Directs /\ Alpha(p) = i /\ Ptr(s, p) # 0
      <4>1. Alp(p) \in DOMAIN list \ {NPer}
        BY <2>3, <2>4, <3>2
      <4> QED
        BY <2>3, <2>4, <3>2, <4>1
    <3> QED
      BY <2>1, <3>1, <3>2
  <2>8. \A o \in Offsets \ Directs : Ptr(s, o) # 0 => Ptr(s, o) # a
    <3>1. \A o \in Offsets : o # -1 - i
      BY <2>2, PtrIs
    <3> QED
      BY <2>2, <3>1 DEF PointersApart, Positions
  <2>9. ASSUME NEW x \in DOMAIN list, NEW y \in DOMAIN list, list[x] = list[y] PROVE x = y
    <3>1. CASE x # NPer /\ y # NPer
      <4>1. PICK o \in Offsets \ Directs : list[x] = Ptr(s, o) /\ Alp(o) = x /\ o \in NextPositions(s)
        BY <2>5, <3>1
      <4>2. PICK q \in Offsets \ Directs : list[y] = Ptr(s, q) /\ Alp(q) = y /\ q \in NextPositions(s)
        BY <2>5, <3>1
      <4>3. Ptr(s, o) # 0 /\ Ptr(s, o) = Ptr(s, q) /\ o \in Positions /\ q \in Positions
        BY <2>9, <4>1, <4>2, NextAre
      <4>4. o = q
        BY <4>3 DEF PointersApart
      <4> QED
        BY <4>1, <4>2, <4>4
    <3>2. ASSUME NEW z \in DOMAIN list, z # NPer PROVE list[z] # list[NPer]
      BY <2>3, <2>5, <2>8, <3>2, NextAre
    <3> QED
      BY <2>9, <3>1, <3>2
  <2> QED
    BY <2>6, <2>7, <2>9
<1>3. ASSUME UsedDirects(s) = {}, UsedIndirects(s) = {} PROVE Goal
  <2>1. DOMAIN list = {} /\ NextPositions(s) = {}
    BY <1>3, Lists1 DEF NextPositions, NextList
  <2> QED
    BY <2>1
<1> QED
  BY <1>1, <1>2, <1>3

(* What a removal takes up next is what its object points to next. *)
LEMMA NextStep ==
  ASSUME BInv, NEW t \in Threads, NextPointer(t)
  PROVE  Blocks'
<1> DEFINE s == loc[t].obj
           list == NextList(s)
           label == IF DOMAIN list = {} THEN "done" ELSE "load"
           todo == [i \in DOMAIN list |-> list[i] - WriteOffset]
<1>1. /\ Within(t) /\ objs' = objs /\ DataTyped /\ TInv /\ Blocks /\ Apart'
      /\ loc \in [Threads -> Locals] /\ pc \in [Threads -> Labels] /\ loc[t] \in Locals
  BY CallFields, QuietWithin, WithinApart
<1>2. /\ pc[t] = "free" /\ pc' = [pc EXCEPT ![t] = label] /\ loc' = [loc EXCEPT ![t].todo = todo]
      /\ bit_map_data' = bit_map_data /\ disk' = disk
  BY DEF NextPointer, Goto, diskVars, NextList
<1>3. loc[t].op = "unlink" /\ s \in Slots
  BY <1>1, <1>2, InCall DEF InPlace, StepsOf, Locals, CallOps
<1> HIDE DEF list, s
<1>4. pc'[t] = label /\ label \in {"done", "load"} /\ loc'[t].todo = todo /\ loc'[t].obj = s
  BY <1>1, <1>2 DEF Locals, s, Within
<1>5. PointersKept
  BY <1>1, <1>2, KeepPointers
<1>6. loc'[t].op = "unlink"
  BY <1>1, <1>3 DEF Within
<1>7. Rest(t)' = NextBlocks(s) /\ \A i, j \in DOMAIN todo : todo[i] = todo[j] => i = j
  <2>1. /\ \A x \in DOMAIN list : \E p \in NextPositions(s) : list[x] = Ptr(s, p)
        /\ \A p \in NextPositions(s) : \E x \in DOMAIN list : list[x] = Ptr(s, p)
        /\ \A x, y \in DOMAIN list : list[x] = list[y] => x = y
    BY <1>1, <1>3, NextListIs DEF Blocks, list
  <2>2. \A p \in NextPositions(s) : Ptr(s, p) \in Int
    BY <1>1, <1>3, NextAre, PtrIs
  <2>3. \A x \in DOMAIN list : list[x] \in Int
    BY <2>1, <2>2
  <2>4. WriteOffset \in Int
    BY SizesAssumption
  <2>5. DOMAIN todo = DOMAIN list /\ \A x \in DOMAIN list : todo[x] = list[x] - WriteOffset
    OBVIOUS
  <2> HIDE DEF todo
  <2>6. {todo[x] : x \in DOMAIN todo} = NextBlocks(s)
    BY <2>1, <2>5 DEF NextBlocks
  <2> QED
    BY <1>4, <2>1, <2>3, <2>4, <2>5, <2>6 DEF Rest
<1>8. /\ ~Freeing(t) /\ ~Writing(t)' /\ \A b : ~Holds(t, b) /\ ~Holds(t, b)'
      /\ pc'[t] \notin {"mark", "store", "grab"}
  BY <1>2, <1>4, <1>6 DEF Freeing, Writing, Holds, Holding
<1> HIDE DEF todo, label
<1> QED
  BY <1>1, <1>2, <1>3, <1>4, <1>5, <1>7, <1>8, QuietBlocks DEF Within

-----------------------------------------------------------------------------
(* The steps that move a pointer or a bit.                                  *)

(* While a write is at work nothing is removed, and nobody else chooses an  *)
(* indirect block.                                                          *)
LEMMA WhileWriting ==
  ASSUME BInv, NEW t \in Threads, pc[t] \in {"lock", "mark", "data", "link", "grab"}
  PROVE  /\ \A u \in Threads : ~Freeing(u) /\ pc[u] # "store"
         /\ \A b : ~Freed(b)
         /\ \A u \in Threads \ {t} :
               /\ pc[u] # "grab"
               /\ Writing(u) => loc[u].obj # loc[t].obj
               /\ loc[t].off \notin Directs => ~Writing(u)
<1>1. Writing(t) /\ loc[t].op = "write" /\ loc[t].off \in Offsets /\ pc[t] # "idle"
  BY WriteIs DEF Writing
<1>2. ASSUME NEW u \in Threads, u # t, pc[u] # "idle"
      PROVE  /\ loc[u].op # "unlink"
             /\ loc[u].op = "write" => NIndirect = 0 /\ loc[u].obj # loc[t].obj
  BY <1>1, <1>2, CallFields DEF Apart
<1>3. ASSUME NEW u \in Threads, Freeing(u) PROVE FALSE
  BY <1>1, <1>2, <1>3 DEF Freeing
<1>4. ASSUME NEW u \in Threads, pc[u] = "store" PROVE FALSE
  <2>1. loc[u] \in Locals /\ InPlace("store", loc[u])
    BY <1>4, CallFields, InCall
  <2>2. loc[u].op \in {"unlink", "write"} /\ loc[u].obj \in Slots /\ loc[u].off \in Offsets
    BY <2>1 DEF InPlace, StepsOf, Locals, CallOps
  <2>3. loc[u].op = "unlink"
    BY <1>4, <2>2, CallFields DEF Blocks, OffsetsNew, Writing
  <2> QED
    BY <1>3, <1>4, <2>3 DEF Freeing
<1>5. ASSUME NEW o \in Offsets, o \notin Directs PROVE NIndirect # 0
  <2>1. Alpha(o) \in Indirects
    BY <1>5, AlphaAlp
  <2> QED
    BY <2>1 DEF Indirects
<1>6. ASSUME NEW u \in Threads, pc[u] = "grab" PROVE loc[u].off \in Offsets /\ loc[u].off \notin Directs
  BY <1>6, CallFields, InCall, WriteIs DEF InPlace
<1>7. ASSUME NEW u \in Threads \ {t}
      PROVE  /\ pc[u] # "grab"
             /\ Writing(u) => loc[u].obj # loc[t].obj
             /\ loc[t].off \notin Directs => ~Writing(u)
  <2>1. pc[u] = "grab" => loc[u].op = "write"
    BY WriteIs
  <2> QED
    BY <1>1, <1>2, <1>5, <1>6, <1>7, <2>1 DEF Writing
<1> QED
  BY <1>3, <1>4, <1>7 DEF Freed

(* The block marked is held by the write that marks it, and by nobody else. *)
LEMMA MarkStep ==
  ASSUME BInv, NEW t \in Threads, MarkBlock(t)
  PROVE  Blocks'
<1> DEFINE b == loc[t].blk
<1>1. /\ Within(t) /\ objs' = objs /\ DataTyped /\ TInv /\ Blocks /\ Apart'
      /\ loc \in [Threads -> Locals] /\ pc \in [Threads -> Labels] /\ loc[t] \in Locals
  BY CallFields, QuietWithin, WithinApart
<1>2. /\ pc[t] = "mark" /\ pc'[t] = "data" /\ bit_map_data' = loc[t].word \cup {b}
      /\ loc' = [loc EXCEPT ![t].word = {}] /\ disk' = disk
  BY <1>1 DEF MarkBlock, Goto, WithBlock, diskVars
<1>3. /\ loc[t].obj \in Slots /\ loc[t].off \in Offsets /\ Ptr(loc[t].obj, loc[t].off) = 0
      /\ b \in DataBlocks
  BY <1>2, WriteIs
<1>4. /\ \A u \in Threads : ~Freeing(u) /\ pc[u] # "store"
      /\ \A u \in Threads \ {t} : pc[u] # "grab"
      /\ \A c : ~Freed(c)
  BY <1>2, WhileWriting
<1>5. loc[t].word = bit_map_data /\ b \notin bit_map_data
  BY <1>1, <1>2 DEF Blocks, WordsCurrent
<1>6. \A u \in Threads \ {t} : pc[u] # "mark"
  BY <1>2 DEF BInv, MarkHolds
<1>7. /\ \A u \in Threads \ {t} : pc'[u] = pc[u] /\ loc'[u] = loc[u]
      /\ loc'[t].blk = b /\ loc'[t].off = loc[t].off /\ loc'[t].obj = loc[t].obj
  BY <1>1, <1>2 DEF Within, Locals
<1>8. PointersKept
  BY <1>1, <1>2, KeepPointers
<1>9. ~Points(b) /\ \A u \in Threads : ~Holds(u, b)
  BY <1>1, <1>3, <1>4, <1>5 DEF Blocks, MapExact, Held
<1> HIDE DEF b
<1>10. \A u \in Threads, c \in DataBlocks : Holds(u, c)' <=> Holds(u, c) \/ (u = t /\ c = b)
  BY <1>2, <1>7 DEF Holds, Holding
<1>11. \A u \in Threads : ~Freeing(u)'
  BY <1>2, <1>4, <1>7 DEF Freeing
<1>12. PointersInside' /\ PointersApart' /\ \A c : Points(c)' <=> Points(c)
  BY <1>1, <1>8, SamePoints DEF Blocks
<1>13. MapExact'
  <2>1. \A c \in DataBlocks : Held(c)' <=> Held(c) \/ c = b
    BY <1>10 DEF Held
  <2>2. \A c : ~Freed(c)'
    BY <1>11 DEF Freed
  <2> QED
    BY <1>1, <1>2, <1>4, <1>5, <1>12, <2>1, <2>2 DEF Blocks, MapExact
<1>14. HeldOnce'
  BY <1>1, <1>9, <1>10, <1>12 DEF Blocks, HeldOnce
<1>15. WordsCurrent'
  BY <1>2, <1>4, <1>6, <1>7 DEF WordsCurrent
<1>16. OffsetsNew'
  <2>1. \A u \in Threads \ {t} : Writing(u)' <=> Writing(u)
    BY <1>7 DEF Writing
  <2>2. \A s \in Slots, o \in Offsets : Ptr(s, o)' = Ptr(s, o)
    BY <1>8 DEF PointersKept, Positions
  <2> QED
    BY <1>1, <1>2, <1>3, <1>4, <1>7, <2>1, <2>2 DEF Blocks, OffsetsNew
<1>17. RestsLeft'
  BY <1>11 DEF RestsLeft
<1> QED
  BY <1>1, <1>12, <1>13, <1>14, <1>15, <1>16, <1>17 DEF Blocks

(* What the pointers are after a step.                                      *)
LEMMA PtrNext ==
  ASSUME NEW s \in Slots
  PROVE  /\ \A l \in Directs : Ptr(s, l)' = objs'[s].direct[l]
         /\ \A i \in Indirects : Ptr(s, -1 - i)' = objs'[s].indirect[i]
         /\ \A o \in Offsets \ Directs :
               /\ objs'[s].indirect[Alpha(o)] = 0 => Ptr(s, o)' = 0
               /\ \A a : objs'[s].indirect[Alpha(o)] = a /\ a # 0 =>
                     Ptr(s, o)' = IF disk'[a].kind = "table" THEN disk'[a].ptr[Alp(o)]
                                  ELSE NoEntries[Alp(o)]
<1>1. /\ \A o \in Offsets : o \in Directs <=> o < NDirect
      /\ \A i \in Indirects : i = -1 - (-1 - i) /\ -1 - i \notin Offsets
      /\ \A l \in Directs : l \in Offsets
  BY SizesAssumption, Numbers DEF Tables, Indirects, Offsets, Directs
<1>2. \A l \in Directs : Ptr(s, l)' = objs'[s].direct[l]
  BY <1>1 DEF Ptr, Pointer
<1>3. \A i \in Indirects : Ptr(s, -1 - i)' = objs'[s].indirect[i]
  BY <1>1 DEF Ptr
<1>4. ASSUME NEW o \in Offsets \ Directs
      PROVE  /\ objs'[s].indirect[Alpha(o)] = 0 => Ptr(s, o)' = 0
             /\ \A a : objs'[s].indirect[Alpha(o)] = a /\ a # 0 =>
                     Ptr(s, o)' = IF disk'[a].kind = "table" THEN disk'[a].ptr[Alp(o)]
                                  ELSE NoEntries[Alp(o)]
  BY <1>1 DEF Ptr, Pointer, TableAt
<1> QED
  BY <1>2, <1>3, <1>4

(* The block of a write gets its pointer.                                   *)
LEMMA LinkBlocks ==
  ASSUME BInv, NEW t \in Threads, Within(t), pc[t] = "link", pc'[t] = "done",
         bit_map_data' = bit_map_data,
         \A r \in Slots, p \in Positions :
            Ptr(r, p)' = IF r = loc[t].obj /\ p = loc[t].off THEN WriteOffset + loc[t].blk
                         ELSE Ptr(r, p)
  PROVE  Blocks'
<1>1. /\ DataTyped /\ TInv /\ Blocks /\ Apart'
  BY CallFields, WithinApart
<1>2. PICK s \in Slots, o \in Offsets, b \in DataBlocks :
        s = loc[t].obj /\ o = loc[t].off /\ b = loc[t].blk /\ Ptr(s, o) = 0 /\ o \in Positions
  BY WriteIs DEF Positions
<1>3. \A u \in Threads \ {t} : pc'[u] = pc[u] /\ loc'[u] = loc[u]
  BY DEF Within
<1>4. /\ \A u \in Threads : ~Freeing(u) /\ pc[u] # "store"
      /\ \A u \in Threads \ {t} : pc[u] # "grab" /\ (Writing(u) => loc[u].obj # s)
      /\ \A c : ~Freed(c)
  BY <1>2, WhileWriting
<1>5. ~Points(b) /\ \A u \in Threads : Holds(u, b) <=> u = t
  BY <1>1, <1>2 DEF Blocks, HeldOnce, Holds, Holding
<1>6. \A r \in Slots, p \in Positions :
        /\ Ptr(r, p) \in Int /\ Ptr(r, p) # WriteOffset + b
        /\ r = s /\ p = o => Ptr(r, p)' = WriteOffset + b
        /\ ~(r = s /\ p = o) => Ptr(r, p)' = Ptr(r, p)
  BY <1>1, <1>2, <1>5, PtrIs DEF Points
<1>7. b \in Nat /\ WriteOffset \in Nat /\ WriteOffset > 0
  BY <1>2, Numbers, SizesAssumption
<1>8. PointersInside'
  BY <1>1, <1>2, <1>6, <1>7 DEF Blocks, PointersInside
<1>9. PointersApart'
  BY <1>1, <1>6 DEF Blocks, PointersApart
<1>10. \A c \in DataBlocks : Points(c)' <=> Points(c) \/ c = b
  <2>1. \A c \in DataBlocks : c \in Nat
    BY Numbers
  <2>2. ASSUME NEW c \in DataBlocks PROVE Points(c)' <=> Points(c) \/ c = b
    <3>1. ASSUME NEW r \in Slots, NEW p \in Positions, Ptr(r, p) = WriteOffset + c
          PROVE  Ptr(r, p)' = WriteOffset + c
      <4>1. ~(r = s /\ p = o)
        <5>1. Ptr(r, p) > 0
          BY <1>7, <2>1, <3>1
        <5> QED
          BY <1>2, <5>1
      <4> QED
        BY <1>6, <3>1, <4>1
    <3>2. ASSUME NEW r \in Slots, NEW p \in Positions, Ptr(r, p)' = WriteOffset + c
          PROVE  Ptr(r, p) = WriteOffset + c \/ c = b
      BY <1>6, <1>7, <2>1, <3>2
    <3>3. c = b => Ptr(s, o)' = WriteOffset + c
      BY <1>2, <1>6
    <3> QED
      BY <1>2, <3>1, <3>2, <3>3 DEF Points
  <2> QED
    BY <2>2
<1>11. \A u \in Threads, c \in DataBlocks : Holds(u, c)' <=> Holds(u, c) /\ u # t
  BY <1>3 DEF Holds, Holding
<1>12. \A u \in Threads : ~Freeing(u)'
  BY <1>3, <1>4 DEF Freeing
<1>13. MapExact'
  <2>1. \A c \in DataBlocks : Held(c)' <=> Held(c) /\ c # b
    <3>1. \A c : Holds(t, c) => c = b
      BY <1>2 DEF Holds
    <3> QED
      BY <1>5, <1>11, <3>1 DEF Held
  <2>2. \A c : ~Freed(c)'
    BY <1>12 DEF Freed
  <2>3. Held(b)
    BY <1>5 DEF Held
  <2> QED
    BY <1>1, <1>4, <1>10, <2>1, <2>2, <2>3 DEF Blocks, MapExact
<1>14. HeldOnce'
  BY <1>1, <1>5, <1>10, <1>11 DEF Blocks, HeldOnce
<1>15. WordsCurrent'
  BY <1>1, <1>3 DEF Blocks, WordsCurrent
<1>16. OffsetsNew'
  <2>1. \A u \in Threads \ {t} : Writing(u)' <=> Writing(u)
    BY <1>3 DEF Writing
  <2>2. ~Writing(t)'
    BY DEF Writing
  <2>3. \A r \in Slots \ {s}, q \in Offsets : Ptr(r, q)' = Ptr(r, q)
    BY <1>6 DEF Positions
  <2> QED
    BY <1>1, <1>3, <1>4, <2>1, <2>2, <2>3 DEF Blocks, OffsetsNew
<1>17. RestsLeft'
  BY <1>12 DEF RestsLeft
<1> QED
  BY <1>1, <1>8, <1>9, <1>13, <1>14, <1>15, <1>16, <1>17 DEF Blocks

(* A link moves the one pointer of its offset.                              *)
LEMMA LinkDirectPointers ==
  ASSUME BInv, NEW t \in Threads, LinkDirect(t)
  PROVE  /\ Within(t) /\ pc[t] = "link" /\ pc'[t] = "done" /\ bit_map_data' = bit_map_data
         /\ \A r \in Slots, p \in Positions :
               Ptr(r, p)' = IF r = loc[t].obj /\ p = loc[t].off THEN WriteOffset + loc[t].blk
                            ELSE Ptr(r, p)
<1>1. /\ DataTyped /\ TInv /\ Within(t) /\ pc \in [Threads -> Labels] /\ objs \in [Slots -> Objects]
  BY CallFields, LinkWithin DEF DataTyped
<1>2. PICK s \in Slots, o \in Directs, b \in DataBlocks :
        s = loc[t].obj /\ o = loc[t].off /\ b = loc[t].blk
  BY <1>1, LinkingIs DEF LinkDirect
<1>3. /\ pc[t] = "link" /\ pc'[t] = "done" /\ bit_map_data' = bit_map_data /\ disk' = disk
      /\ objs' = [objs EXCEPT ![s].direct[o] = WriteOffset + b, ![s].size = @ + 1]
  BY <1>1, <1>2 DEF LinkDirect, Linking, Goto, SetDirect, diskVars
<1>4. /\ \A r \in Slots : /\ objs'[r].indirect = objs[r].indirect
                          /\ r # s => objs'[r].direct = objs[r].direct
      /\ objs'[s].direct = [objs[s].direct EXCEPT ![o] = WriteOffset + b]
  <2>1. \A r \in Slots : objs[r] \in Objects
    BY <1>1
  <2> QED
    BY <1>1, <1>2, <1>3, <2>1 DEF Objects
<1>5. \A l \in Directs : objs'[s].direct[l] = IF l = o THEN WriteOffset + b ELSE objs[s].direct[l]
  BY <1>1, <1>3, <1>4, ObjectIs
<1>6. ASSUME NEW r \in Slots, NEW p \in Positions
      PROVE  Ptr(r, p)' = IF r = s /\ p = o THEN WriteOffset + b ELSE Ptr(r, p)
  <2>1. CASE p \in Directs
    <3>1. Ptr(r, p)' = objs'[r].direct[p] /\ Ptr(r, p) = objs[r].direct[p]
      BY <1>1, <2>1, PtrIs, PtrNext
    <3> QED
      BY <1>4, <1>5, <2>1, <3>1
  <2>2. CASE p \in Offsets \ Directs
    <3> DEFINE a == objs[r].indirect[Alpha(p)]
    <3>1. objs'[r].indirect[Alpha(p)] = a
      BY <1>4
    <3> HIDE DEF a
    <3>2. a # 0 => Ptr(r, p)' = IF disk'[a].kind = "table" THEN disk'[a].ptr[Alp(p)]
                                ELSE NoEntries[Alp(p)]
      BY <2>2, <3>1, PtrNext
    <3>3. a = 0 => Ptr(r, p)' = 0
      BY <2>2, <3>1, PtrNext
    <3>4. Ptr(r, p) = IF a = 0 THEN 0 ELSE TableAt(a)[Alp(p)]
      BY <1>1, <2>2, PtrIs DEF a
    <3>5. p # o
      BY <2>2
    <3> QED
      BY <1>3, <3>2, <3>3, <3>4, <3>5 DEF TableAt
  <2>3. CASE p \in Tables
    <3>1. PICK i \in Indirects : p = -1 - i /\ p \notin Offsets
      BY <1>1, <2>3, PtrIs
    <3>2. p # o
      BY <3>1, Numbers
    <3> QED
      BY <1>1, <1>4, <3>1, <3>2, PtrIs, PtrNext
  <2> QED
    BY <2>1, <2>2, <2>3 DEF Positions
<1> QED
  BY <1>1, <1>2, <1>3, <1>6

(* Linking an entry changes one pointer, to the block that is held. *)
LEMMA LinkEntryPointers ==
  ASSUME BInv, NEW t \in Threads, LinkEntry(t)
  PROVE  /\ Within(t) /\ pc[t] = "link" /\ pc'[t] = "done" /\ bit_map_data' = bit_map_data
         /\ \A r \in Slots, p \in Positions :
               Ptr(r, p)' = IF r = loc[t].obj /\ p = loc[t].off THEN WriteOffset + loc[t].blk
                            ELSE Ptr(r, p)
<1>1. /\ DataTyped /\ TInv /\ Within(t) /\ pc \in [Threads -> Labels] /\ Blocks
      /\ objs \in [Slots -> Objects] /\ \A r \in Slots : objs[r] \in Objects
  BY CallFields, LinkWithin DEF DataTyped
<1>2. PICK s \in Slots, o \in Offsets \ Directs, b \in DataBlocks :
        s = loc[t].obj /\ o = loc[t].off /\ b = loc[t].blk
  BY <1>1, LinkingIs DEF LinkEntry
<1>3. /\ o \in Positions /\ Alpha(o) \in Indirects /\ Alp(o) \in Entries
      /\ objs[s].indirect[Alpha(o)] \in Addresses
  BY <1>1, AlphaAlp, ObjectIs DEF Positions
<1>4. PICK a \in Addresses : a = objs[s].indirect[Alpha(o)] /\ a = Indirect(t)
  BY <1>2, <1>3 DEF Indirect
<1>5. /\ pc[t] = "link" /\ pc'[t] = "done" /\ bit_map_data' = bit_map_data /\ a # 0
      /\ objs' = [objs EXCEPT ![s].size = @ + 1]
      /\ disk' = [disk EXCEPT ![a] = Table([TableAt(a) EXCEPT ![Alp(o)] = WriteOffset + b])]
  BY <1>1, <1>2, <1>4 DEF LinkEntry, Linking, Goto, SetEntry, WriteBlock
<1>6. \A r \in Slots : objs'[r].indirect = objs[r].indirect /\ objs'[r].direct = objs[r].direct
  BY <1>1, <1>5 DEF Objects
<1>7. /\ disk'[a].kind = "table"
      /\ disk'[a].ptr = [TableAt(a) EXCEPT ![Alp(o)] = WriteOffset + b]
      /\ \A c \in Addresses \ {a} : disk'[c] = disk[c]
      /\ TableAt(a) \in [Entries -> Addresses]
  BY <1>1, <1>5, PointerType DEF DataTyped, Table
<1>8. Ptr(s, -1 - Alpha(o)) = a
  BY <1>1, <1>3, <1>4, PtrIs
<1>9. ASSUME NEW r \in Slots, NEW p \in Positions
      PROVE  Ptr(r, p)' = IF r = s /\ p = o THEN WriteOffset + b ELSE Ptr(r, p)
  <2>1. CASE p \in Directs
    <3>1. Ptr(r, p)' = objs'[r].direct[p] /\ Ptr(r, p) = objs[r].direct[p]
      BY <1>1, <2>1, PtrIs, PtrNext
    <3> QED
      BY <1>2, <1>6, <2>1, <3>1
  <2>2. CASE p \in Offsets \ Directs
    <3>1. PICK d \in Addresses : d = objs[r].indirect[Alpha(p)]
      BY <1>1, <2>2, AlphaAlp, ObjectIs
    <3>2. objs'[r].indirect[Alpha(p)] = d
      BY <1>6, <3>1
    <3>3. d # 0 => Ptr(r, p)' = IF disk'[d].kind = "table" THEN disk'[d].ptr[Alp(p)]
                                ELSE NoEntries[Alp(p)]
      BY <2>2, <3>2, PtrNext
    <3>4. d = 0 => Ptr(r, p)' = 0
      BY <2>2, <3>2, PtrNext
    <3>5. /\ Ptr(r, p) = IF d = 0 THEN 0 ELSE TableAt(d)[Alp(p)]
          /\ Alp(p) \in Entries /\ Alpha(p) \in Indirects
      BY <1>1, <2>2, <3>1, PtrIs
    <3>6. CASE d # a
      <4>1. ~(r = s /\ p = o)
        BY <1>4, <3>1, <3>6
      <4> QED
        BY <1>7, <3>3, <3>4, <3>5, <3>6, <4>1 DEF TableAt
    <3>7. CASE d = a
      <4>1. r = s /\ Alpha(p) = Alpha(o)
        <5>1. Ptr(r, -1 - Alpha(p)) = a /\ -1 - Alpha(p) \in Positions /\ -1 - Alpha(o) \in Positions
          BY <1>1, <1>3, <3>1, <3>5, <3>7, PtrIs DEF Positions
        <5>2. r = s /\ -1 - Alpha(p) = -1 - Alpha(o)
          BY <1>1, <1>5, <1>8, <5>1 DEF Blocks, PointersApart
        <5>3. Alpha(p) \in Int /\ Alpha(o) \in Int
          BY <1>3, <3>5, Numbers
        <5> QED
          BY <5>2, <5>3
      <4>2. Alp(p) = Alp(o) <=> p = o
        BY <1>2, <2>2, <4>1, OneOffset
      <4>3. Ptr(r, p)' = IF Alp(p) = Alp(o) THEN WriteOffset + b ELSE TableAt(a)[Alp(p)]
        BY <1>3, <1>5, <1>7, <3>3, <3>5, <3>7
      <4> QED
        BY <1>5, <3>5, <3>7, <4>1, <4>2, <4>3
    <3> QED
      BY <3>6, <3>7
  <2>3. CASE p \in Tables
    <3>1. PICK i \in Indirects : p = -1 - i /\ p \notin Offsets
      BY <1>1, <2>3, PtrIs
    <3> QED
      BY <1>1, <1>6, <3>1, PtrIs, PtrNext
  <2> QED
    BY <2>1, <2>2, <2>3 DEF Positions
<1> QED
  BY <1>1, <1>2, <1>5, <1>9

(* A block that is linked has its pointer and is held no more. *)
LEMMA LinkStep ==
  ASSUME BInv, NEW t \in Threads, LinkDirect(t) \/ LinkEntry(t)
  PROVE  Blocks'
<1>1. CASE LinkDirect(t)
  BY <1>1, LinkDirectPointers, LinkBlocks
<1>2. CASE LinkEntry(t)
  BY <1>2, LinkEntryPointers, LinkBlocks
<1> QED
  BY <1>1, <1>2

(* A new indirect block brings two pointers: its own and its first entry.   *)
LEMMA GrabPointers ==
  ASSUME BInv, NEW t \in Threads, GrabIndirect(t)
  PROVE  \E s \in Slots, o \in Offsets \ Directs, b \in DataBlocks, g \in DataBlocks \ bit_map_data :
           /\ s = loc[t].obj /\ o = loc[t].off /\ b = loc[t].blk /\ Ptr(s, o) = 0
           /\ -1 - Alpha(o) \in Positions /\ Ptr(s, -1 - Alpha(o)) = 0 /\ ~Points(g)
           /\ bit_map_data' = bit_map_data \cup {g}
           /\ \A r \in Slots, p \in Positions :
                 Ptr(r, p)' = IF r = s /\ p = o THEN WriteOffset + b
                              ELSE IF r = s /\ p = -1 - Alpha(o) THEN WriteOffset + g
                              ELSE Ptr(r, p)
<1>1. /\ DataTyped /\ TInv /\ Within(t) /\ pc \in [Threads -> Labels] /\ Blocks
      /\ objs \in [Slots -> Objects] /\ \A r \in Slots : objs[r] \in Objects
  BY CallFields, LinkWithin DEF DataTyped
<1>2. /\ pc[t] = "grab" /\ loc[t].op = "write" /\ loc[t].obj \in Slots /\ loc[t].off \in Offsets
      /\ loc[t].blk \in DataBlocks /\ Writing(t) /\ Ptr(loc[t].obj, loc[t].off) = 0
      /\ loc[t].off \notin Directs
  <2>1. pc[t] = "grab"
    BY DEF GrabIndirect
  <2>2. InPlace("grab", loc[t])
    BY <1>1, <2>1, InCall
  <2> QED
    BY <2>1, <2>2, WriteIs DEF InPlace
<1>3. PICK s \in Slots, o \in Offsets \ Directs, b \in DataBlocks :
        s = loc[t].obj /\ o = loc[t].off /\ b = loc[t].blk
  BY <1>2
<1>4. loc[t].word = bit_map_data /\ loc[t].todo[0] \in DataBlocks \ bit_map_data
  BY <1>1, <1>2 DEF Blocks, WordsCurrent
<1>5. PICK g \in DataBlocks \ bit_map_data : g = loc[t].todo[0]
  BY <1>4
<1>6. Ptr(s, o) = 0 /\ Ptr(s, -1 - Alpha(o)) = 0
  BY <1>1, <1>2, <1>3 DEF Blocks, OffsetsNew
<1>7. /\ o \in Positions /\ Alpha(o) \in Indirects /\ Alp(o) \in Entries /\ -1 - Alpha(o) \in Positions
      /\ objs[s].indirect[Alpha(o)] = 0
  BY <1>1, <1>3, <1>6, AlphaAlp, PtrIs DEF Positions
<1>8. PICK a \in Addresses : a = WriteOffset + g /\ a # 0
  <2>1. WriteOffset + g \in Addresses
    BY <1>5, Numbers
  <2>2. g \in Nat /\ WriteOffset \in Nat \ {0}
    BY <1>5, Numbers, SizesAssumption
  <2> QED
    BY <2>1, <2>2
<1>9. ~Points(g)
  <2>1. ~Freed(g)
    BY <1>2, WhileWriting
  <2> QED
    BY <1>1, <1>5, <2>1 DEF Blocks, MapExact
<1>10. /\ bit_map_data' = bit_map_data \cup {g}
       /\ objs' = [objs EXCEPT ![s].indirect[Alpha(o)] = a, ![s].size = @ + 1]
       /\ disk' = [disk EXCEPT ![a] = Table([NoEntries EXCEPT ![Alp(o)] = WriteOffset + b])]
  <2>1. g # -1
    BY <1>5, Numbers
  <2> QED
    BY <1>1, <1>3, <1>4, <1>5, <1>8, <2>1 DEF GrabIndirect, WithBlock, SetEntry, WriteBlock
<1>11. /\ \A r \in Slots : /\ objs'[r].direct = objs[r].direct
                           /\ r # s => objs'[r].indirect = objs[r].indirect
       /\ objs'[s].indirect = [objs[s].indirect EXCEPT ![Alpha(o)] = a]
  BY <1>1, <1>3, <1>10 DEF Objects
<1>12. \A i \in Indirects : objs'[s].indirect[i] = IF i = Alpha(o) THEN a ELSE objs[s].indirect[i]
  BY <1>1, <1>7, <1>11, ObjectIs
<1>13. /\ disk'[a].kind = "table"
       /\ disk'[a].ptr = [NoEntries EXCEPT ![Alp(o)] = WriteOffset + b]
       /\ \A c \in Addresses \ {a} : disk'[c] = disk[c]
       /\ \A e \in Entries : disk'[a].ptr[e] = IF e = Alp(o) THEN WriteOffset + b ELSE 0
  BY <1>1, <1>7, <1>8, <1>10 DEF DataTyped, Table, NoEntries
<1>14. ASSUME NEW r \in Slots, NEW p \in Positions
       PROVE  Ptr(r, p)' = IF r = s /\ p = o THEN WriteOffset + b
                           ELSE IF r = s /\ p = -1 - Alpha(o) THEN WriteOffset + g
                           ELSE Ptr(r, p)
  <2>1. CASE p \in Directs
    <3>1. Ptr(r, p)' = objs'[r].direct[p] /\ Ptr(r, p) = objs[r].direct[p] /\ p \in Offsets
      BY <1>1, <2>1, PtrIs, PtrNext, Numbers
    <3>2. p # -1 - Alpha(o)
      BY <1>1, <1>7, <3>1, PtrIs
    <3> QED
      BY <1>3, <1>11, <2>1, <3>1, <3>2
  <2>2. CASE p \in Offsets \ Directs
    <3>1. PICK d \in Addresses : d = objs[r].indirect[Alpha(p)]
      BY <1>1, <2>2, AlphaAlp, ObjectIs
    <3>2. /\ Ptr(r, p) = IF d = 0 THEN 0 ELSE TableAt(d)[Alp(p)]
          /\ Alp(p) \in Entries /\ Alpha(p) \in Indirects /\ p # -1 - Alpha(o)
      BY <1>1, <1>7, <2>2, <3>1, PtrIs
    <3>3. CASE r = s /\ Alpha(p) = Alpha(o)
      <4>1. objs'[r].indirect[Alpha(p)] = a /\ d = 0
        BY <1>7, <1>12, <3>1, <3>3
      <4>2. Ptr(r, p)' = IF disk'[a].kind = "table" THEN disk'[a].ptr[Alp(p)]
                         ELSE NoEntries[Alp(p)]
        BY <1>8, <2>2, <4>1, PtrNext
      <4>3. Alp(p) = Alp(o) <=> p = o
        BY <1>3, <2>2, <3>3, OneOffset
      <4> QED
        BY <1>13, <3>2, <3>3, <4>1, <4>2, <4>3
    <3>4. CASE ~(r = s /\ Alpha(p) = Alpha(o))
      <4>1. objs'[r].indirect[Alpha(p)] = d
        BY <1>11, <1>12, <3>1, <3>2, <3>4
      <4>2. d # 0 => Ptr(r, p)' = IF disk'[d].kind = "table" THEN disk'[d].ptr[Alp(p)]
                                  ELSE NoEntries[Alp(p)]
        BY <2>2, <4>1, PtrNext
      <4>3. d = 0 => Ptr(r, p)' = 0
        BY <2>2, <4>1, PtrNext
      <4>4. d # a
        <5>1. Ptr(r, -1 - Alpha(p)) = d /\ -1 - Alpha(p) \in Positions
          BY <1>1, <3>1, <3>2, PtrIs DEF Positions
        <5> QED
          BY <1>8, <1>9, <5>1 DEF Points
      <4>5. p = o => r # s
        BY <3>4
      <4> QED
        BY <1>13, <3>1, <3>2, <4>2, <4>3, <4>4, <4>5 DEF TableAt
    <3> QED
      BY <3>3, <3>4
  <2>3. CASE p \in Tables
    <3>1. PICK i \in Indirects : p = -1 - i /\ p \notin Offsets
      BY <1>1, <2>3, PtrIs
    <3>2. Ptr(r, p)' = objs'[r].indirect[i] /\ Ptr(r, p) = objs[r].indirect[i]
      BY <1>1, <3>1, PtrIs, PtrNext
    <3>3. p = -1 - Alpha(o) <=> i = Alpha(o)
      BY <1>7, <3>1, Numbers
    <3>4. p # o
      BY <1>3, <3>1
    <3> QED
      BY <1>8, <1>11, <1>12, <3>1, <3>2, <3>3, <3>4
  <2> QED
    BY <2>1, <2>2, <2>3 DEF Positions
<1> QED
  BY <1>3, <1>6, <1>7, <1>9, <1>10, <1>14

(* The block taken for a table is nobody's, and has its pointer. *)
LEMMA GrabStep ==
  ASSUME BInv, NEW t \in Threads, GrabIndirect(t)
  PROVE  Blocks'
<1>1. /\ DataTyped /\ TInv /\ Blocks /\ Apart' /\ Within(t) /\ pc \in [Threads -> Labels]
  BY CallFields, WithinApart, LinkWithin
<1>2. pc[t] = "grab" /\ pc'[t] = "done"
  BY <1>1 DEF GrabIndirect, Goto
<1>3. PICK s \in Slots, o \in Offsets \ Directs, b \in DataBlocks, g \in DataBlocks \ bit_map_data :
        /\ s = loc[t].obj /\ o = loc[t].off /\ b = loc[t].blk /\ Ptr(s, o) = 0
        /\ -1 - Alpha(o) \in Positions /\ Ptr(s, -1 - Alpha(o)) = 0 /\ ~Points(g)
        /\ bit_map_data' = bit_map_data \cup {g}
        /\ \A r \in Slots, p \in Positions :
              Ptr(r, p)' = IF r = s /\ p = o THEN WriteOffset + b
                           ELSE IF r = s /\ p = -1 - Alpha(o) THEN WriteOffset + g
                           ELSE Ptr(r, p)
  BY GrabPointers
<1>4. PICK x \in Positions : x = -1 - Alpha(o)
  BY <1>3
<1>5. /\ o \in Positions /\ x # o /\ Alpha(o) \in Indirects
      /\ b \in Nat /\ g \in Nat /\ WriteOffset \in Nat /\ WriteOffset > 0
  <2>1. x \in Tables /\ Alpha(o) \in Indirects
    BY <1>1, <1>4, PtrIs
  <2> QED
    BY <1>1, <1>3, <2>1, PtrIs, Numbers, SizesAssumption DEF Positions
<1>6. \A u \in Threads \ {t} : pc'[u] = pc[u] /\ loc'[u] = loc[u]
  BY <1>1 DEF Within
<1>7. /\ \A u \in Threads : ~Freeing(u) /\ pc[u] # "store"
      /\ \A u \in Threads \ {t} : pc[u] # "grab" /\ ~Writing(u)
      /\ \A c : ~Freed(c)
  BY <1>2, <1>3, WhileWriting
<1>8. ~Points(b) /\ \A u \in Threads : Holds(u, b) <=> u = t
  BY <1>1, <1>2, <1>3 DEF Blocks, HeldOnce, Holds, Holding
<1>9. b # g /\ \A u \in Threads : ~Holds(u, g)
  BY <1>1, <1>3, <1>8 DEF Blocks, MapExact, Held
<1>10. \A r \in Slots, p \in Positions :
        /\ Ptr(r, p) \in Int /\ Ptr(r, p) # WriteOffset + b /\ Ptr(r, p) # WriteOffset + g
        /\ r = s /\ p = o => Ptr(r, p)' = WriteOffset + b /\ Ptr(r, p) = 0
        /\ r = s /\ p = x => Ptr(r, p)' = WriteOffset + g /\ Ptr(r, p) = 0
        /\ ~(r = s /\ p \in {o, x}) => Ptr(r, p)' = Ptr(r, p)
  BY <1>1, <1>3, <1>4, <1>5, <1>8, PtrIs DEF Points
<1>11. PointersInside'
  BY <1>1, <1>3, <1>5, <1>10 DEF Blocks, PointersInside
<1>12. PointersApart'
  BY <1>1, <1>5, <1>9, <1>10 DEF Blocks, PointersApart
<1>13. \A c \in DataBlocks : Points(c)' <=> Points(c) \/ c \in {b, g}
  <2>1. \A c \in DataBlocks : c \in Nat
    BY Numbers
  <2>2. ASSUME NEW c \in DataBlocks PROVE Points(c)' <=> Points(c) \/ c \in {b, g}
    <3>1. ASSUME NEW r \in Slots, NEW p \in Positions, Ptr(r, p) = WriteOffset + c
          PROVE  Ptr(r, p)' = WriteOffset + c
      <4>1. Ptr(r, p) > 0
        BY <1>5, <2>1, <3>1
      <4> QED
        BY <1>10, <3>1, <4>1
    <3>2. ASSUME NEW r \in Slots, NEW p \in Positions, Ptr(r, p)' = WriteOffset + c
          PROVE  Ptr(r, p) = WriteOffset + c \/ c \in {b, g}
      BY <1>5, <1>10, <2>1, <3>2
    <3>3. /\ c = b => Ptr(s, o)' = WriteOffset + c
          /\ c = g => Ptr(s, x)' = WriteOffset + c
      BY <1>5, <1>10
    <3> QED
      BY <1>5, <3>1, <3>2, <3>3 DEF Points
  <2> QED
    BY <2>2
<1>14. \A u \in Threads, c \in DataBlocks : Holds(u, c)' <=> Holds(u, c) /\ u # t
  BY <1>2, <1>6 DEF Holds, Holding
<1>15. \A u \in Threads : ~Freeing(u)'
  BY <1>2, <1>6, <1>7 DEF Freeing
<1>16. MapExact'
  <2>1. \A c \in DataBlocks : Held(c)' <=> Held(c) /\ c # b
    <3>1. \A c : Holds(t, c) => c = b
      BY <1>3 DEF Holds
    <3> QED
      BY <1>8, <1>14, <3>1 DEF Held
  <2>2. \A c : ~Freed(c)'
    BY <1>15 DEF Freed
  <2>3. Held(b)
    BY <1>8 DEF Held
  <2> QED
    BY <1>1, <1>3, <1>7, <1>13, <2>1, <2>2, <2>3 DEF Blocks, MapExact
<1>17. HeldOnce'
  BY <1>1, <1>8, <1>9, <1>13, <1>14 DEF Blocks, HeldOnce
<1>18. WordsCurrent'
  <2>1. \A u \in Threads \ {t} : pc[u] # "mark"
    <3>1. \A u \in Threads : pc[u] = "mark" => Writing(u)
      BY WriteIs
    <3> QED
      BY <1>7, <3>1
  <2> QED
    BY <1>2, <1>6, <1>7, <2>1 DEF WordsCurrent
<1>19. OffsetsNew'
  <2>1. \A u \in Threads : ~Writing(u)'
    BY <1>2, <1>6, <1>7 DEF Writing
  <2> QED
    BY <2>1 DEF OffsetsNew
<1>20. RestsLeft'
  BY <1>15 DEF RestsLeft
<1> QED
  BY <1>1, <1>11, <1>12, <1>16, <1>17, <1>18, <1>19, <1>20 DEF Blocks

(* Clearing the next pointer of an object clears those that lead through it. *)
LEMMA ClearPointers ==
  ASSUME DataTyped, NEW s \in Slots, NextPositions(s) # {}, ClearPointer(s), disk' = disk,
         NEW r \in Slots, NEW p \in Positions
  PROVE  Ptr(r, p)' = IF r = s /\ p \in NextPositions(s) THEN 0 ELSE Ptr(r, p)
<1>1. /\ objs \in [Slots -> Objects] /\ \A q \in Slots : objs[q] \in Objects
  BY DEF DataTyped
<1>2. ASSUME NEW f, f = objs'[r].indirect, p \in Offsets \ Directs
      PROVE  /\ f[Alpha(p)] = objs[r].indirect[Alpha(p)] => Ptr(r, p)' = Ptr(r, p)
             /\ f[Alpha(p)] = 0 => Ptr(r, p)' = 0
             /\ objs[r].indirect[Alpha(p)] = 0 => Ptr(r, p) = 0
  <2>1. PICK d \in Addresses : d = objs[r].indirect[Alpha(p)]
    BY <1>2, AlphaAlp, ObjectIs
  <2>2. Ptr(r, p) = IF d = 0 THEN 0 ELSE TableAt(d)[Alp(p)]
    BY <1>2, <2>1, PtrIs
  <2>3. f[Alpha(p)] = 0 => Ptr(r, p)' = 0
    BY <1>2, PtrNext
  <2>4. f[Alpha(p)] = d /\ d # 0 => Ptr(r, p)' = IF disk'[d].kind = "table" THEN disk'[d].ptr[Alp(p)]
                                                ELSE NoEntries[Alp(p)]
    BY <1>2, PtrNext
  <2> QED
    BY <2>1, <2>2, <2>3, <2>4 DEF TableAt
<1>3. CASE UsedDirects(s) # {}
  <2>1. PICK l \in Directs : l = First(UsedDirects(s))
    BY <1>3, UsedAre
  <2>2. NextPositions(s) = {l} /\ objs' = [objs EXCEPT ![s].direct[l] = 0]
    BY <1>3, <2>1 DEF NextPositions, ClearPointer
  <2>3. /\ \A q \in Slots : /\ objs'[q].indirect = objs[q].indirect
                            /\ q # s => objs'[q].direct = objs[q].direct
        /\ objs'[s].direct = [objs[s].direct EXCEPT ![l] = 0]
    BY <1>1, <2>2 DEF Objects
  <2>4. \A m \in Directs : objs'[s].direct[m] = IF m = l THEN 0 ELSE objs[s].direct[m]
    BY <2>1, <2>3, ObjectIs
  <2>5. CASE p \in Directs
    <3>1. Ptr(r, p)' = objs'[r].direct[p] /\ Ptr(r, p) = objs[r].direct[p]
      BY <2>5, PtrIs, PtrNext
    <3> QED
      BY <2>2, <2>3, <2>4, <2>5, <3>1
  <2>6. CASE p \in Offsets \ Directs
    BY <1>2, <2>2, <2>3, <2>6
  <2>7. CASE p \in Tables
    <3>1. PICK i \in Indirects : p = -1 - i /\ p \notin Offsets
      BY <2>7, PtrIs
    <3>2. p # l
      BY <3>1, Numbers
    <3> QED
      BY <2>2, <2>3, <3>1, <3>2, PtrIs, PtrNext
  <2> QED
    BY <2>5, <2>6, <2>7 DEF Positions
<1>4. CASE UsedDirects(s) = {}
  <2>1. UsedIndirects(s) # {}
    BY <1>4 DEF NextPositions
  <2>2. PICK i \in Indirects : i = First(UsedIndirects(s))
    BY <2>1, UsedAre
  <2>3. /\ NextPositions(s) = {-1 - i} \cup {o \in Offsets \ Directs : Alpha(o) = i /\ Ptr(s, o) # 0}
        /\ objs' = [objs EXCEPT ![s].indirect[i] = 0]
    BY <1>4, <2>1, <2>2 DEF NextPositions, ClearPointer
  <2>4. /\ \A q \in Slots : /\ objs'[q].direct = objs[q].direct
                            /\ q # s => objs'[q].indirect = objs[q].indirect
        /\ objs'[s].indirect = [objs[s].indirect EXCEPT ![i] = 0]
    BY <1>1, <2>3 DEF Objects
  <2>5. \A m \in Indirects : objs'[s].indirect[m] = IF m = i THEN 0 ELSE objs[s].indirect[m]
    BY <2>2, <2>4, ObjectIs
  <2>6. -1 - i \notin Offsets
    BY <2>2, PtrIs
  <2>7. CASE p \in Directs
    <3>1. Ptr(r, p)' = objs'[r].direct[p] /\ Ptr(r, p) = objs[r].direct[p] /\ p \in Offsets
      BY <2>7, PtrIs, PtrNext, Numbers
    <3> QED
      BY <2>3, <2>4, <2>6, <2>7, <3>1
  <2>8. CASE p \in Offsets \ Directs
    <3>1. Alpha(p) \in Indirects
      BY <2>8, AlphaAlp
    <3>2. CASE r = s /\ Alpha(p) = i
      <4>1. Ptr(r, p)' = 0
        BY <1>2, <2>5, <2>8, <3>1, <3>2
      <4> QED
        BY <2>3, <2>8, <3>2, <4>1
    <3>3. CASE ~(r = s /\ Alpha(p) = i)
      <4>1. Ptr(r, p)' = Ptr(r, p)
        BY <1>2, <2>4, <2>5, <2>8, <3>1, <3>3
      <4> QED
        BY <2>3, <2>6, <2>8, <3>3, <4>1
    <3> QED
      BY <3>2, <3>3
  <2>9. CASE p \in Tables
    <3>1. PICK m \in Indirects : p = -1 - m /\ p \notin Offsets
      BY <2>9, PtrIs
    <3>2. Ptr(r, p)' = objs'[r].indirect[m] /\ Ptr(r, p) = objs[r].indirect[m]
      BY <3>1, PtrIs, PtrNext
    <3>3. p \in NextPositions(s) <=> m = i
      BY <2>3, <3>1, Numbers
    <3> QED
      BY <2>4, <2>5, <3>1, <3>2, <3>3
  <2> QED
    BY <2>7, <2>8, <2>9 DEF Positions
<1> QED
  BY <1>3, <1>4

(* The bit cleared is that of a block of the object, which has lost its     *)
(* pointer.                                                                 *)
LEMMA FreeStep ==
  ASSUME BInv, NEW t \in Threads, FreeBlock(t)
  PROVE  Blocks'
<1>1. /\ DataTyped /\ TInv /\ Blocks /\ Apart /\ Apart' /\ Within(t) /\ pc \in [Threads -> Labels]
      /\ loc \in [Threads -> Locals] /\ loc[t] \in Locals
  BY CallFields, WithinApart, LinkWithin
<1>2. pc[t] = "store" /\ loc[t].op = "unlink" /\ disk' = disk
  BY DEF FreeBlock, diskVars
<1>3. InPlace("store", loc[t])
  BY <1>1, <1>2, InCall
<1>4. PICK s \in Slots : s = loc[t].obj
  BY <1>2, <1>3 DEF InPlace
<1>5. PICK T \in Lists : T = loc[t].todo
  BY <1>1 DEF Locals
<1>6. PICK n \in DOMAIN T : n = First(DOMAIN T)
  <2>1. DOMAIN T # {} /\ DOMAIN T \subseteq Nat
    BY <1>3, <1>5, ListIs DEF InPlace
  <2> QED
    BY <2>1, FirstIs
<1>7. Freeing(t) /\ \A u \in Threads \ {t} : pc[u] = "idle" /\ pc'[u] = "idle" /\ loc'[u] = loc[u]
  BY <1>1, <1>2 DEF Apart, Within, Freeing
<1>8. /\ T[n] \in Rest(t) /\ Rest(t) \subseteq NextBlocks(s)
      /\ \A i, j \in DOMAIN T : T[i] = T[j] => i = j
      /\ loc[t].word = bit_map_data
  BY <1>1, <1>2, <1>4, <1>5, <1>6, <1>7 DEF Blocks, RestsLeft, WordsCurrent, Rest
<1>9. PICK p \in NextPositions(s) : Ptr(s, p) = WriteOffset + T[n] /\ T[n] \in Int /\ p \in Positions
                                    /\ Ptr(s, p) # 0
  BY <1>1, <1>8, NextAre
<1>10. PICK b \in DataBlocks : b = T[n]
  <2>1. WriteOffset \in Int
    BY SizesAssumption
  <2>2. Ptr(s, p) - WriteOffset \in DataBlocks
    BY <1>1, <1>9 DEF Blocks, PointersInside
  <2> QED
    BY <1>9, <2>1, <2>2
<1>11. \A c : Freed(c) <=> c \in NextBlocks(s) /\ c \notin Rest(t)
  BY <1>4, <1>7 DEF Freed, Freeing
<1>12. \A u \in Threads, c \in DataBlocks : ~Holds(u, c) /\ ~Holds(u, c)'
  <2>1. pc'[t] \in {"free", "load"}
    BY <1>1 DEF FreeBlock, Goto
  <2> QED
    BY <1>2, <1>7, <2>1 DEF Holds, Holding
<1>13. \A c \in DataBlocks : c \in bit_map_data <=> Points(c) /\ ~(c \in NextBlocks(s) /\ c \notin Rest(t))
  BY <1>1, <1>11, <1>12 DEF Blocks, MapExact, Held
<1>14. bit_map_data' = bit_map_data \ {b} /\ b \in bit_map_data
  <2>1. Points(b)
    BY <1>9, <1>10 DEF Points
  <2>2. b \in bit_map_data
    BY <1>8, <1>10, <1>13, <2>1
  <2> QED
    BY <1>5, <1>6, <1>8, <1>10, <2>2 DEF FreeBlock, Flip
<1>15. loc'[t].op = "unlink" /\ loc'[t].obj = s /\ loc'[t].todo = Restrict(T, DOMAIN T \ {n})
  BY <1>1, <1>2, <1>4, <1>5, <1>6 DEF FreeBlock, Locals
<1>16. \A u \in Threads : ~Writing(u)' /\ pc'[u] \notin {"mark", "store", "grab"}
  <2>1. pc'[t] \in {"free", "load"}
    BY <1>1 DEF FreeBlock, Goto
  <2> QED
    BY <1>7, <1>15, <2>1 DEF Writing
<1>17. WordsCurrent' /\ OffsetsNew'
  BY <1>16 DEF WordsCurrent, OffsetsNew
<1>18. \A c \in DataBlocks : ~Held(c)'
  BY <1>12 DEF Held
<1>19. HeldOnce'
  BY <1>12 DEF HeldOnce
<1>20. CASE DOMAIN T # {n}
  <2>1. /\ objs' = objs /\ pc'[t] = "load" 
    BY <1>1, <1>5, <1>6, <1>20 DEF FreeBlock, Goto
  <2>2. PointersKept
    BY <1>1, <1>2, <2>1, KeepPointers
  <2>3. PointersInside' /\ PointersApart' /\ \A c : Points(c)' <=> Points(c)
    BY <1>1, <2>2, SamePoints DEF Blocks
  <2>4. \A r \in Slots : NextBlocks(r)' = NextBlocks(r)
    BY <1>1, <2>2, SameNext
  <2>5. Rest(t)' = Rest(t) \ {b}
    <3>1. PICK L : L = loc'[t].todo
      OBVIOUS
    <3>2. DOMAIN L = DOMAIN T \ {n} /\ \A i \in DOMAIN L : L[i] = T[i]
      BY <1>15, <3>1 DEF Restrict
    <3>3. {L[i] : i \in DOMAIN L} = {T[i] : i \in DOMAIN T} \ {b}
      <4>1. ASSUME NEW y, y \in {L[i] : i \in DOMAIN L} PROVE y \in {T[i] : i \in DOMAIN T} \ {b}
        BY <1>6, <1>8, <1>10, <3>2, <4>1
      <4>2. ASSUME NEW y, y \in {T[i] : i \in DOMAIN T}, y # b PROVE y \in {L[i] : i \in DOMAIN L}
        BY <1>10, <3>2, <4>2
      <4> QED
        BY <4>1, <4>2
    <3>4. Rest(t)' = {L[i] : i \in DOMAIN L} /\ Rest(t) = {T[i] : i \in DOMAIN T}
      BY <1>5, <3>1 DEF Rest
    <3> QED
      BY <3>3, <3>4
  <2>6. Freeing(t)' /\ \A u \in Threads \ {t} : ~Freeing(u)'
    BY <1>7, <1>15, <2>1 DEF Freeing
  <2>7. \A c : Freed(c)' <=> Freed(c) \/ c = b
    <3>1. \A c : Freed(c)' <=> c \in NextBlocks(s) /\ c \notin Rest(t)'
      BY <1>15, <2>4, <2>6 DEF Freed
    <3> QED
      BY <1>8, <1>10, <1>11, <2>5, <3>1
  <2>8. MapExact'
    BY <1>11, <1>13, <1>14, <1>18, <2>3, <2>7 DEF MapExact
  <2>9. RestsLeft'
    <3>1. \A i, j \in DOMAIN loc'[t].todo : loc'[t].todo[i] = loc'[t].todo[j] => i = j
      BY <1>8, <1>15 DEF Restrict
    <3>2. Rest(t)' \subseteq NextBlocks(s)'
      BY <1>8, <2>4, <2>5
    <3>3. \A u \in Threads : Freeing(u)' => u = t
      BY <2>6
    <3> QED
      BY <1>15, <3>1, <3>2, <3>3 DEF RestsLeft
  <2> QED
    BY <1>1, <1>17, <1>19, <2>3, <2>8, <2>9 DEF Blocks
<1>21. CASE DOMAIN T = {n}
  <2>1. ClearPointer(s) /\ pc'[t] = "free"
    BY <1>1, <1>4, <1>5, <1>6, <1>21 DEF FreeBlock, Goto
  <2>2. \A r \in Slots, q \in Positions :
          Ptr(r, q)' = IF r = s /\ q \in NextPositions(s) THEN 0 ELSE Ptr(r, q)
    BY <1>1, <1>2, <1>9, <2>1, ClearPointers
  <2>3. Rest(t) = {b}
    BY <1>5, <1>6, <1>10, <1>21 DEF Rest
  <2>4. PointersInside' /\ PointersApart'
    BY <1>1, <2>2 DEF Blocks, PointersInside, PointersApart
  <2>5. ASSUME NEW c \in DataBlocks PROVE Points(c)' <=> Points(c) /\ c \notin NextBlocks(s)
    <3>1. c \in Nat /\ WriteOffset \in Nat /\ WriteOffset > 0 /\ WriteOffset + c # 0
      BY Numbers, SizesAssumption
    <3>2. ASSUME NEW r \in Slots, NEW q \in Positions, Ptr(r, q)' = WriteOffset + c
          PROVE  Ptr(r, q) = WriteOffset + c /\ c \notin NextBlocks(s)
      <4>1. Ptr(r, q) = WriteOffset + c /\ ~(r = s /\ q \in NextPositions(s)) /\ Ptr(r, q) # 0
        BY <2>2, <3>1, <3>2
      <4>2. ASSUME c \in NextBlocks(s) PROVE FALSE
        <5>1. PICK x \in NextPositions(s) : Ptr(s, x) = WriteOffset + c /\ x \in Positions
          BY <1>1, <4>2, NextAre
        <5> QED
          BY <1>1, <4>1, <5>1 DEF Blocks, PointersApart
      <4> QED
        BY <4>1, <4>2
    <3>3. ASSUME NEW r \in Slots, NEW q \in Positions, Ptr(r, q) = WriteOffset + c,
                 c \notin NextBlocks(s)
          PROVE  Ptr(r, q)' = WriteOffset + c
      <4>1. ~(r = s /\ q \in NextPositions(s))
        BY <1>1, <3>1, <3>3, NextAre
      <4> QED
        BY <2>2, <3>3, <4>1
    <3> QED
      BY <3>2, <3>3 DEF Points
  <2>6. \A u \in Threads : ~Freeing(u)'
    BY <1>7, <2>1 DEF Freeing
  <2>7. MapExact'
    <3>1. \A c : ~Freed(c)'
      BY <2>6 DEF Freed
    <3> QED
      BY <1>8, <1>10, <1>13, <1>14, <1>18, <2>3, <2>5, <3>1 DEF MapExact
  <2>8. RestsLeft'
    BY <2>6 DEF RestsLeft
  <2> QED
    BY <1>1, <1>17, <1>19, <2>4, <2>7, <2>8 DEF Blocks
<1> QED
  BY <1>20, <1>21

(* Steps of no thread. *)
LEMMA IdleBlocks ==
  ASSUME BInv, UNCHANGED <<objs, disk, bit_map_data, pc, loc>>
  PROVE  Blocks'
<1>1. DataTyped /\ Blocks
  BY DEF BInv, SInv, TInv
<1>2. PointersKept
  BY <1>1, KeepPointers
<1>3. PointersInside' /\ PointersApart' /\ \A b : Points(b)' <=> Points(b)
  BY <1>1, <1>2, SamePoints DEF Blocks
<1>4. \A s \in Slots : NextBlocks(s)' = NextBlocks(s)
  BY <1>1, <1>2, SameNext
<1>5. \A u \in Threads : /\ Freeing(u)' <=> Freeing(u)
                         /\ Writing(u)' <=> Writing(u)
                         /\ Rest(u)' = Rest(u)
                         /\ \A b : Holds(u, b)' <=> Holds(u, b)
  BY DEF Freeing, Writing, Holds, Holding, Rest
<1>6. \A b : /\ Held(b)' <=> Held(b)
             /\ Freed(b)' <=> Freed(b)
  BY <1>4, <1>5 DEF Held, Freed
<1>7. MapExact' /\ HeldOnce'
  BY <1>1, <1>3, <1>5, <1>6 DEF Blocks, MapExact, HeldOnce
<1>8. Apart' /\ WordsCurrent'
  BY <1>1 DEF Blocks, Apart, WordsCurrent
<1>9. OffsetsNew'
  <2>1. \A s \in Slots, o \in Offsets :
          /\ Ptr(s, o)' = Ptr(s, o)
          /\ o \notin Directs => Ptr(s, -1 - Alpha(o))' = Ptr(s, -1 - Alpha(o))
    BY <1>2, AlphaAlp DEF PointersKept, Positions, Tables
  <2> QED
    BY <1>1, <1>5, <2>1 DEF Blocks, OffsetsNew
<1>10. RestsLeft'
  BY <1>1, <1>4, <1>5 DEF Blocks, RestsLeft
<1> QED
  BY <1>3, <1>7, <1>8, <1>9, <1>10 DEF Blocks

(* On the first mount no block is used. *)
LEMMA InitBInv == Init => BInv
<1> SUFFICES ASSUME Init PROVE BInv
  OBVIOUS
<1>1. SInv /\ DataTyped
  BY InitSInv DEF SInv, TInv
<1>2. MarkHolds /\ \A t \in Threads : pc[t] = "idle"
  BY DEF Init, MarkHolds
<1>3. \A s \in Slots : objs[s] = NoObject
  BY DEF Init
<1>4. ASSUME NEW s \in Slots, NEW p \in Positions PROVE Ptr(s, p) = 0
  <2>1. CASE p \in Directs
    BY <1>1, <1>3, <2>1, PtrIs DEF NoObject
  <2>2. CASE p \in Offsets \ Directs
    <3>1. Alpha(p) \in Indirects
      BY <2>2, AlphaAlp
    <3>2. objs[s].indirect[Alpha(p)] = 0
      BY <1>3, <3>1 DEF NoObject
    <3> QED
      BY <1>1, <2>2, <3>2, PtrIs
  <2>3. CASE p \in Tables
    <3>1. PICK i \in Indirects : p = -1 - i
      BY <1>1, <2>3, PtrIs
    <3>2. objs[s].indirect[i] = 0
      BY <1>3, <3>1 DEF NoObject
    <3> QED
      BY <1>1, <3>1, <3>2, PtrIs
  <2> QED
    BY <2>1, <2>2, <2>3 DEF Positions
<1>5. PointersInside /\ PointersApart
  BY <1>4 DEF PointersInside, PointersApart
<1>6. \A b \in DataBlocks : ~Points(b)
  <2>1. \A b \in DataBlocks : WriteOffset + b # 0
    BY Numbers, SizesAssumption
  <2> QED
    BY <1>4, <2>1 DEF Points
<1>7. \A t \in Threads : ~Writing(t) /\ ~Freeing(t) /\ \A b : ~Holds(t, b)
  BY <1>2 DEF Writing, Freeing, Holds, Holding
<1>8. MapExact
  BY <1>6, <1>7 DEF Init, MapExact, Held
<1>9. Apart /\ HeldOnce /\ WordsCurrent /\ OffsetsNew /\ RestsLeft
  BY <1>2, <1>7 DEF Apart, HeldOnce, WordsCurrent, OffsetsNew, RestsLeft
<1> QED
  BY <1>1, <1>2, <1>5, <1>8, <1>9 DEF BInv, Blocks

(* Every step keeps blocks accounted for, if a table that is wanted finds a *)
(* block.                                                                   *)
LEMMA NextBInv ==
  ASSUME Orderly, BInv, IndirectRoom, [Next]_vars
  PROVE  BInv'
<1>1. SInv' /\ MarkHolds'
  BY NextSInv, NextMarkHolds DEF BInv
<1>2. ASSUME NEW t \in Threads,
             \/ \E k \in Keys : \/ Create(t, k) \/ Unlink(t, k) \/ \E new \in Keys : Rename(t, k, new)
                                \/ \E op \in {"open", "getattr"} : Find(t, op, k) \/ FindNothing(t, op, k)
             \/ \E s \in Slots, o \in Offsets : Read(t, s, o) \/ \E v \in Values : Write(t, s, o, v)
      PROVE  Blocks'
  BY <1>2, BeginBlocks
<1>3. ASSUME NEW t \in Threads,
             \/ FillupSize(t) \/ ReadEntry(t) \/ ReadData(t) \/ Return(t)
             \/ NextPointer(t) \/ LoadWord(t) \/ FreeBlock(t)
      PROVE  Blocks'
  BY <1>3, ReadBlocks, ReturnBlocks, NextStep, LoadBlocks, FreeStep
<1>4. ASSUME NEW t \in Threads,
             \/ ChooseBlock(t) \/ MarkBlock(t) \/ WriteData(t) \/ LinkDirect(t) \/ RelinkDirect(t)
             \/ ChooseIndirect(t) \/ GrabIndirect(t) \/ LinkEntry(t) \/ RelinkEntry(t) \/ FreeOld(t)
      PROVE  Blocks'
  BY <1>4, ChooseBlocks, MarkStep, DataStep, LinkStep, IndirectStep, GrabStep,
     NoOverwrite
<1>5. ASSUME Unmount \/ Mount PROVE Blocks'
  <2>1. UNCHANGED <<objs, bit_map_data, pc, loc, disk>>
    BY <1>5, MountSteps DEF BInv, Unmount, Mount, metaVars, Orderly
  <2> QED
    BY <2>1, IdleBlocks
<1>6. ASSUME UNCHANGED vars PROVE Blocks'
  BY <1>6, IdleBlocks DEF vars, metaVars, diskVars
<1>7. Blocks'
  BY <1>2, <1>3, <1>4, <1>5, <1>6 DEF Next
<1> QED
  BY <1>1, <1>7 DEF BInv

(* A place that holds a block pointer is a position of an object.           *)
LEMMA PlacesAre ==
  ASSUME DataTyped
  PROVE  /\ \A r \in Places : \E s \in Slots, p \in Positions :
               /\ s = r[2] /\ Target(r) = Ptr(s, p)
               /\ p = IF r[1] = "indirect" THEN -1 - r[3] ELSE r[3]
         /\ \A s \in Slots, p \in Positions : \E r \in Places : Target(r) = Ptr(s, p) /\ r[2] = s
<1>1. ASSUME NEW r \in Places
      PROVE  \E s \in Slots, p \in Positions :
               /\ s = r[2] /\ Target(r) = Ptr(s, p)
               /\ p = IF r[1] = "indirect" THEN -1 - r[3] ELSE r[3]
  <2>1. CASE \E s \in Slots, l \in Directs : r = <<"direct", s, l>>
    BY <2>1, PtrIs DEF Target
  <2>2. CASE \E s \in Slots, l \in Indirects : r = <<"indirect", s, l>>
    BY <2>2, PtrIs DEF Target, Positions
  <2>3. CASE \E s \in Slots, o \in Offsets \ Directs : r = <<"entry", s, o>>
    BY <2>3, PtrIs DEF Target, Positions
  <2> QED
    BY <2>1, <2>2, <2>3 DEF Places
<1>2. ASSUME NEW s \in Slots, NEW p \in Positions
      PROVE  \E r \in Places : Target(r) = Ptr(s, p) /\ r[2] = s
  <2>1. CASE p \in Directs
    <3>1. <<"direct", s, p>> \in Places /\ Target(<<"direct", s, p>>) = Ptr(s, p)
      BY <2>1, PtrIs DEF Places, Target
    <3> QED
      BY <3>1
  <2>2. CASE p \in Offsets \ Directs
    <3>1. <<"entry", s, p>> \in Places /\ Target(<<"entry", s, p>>) = Ptr(s, p)
      BY <2>2, PtrIs DEF Places, Target
    <3> QED
      BY <3>1
  <2>3. CASE p \in Tables
    <3>1. PICK i \in Indirects : p = -1 - i
      BY <2>3, PtrIs
    <3>2. <<"indirect", s, i>> \in Places /\ Target(<<"indirect", s, i>>) = Ptr(s, p)
      BY <3>1, PtrIs DEF Places, Target
    <3> QED
      BY <3>2
  <2> QED
    BY <2>1, <2>2, <2>3 DEF Positions
<1> QED
  BY <1>1, <1>2

(* A position is one place of the inode or of a table. *)
LEMMA SamePlace ==
  ASSUME DataTyped, NEW r \in Places, NEW q \in Places, r[2] = q[2],
         (IF r[1] = "indirect" THEN -1 - r[3] ELSE r[3])
            = (IF q[1] = "indirect" THEN -1 - q[3] ELSE q[3])
  PROVE  r = q
<1>1. \A x \in Places :
        \/ \E s \in Slots, l \in Directs : x = <<"direct", s, l>>
        \/ \E s \in Slots, l \in Indirects : x = <<"indirect", s, l>>
        \/ \E s \in Slots, o \in Offsets \ Directs : x = <<"entry", s, o>>
  BY DEF Places
<1>2. \A i, j \in Indirects : -1 - i \notin Offsets /\ (-1 - i = -1 - j => i = j)
  BY Numbers, PtrIs
<1> QED
  BY <1>1, <1>2, Numbers

(* What is accounted for has one owner, and the bitmap is right between     *)
(* calls.                                                                   *)
LEMMA BInvAccounts == BInv => BlocksAccounted
<1> SUFFICES ASSUME BInv PROVE BlocksAccounted
  OBVIOUS
<1>1. DataTyped /\ Blocks /\ Facts
  BY DEF BInv, SInv, TInv
<1>2. NoSharedBlocks
  <2> SUFFICES ASSUME NEW r \in References, NEW q \in References, Target(r) = Target(q)
               PROVE  r = q
    BY DEF NoSharedBlocks
  <2>1. r \in Places /\ q \in Places /\ Target(r) # 0
    BY DEF References
  <2> QED
    BY <1>1, <2>1, PlacesAre, SamePlace DEF Blocks, PointersApart
<1>3. ASSUME NEW s \in Slots, NEW p \in Positions, Ptr(s, p) # 0
      PROVE  /\ Ptr(s, p) - WriteOffset \in DataBlocks
             /\ Ptr(s, p) = WriteOffset + (Ptr(s, p) - WriteOffset)
             /\ Points(Ptr(s, p) - WriteOffset)
  <2>1. Ptr(s, p) \in Int /\ WriteOffset \in Int
    BY <1>1, PtrIs, SizesAssumption
  <2>2. Ptr(s, p) - WriteOffset \in DataBlocks
    BY <1>1, <1>3 DEF Blocks, PointersInside
  <2>3. Ptr(s, p) = WriteOffset + (Ptr(s, p) - WriteOffset)
    BY <2>1
  <2> QED
    BY <2>2, <2>3 DEF Points
<1>4. ASSUME NEW r \in References, r[2] \in bit_map_inode
      PROVE  Target(r) - WriteOffset \in bit_map_data
  <2>1. PICK s \in Slots, p \in Positions : s = r[2] /\ Target(r) = Ptr(s, p)
    BY <1>1, PlacesAre DEF References
  <2>2. Ptr(s, p) # 0
    BY <2>1 DEF References
  <2>3. ASSUME Freed(Ptr(s, p) - WriteOffset) PROVE FALSE
    <3>1. PICK t \in Threads, x \in Slots : Freeing(t) /\ loc[t].obj = x
                                            /\ Ptr(s, p) - WriteOffset \in NextBlocks(x)
      BY <2>3 DEF Freed
    <3>2. PICK q \in NextPositions(x) : Ptr(x, q) = WriteOffset + (Ptr(s, p) - WriteOffset)
                                        /\ q \in Positions
      BY <1>1, <3>1, NextAre
    <3>3. x = s
      BY <1>1, <1>3, <2>2, <3>2 DEF Blocks, PointersApart
    <3>4. Removing(t, s)
      BY <3>1, <3>3 DEF Removing, Freeing
    <3> QED
      BY <1>1, <1>4, <2>1, <3>4 DEF Facts, UnlinksClear
  <2> QED
    BY <1>1, <1>3, <2>1, <2>2, <2>3 DEF Blocks, MapExact
<1>5. ASSUME Idling PROVE bit_map_data = {Target(r) - WriteOffset : r \in References}
  <2>1. \A b : ~Held(b) /\ ~Freed(b)
    BY <1>5 DEF Idling, Held, Holds, Holding, Freed, Freeing
  <2>2. bit_map_data \subseteq DataBlocks
    BY <1>1 DEF DataTyped
  <2>3. \A b \in DataBlocks : b \in bit_map_data <=> Points(b)
    BY <1>1, <2>1 DEF Blocks, MapExact
  <2>4. ASSUME NEW b \in bit_map_data PROVE \E r \in References : b = Target(r) - WriteOffset
    <3>1. PICK s \in Slots, p \in Positions : Ptr(s, p) = WriteOffset + b
      BY <2>2, <2>3 DEF Points
    <3>2. PICK r \in Places : Target(r) = Ptr(s, p)
      BY <1>1, PlacesAre
    <3>3. b \in Nat /\ WriteOffset \in Nat /\ WriteOffset > 0
      BY <2>2, Numbers, SizesAssumption
    <3>4. r \in References /\ b = Target(r) - WriteOffset
      BY <3>1, <3>2, <3>3 DEF References
    <3> QED
      BY <3>4
  <2>5. ASSUME NEW r \in References PROVE Target(r) - WriteOffset \in bit_map_data
    <3>1. PICK s \in Slots, p \in Positions : Target(r) = Ptr(s, p)
      BY <1>1, PlacesAre DEF References
    <3>2. Ptr(s, p) # 0
      BY <3>1 DEF References
    <3> QED
      BY <1>3, <2>3, <3>1, <3>2
  <2> QED
    BY <2>4, <2>5
<1> QED
  BY <1>2, <1>4, <1>5 DEF BlocksAccounted, BitmapExact

(* Blocks are accounted for (objstore.c:174-217, 269-346): no block has two *)
(* pointers, the blocks of an existing object are marked, and when nobody   *)
(* is at work the bitmap has exactly the blocks that are reached - for any  *)
(* number of objects, pointers and blocks, through every write, removal and *)
(* remount.  It takes that offsets are written once (a rewrite confuses     *)
(* block numbers and addresses), that no object lies across the end of the  *)
(* block its mark stands for if clients unmount (the bitmaps are saved and  *)
(* its pointers are not: at most 42 objects, FewObjectsFit), that a write   *)
(* which needs an indirect block finds one free (block -1 is linked         *)
(* otherwise), and that the calls which change the bitmap without the mutex *)
(* run alone: removals, and writes if objects have indirect pointers; or    *)
(* that there is one thread.                                                *)
THEOREM BlocksAreAccountedFor ==
  ASSUME Orderly
  PROVE  Spec /\ []IndirectRoom => []BlocksAccounted
<1>1. BInv /\ IndirectRoom /\ [Next]_vars => BInv'
  BY NextBInv
<1> QED
  BY <1>1, InitBInv, BInvAccounts, PTL DEF Spec

-----------------------------------------------------------------------------
(* What the clients of the object store see: the key-value store of         *)
(* KeyStore, and the size of an object.                                     *)

(* What an object holds at an offset. *)
Cell(s, o) == IF Ptr(s, o) = 0 THEN NoValue ELSE ValueAt(Ptr(s, o))

(* Steps that keep the contents of the objects of S. *)
CellsKept(S) == \A s \in S, o \in Offsets : Cell(s, o)' = Cell(s, o)

(* If neither pointers nor blocks change, no contents do. *)
LEMMA SameCells ==
  ASSUME PointersKept, disk' = disk
  PROVE  CellsKept(Slots)
<1>1. \A s \in Slots, o \in Offsets : Ptr(s, o)' = Ptr(s, o)
  BY DEF PointersKept, Positions
<1> QED
  BY <1>1 DEF CellsKept, Cell, ValueAt

(* Steps that change neither the objects nor the disk. *)
LEMMA QuietCells ==
  ASSUME BInv, UNCHANGED <<objs, disk>>
  PROVE  PointersKept /\ CellsKept(Slots)
<1>1. PointersKept
  BY KeepPointers DEF BInv, SInv, TInv
<1> QED
  BY <1>1, SameCells

(* Steps that change no pointer of any object. *)
LEMMA NamingCells ==
  ASSUME BInv, disk' = disk,
         \/ objs' = objs
         \/ \E s, k : objs' = [objs EXCEPT ![s].key = k]
         \/ \E s, n : objs' = [objs EXCEPT ![s].size = n]
  PROVE  PointersKept /\ CellsKept(Slots)
<1>1. DataTyped /\ \A s \in Slots : objs[s] \in Objects
  BY DEF BInv, SInv, TInv, DataTyped
<1>2. objs \in [Slots -> Objects]
  BY <1>1 DEF DataTyped
<1>3. \A s \in Slots : objs'[s].direct = objs[s].direct /\ objs'[s].indirect = objs[s].indirect
  <2>1. CASE objs' = objs
    BY <2>1
  <2>2. CASE \E s, k : objs' = [objs EXCEPT ![s].key = k]
    BY <1>1, <1>2, <2>2 DEF Objects
  <2>3. CASE \E s, n : objs' = [objs EXCEPT ![s].size = n]
    BY <1>1, <1>2, <2>3 DEF Objects
  <2> QED
    BY <2>1, <2>2, <2>3
<1>4. PointersKept
  BY <1>1, <1>3, KeepPointers
<1> QED
  BY <1>4, SameCells

(* The block of a write is written before anything points there.            *)
LEMMA DataCells ==
  ASSUME BInv, NEW t \in Threads, WriteData(t)
  PROVE  PointersKept /\ CellsKept(Slots)
<1>1. /\ DataTyped /\ TInv /\ Blocks /\ pc[t] = "data" /\ objs' = objs
      /\ disk' = [disk EXCEPT ![WriteOffset + loc[t].blk] = Data(loc[t].value)]
  BY CallFields DEF WriteData, WriteBlock, metaVars
<1>2. PICK b \in DataBlocks : b = loc[t].blk
  BY <1>1, WriteIs
<1>3. ~Points(b)
  BY <1>1, <1>2 DEF Blocks, HeldOnce, Holds, Holding
<1>4. \A s \in Slots, p \in Positions : Ptr(s, p) \in Addresses /\ Ptr(s, p) # WriteOffset + b
  BY <1>1, <1>3, PtrIs DEF Points
<1>5. \A a \in Addresses : a # WriteOffset + b => disk'[a] = disk[a]
  BY <1>1, <1>2 DEF DataTyped
<1>6. PointersKept
  <2>1. \A s \in Slots, i \in Indirects : disk'[objs[s].indirect[i]] = disk[objs[s].indirect[i]]
    BY <1>1, <1>4, <1>5, PtrIs DEF Positions
  <2> QED
    BY <1>1, <2>1, KeepPointers
<1>7. \A s \in Slots, o \in Offsets :
        Ptr(s, o)' = Ptr(s, o) /\ disk'[Ptr(s, o)] = disk[Ptr(s, o)]
  BY <1>4, <1>5, <1>6 DEF PointersKept, Positions
<1> QED
  BY <1>6, <1>7 DEF CellsKept, Cell, ValueAt

(* The pointers below the offsets lead to tables, not to contents.          *)
LEMMA LinkDirectCells ==
  ASSUME BInv, NEW t \in Threads, LinkDirect(t), disk[WriteOffset + loc[t].blk] = Data(loc[t].value)
  PROVE  \A r \in Slots, p \in Offsets :
            Cell(r, p)' = IF r = loc[t].obj /\ p = loc[t].off THEN loc[t].value ELSE Cell(r, p)
<1>1. disk' = disk /\ pc[t] = "link"
  BY DEF LinkDirect, Linking, diskVars
<1>v. PICK v : v = loc[t].value
  OBVIOUS
<1>2. PICK b \in DataBlocks : b = loc[t].blk /\ v = loc[t].value
  BY <1>1, <1>v, WriteIs
<1>3. \A r \in Slots, p \in Offsets :
        Ptr(r, p)' = IF r = loc[t].obj /\ p = loc[t].off THEN WriteOffset + b ELSE Ptr(r, p)
  BY <1>2, LinkDirectPointers DEF Positions
<1>4. WriteOffset + b # 0 /\ disk[WriteOffset + b].kind = "data" /\ disk[WriteOffset + b].value = v
  BY <1>2, Numbers, SizesAssumption DEF Data
<1> QED
  BY <1>1, <1>2, <1>3, <1>4 DEF Cell, ValueAt

(* Linking an entry puts the value of the write at its offset and changes   *)
(* nothing else.                                                            *)
LEMMA LinkEntryCells ==
  ASSUME BInv, NEW t \in Threads, LinkEntry(t), disk[WriteOffset + loc[t].blk] = Data(loc[t].value)
  PROVE  \A r \in Slots, p \in Offsets :
            Cell(r, p)' = IF r = loc[t].obj /\ p = loc[t].off THEN loc[t].value ELSE Cell(r, p)
<1>1. /\ DataTyped /\ TInv /\ Blocks /\ pc[t] = "link" /\ Indirect(t) # 0
      /\ loc[t].off \in Offsets \ Directs /\ loc[t].obj \in Slots
  BY CallFields, LinkingIs DEF LinkEntry
<1>v. PICK v : v = loc[t].value
  OBVIOUS
<1>2. PICK s \in Slots, o \in Offsets \ Directs, b \in DataBlocks :
        s = loc[t].obj /\ o = loc[t].off /\ b = loc[t].blk /\ v = loc[t].value
  BY <1>1, <1>v, WriteIs
<1>3. PICK a \in Addresses : a = Indirect(t) /\ a = Ptr(s, -1 - Alpha(o)) /\ -1 - Alpha(o) \in Positions
  <2>1. Alpha(o) \in Indirects
    BY AlphaAlp
  <2> QED
    BY <1>1, <1>2, <2>1, PtrIs, ObjectIs DEF Indirect, Positions
<1>4. \A c \in Addresses : c # a => disk'[c] = disk[c]
  BY <1>1, <1>3 DEF LinkEntry, SetEntry, WriteBlock, DataTyped
<1>5. \A r \in Slots, p \in Offsets :
        Ptr(r, p)' = IF r = s /\ p = o THEN WriteOffset + b ELSE Ptr(r, p)
  BY <1>2, LinkEntryPointers DEF Positions
<1>6. ~Points(b)
  BY <1>1, <1>2 DEF Blocks, HeldOnce, Holds, Holding
<1>7. /\ WriteOffset + b # 0 /\ WriteOffset + b \in Addresses /\ WriteOffset + b # a
      /\ disk[WriteOffset + b].kind = "data" /\ disk[WriteOffset + b].value = v
  <2>1. WriteOffset + b # a
    BY <1>3, <1>6 DEF Points
  <2> QED
    BY <1>2, <2>1, Numbers, SizesAssumption DEF Data
<1>8. \A r \in Slots, p \in Offsets : Ptr(r, p) # a \/ Ptr(r, p) = 0
  <2>1. \A p \in Offsets : p # -1 - Alpha(o) /\ p \in Positions
    <3>1. Alpha(o) \in Indirects
      BY AlphaAlp
    <3> QED
      BY <1>1, <1>2, <3>1, PtrIs DEF Positions
  <2> QED
    BY <1>1, <1>3, <2>1 DEF Blocks, PointersApart
<1>9. \A r \in Slots, p \in Offsets : Ptr(r, p) \in Addresses
  BY <1>1, PtrIs DEF Positions
<1> QED
  BY <1>2, <1>4, <1>5, <1>7, <1>8, <1>9 DEF Cell, ValueAt

(* So does linking it into a new table. *)
LEMMA GrabCells ==
  ASSUME BInv, NEW t \in Threads, GrabIndirect(t),
         disk[WriteOffset + loc[t].blk] = Data(loc[t].value)
  PROVE  \A r \in Slots, p \in Offsets :
            Cell(r, p)' = IF r = loc[t].obj /\ p = loc[t].off THEN loc[t].value ELSE Cell(r, p)
<1>1. DataTyped /\ TInv /\ Blocks /\ pc[t] = "grab"
  BY CallFields DEF GrabIndirect
<1>2. PICK s \in Slots, o \in Offsets \ Directs, b \in DataBlocks, g \in DataBlocks \ bit_map_data :
           /\ s = loc[t].obj /\ o = loc[t].off /\ b = loc[t].blk
           /\ -1 - Alpha(o) \in Positions /\ ~Points(g)
           /\ bit_map_data' = bit_map_data \cup {g}
           /\ \A r \in Slots, p \in Positions :
                 Ptr(r, p)' = IF r = s /\ p = o THEN WriteOffset + b
                              ELSE IF r = s /\ p = -1 - Alpha(o) THEN WriteOffset + g
                              ELSE Ptr(r, p)
  BY GrabPointers
<1>3. \A p \in Offsets : p # -1 - Alpha(o) /\ p \in Positions
  <2>1. Alpha(o) \in Indirects
    BY AlphaAlp
  <2> QED
    BY <1>1, <2>1, PtrIs DEF Positions
<1>4. \A r \in Slots, p \in Offsets :
        Ptr(r, p)' = IF r = s /\ p = o THEN WriteOffset + b ELSE Ptr(r, p)
  BY <1>2, <1>3
<1>5. loc[t].todo[0] = g
  <2>1. loc[t].todo[0] \in DataBlocks \ bit_map_data /\ loc[t].word = bit_map_data
    BY <1>1 DEF Blocks, WordsCurrent
  <2>2. bit_map_data' = bit_map_data \cup {loc[t].todo[0]}
    <3>1. loc[t].todo[0] # -1
      BY <2>1, Numbers
    <3> QED
      BY <2>1, <3>1 DEF GrabIndirect, WithBlock
  <2> QED
    BY <1>2, <2>1, <2>2
<1>6. \A c \in Addresses : c # WriteOffset + g => disk'[c] = disk[c]
  BY <1>1, <1>5 DEF GrabIndirect, SetEntry, WriteBlock, DataTyped
<1>7. b # g
  <2>1. b \in bit_map_data
    BY <1>1, <1>2 DEF Blocks, MapExact, Held, Holds, Holding
  <2> QED
    BY <2>1
<1>8. PICK v : v = loc[t].value
  OBVIOUS
<1>9. /\ WriteOffset + b # 0 /\ WriteOffset + b \in Addresses /\ WriteOffset + b # WriteOffset + g
      /\ disk[WriteOffset + b].kind = "data" /\ disk[WriteOffset + b].value = v
  BY <1>2, <1>7, <1>8, Numbers, SizesAssumption DEF Data
<1>10. \A r \in Slots, p \in Offsets : Ptr(r, p) \in Addresses /\ Ptr(r, p) # WriteOffset + g
  BY <1>1, <1>2, <1>3, PtrIs DEF Points
<1> QED
  BY <1>2, <1>4, <1>6, <1>8, <1>9, <1>10 DEF Cell, ValueAt

(* Freeing the blocks of an object changes no other.                        *)
LEMMA FreeCells ==
  ASSUME BInv, NEW t \in Threads, FreeBlock(t)
  PROVE  /\ \A r \in Slots \ {loc[t].obj}, p \in Positions : Ptr(r, p)' = Ptr(r, p)
         /\ CellsKept(Slots \ {loc[t].obj})
<1>1. /\ DataTyped /\ TInv /\ Blocks /\ pc[t] = "store" /\ disk' = disk /\ InPlace("store", loc[t])
      /\ loc[t].op = "unlink"
  BY CallFields, InCall DEF FreeBlock, diskVars
<1>2. PICK s \in Slots : s = loc[t].obj
  BY <1>1 DEF InPlace
<1>3. CASE objs' = objs
  BY <1>1, <1>3, QuietCells DEF PointersKept, CellsKept
<1>4. CASE ClearPointer(s)
  <2>1. NextPositions(s) # {}
    <3>1. loc[t].todo \in Lists /\ DOMAIN loc[t].todo # {}
      BY <1>1, CallFields DEF InPlace, Locals
    <3>2. Rest(t) # {}
      BY <3>1 DEF Rest
    <3>3. Rest(t) \subseteq NextBlocks(s)
      BY <1>1, <1>2 DEF Blocks, RestsLeft, Freeing
    <3> QED
      BY <3>2, <3>3 DEF NextBlocks
  <2>2. \A r \in Slots \ {s}, p \in Positions : Ptr(r, p)' = Ptr(r, p)
    BY <1>1, <1>4, <2>1, ClearPointers
  <2>3. \A r \in Slots \ {s}, p \in Offsets : Ptr(r, p)' = Ptr(r, p)
    BY <2>2 DEF Positions
  <2> QED
    BY <1>1, <1>2, <2>2, <2>3 DEF CellsKept, Cell, ValueAt
<1> QED
  BY <1>2, <1>3, <1>4 DEF FreeBlock

-----------------------------------------------------------------------------
(* Names lead to one object each. *)
KeysApart ==
    \A s, r \in bit_map_inode : objs[s].key \in Keys /\ (objs[s].key = objs[r].key => s = r)

(* What a read or a write holds is what it will answer or link. *)
CallRight(t) ==
    /\ pc[t] = "idle" => loc[t].op = "none"
    /\ pc[t] # "idle" /\ loc[t].op = "read" => loc[t].obj \in bit_map_inode
    /\ pc[t] = "fetch" => loc[t].blk = Ptr(loc[t].obj, loc[t].off) /\ loc[t].blk # 0
    /\ pc[t] = "entry" => /\ loc[t].blk = Ptr(loc[t].obj, -1 - Alpha(loc[t].off))
                          /\ Ptr(loc[t].obj, loc[t].off) # 0
    /\ pc[t] \in {"link", "grab"} => disk[WriteOffset + loc[t].blk] = Data(loc[t].value)
    /\ Writing(t) => loc[t].ans = NoValue

FInv == BInv /\ KeysApart /\ \A t \in Threads : CallRight(t)

(* What a step of one thread leaves to the others. *)
Frame(t)  == \A u \in Threads \ {t} : pc'[u] = pc[u] /\ loc'[u] = loc[u]
Lonely(t) == \A u \in Threads \ {t} : pc[u] = "idle"
Stays(t)  ==
    /\ \A s \in Slots, p \in Positions : Ptr(s, p) # 0 => Ptr(s, p)' = Ptr(s, p)
    /\ bit_map_inode \subseteq bit_map_inode'
    /\ \A u \in Threads \ {t} : pc[u] \in {"link", "grab"} =>
          disk'[WriteOffset + loc[u].blk] = disk[WriteOffset + loc[u].blk]
KeysKept ==
    bit_map_inode' = bit_map_inode /\ \A s \in Slots : objs'[s].key = objs[s].key

(* A step leaves what other calls hold in their locals right. *)
LEMMA OthersRight ==
  ASSUME FInv, NEW t \in Threads, Frame(t), Lonely(t) \/ Stays(t), NEW u \in Threads \ {t}
  PROVE  CallRight(u)'
<1>1. /\ pc'[u] = pc[u] /\ loc'[u] = loc[u] /\ CallRight(u) /\ DataTyped /\ TInv
      /\ loc[u] \in Locals
  BY CallFields DEF FInv, Frame
<1>2. Writing(u)' <=> Writing(u)
  BY <1>1 DEF Writing
<1>3. CASE pc[u] = "idle"
  BY <1>1, <1>2, <1>3 DEF CallRight, Writing
<1>4. CASE pc[u] # "idle"
  <2>1. Stays(t)
    BY <1>4 DEF Lonely
  <2>2. ASSUME pc[u] \in {"fetch", "entry"}
        PROVE  /\ loc[u].obj \in Slots /\ loc[u].off \in Offsets /\ loc[u].off \in Positions
               /\ pc[u] = "entry" => /\ -1 - Alpha(loc[u].off) \in Positions
                                     /\ Ptr(loc[u].obj, -1 - Alpha(loc[u].off)) # 0
    <3>1. InPlace(pc[u], loc[u]) /\ loc[u].off \in Offsets
      BY <1>1, <1>4, InCall DEF Locals
    <3>2. loc[u].op = "read"
      BY <1>1, <2>2, <3>1 DEF InPlace, StepsOf, Locals, CallOps
    <3>3. loc[u].obj \in Slots /\ (pc[u] = "entry" => loc[u].off \notin Directs)
      BY <3>1, <3>2 DEF InPlace
    <3>4. ASSUME pc[u] = "entry" PROVE /\ -1 - Alpha(loc[u].off) \in Positions
                                       /\ Ptr(loc[u].obj, -1 - Alpha(loc[u].off)) # 0
      <4>1. Alpha(loc[u].off) \in Indirects
        BY <3>1, <3>3, <3>4, AlphaAlp
      <4>2. Ptr(loc[u].obj, loc[u].off) # 0
        BY <1>1, <3>4 DEF CallRight
      <4> QED
        BY <1>1, <3>1, <3>3, <3>4, <4>1, <4>2, PtrIs DEF Positions
    <3> QED
      BY <3>1, <3>3, <3>4 DEF Positions
  <2>3. pc[u] = "fetch" => Ptr(loc[u].obj, loc[u].off)' = Ptr(loc[u].obj, loc[u].off)
    <3>1. ASSUME NEW s \in Slots, NEW o \in Positions, s = loc[u].obj, o = loc[u].off, Ptr(s, o) # 0
          PROVE  Ptr(loc[u].obj, loc[u].off)' = Ptr(s, o)
      BY <1>1, <2>1, <3>1 DEF Stays
    <3> QED
      BY <1>1, <2>2, <3>1 DEF CallRight
  <2>4. ASSUME pc[u] = "entry"
        PROVE  /\ Ptr(loc[u].obj, loc[u].off)' = Ptr(loc[u].obj, loc[u].off)
               /\ Ptr(loc[u].obj, -1 - Alpha(loc[u].off))' = Ptr(loc[u].obj, -1 - Alpha(loc[u].off))
    <3>1. PICK s \in Slots, o \in Offsets : s = loc[u].obj /\ o = loc[u].off /\ o \in Positions
      BY <2>2, <2>4
    <3>2. -1 - Alpha(o) \in Positions /\ Ptr(s, o) # 0 /\ Ptr(s, -1 - Alpha(o)) # 0
      BY <1>1, <2>2, <2>4, <3>1 DEF CallRight
    <3>3. Ptr(s, o)' = Ptr(s, o) /\ Ptr(s, -1 - Alpha(o))' = Ptr(s, -1 - Alpha(o))
      BY <2>1, <3>1, <3>2 DEF Stays
    <3>4. loc'[u].obj = s /\ loc'[u].off = o
      BY <1>1, <3>1
    <3> QED
      BY <3>1, <3>3, <3>4
  <2> QED
    BY <1>1, <1>2, <2>1, <2>3, <2>4 DEF CallRight, Stays
<1> QED
  BY <1>3, <1>4

-----------------------------------------------------------------------------
(* How a call starts. *)
NamesOnly ==
    \/ objs' = objs
    \/ \E r, k : objs' = [objs EXCEPT ![r].key = k]
    \/ \E r, n : objs' = [objs EXCEPT ![r].size = n]

(* A call that begins was idle, and moves only itself. *)
LEMMA StartFacts ==
  ASSUME Orderly, FInv, NEW t \in Threads, NEW op, NEW s, NEW o, Admitted(t, op, s, o),
         NEW c, loc' = [loc EXCEPT ![t] = c], c.op = op, NEW label, Goto(t, label), label # "idle",
         disk' = disk, NamesOnly, bit_map_inode \subseteq bit_map_inode' \/ op = "unlink"
  PROVE  /\ pc[t] = "idle" /\ pc'[t] = label /\ loc'[t] = c /\ Frame(t)
         /\ PointersKept /\ CellsKept(Slots) /\ (Lonely(t) \/ Stays(t))
<1>1. BInv /\ TInv /\ Apart
  BY CallFields DEF FInv
<1>2. pc[t] = "idle"
  BY DEF Admitted
<1>3. pc'[t] = label /\ loc'[t] = c /\ Frame(t)
  BY <1>1, <1>2, Starts DEF Frame
<1>4. PointersKept /\ CellsKept(Slots)
  BY <1>1, NamingCells DEF NamesOnly
<1>5. ASSUME bit_map_inode \subseteq bit_map_inode' PROVE Stays(t)
  BY <1>4, <1>5 DEF Stays, PointersKept
<1>6. ASSUME op = "unlink" PROVE Lonely(t)
  <2>1. Apart'
    BY <1>1, <1>3, <1>6, StartApart DEF Frame
  <2>2. Lonely(t)
    BY <1>3, <1>6, <2>1 DEF Apart, Lonely, Frame
  <2> QED
    BY <2>2
<1> QED
  BY <1>2, <1>3, <1>4, <1>5, <1>6

(* What a create does to names and contents: nothing, or a slot that was    *)
(* free gets the name.                                                      *)
LEMMA CreateIs ==
  ASSUME Orderly, FInv, NEW t \in Threads, NEW k \in Keys, Create(t, k)
  PROVE  /\ pc[t] = "idle" /\ pc'[t] = "done" /\ loc'[t].op = "create" /\ Frame(t)
         /\ CellsKept(Slots) /\ (Lonely(t) \/ Stays(t)) /\ k \notin KeysInUse
         /\ \/ UNCHANGED <<objs, bit_map_inode>>
            \/ \E s \in Slots \ bit_map_inode :
                  /\ bit_map_inode' = bit_map_inode \cup {s} /\ NoPointers(s)
                  /\ objs'[s].key = k /\ \A r \in Slots \ {s} : objs'[r] = objs[r]
<1> DEFINE free == Slots \ bit_map_inode
           r == IF free = {} THEN -1 ELSE First(free)
           c == [NoCall EXCEPT !.op = "create", !.obj = r, !.off = 0, !.value = NoValue]
           label == "done"
<1>1. /\ Admitted(t, "create", -1, 0) /\ loc' = [loc EXCEPT ![t] = c] /\ Goto(t, label)
      /\ label = "done" /\ label # "idle"
      /\ disk' = disk /\ k \notin KeysInUse /\ NamesOnly /\ bit_map_inode \subseteq bit_map_inode'
      /\ \/ UNCHANGED <<objs, bit_map_inode>>
         \/ /\ free # {} /\ objs' = [objs EXCEPT ![First(free)].key = k]
            /\ bit_map_inode' = bit_map_inode \cup {First(free)}
  BY DEF Create, Start, diskVars, metaVars, NamesOnly
<1>2. c.op = "create"
  BY DEF NoCall
<1> HIDE DEF c, r, label
<1>3. /\ pc[t] = "idle" /\ pc'[t] = "done" /\ loc'[t].op = "create" /\ Frame(t)
      /\ CellsKept(Slots) /\ (Lonely(t) \/ Stays(t))
  <2>1. /\ Admitted(t, "create", -1, 0) /\ loc' = [loc EXCEPT ![t] = c] /\ Goto(t, label)
        /\ label # "idle" /\ disk' = disk /\ NamesOnly /\ bit_map_inode \subseteq bit_map_inode'
    BY <1>1
  <2>2. /\ pc[t] = "idle" /\ pc'[t] = label /\ loc'[t] = c /\ Frame(t)
        /\ CellsKept(Slots) /\ (Lonely(t) \/ Stays(t))
    BY <1>2, <2>1, StartFacts, ZenonT(40)
  <2> QED
    BY <1>1, <1>2, <2>2
<1>4. ASSUME free # {}, objs' = [objs EXCEPT ![First(free)].key = k],
             bit_map_inode' = bit_map_inode \cup {First(free)}
      PROVE  \E s \in Slots \ bit_map_inode :
                  /\ bit_map_inode' = bit_map_inode \cup {s} /\ NoPointers(s)
                  /\ objs'[s].key = k /\ \A q \in Slots \ {s} : objs'[q] = objs[q]
  <2>1. First(free) \in free
    BY <1>4, FirstIs, Numbers
  <2>2. SInv /\ objs \in [Slots -> Objects] /\ objs[First(free)] \in Objects
    BY <2>1 DEF FInv, BInv, SInv, TInv, DataTyped
  <2>3. \A u \in Threads : ~Removing(u, First(free))
    BY <1>1, <1>3 DEF Admitted, Others, Removing, DirOps
  <2>4. NoPointers(First(free))
    BY <2>1, <2>2, <2>3 DEF SInv, Facts, FreeEmpty, Kept, RemountsFit, Orderly
  <2>5. objs'[First(free)].key = k /\ \A q \in Slots \ {First(free)} : objs'[q] = objs[q]
    BY <1>4, <2>1, <2>2 DEF Objects
  <2> QED
    BY <1>4, <2>1, <2>4, <2>5
<1> QED
  BY <1>1, <1>3, <1>4

(* The slot of a name. *)
LEMMA SlotOf ==
  ASSUME FInv, NEW s \in bit_map_inode
  PROVE  First(Matches(objs[s].key)) = s /\ objs[s].key \in KeysInUse /\ s \in Slots
<1>1. s \in Slots /\ TInv /\ Matches(objs[s].key) = {s}
  BY DEF FInv, BInv, SInv, TInv, DataTyped, Matches, KeysApart
<1>2. {s} \in SUBSET Nat
  BY <1>1, Numbers
<1>3. First({s}) = s
  BY <1>2, FirstIs
<1> QED
  BY <1>1, <1>3 DEF KeysInUse

(* A name in use leads to an object that has it. *)
LEMMA KeySlot ==
  ASSUME FInv, NEW k \in KeysInUse
  PROVE  /\ First(Matches(k)) \in bit_map_inode /\ First(Matches(k)) \in Slots
         /\ objs[First(Matches(k))].key = k
<1>1. PICK s \in bit_map_inode : k = objs[s].key
  BY DEF KeysInUse
<1> QED
  BY <1>1, SlotOf

(* What a renaming does: one object has the new name, which nobody had. *)
LEMMA RenameIs ==
  ASSUME Orderly, ~Replace, FInv, NEW t \in Threads, NEW k \in Keys, NEW new \in Keys,
         Rename(t, k, new)
  PROVE  /\ pc[t] = "idle" /\ pc'[t] = "done" /\ loc'[t].op = "rename" /\ Frame(t)
         /\ CellsKept(Slots) /\ (Lonely(t) \/ Stays(t)) /\ new \notin KeysInUse /\ k \in KeysInUse
         /\ bit_map_inode' = bit_map_inode
         /\ \E s \in bit_map_inode :
               /\ objs[s].key = k /\ objs'[s].key = new
               /\ \A r \in Slots \ {s} : objs'[r] = objs[r]
               /\ \A u \in Threads \ {t} : pc[u] # "idle" => loc[u].obj # s
<1> DEFINE c(s) == [NoCall EXCEPT !.op = "rename", !.obj = s, !.off = 0, !.value = NoValue]
           label == "done"
<1>1. k \in KeysInUse /\ new \notin KeysInUse
  BY DEF Rename
<1>2. PICK s \in bit_map_inode : s = First(Matches(k)) /\ s \in Slots /\ objs[s].key = k
  BY <1>1, KeySlot
<1>3. /\ Admitted(t, "rename", s, 0) /\ loc' = [loc EXCEPT ![t] = c(s)] /\ Goto(t, label)
      /\ label = "done" /\ label # "idle"
      /\ disk' = disk /\ objs' = [objs EXCEPT ![s].key = new] /\ bit_map_inode' = bit_map_inode
      /\ NamesOnly
  BY <1>2 DEF Rename, Start, diskVars, NamesOnly
<1>4. c(s).op = "rename"
  BY DEF NoCall
<1> HIDE DEF c, label
<1>5. /\ pc[t] = "idle" /\ pc'[t] = "done" /\ loc'[t].op = "rename" /\ Frame(t)
      /\ CellsKept(Slots) /\ (Lonely(t) \/ Stays(t))
  <2>1. /\ pc[t] = "idle" /\ pc'[t] = label /\ loc'[t] = c(s) /\ Frame(t)
        /\ CellsKept(Slots) /\ (Lonely(t) \/ Stays(t))
    BY <1>3, <1>4, StartFacts, ZenonT(40)
  <2> QED
    BY <1>3, <1>4, <2>1
<1>6. objs \in [Slots -> Objects] /\ objs[s] \in Objects
  BY <1>2 DEF FInv, BInv, SInv, TInv, DataTyped
<1>7. objs'[s].key = new /\ \A r \in Slots \ {s} : objs'[r] = objs[r]
  BY <1>2, <1>3, <1>6 DEF Objects
<1>8. \A u \in Threads \ {t} : pc[u] # "idle" => loc[u].obj # s
  BY <1>3 DEF Admitted, Others, Moves
<1> QED
  BY <1>1, <1>2, <1>3, <1>5, <1>7, <1>8

(* What the start of a removal does: the name is gone, and the object's     *)
(* slot still reserved.                                                     *)
LEMMA UnlinkIs ==
  ASSUME Orderly, FInv, NEW t \in Threads, NEW k \in Keys, Unlink(t, k)
  PROVE  /\ pc[t] = "idle" /\ pc'[t] = "free" /\ loc'[t].op = "unlink" /\ Frame(t)
         /\ CellsKept(Slots) /\ (Lonely(t) \/ Stays(t)) /\ k \in KeysInUse
         /\ \A r \in Slots : objs'[r].key = objs[r].key
         /\ \E s \in bit_map_inode : objs[s].key = k /\ bit_map_inode' = bit_map_inode \ {s}
<1> DEFINE c(s) == [NoCall EXCEPT !.op = "unlink", !.obj = s, !.off = 0, !.value = NoValue]
           label == "free"
<1>1. k \in KeysInUse
  BY DEF Unlink
<1>2. PICK s \in bit_map_inode : s = First(Matches(k)) /\ s \in Slots /\ objs[s].key = k
  BY <1>1, KeySlot
<1>3. /\ Admitted(t, "unlink", s, 0) /\ loc' = [loc EXCEPT ![t] = c(s)] /\ Goto(t, label)
      /\ label = "free" /\ label # "idle"
      /\ disk' = disk /\ objs' = [objs EXCEPT ![s].size = 0]
      /\ bit_map_inode' = bit_map_inode \ {s} /\ NamesOnly
  BY <1>2 DEF Unlink, Start, diskVars, ClearInode, NamesOnly
<1>4. c(s).op = "unlink"
  BY DEF NoCall
<1> HIDE DEF c, label
<1>5. /\ pc[t] = "idle" /\ pc'[t] = "free" /\ loc'[t].op = "unlink" /\ Frame(t)
      /\ CellsKept(Slots) /\ (Lonely(t) \/ Stays(t))
  <2>1. /\ pc[t] = "idle" /\ pc'[t] = label /\ loc'[t] = c(s) /\ Frame(t)
        /\ CellsKept(Slots) /\ (Lonely(t) \/ Stays(t))
    BY <1>3, <1>4, StartFacts
  <2> QED
    BY <1>3, <1>4, <2>1
<1>6. objs \in [Slots -> Objects] /\ \A r \in Slots : objs[r] \in Objects
  BY <1>2 DEF FInv, BInv, SInv, TInv, DataTyped
<1>7. \A r \in Slots : objs'[r].key = objs[r].key
  BY <1>2, <1>3, <1>6 DEF Objects
<1> QED
  BY <1>1, <1>2, <1>3, <1>5, <1>7

(* Looking a name up changes no name and no contents. *)
LEMMA LookUpIs ==
  ASSUME Orderly, FInv, NEW t \in Threads, NEW k \in Keys, NEW op \in {"open", "getattr"},
         Find(t, op, k) \/ FindNothing(t, op, k)
  PROVE  /\ pc[t] = "idle" /\ pc'[t] \in {"fill", "done"} /\ loc'[t].op = op /\ Frame(t)
         /\ CellsKept(Slots) /\ (Lonely(t) \/ Stays(t)) /\ UNCHANGED <<objs, bit_map_inode>>
<1>1. CASE Find(t, op, k)
  <2> DEFINE s == First(Matches(k))
             c == [NoCall EXCEPT !.op = op, !.obj = s, !.off = 0, !.value = NoValue]
             label == IF op = "open" THEN "done" ELSE "fill"
  <2>1. /\ Admitted(t, op, s, 0) /\ loc' = [loc EXCEPT ![t] = c] /\ Goto(t, label)
        /\ label \in {"done", "fill"} /\ UNCHANGED <<objs, bit_map_inode, disk>> /\ NamesOnly
    BY <1>1 DEF Find, Start, metaVars, diskVars, NamesOnly
  <2>2. c.op = op
    BY DEF NoCall
  <2> HIDE DEF c, label, s
  <2> QED
    BY <2>1, <2>2, StartFacts
<1>2. CASE FindNothing(t, op, k)
  <2> DEFINE c == [NoCall EXCEPT !.op = op, !.obj = -1, !.ans = Failed]
             label == "done"
  <2>1. /\ Admitted(t, op, -1, 0) /\ loc' = [loc EXCEPT ![t] = c] /\ Goto(t, label)
        /\ label \in {"done", "fill"} /\ label # "idle"
        /\ UNCHANGED <<objs, bit_map_inode, disk>> /\ NamesOnly
    BY <1>2 DEF FindNothing, metaVars, diskVars, NamesOnly
  <2>2. c.op = op
    BY DEF NoCall
  <2> HIDE DEF c, label
  <2> QED
    BY <2>1, <2>2, StartFacts
<1> QED
  BY <1>1, <1>2

(* Starting a write changes nothing, and holds the object, the offset and   *)
(* the value.                                                               *)
LEMMA WriteStarts ==
  ASSUME Orderly, FInv, NEW t \in Threads, NEW s \in Slots, NEW o \in Offsets, NEW v \in Values,
         Write(t, s, o, v)
  PROVE  /\ pc[t] = "idle" /\ pc'[t] = "lock" /\ loc'[t].op = "write" /\ Frame(t)
         /\ CellsKept(Slots) /\ (Lonely(t) \/ Stays(t)) /\ UNCHANGED <<objs, bit_map_inode>>
         /\ s \in bit_map_inode /\ loc'[t].obj = s /\ loc'[t].off = o /\ loc'[t].value = v
         /\ loc'[t].ans = NoValue
<1> DEFINE c == [NoCall EXCEPT !.op = "write", !.obj = s, !.off = o, !.value = v]
           label == "lock"
<1>1. /\ Admitted(t, "write", s, o) /\ loc' = [loc EXCEPT ![t] = c] /\ Goto(t, label)
      /\ label = "lock" /\ label # "idle"
      /\ UNCHANGED <<objs, bit_map_inode, disk>> /\ NamesOnly /\ s \in bit_map_inode
  BY DEF Write, Start, diskVars, NamesOnly
<1>2. c.op = "write" /\ c.obj = s /\ c.off = o /\ c.value = v /\ c.ans = NoValue
  BY DEF NoCall
<1> HIDE DEF c, label
<1>3. /\ pc[t] = "idle" /\ pc'[t] = label /\ loc'[t] = c /\ Frame(t)
      /\ CellsKept(Slots) /\ (Lonely(t) \/ Stays(t))
  BY <1>1, <1>2, StartFacts, ZenonT(40)
<1> QED
  BY <1>1, <1>2, <1>3

(* Starting a read changes nothing, and holds the object and the offset. *)
LEMMA ReadStarts ==
  ASSUME Orderly, FInv, NEW t \in Threads, NEW s \in Slots, NEW o \in Offsets, Read(t, s, o)
  PROVE  /\ pc[t] = "idle" /\ pc'[t] = (IF o \in Directs THEN "fetch" ELSE "entry")
         /\ loc'[t].op = "read" /\ Frame(t)
         /\ CellsKept(Slots) /\ (Lonely(t) \/ Stays(t)) /\ UNCHANGED <<objs, bit_map_inode>>
         /\ s \in bit_map_inode /\ loc'[t].obj = s /\ loc'[t].off = o
         /\ Ptr(s, o)' = Ptr(s, o) /\ Ptr(s, o) # 0
         /\ o \in Directs => loc'[t].blk = Ptr(s, o)'
         /\ o \notin Directs => loc'[t].blk = Ptr(s, -1 - Alpha(o))'
<1> DEFINE blk == IF o < NDirect THEN objs[s].direct[o] ELSE objs[s].indirect[Alpha(o)]
           c == [NoCall EXCEPT !.op = "read", !.obj = s, !.off = o, !.blk = blk]
           label == IF o < NDirect THEN "fetch" ELSE "entry"
<1>1. /\ Admitted(t, "read", s, o) /\ loc' = [loc EXCEPT ![t] = c] /\ Goto(t, label)
      /\ label # "idle" /\ UNCHANGED <<objs, bit_map_inode, disk>> /\ NamesOnly
      /\ s \in bit_map_inode
      /\ Pointer(s, o) # 0
  BY DEF Read, metaVars, diskVars, NamesOnly
<1>2. c.op = "read" /\ c.obj = s /\ c.off = o /\ c.blk = blk
  BY DEF NoCall
<1>3. DataTyped /\ (o < NDirect <=> o \in Directs)
  BY PointerType DEF FInv, BInv, SInv, TInv
<1>4. label = (IF o \in Directs THEN "fetch" ELSE "entry")
  BY <1>3
<1>5. /\ o \in Positions /\ Ptr(s, o) = Pointer(s, o)
      /\ o \in Directs => blk = Ptr(s, o)
      /\ o \notin Directs => blk = Ptr(s, -1 - Alpha(o)) /\ -1 - Alpha(o) \in Positions
  BY <1>3, PtrIs DEF Positions
<1> HIDE DEF c, label, blk
<1>6. /\ pc[t] = "idle" /\ pc'[t] = label /\ loc'[t] = c /\ Frame(t) /\ PointersKept
      /\ CellsKept(Slots) /\ (Lonely(t) \/ Stays(t))
  BY <1>1, <1>2, StartFacts, ZenonT(40)
<1>7. /\ Ptr(s, o)' = Ptr(s, o)
      /\ o \notin Directs => Ptr(s, -1 - Alpha(o))' = Ptr(s, -1 - Alpha(o))
  BY <1>5, <1>6 DEF PointersKept
<1> QED
  BY <1>1, <1>2, <1>4, <1>5, <1>6, <1>7

-----------------------------------------------------------------------------
(* How a call goes on. *)
LEMMA OpsAre ==
  ASSUME FInv, NEW t \in Threads
  PROVE  /\ BInv /\ SInv /\ TInv /\ DataTyped /\ Blocks /\ CallRight(t) /\ loc[t] \in Locals
         /\ loc \in [Threads -> Locals] /\ pc \in [Threads -> Labels]
         /\ pc[t] # "idle" => InPlace(pc[t], loc[t])
         /\ pc[t] = "fill" => loc[t].op = "getattr"
         /\ pc[t] \in {"free", "load", "store"} => loc[t].op = "unlink"
         /\ pc[t] \in {"lock", "mark", "data", "link", "grab"} =>
               loc[t].op = "write" /\ loc[t].obj \in bit_map_inode
         /\ pc[t] \in {"entry", "fetch"} => loc[t].op = "read" /\ loc[t].obj \in bit_map_inode
<1>1. /\ BInv /\ SInv /\ TInv /\ DataTyped /\ Blocks /\ CallRight(t) /\ loc[t] \in Locals
      /\ loc \in [Threads -> Locals] /\ pc \in [Threads -> Labels]
      /\ pc[t] # "idle" => InPlace(pc[t], loc[t])
  BY CallFields, InCall DEF FInv, BInv
<1>2. /\ pc[t] = "fill" => loc[t].op = "getattr"
      /\ pc[t] \in {"lock", "mark", "data", "link", "grab"} => loc[t].op = "write"
      /\ pc[t] \in {"entry", "fetch"} => loc[t].op = "read"
      /\ pc[t] = "free" => loc[t].op = "unlink"
      /\ pc[t] \in {"load", "store"} => loc[t].op \in {"write", "unlink"} /\ loc[t].obj \in Slots
  BY <1>1 DEF InPlace, StepsOf, Locals, CallOps
<1>3. loc[t].op = "write" => pc[t] \notin {"load", "store"}
  <2>1. ASSUME loc[t].op = "write", pc[t] \in {"load", "store"} PROVE FALSE
    <3>1. loc[t].obj \in Slots /\ loc[t].off \in Offsets /\ Writing(t)
      BY <1>1, <1>2, <2>1 DEF Locals, Writing
    <3> QED
      BY <1>1, <2>1, <3>1 DEF Blocks, OffsetsNew
  <2> QED
    BY <2>1
<1>4. /\ pc[t] # "idle" /\ loc[t].op = "write" => loc[t].obj \in bit_map_inode
      /\ pc[t] # "idle" /\ loc[t].op = "read" => loc[t].obj \in bit_map_inode
  BY <1>1 DEF SInv, Facts, WritesInUse, CallRight
<1> QED
  BY <1>1, <1>2, <1>3, <1>4

(* Steps within a call that change neither inodes nor disk change no file. *)
LEMMA QuietIs ==
  ASSUME FInv, NEW t \in Threads,
         \/ FillupSize(t) \/ LoadWord(t) \/ NextPointer(t) \/ ChooseBlock(t) \/ MarkBlock(t)
         \/ ChooseIndirect(t) \/ ReadEntry(t) \/ ReadData(t)
  PROVE  /\ Within(t) /\ UNCHANGED <<objs, bit_map_inode, disk>> /\ PointersKept
         /\ CellsKept(Slots) /\ Frame(t) /\ Stays(t) /\ KeysKept
<1>1. Within(t) /\ objs' = objs /\ BInv
  BY QuietWithin, OpsAre
<1>2. disk' = disk
  BY DEF FillupSize, LoadWord, NextPointer, ChooseBlock, MarkBlock, ChooseIndirect, ReadEntry,
         ReadData, diskVars
<1>3. PointersKept /\ CellsKept(Slots)
  BY <1>1, <1>2, QuietCells
<1> QED
  BY <1>1, <1>2, <1>3 DEF Within, Frame, Stays, PointersKept, KeysKept

(* The block that another write holds is not the one that changes. *)
LEMMA HeldKept ==
  ASSUME FInv, NEW t \in Threads, NEW u \in Threads \ {t}, pc[u] \in {"link", "grab"},
         WriteData(t) \/ LinkDirect(t) \/ LinkEntry(t) \/ GrabIndirect(t)
  PROVE  disk'[WriteOffset + loc[u].blk] = disk[WriteOffset + loc[u].blk]
<1>1. /\ DataTyped /\ TInv /\ Blocks /\ disk \in [Addresses -> DiskBlocks]
  BY OpsAre DEF DataTyped
<1>2. PICK b \in DataBlocks : b = loc[u].blk /\ Holds(u, b)
  BY WriteIs, OpsAre DEF Holds, Holding
<1>3. ~Points(b) /\ \A x \in Threads : Holds(x, b) => x = u
  BY <1>1, <1>2 DEF Blocks, HeldOnce
<1>4. WriteOffset + b \in Addresses /\ \A c \in DataBlocks \cup {-1} : c \in Int
  BY Numbers
<1>5. CASE WriteData(t)
  <2>1. PICK c \in DataBlocks : c = loc[t].blk /\ Holds(t, c)
    BY <1>5, WriteIs, OpsAre DEF Holds, Holding, WriteData
  <2>2. c # b /\ disk' = [disk EXCEPT ![WriteOffset + c] = Data(loc[t].value)]
    BY <1>3, <1>5, <2>1 DEF WriteData, WriteBlock
  <2>3. WriteOffset + c # WriteOffset + b
    BY <1>4, <2>1, <2>2, SizesAssumption
  <2> QED
    BY <1>1, <1>2, <1>4, <2>2, <2>3
<1>6. CASE LinkDirect(t)
  BY <1>6 DEF LinkDirect, diskVars
<1>7. CASE LinkEntry(t)
  <2>1. pc[t] = "link" /\ loc[t].obj \in Slots /\ loc[t].off \in Offsets \ Directs
    BY <1>1, <1>7, LinkingIs DEF LinkEntry
  <2>2. Indirect(t) = Ptr(loc[t].obj, -1 - Alpha(loc[t].off)) /\ -1 - Alpha(loc[t].off) \in Positions
    BY <1>1, <2>1, PtrIs, AlphaAlp DEF Indirect, Positions
  <2>3. Indirect(t) # WriteOffset + b
    BY <1>3, <2>1, <2>2 DEF Points
  <2> QED
    BY <1>1, <1>2, <1>4, <1>7, <2>3 DEF LinkEntry, SetEntry, WriteBlock
<1>8. CASE GrabIndirect(t)
  <2>1. PICK g \in DataBlocks : g = loc[t].todo[0] /\ g \notin bit_map_data
    BY <1>1, <1>8 DEF GrabIndirect, Blocks, WordsCurrent
  <2>2. b \in bit_map_data
    BY <1>1, <1>2 DEF Blocks, MapExact, Held
  <2>3. WriteOffset + g # WriteOffset + b
    BY <1>4, <2>1, <2>2, SizesAssumption
  <2> QED
    BY <1>1, <1>2, <1>4, <1>8, <2>1, <2>3 DEF GrabIndirect, SetEntry, WriteBlock
<1> QED
  BY <1>5, <1>6, <1>7, <1>8

(* Nor does writing the data, before anything points there. *)
LEMMA DataIs ==
  ASSUME FInv, NEW t \in Threads, WriteData(t)
  PROVE  /\ Within(t) /\ UNCHANGED <<objs, bit_map_inode, loc>> /\ PointersKept
         /\ CellsKept(Slots) /\ Frame(t) /\ Stays(t) /\ KeysKept
<1>1. Within(t) /\ objs' = objs /\ BInv /\ loc' = loc
  BY QuietWithin, OpsAre DEF WriteData
<1>2. PointersKept /\ CellsKept(Slots)
  BY <1>1, DataCells
<1> QED
  BY <1>1, <1>2, HeldKept DEF Within, Frame, Stays, PointersKept, KeysKept

(* A write links its block: the moment it takes effect. *)
LEMMA LinkIs ==
  ASSUME FInv, NEW t \in Threads, LinkDirect(t) \/ LinkEntry(t) \/ GrabIndirect(t)
  PROVE  /\ Within(t) /\ pc[t] \in {"link", "grab"} /\ pc'[t] = "done"
         /\ Frame(t) /\ Stays(t) /\ KeysKept /\ loc'[t].ans = loc[t].ans
         /\ \A r \in Slots, p \in Offsets :
               Cell(r, p)' = IF r = loc[t].obj /\ p = loc[t].off THEN loc[t].value ELSE Cell(r, p)
<1>1. BInv /\ TInv /\ DataTyped /\ Within(t) /\ CallRight(t) /\ pc \in [Threads -> Labels]
      /\ loc \in [Threads -> Locals] /\ loc[t] \in Locals
  BY OpsAre, LinkWithin
<1>2. pc[t] \in {"link", "grab"} /\ pc'[t] = "done" /\ loc'[t].ans = loc[t].ans
  BY <1>1 DEF LinkDirect, LinkEntry, GrabIndirect, Linking, Goto, Locals
<1>3. \A r \in Slots, p \in Offsets :
         Cell(r, p)' = IF r = loc[t].obj /\ p = loc[t].off THEN loc[t].value ELSE Cell(r, p)
  BY <1>1, <1>2, LinkDirectCells, LinkEntryCells, GrabCells DEF CallRight
<1>4. KeysKept
  <2>1. objs \in [Slots -> Objects] /\ \A s \in Slots : objs[s] \in Objects
    BY <1>1 DEF DataTyped
  <2>2. ASSUME NEW r, NEW o, NEW p,
               \/ objs' = [objs EXCEPT ![r].direct[o] = p, ![r].size = @ + 1]
               \/ objs' = [objs EXCEPT ![r].indirect[o] = p, ![r].size = @ + 1]
               \/ objs' = [objs EXCEPT ![r].size = @ + 1]
        PROVE  \A s \in Slots : objs'[s].key = objs[s].key
    <3>1. CASE objs' = [objs EXCEPT ![r].direct[o] = p, ![r].size = @ + 1]
      BY <2>1, <3>1 DEF Objects
    <3>2. CASE objs' = [objs EXCEPT ![r].indirect[o] = p, ![r].size = @ + 1]
      BY <2>1, <3>2 DEF Objects
    <3>3. CASE objs' = [objs EXCEPT ![r].size = @ + 1]
      BY <2>1, <3>3 DEF Objects
    <3> QED
      BY <2>2, <3>1, <3>2, <3>3
  <2>3. \A s \in Slots : objs'[s].key = objs[s].key
    <3>1. CASE LinkDirect(t)
      BY <2>2, <3>1 DEF LinkDirect, SetDirect
    <3>2. CASE LinkEntry(t)
      BY <2>2, <3>2 DEF LinkEntry
    <3>3. CASE GrabIndirect(t)
      BY <2>2, <3>3 DEF GrabIndirect
    <3> QED
      BY <3>1, <3>2, <3>3
  <2> QED
    BY <1>1, <2>3 DEF KeysKept, Within
<1>5. ASSUME NEW s \in Slots, NEW p \in Positions, Ptr(s, p) # 0 PROVE Ptr(s, p)' = Ptr(s, p)
  <2>1. CASE LinkDirect(t) \/ LinkEntry(t)
    <3>1. Ptr(s, p)' = IF s = loc[t].obj /\ p = loc[t].off THEN WriteOffset + loc[t].blk
                       ELSE Ptr(s, p)
      BY <1>1, <2>1, LinkDirectPointers, LinkEntryPointers
    <3>2. Ptr(loc[t].obj, loc[t].off) = 0
      BY <1>1, <1>2, WriteIs
    <3> QED
      BY <1>5, <3>1, <3>2
  <2>2. CASE GrabIndirect(t)
    BY <1>1, <1>5, <2>2, GrabPointers
  <2> QED
    BY <2>1, <2>2
<1>6. Frame(t) /\ Stays(t)
  BY <1>1, <1>5, HeldKept DEF Within, Frame, Stays
<1> QED
  BY <1>1, <1>2, <1>3, <1>4, <1>6

(* Freeing a block changes only the contents of the object that is removed. *)
LEMMA FreeIs ==
  ASSUME FInv, NEW t \in Threads, FreeBlock(t)
  PROVE  /\ Within(t) /\ pc'[t] \in {"free", "load"} /\ Frame(t) /\ Lonely(t) /\ KeysKept
         /\ loc[t].obj \in Slots \ bit_map_inode /\ CellsKept(Slots \ {loc[t].obj})
<1>1. /\ BInv /\ TInv /\ SInv /\ DataTyped /\ Within(t) /\ Blocks /\ pc \in [Threads -> Labels]
      /\ InPlace(pc[t], loc[t]) /\ loc[t].op = "unlink" /\ pc[t] = "store"
  BY OpsAre, LinkWithin DEF FreeBlock, Within
<1>2. pc'[t] \in {"free", "load"}
  BY <1>1 DEF FreeBlock, Goto
<1>3. Frame(t) /\ Lonely(t)
  BY <1>1 DEF Within, Frame, Lonely, Blocks, Apart
<1>4. loc[t].obj \in Slots \ bit_map_inode
  BY <1>1 DEF InPlace, SInv, Facts, UnlinksClear, Removing
<1>5. KeysKept
  <2>1. objs \in [Slots -> Objects] /\ \A s \in Slots : objs[s] \in Objects
    BY <1>1 DEF DataTyped
  <2>2. \/ objs' = objs
        \/ \E s, o : objs' = [objs EXCEPT ![s].direct[o] = 0]
        \/ \E s, o : objs' = [objs EXCEPT ![s].indirect[o] = 0]
    BY DEF FreeBlock, ClearPointer
  <2>3. \A s \in Slots : objs'[s].key = objs[s].key
    BY <2>1, <2>2 DEF Objects
  <2> QED
    BY <1>1, <2>3 DEF KeysKept, Within
<1> QED
  BY <1>1, <1>2, <1>3, <1>4, <1>5, FreeCells

-----------------------------------------------------------------------------
(* The step of a call leaves its thread as CallRight says. *)
LEMMA PlainRight ==
  ASSUME NEW t \in Threads, pc'[t] \notin {"idle", "fetch", "entry", "link", "grab"},
         loc'[t].op = "read" => loc'[t].obj \in bit_map_inode',
         loc'[t].op = "write" => pc'[t] = "done" \/ loc'[t].ans = NoValue
  PROVE  CallRight(t)'
BY DEF CallRight, Writing

(* What such a call holds in its locals stays right. *)
LEMMA QuietRight ==
  ASSUME FInv, NEW t \in Threads,
         \/ FillupSize(t) \/ LoadWord(t) \/ NextPointer(t) \/ ChooseBlock(t) \/ MarkBlock(t)
         \/ ChooseIndirect(t) \/ ReadEntry(t) \/ ReadData(t)
  PROVE  CallRight(t)'
<1>1. /\ TInv /\ DataTyped /\ CallRight(t) /\ pc \in [Threads -> Labels]
      /\ loc \in [Threads -> Locals] /\ loc[t] \in Locals /\ Blocks
  BY OpsAre
<1>2. /\ Within(t) /\ UNCHANGED <<objs, bit_map_inode, disk>> /\ PointersKept
      /\ loc'[t].op = loc[t].op /\ loc'[t].obj = loc[t].obj
  BY QuietIs DEF Within
<1>3. CASE FillupSize(t) \/ LoadWord(t) \/ NextPointer(t)
  <2>1. pc[t] \in {"fill", "load", "free"} /\ pc'[t] \in {"done", "store", "load"}
    BY <1>1, <1>3 DEF FillupSize, LoadWord, NextPointer, Goto
  <2> QED
    BY <1>2, <2>1, OpsAre, PlainRight
<1>4. CASE ChooseBlock(t) \/ MarkBlock(t)
  <2>1. /\ pc[t] \in {"lock", "mark"} /\ pc'[t] \in {"done", "mark", "data"}
        /\ pc'[t] = "done" \/ loc'[t].ans = loc[t].ans
    BY <1>1, <1>4 DEF ChooseBlock, MarkBlock, Goto, Locals
  <2>2. loc[t].op = "write" /\ loc[t].ans = NoValue
    BY <1>1, <2>1, OpsAre DEF CallRight, Writing
  <2> QED
    BY <1>2, <2>1, <2>2, PlainRight
<1>5. CASE ChooseIndirect(t)
  <2>1. /\ pc[t] = "link" /\ pc'[t] = "grab" /\ loc'[t].ans = loc[t].ans
        /\ loc'[t].blk = loc[t].blk /\ loc'[t].value = loc[t].value
    BY <1>1, <1>5 DEF ChooseIndirect, Linking, Goto, Locals
  <2>2. /\ loc[t].op = "write" /\ loc[t].ans = NoValue
        /\ disk[WriteOffset + loc[t].blk] = Data(loc[t].value)
    BY <1>1, <2>1, OpsAre DEF CallRight, Writing
  <2>3. disk'[WriteOffset + loc'[t].blk] = Data(loc'[t].value)
    BY <1>2, <2>1, <2>2
  <2> QED
    BY <1>2, <2>1, <2>2, <2>3 DEF CallRight
<1>6. CASE ReadEntry(t)
  <2>1. /\ pc[t] = "entry" /\ pc'[t] = "fetch" /\ loc'[t].off = loc[t].off
        /\ loc'[t].blk = TableAt(loc[t].blk)[Alp(loc[t].off)]
    BY <1>1, <1>6 DEF ReadEntry, Goto, Locals
  <2>2. PICK s \in Slots, o \in Offsets \ Directs : s = loc[t].obj /\ o = loc[t].off
    <3>1. InPlace("entry", loc[t]) /\ loc[t].op = "read"
      BY <2>1, OpsAre
    <3> QED
      BY <1>1, <3>1 DEF InPlace, Locals
  <2>3. loc[t].blk = Ptr(s, -1 - Alpha(o)) /\ Ptr(s, o) # 0
    BY <1>1, <2>1, <2>2 DEF CallRight
  <2>4. loc'[t].blk = Ptr(s, o)
    <3>1. Alpha(o) \in Indirects /\ Ptr(s, -1 - Alpha(o)) = objs[s].indirect[Alpha(o)]
      BY <1>1, <2>2, AlphaAlp, PtrIs
    <3>2. objs[s].indirect[Alpha(o)] # 0 /\ Ptr(s, o) = TableAt(objs[s].indirect[Alpha(o)])[Alp(o)]
      BY <1>1, <2>2, <2>3, PtrIs
    <3> QED
      BY <2>1, <2>2, <2>3, <3>1, <3>2
  <2>5. Ptr(s, o)' = Ptr(s, o)
    BY <1>2 DEF PointersKept, Positions
  <2>6. loc'[t].obj = s /\ loc'[t].off = o /\ loc[t].op = "read" /\ s \in bit_map_inode'
    BY <1>2, <2>1, <2>2, OpsAre
  <2>7. Ptr(loc[t].obj, loc[t].off)' = Ptr(s, o)
    BY <2>5, <2>6
  <2> QED
    BY <1>2, <2>1, <2>3, <2>4, <2>6, <2>7 DEF CallRight, Writing
<1>7. CASE ReadData(t)
  <2>1. pc[t] = "fetch" /\ pc'[t] = "done"
    BY <1>1, <1>7 DEF ReadData, Goto
  <2> QED
    BY <1>2, <2>1, OpsAre, PlainRight
<1> QED
  BY <1>3, <1>4, <1>5, <1>6, <1>7

(* So it does for the steps that write. *)
LEMMA BusyRight ==
  ASSUME FInv, NEW t \in Threads,
         \/ WriteData(t) \/ LinkDirect(t) \/ LinkEntry(t) \/ GrabIndirect(t) \/ FreeBlock(t)
  PROVE  CallRight(t)'
<1>1. /\ TInv /\ DataTyped /\ CallRight(t) /\ pc \in [Threads -> Labels]
      /\ loc \in [Threads -> Locals] /\ loc[t] \in Locals
  BY OpsAre
<1>2. CASE WriteData(t)
  <2>1. /\ pc[t] = "data" /\ pc'[t] = "link" /\ loc' = loc
        /\ disk' = [disk EXCEPT ![WriteOffset + loc[t].blk] = Data(loc[t].value)]
    BY <1>1, <1>2 DEF WriteData, Goto, WriteBlock
  <2>2. loc[t].op = "write" /\ loc[t].ans = NoValue /\ loc[t].blk \in DataBlocks
    BY <1>1, <2>1, OpsAre, WriteIs DEF CallRight, Writing
  <2>3. disk'[WriteOffset + loc[t].blk] = Data(loc[t].value)
    BY <1>1, <2>1, <2>2, Numbers DEF DataTyped
  <2> QED
    BY <2>1, <2>2, <2>3 DEF CallRight
<1>3. CASE LinkDirect(t) \/ LinkEntry(t) \/ GrabIndirect(t)
  <2>1. pc'[t] = "done" /\ loc[t].op = "write" /\ loc'[t].op = loc[t].op
    BY <1>3, LinkIs, OpsAre DEF Within
  <2> QED
    BY <2>1, PlainRight
<1>4. CASE FreeBlock(t)
  <2>1. pc'[t] \in {"free", "load"} /\ loc[t].op = "unlink" /\ loc'[t].op = loc[t].op
    BY <1>4, FreeIs DEF Within, FreeBlock
  <2> QED
    BY <2>1, PlainRight
<1> QED
  BY <1>2, <1>3, <1>4

(* So all calls stay right, and names apart, while one goes on. *)
LEMMA WithinRight ==
  ASSUME FInv, NEW t \in Threads,
         \/ FillupSize(t) \/ LoadWord(t) \/ NextPointer(t) \/ ChooseBlock(t) \/ MarkBlock(t)
         \/ ChooseIndirect(t) \/ ReadEntry(t) \/ ReadData(t)
         \/ WriteData(t) \/ LinkDirect(t) \/ LinkEntry(t) \/ GrabIndirect(t) \/ FreeBlock(t)
  PROVE  KeysApart' /\ \A u \in Threads : CallRight(u)'
<1>1. Frame(t) /\ (Lonely(t) \/ Stays(t)) /\ KeysKept /\ CallRight(t)'
  BY QuietIs, DataIs, LinkIs, FreeIs, QuietRight, BusyRight
<1>2. KeysApart'
  BY <1>1 DEF KeysKept, KeysApart, FInv, BInv, SInv, TInv, DataTyped
<1>3. \A u \in Threads \ {t} : CallRight(u)'
  BY <1>1, OthersRight
<1> QED
  BY <1>1, <1>2, <1>3

(* A call that returns changes nothing. *)
LEMMA ReturnIs ==
  ASSUME FInv, NEW t \in Threads, Return(t)
  PROVE  /\ pc[t] = "done" /\ pc'[t] = "idle" /\ UNCHANGED <<objs, bit_map_inode, disk>>
         /\ CellsKept(Slots) /\ Frame(t) /\ Stays(t) /\ KeysKept /\ CallRight(t)'
<1>1. BInv /\ pc \in [Threads -> Labels] /\ loc \in [Threads -> Locals]
  BY OpsAre
<1>2. /\ pc[t] = "done" /\ pc'[t] = "idle" /\ loc'[t] = NoCall /\ Frame(t)
      /\ UNCHANGED <<objs, bit_map_inode, disk>>
  BY <1>1 DEF Return, Goto, metaVars, diskVars, Frame
<1>3. PointersKept /\ CellsKept(Slots)
  BY <1>1, <1>2, QuietCells
<1>4. Stays(t)
  BY <1>2, <1>3 DEF Stays, PointersKept
<1>5. CallRight(t)'
  BY <1>2 DEF CallRight, NoCall, Writing
<1>6. KeysKept
  BY <1>2 DEF KeysKept
<1> QED
  BY <1>2, <1>3, <1>4, <1>5, <1>6

(* A call that begins keeps names apart and all calls right. *)
LEMMA BeginRight ==
  ASSUME Orderly, ~Replace, FInv, NEW t \in Threads,
         \/ \E k \in Keys : \/ Create(t, k) \/ Unlink(t, k) \/ \E new \in Keys : Rename(t, k, new)
                            \/ \E op \in {"open", "getattr"} : Find(t, op, k) \/ FindNothing(t, op, k)
         \/ \E s \in Slots, o \in Offsets : Read(t, s, o) \/ \E v \in Values : Write(t, s, o, v)
  PROVE  KeysApart' /\ \A u \in Threads : CallRight(u)'
<1> DEFINE Goal == Frame(t) /\ (Lonely(t) \/ Stays(t)) /\ CallRight(t)' /\ KeysApart'
<1>1. KeysApart /\ bit_map_inode \subseteq Slots
  BY DEF FInv, BInv, SInv, TInv, DataTyped
<1>2. ASSUME NEW k \in Keys, Create(t, k) PROVE Goal
  <2>1. Frame(t) /\ (Lonely(t) \/ Stays(t)) /\ CallRight(t)'
    BY <1>2, CreateIs, PlainRight
  <2>2. ASSUME UNCHANGED <<objs, bit_map_inode>> PROVE KeysApart'
    BY <1>1, <2>2 DEF KeysApart
  <2>3. ASSUME NEW s \in Slots \ bit_map_inode,
               bit_map_inode' = bit_map_inode \cup {s}, objs'[s].key = k,
               \A r \in Slots \ {s} : objs'[r] = objs[r], k \notin KeysInUse
        PROVE  KeysApart'
    <3>1. \A r \in bit_map_inode : objs'[r].key = objs[r].key /\ objs[r].key # k
      BY <1>1, <2>3 DEF KeysInUse
    <3> QED
      BY <1>1, <2>3, <3>1 DEF KeysApart
  <2> QED
    BY <1>2, <2>1, <2>2, <2>3, CreateIs
<1>3. ASSUME NEW k \in Keys, NEW new \in Keys, Rename(t, k, new) PROVE Goal
  <2>1. Frame(t) /\ (Lonely(t) \/ Stays(t)) /\ CallRight(t)'
    BY <1>3, RenameIs, PlainRight
  <2>2. PICK s \in bit_map_inode :
           objs'[s].key = new /\ \A r \in Slots \ {s} : objs'[r] = objs[r]
    BY <1>3, RenameIs
  <2>3. bit_map_inode' = bit_map_inode /\ \A r \in bit_map_inode : objs[r].key # new
    BY <1>3, RenameIs DEF KeysInUse
  <2> QED
    BY <1>1, <2>1, <2>2, <2>3 DEF KeysApart
<1>4. ASSUME NEW k \in Keys, Unlink(t, k) PROVE Goal
  <2>1. Frame(t) /\ (Lonely(t) \/ Stays(t)) /\ CallRight(t)'
    BY <1>4, UnlinkIs, PlainRight
  <2>2. \A r \in Slots : objs'[r].key = objs[r].key
    BY <1>4, UnlinkIs
  <2>3. bit_map_inode' \subseteq bit_map_inode
    BY <1>4, UnlinkIs
  <2> QED
    BY <1>1, <2>1, <2>2, <2>3 DEF KeysApart
<1>5. ASSUME UNCHANGED <<objs, bit_map_inode>> PROVE KeysApart'
  BY <1>1, <1>5 DEF KeysApart
<1>6. ASSUME NEW k \in Keys, NEW op \in {"open", "getattr"}, Find(t, op, k) \/ FindNothing(t, op, k)
      PROVE  Goal
  <2>1. /\ pc'[t] \in {"fill", "done"} /\ loc'[t].op \in {"open", "getattr"} /\ Frame(t)
        /\ (Lonely(t) \/ Stays(t)) /\ UNCHANGED <<objs, bit_map_inode>>
    BY <1>6, LookUpIs
  <2> QED
    BY <1>5, <2>1, PlainRight
<1>7. ASSUME NEW s \in Slots, NEW o \in Offsets, Read(t, s, o) PROVE Goal
  <2>1. /\ pc'[t] = (IF o \in Directs THEN "fetch" ELSE "entry")
        /\ loc'[t].op = "read" /\ Frame(t) /\ (Lonely(t) \/ Stays(t))
        /\ UNCHANGED <<objs, bit_map_inode>> /\ s \in bit_map_inode /\ loc'[t].obj = s
        /\ loc'[t].off = o /\ Ptr(s, o)' = Ptr(s, o) /\ Ptr(s, o) # 0
        /\ o \in Directs => loc'[t].blk = Ptr(s, o)'
        /\ o \notin Directs => loc'[t].blk = Ptr(s, -1 - Alpha(o))'
    BY <1>7, ReadStarts
  <2>2. PICK c : c = loc'[t]
    OBVIOUS
  <2>3. /\ Ptr(loc[t].obj, loc[t].off)' = Ptr(s, o)'
        /\ Ptr(loc[t].obj, -1 - Alpha(loc[t].off))' = Ptr(s, -1 - Alpha(o))'
    BY <2>1
  <2>4. CallRight(t)'
    BY <2>1, <2>3 DEF CallRight, Writing
  <2> QED
    BY <1>5, <2>1, <2>4
<1>8. ASSUME NEW s \in Slots, NEW o \in Offsets, NEW v \in Values, Write(t, s, o, v) PROVE Goal
  <2>1. /\ pc'[t] = "lock" /\ loc'[t].op = "write" /\ Frame(t) /\ (Lonely(t) \/ Stays(t))
        /\ UNCHANGED <<objs, bit_map_inode>> /\ loc'[t].ans = NoValue
    BY <1>8, WriteStarts
  <2> QED
    BY <1>5, <2>1, PlainRight
<1>9. Goal
  BY <1>2, <1>3, <1>4, <1>6, <1>7, <1>8
<1> QED
  BY <1>9, OthersRight

(* On the first mount there are no files and no calls. *)
LEMMA InitFInv == Init => FInv
<1> SUFFICES ASSUME Init PROVE FInv
  OBVIOUS
<1>1. BInv
  BY InitBInv
<1>2. bit_map_inode = {} /\ \A t \in Threads : pc[t] = "idle" /\ loc[t] = NoCall
  BY DEF Init
<1> QED
  BY <1>1, <1>2 DEF FInv, KeysApart, CallRight, Writing, NoCall

(* Nothing moves the objects when no call does. *)
LEMMA MountIs ==
  ASSUME Orderly, FInv, Unmount \/ Mount \/ UNCHANGED vars
  PROVE  /\ UNCHANGED <<objs, bit_map_inode, disk, pc, loc>> /\ PointersKept /\ CellsKept(Slots)
<1>1. UNCHANGED <<objs, bit_map_inode, disk, pc, loc>>
  BY MountSteps DEF FInv, BInv, Unmount, Mount, vars, metaVars, diskVars, Orderly
<1> QED
  BY <1>1, QuietCells DEF FInv

(* Every step keeps the invariant of the refinement. *)
LEMMA NextFInv ==
  ASSUME Orderly, ~Replace, FInv, IndirectRoom, [Next]_vars
  PROVE  FInv'
<1> DEFINE Goal == KeysApart' /\ \A u \in Threads : CallRight(u)'
<1>1. BInv'
  BY NextBInv DEF FInv
<1>2. ASSUME NEW t \in Threads,
             \/ \E k \in Keys : \/ Create(t, k) \/ Unlink(t, k) \/ \E new \in Keys : Rename(t, k, new)
                                \/ \E op \in {"open", "getattr"} : Find(t, op, k) \/ FindNothing(t, op, k)
             \/ \E s \in Slots, o \in Offsets : Read(t, s, o) \/ \E v \in Values : Write(t, s, o, v)
      PROVE  Goal
  BY <1>2, BeginRight
<1>3. ASSUME NEW t \in Threads,
             \/ FillupSize(t) \/ LoadWord(t) \/ NextPointer(t) \/ ChooseBlock(t) \/ MarkBlock(t)
             \/ ChooseIndirect(t) \/ ReadEntry(t) \/ ReadData(t)
             \/ WriteData(t) \/ LinkDirect(t) \/ LinkEntry(t) \/ GrabIndirect(t) \/ FreeBlock(t)
      PROVE  Goal
  BY <1>3, WithinRight
<1>4. ASSUME NEW t \in Threads, Return(t) PROVE Goal
  <2>1. Frame(t) /\ Stays(t) /\ CallRight(t)' /\ UNCHANGED <<objs, bit_map_inode>> /\ KeysApart
    BY <1>4, ReturnIs DEF FInv
  <2>2. \A u \in Threads \ {t} : CallRight(u)'
    BY <2>1, OthersRight
  <2> QED
    BY <2>1, <2>2 DEF KeysApart
<1>5. ASSUME NEW t \in Threads, RelinkDirect(t) \/ RelinkEntry(t) \/ FreeOld(t) PROVE FALSE
  BY <1>5, NoOverwrite DEF FInv
<1>6. ASSUME Unmount \/ Mount \/ UNCHANGED vars PROVE Goal
  <2>1. UNCHANGED <<objs, bit_map_inode, disk, pc, loc>> /\ PointersKept
    BY <1>6, MountIs
  <2>2. KeysApart'
    BY <2>1 DEF FInv, KeysApart
  <2>3. ASSUME NEW u \in Threads PROVE CallRight(u)'
    <3>1. /\ Ptr(loc[u].obj, loc[u].off)' = Ptr(loc[u].obj, loc[u].off)
          /\ Ptr(loc[u].obj, -1 - Alpha(loc[u].off))' = Ptr(loc[u].obj, -1 - Alpha(loc[u].off))
      BY <2>1 DEF Ptr, Pointer, TableAt
    <3> QED
      BY <2>1, <3>1 DEF FInv, CallRight, Writing
  <2> QED
    BY <2>2, <2>3
<1> HIDE DEF Goal
<1>7. Goal
  BY <1>2, <1>3, <1>4, <1>5, <1>6 DEF Next
<1> QED
  BY <1>1, <1>7 DEF Goal, FInv

-----------------------------------------------------------------------------
(* The key-value store the clients see. *)
Files == [k \in KeysInUse |-> Contents(k)]
Calls == [t \in Threads |-> CallOf(t)]
KeyOf(t) == objs[loc[t].obj].key
Shape(t) ==
    IF pc[t] = "idle" THEN [op |-> "idle"]
    ELSE IF loc[t].op = "read" /\ pc[t] # "done"
         THEN [op |-> "read", key |-> KeyOf(t), off |-> loc[t].off]
    ELSE IF loc[t].op = "write" /\ pc[t] # "done"
         THEN [op |-> "write", key |-> KeyOf(t), off |-> loc[t].off, value |-> loc[t].value]
    ELSE IF loc[t].op \in {"read", "write"} THEN [op |-> "done", value |-> loc[t].ans]
    ELSE [op |-> "done", value |-> NoValue]

CallsAre == Calls = [t \in Threads |-> Shape(t)]
FilesAre ==
    /\ DOMAIN Files = KeysInUse
    /\ \A s \in bit_map_inode : /\ objs[s].key \in KeysInUse
                                /\ Files[objs[s].key] = [o \in Offsets |-> Cell(s, o)]

(* The files and calls of the mapping are those of the tables, before a     *)
(* step.                                                                    *)
LEMMA MapsAre == FInv => CallsAre /\ FilesAre
<1> SUFFICES ASSUME FInv PROVE CallsAre /\ FilesAre
  OBVIOUS
<1>1. ASSUME NEW t \in Threads PROVE CallOf(t) = Shape(t)
  <2>1. /\ pc[t] # "idle" /\ loc[t].op = "write" => (Linked(t) <=> pc[t] = "done")
        /\ pc[t] # "idle" /\ loc[t].op = "read" => (Linked(t) <=> pc[t] = "done")
        /\ pc[t] = "idle" => loc[t].op = "none"
    BY OpsAre DEF Linked, CallRight
  <2>2. CASE pc[t] = "idle"
    BY <2>1, <2>2 DEF CallOf, Shape
  <2>3. CASE pc[t] # "idle" /\ loc[t].op = "read"
    BY <2>1, <2>3 DEF CallOf, Shape, KeyOf
  <2>4. CASE pc[t] # "idle" /\ loc[t].op = "write"
    BY <2>1, <2>4 DEF CallOf, Shape, KeyOf
  <2>5. CASE pc[t] # "idle" /\ loc[t].op \notin {"read", "write"}
    BY <2>1, <2>5 DEF CallOf, Shape
  <2> QED
    BY <2>2, <2>3, <2>4, <2>5
<1>2. ASSUME NEW s \in bit_map_inode
      PROVE  objs[s].key \in KeysInUse /\ Contents(objs[s].key) = [o \in Offsets |-> Cell(s, o)]
  <2>1. First(Matches(objs[s].key)) = s /\ objs[s].key \in KeysInUse /\ s \in Slots
    BY SlotOf
  <2>2. DataTyped
    BY DEF FInv, BInv, SInv, TInv
  <2>3. \A o \in Offsets : Ptr(s, o) = Pointer(s, o)
    BY <2>1, <2>2, PtrIs
  <2> QED
    BY <2>1, <2>3 DEF Contents, Cell
<1> QED
  BY <1>1, <1>2 DEF CallsAre, FilesAre, Calls, Files

(* The steps of the key-value store, in terms of Files and Calls. *)
Done(v) == [op |-> "done", value |-> v]
Replies(t, v) == Calls' = [Calls EXCEPT ![t] = Done(v)]

(* How a step of the store with no arguments to keep is recognised. *)
LEMMA StoreSteps ==
  ASSUME NEW t \in Threads, Calls[t] = [op |-> "idle"], Replies(t, NoValue)
  PROVE  /\ \A k \in Keys : k \notin DOMAIN Files
               /\ Files' = [x \in DOMAIN Files \cup {k} |->
                              IF x = k THEN [o \in Offsets |-> NoValue] ELSE Files[x]] => Store!Next
         /\ \A k \in Keys : k \in DOMAIN Files /\ Files' = [x \in DOMAIN Files \ {k} |-> Files[x]]
               => Store!Next
         /\ \A k, new \in Keys : k \in DOMAIN Files /\ new \notin DOMAIN Files
               /\ Files' = [x \in (DOMAIN Files \ {k}) \cup {new} |-> Files[IF x = new THEN k ELSE x]]
               => Store!Next
         /\ Files' = Files => Store!Next
<1>1. ASSUME NEW k \in Keys, k \notin DOMAIN Files,
             Files' = [x \in DOMAIN Files \cup {k} |->
                         IF x = k THEN [o \in Offsets |-> NoValue] ELSE Files[x]]
      PROVE  Store!Next
  <2>1. Store!Create(t, k)
    BY <1>1 DEF Store!Create, Store!Idle, Store!Answered, Store!Answer, Store!Empty, Files, Calls,
                Replies, Done
  <2> QED
    BY <2>1 DEF Store!Next
<1>2. ASSUME NEW k \in Keys, k \in DOMAIN Files,
             Files' = [x \in DOMAIN Files \ {k} |-> Files[x]]
      PROVE  Store!Next
  <2>1. Store!Unlink(t, k)
    BY <1>2 DEF Store!Unlink, Store!Idle, Store!Answered, Store!Answer, Files, Calls, Replies, Done,
                Store!Restrict, Restrict
  <2> QED
    BY <2>1 DEF Store!Next
<1>3. ASSUME NEW k \in Keys, NEW new \in Keys,
             k \in DOMAIN Files, new \notin DOMAIN Files,
             Files' = [x \in (DOMAIN Files \ {k}) \cup {new} |-> Files[IF x = new THEN k ELSE x]]
      PROVE  Store!Next
  <2>1. Store!Rename(t, k, new)
    BY <1>3 DEF Store!Rename, Store!Idle, Store!Answered, Store!Answer, Files, Calls, Replies, Done
  <2> QED
    BY <2>1 DEF Store!Next
<1>4. ASSUME Files' = Files
      PROVE  Store!Next
  <2>1. Store!Query(t)
    BY <1>4 DEF Store!Query, Store!Idle, Store!Answered, Store!Answer, Files, Calls, Replies, Done
  <2> QED
    BY <2>1 DEF Store!Next
<1> QED
  BY <1>1, <1>2, <1>3, <1>4

ReadOf(k, o)     == [op |-> "read", key |-> k, off |-> o]
WriteOf(k, o, v) == [op |-> "write", key |-> k, off |-> o, value |-> v]
Becomes(t, c)    == Calls' = [Calls EXCEPT ![t] = c]

(* How a request of a read or a write, and its effect, are recognised. *)
LEMMA RequestSteps ==
  ASSUME NEW t \in Threads
  PROVE  /\ \A k \in Keys, o \in Offsets : Calls[t] = [op |-> "idle"] /\ k \in DOMAIN Files
               /\ Files' = Files /\ Becomes(t, ReadOf(k, o)) => Store!Next
         /\ \A k \in Keys, o \in Offsets : \A v \in Values :
               Calls[t] = [op |-> "idle"] /\ k \in DOMAIN Files
               /\ Files' = Files /\ Becomes(t, WriteOf(k, o, v)) => Store!Next
         /\ \A k, o, v : Calls[t] = WriteOf(k, o, v) /\ Files' = [Files EXCEPT ![k][o] = v]
               /\ Replies(t, NoValue) => Store!Next
         /\ \A k, o, v : Calls[t] = WriteOf(k, o, v) /\ Files' = Files /\ Replies(t, Failed) => Store!Next
         /\ \A k, o : Calls[t] = ReadOf(k, o) /\ Files' = Files /\ Replies(t, Files[k][o]) => Store!Next
         /\ \A v : Calls[t] = Done(v) /\ Files' = Files /\ Becomes(t, [op |-> "idle"]) => Store!Next
<1>1. ASSUME NEW k \in Keys, NEW o \in Offsets, Calls[t] = [op |-> "idle"], k \in DOMAIN Files,
             Files' = Files, Becomes(t, ReadOf(k, o))
      PROVE  Store!Next
  <2>1. Store!Ask(t, ReadOf(k, o))
    BY <1>1 DEF Store!Ask, Store!Idle, Files, Calls, Becomes, ReadOf
  <2> QED
    BY <2>1 DEF Store!Next, ReadOf
<1>2. ASSUME NEW k \in Keys, NEW o \in Offsets, NEW v \in Values, Calls[t] = [op |-> "idle"],
             k \in DOMAIN Files, Files' = Files, Becomes(t, WriteOf(k, o, v))
      PROVE  Store!Next
  <2>1. Store!Ask(t, WriteOf(k, o, v))
    BY <1>2 DEF Store!Ask, Store!Idle, Files, Calls, Becomes, WriteOf
  <2> QED
    BY <2>1 DEF Store!Next, WriteOf
<1>3. ASSUME NEW k, NEW o, NEW v, Calls[t] = WriteOf(k, o, v), Replies(t, NoValue),
             Files' = [Files EXCEPT ![k][o] = v]
      PROVE  Store!Next
  <2>1. Calls[t].op = "write" /\ Calls[t].key = k /\ Calls[t].off = o /\ Calls[t].value = v
    BY <1>3 DEF WriteOf
  <2>2. Store!Write(t)
    BY <1>3, <2>1 DEF Store!Write, Store!Answered, Store!Answer, Files, Calls, Replies, Done
  <2> QED
    BY <2>2 DEF Store!Next
<1>4. ASSUME NEW k, NEW o, NEW v, Calls[t] = WriteOf(k, o, v), Replies(t, Failed), Files' = Files
      PROVE  Store!Next
  <2>1. Calls[t].op = "write"
    BY <1>4 DEF WriteOf
  <2>2. Store!Fail(t)
    BY <1>4, <2>1 DEF Store!Fail, Store!Answered, Store!Answer, Files, Calls, Replies, Done
  <2> QED
    BY <2>2 DEF Store!Next
<1>5. ASSUME NEW k, NEW o, Calls[t] = ReadOf(k, o), Replies(t, Files[k][o]), Files' = Files
      PROVE  Store!Next
  <2>1. Calls[t].op = "read" /\ Calls[t].key = k /\ Calls[t].off = o
    BY <1>5 DEF ReadOf
  <2>2. Store!Read(t)
    BY <1>5, <2>1 DEF Store!Read, Store!Answered, Store!Answer, Files, Calls, Replies, Done
  <2> QED
    BY <2>2 DEF Store!Next
<1>6. ASSUME NEW v, Calls[t] = Done(v), Becomes(t, [op |-> "idle"]), Files' = Files
      PROVE  Store!Next
  <2>1. Calls[t].op = "done"
    BY <1>6 DEF Done
  <2>2. Store!Return(t)
    BY <1>6, <2>1 DEF Store!Return, Store!Idle, Files, Calls, Becomes
  <2> QED
    BY <2>2 DEF Store!Next
<1> QED
  BY <1>1, <1>2, <1>3, <1>4, <1>5, <1>6

(* A step of one thread changes its call only, if the names of the objects  *)
(* that the others read and write stay.                                     *)
KeyStays(t) ==
    \A u \in Threads \ {t} : pc[u] # "idle" /\ pc[u] # "done" /\ loc[u].op \in {"read", "write"} =>
        objs'[loc[u].obj].key = objs[loc[u].obj].key

(* The files and calls of the mapping are those of the tables, after it. *)
LEMMA NextMaps == FInv' => CallsAre' /\ FilesAre'
BY MapsAre, PTL

(* A step of one call changes at most what the mapping gives for it. *)
LEMMA CallsNext ==
  ASSUME FInv, FInv', NEW t \in Threads, Frame(t), KeyStays(t)
  PROVE  /\ Becomes(t, Shape(t)') /\ Calls[t] = Shape(t)
         /\ Shape(t)' = Shape(t) => Calls' = Calls
<1>1. CallsAre /\ CallsAre'
  BY MapsAre, NextMaps
<1>2. ASSUME NEW u \in Threads \ {t} PROVE Shape(u)' = Shape(u)
  <2>1. /\ pc'[u] = pc[u] /\ loc'[u] = loc[u]
        /\ pc[u] # "idle" /\ pc[u] # "done" /\ loc[u].op \in {"read", "write"} => KeyOf(u)' = KeyOf(u)
    BY DEF Frame, KeyStays, KeyOf
  <2> QED
    BY <2>1 DEF Shape
<1> QED
  BY <1>1, <1>2 DEF CallsAre, Becomes

(* The files after a step: those of the objects in use, by name. *)
LEMMA FilesNext ==
  ASSUME FInv', NEW K, NEW G, G = [k \in K |-> G[k]], K = KeysInUse',
         \A s \in bit_map_inode' : G[objs'[s].key] = [o \in Offsets |-> Cell(s, o)']
  PROVE  Files' = G
<1>1. FilesAre' /\ Files' = [k \in KeysInUse' |-> Contents(k)']
  BY NextMaps DEF Files
<1>2. ASSUME NEW k \in K PROVE Files'[k] = G[k]
  <2>1. PICK s \in bit_map_inode' : k = objs'[s].key
    BY DEF KeysInUse
  <2> QED
    BY <1>1, <2>1 DEF FilesAre
<1> QED
  BY <1>1, <1>2

(* If names and contents are kept, so are the files. *)
LEMMA FilesStay ==
  ASSUME FInv, FInv', KeysKept, CellsKept(bit_map_inode)
  PROVE  Files' = Files
<1>1. FilesAre /\ Files = [k \in KeysInUse |-> Files[k]] /\ bit_map_inode \subseteq Slots
  BY MapsAre DEF Files, FInv, BInv, SInv, TInv, DataTyped
<1>2. bit_map_inode' = bit_map_inode /\ \A s \in bit_map_inode : objs'[s].key = objs[s].key
  BY <1>1 DEF KeysKept
<1>3. KeysInUse' = KeysInUse
  BY <1>2 DEF KeysInUse
<1>4. \A s \in bit_map_inode' : Files[objs'[s].key] = [o \in Offsets |-> Cell(s, o)']
  BY <1>1, <1>2 DEF FilesAre, CellsKept
<1> QED
  BY <1>1, <1>3, <1>4, FilesNext

(* A slot without pointers has none at any offset. *)
LEMMA EmptySlot ==
  ASSUME DataTyped, NEW s \in Slots, NoPointers(s)
  PROVE  \A o \in Offsets : Ptr(s, o) = 0
<1>1. \A l \in Directs : objs[s].direct[l] = 0
  BY DEF NoPointers, UsedDirects
<1>2. \A l \in Indirects : objs[s].indirect[l] = 0
  BY DEF NoPointers, UsedIndirects
<1> QED
  BY <1>1, <1>2, PtrIs

-----------------------------------------------------------------------------
(* Every step of the object store is a step of the key-value store or none. *)
LEMMA CreateMaps ==
  ASSUME Orderly, FInv, FInv', NEW t \in Threads, NEW k \in Keys, Create(t, k)
  PROVE  Store!Next
<1>1. /\ pc[t] = "idle" /\ pc'[t] = "done" /\ loc'[t].op = "create" /\ Frame(t)
      /\ CellsKept(Slots) /\ k \notin KeysInUse
  BY CreateIs
<1>2. FilesAre /\ Files = [x \in KeysInUse |-> Files[x]]
      /\ TInv /\ SInv /\ bit_map_inode \subseteq Slots /\ DataTyped
  BY MapsAre, OpsAre DEF Files, DataTyped
<1>3. \A u \in Threads : pc[u] # "idle" /\ loc[u].op \in {"read", "write"} => loc[u].obj \in bit_map_inode
  BY <1>2 DEF FInv, CallRight, SInv, Facts, WritesInUse
<1>4. Shape(t) = [op |-> "idle"] /\ Shape(t)' = Done(NoValue)
  BY <1>1 DEF Shape, Done
<1>5. CASE UNCHANGED <<objs, bit_map_inode>>
  <2>1. KeysKept /\ KeyStays(t)
    BY <1>5 DEF KeysKept, KeyStays
  <2>2. Files' = Files
    BY <1>1, <1>2, <2>1, FilesStay DEF CellsKept
  <2> QED
    BY <1>1, <1>4, <2>1, <2>2, CallsNext, StoreSteps DEF Becomes, Replies
<1>6. ASSUME NEW s \in Slots \ bit_map_inode,
             bit_map_inode' = bit_map_inode \cup {s}, NoPointers(s), objs'[s].key = k,
             \A r \in Slots \ {s} : objs'[r] = objs[r]
      PROVE  Store!Next
  <2> DEFINE G == [x \in KeysInUse \cup {k} |->
                     IF x = k THEN [o \in Offsets |-> NoValue] ELSE Files[x]]
  <2>1. KeyStays(t)
    BY <1>2, <1>3, <1>6 DEF KeyStays
  <2>2. \A r \in bit_map_inode : objs'[r].key = objs[r].key /\ r \in Slots
    BY <1>2, <1>6
  <2>3. KeysInUse' = KeysInUse \cup {k}
    BY <1>6, <2>2 DEF KeysInUse
  <2>4. \A o \in Offsets : Cell(s, o)' = NoValue
    <3>1. \A o \in Offsets : Ptr(s, o) = 0
      BY <1>2, <1>6, EmptySlot
    <3> QED
      BY <1>1, <3>1 DEF CellsKept, Cell
  <2>5. ASSUME NEW r \in bit_map_inode'
        PROVE  G[objs'[r].key] = [o \in Offsets |-> Cell(r, o)']
    <3>1. CASE r = s
      BY <1>6, <2>4, <3>1
    <3>2. CASE r # s
      <4>1. r \in bit_map_inode /\ r \in Slots /\ objs'[r].key = objs[r].key
            /\ objs[r].key \in KeysInUse
        BY <1>6, <2>2, <3>2 DEF KeysInUse
      <4>2. G[objs'[r].key] = Files[objs[r].key]
        BY <1>1, <4>1
      <4>3. \A o \in Offsets : Cell(r, o)' = Cell(r, o)
        BY <1>1, <4>1 DEF CellsKept
      <4> QED
        BY <1>2, <4>1, <4>2, <4>3 DEF FilesAre
    <3> QED
      BY <3>1, <3>2
  <2>6. G = [x \in KeysInUse \cup {k} |-> G[x]]
    OBVIOUS
  <2>7. Files' = G
    <3> HIDE DEF G
    <3> QED
      BY <2>3, <2>5, <2>6, FilesNext
  <2> QED
    BY <1>1, <1>2, <1>4, <2>1, <2>7, CallsNext, StoreSteps DEF Becomes, Replies, FilesAre
<1> QED
  BY <1>5, <1>6, CreateIs

(* A renaming is that of the map. *)
LEMMA RenameMaps ==
  ASSUME Orderly, ~Replace, FInv, FInv', NEW t \in Threads, NEW k \in Keys, NEW new \in Keys,
         Rename(t, k, new)
  PROVE  Store!Next
<1>1. /\ pc[t] = "idle" /\ pc'[t] = "done" /\ loc'[t].op = "rename" /\ Frame(t)
      /\ CellsKept(Slots) /\ new \notin KeysInUse /\ k \in KeysInUse
      /\ bit_map_inode' = bit_map_inode
  BY RenameIs
<1>2. FilesAre /\ Files = [x \in KeysInUse |-> Files[x]]
      /\ TInv /\ SInv /\ bit_map_inode \subseteq Slots /\ KeysApart
  BY MapsAre, OpsAre DEF Files, FInv, TInv, DataTyped
<1>3. \A u \in Threads : pc[u] # "idle" /\ loc[u].op \in {"read", "write"} => loc[u].obj \in bit_map_inode
  BY <1>2 DEF FInv, CallRight, SInv, Facts, WritesInUse
<1>4. Shape(t) = [op |-> "idle"] /\ Shape(t)' = Done(NoValue)
  BY <1>1 DEF Shape, Done
<1>5. PICK s \in bit_map_inode :
        /\ objs[s].key = k /\ objs'[s].key = new /\ \A r \in Slots \ {s} : objs'[r] = objs[r]
        /\ \A u \in Threads \ {t} : pc[u] # "idle" => loc[u].obj # s
  BY RenameIs
<1>6. KeyStays(t)
  BY <1>2, <1>3, <1>5 DEF KeyStays
<1> DEFINE G == [x \in (KeysInUse \ {k}) \cup {new} |-> Files[IF x = new THEN k ELSE x]]
<1>7. \A r \in bit_map_inode \ {s} : objs'[r].key = objs[r].key /\ objs[r].key # k /\ objs[r].key # new
  BY <1>1, <1>2, <1>5 DEF KeysApart, KeysInUse
<1>8. KeysInUse' = (KeysInUse \ {k}) \cup {new}
  BY <1>1, <1>5, <1>7 DEF KeysInUse
<1>9. ASSUME NEW r \in bit_map_inode'
      PROVE  G[objs'[r].key] = [o \in Offsets |-> Cell(r, o)']
  <2>1. r \in bit_map_inode /\ r \in Slots /\ objs[r].key \in KeysInUse
    BY <1>1, <1>2 DEF KeysInUse
  <2>2. G[objs'[r].key] = Files[objs[r].key]
    BY <1>5, <1>7, <2>1
  <2>3. \A o \in Offsets : Cell(r, o)' = Cell(r, o)
    BY <1>1, <2>1 DEF CellsKept
  <2> QED
    BY <1>2, <2>1, <2>2, <2>3 DEF FilesAre
<1>10. G = [x \in (KeysInUse \ {k}) \cup {new} |-> G[x]]
  OBVIOUS
<1>11. Files' = G
  <2> HIDE DEF G
  <2> QED
    BY <1>8, <1>9, <1>10, FilesNext
<1> QED
  BY <1>1, <1>2, <1>4, <1>6, <1>11, CallsNext, StoreSteps DEF Becomes, Replies, FilesAre

(* A removal takes effect when it begins. *)
LEMMA UnlinkMaps ==
  ASSUME Orderly, FInv, FInv', NEW t \in Threads, NEW k \in Keys, Unlink(t, k)
  PROVE  Store!Next
<1>1. /\ pc[t] = "idle" /\ pc'[t] = "free" /\ loc'[t].op = "unlink" /\ Frame(t)
      /\ CellsKept(Slots) /\ k \in KeysInUse /\ \A r \in Slots : objs'[r].key = objs[r].key
  BY UnlinkIs
<1>2. FilesAre /\ Files = [x \in KeysInUse |-> Files[x]]
      /\ TInv /\ SInv /\ bit_map_inode \subseteq Slots /\ KeysApart
  BY MapsAre, OpsAre DEF Files, FInv, TInv, DataTyped
<1>3. \A u \in Threads : pc[u] # "idle" /\ loc[u].op \in {"read", "write"} => loc[u].obj \in bit_map_inode
  BY <1>2 DEF FInv, CallRight, SInv, Facts, WritesInUse
<1>4. Shape(t) = [op |-> "idle"] /\ Shape(t)' = Done(NoValue)
  BY <1>1 DEF Shape, Done
<1>5. PICK s \in bit_map_inode : objs[s].key = k /\ bit_map_inode' = bit_map_inode \ {s}
  BY UnlinkIs
<1>6. KeyStays(t)
  BY <1>1, <1>2, <1>3 DEF KeyStays
<1> DEFINE G == [x \in KeysInUse \ {k} |-> Files[x]]
<1>7. \A r \in bit_map_inode \ {s} : objs'[r].key = objs[r].key /\ objs[r].key # k
  BY <1>1, <1>2, <1>5 DEF KeysApart
<1>8. KeysInUse' = KeysInUse \ {k}
  BY <1>5, <1>7 DEF KeysInUse
<1>9. ASSUME NEW r \in bit_map_inode'
      PROVE  G[objs'[r].key] = [o \in Offsets |-> Cell(r, o)']
  <2>1. r \in bit_map_inode /\ r \in Slots /\ objs[r].key \in KeysInUse \ {k}
        /\ objs'[r].key = objs[r].key
    BY <1>2, <1>5, <1>7 DEF KeysInUse
  <2>2. \A o \in Offsets : Cell(r, o)' = Cell(r, o)
    BY <1>1, <2>1 DEF CellsKept
  <2> QED
    BY <1>2, <2>1, <2>2 DEF FilesAre
<1>10. G = [x \in KeysInUse \ {k} |-> G[x]]
  OBVIOUS
<1>11. Files' = G
  <2> HIDE DEF G
  <2> QED
    BY <1>8, <1>9, <1>10, FilesNext
<1> QED
  BY <1>1, <1>2, <1>4, <1>6, <1>11, CallsNext, StoreSteps DEF Becomes, Replies, FilesAre

(* Looking up answers at once, reads and writes are requested. *)
LEMMA AskMaps ==
  ASSUME Orderly, FInv, FInv', NEW t \in Threads,
         \/ \E k \in Keys : \E op \in {"open", "getattr"} : Find(t, op, k) \/ FindNothing(t, op, k)
         \/ \E s \in Slots, o \in Offsets : Read(t, s, o) \/ \E v \in Values : Write(t, s, o, v)
  PROVE  Store!Next
<1>1. FilesAre /\ bit_map_inode \subseteq Slots /\ KeysApart
  BY MapsAre DEF FInv, BInv, SInv, TInv, DataTyped
<1>2. ASSUME UNCHANGED <<objs, bit_map_inode>>, CellsKept(Slots)
      PROVE  Files' = Files /\ KeyStays(t)
  <2>1. KeysKept /\ KeyStays(t) /\ CellsKept(bit_map_inode)
    BY <1>1, <1>2 DEF KeysKept, KeyStays, CellsKept
  <2> QED
    BY <2>1, FilesStay
<1>3. ASSUME NEW k \in Keys, NEW op \in {"open", "getattr"}, Find(t, op, k) \/ FindNothing(t, op, k)
      PROVE  Store!Next
  <2>1. /\ pc[t] = "idle" /\ pc'[t] \in {"fill", "done"} /\ loc'[t].op = op /\ Frame(t)
        /\ CellsKept(Slots) /\ UNCHANGED <<objs, bit_map_inode>>
    BY <1>3, LookUpIs
  <2>2. Shape(t) = [op |-> "idle"] /\ Shape(t)' = Done(NoValue)
    BY <2>1 DEF Shape, Done
  <2> QED
    BY <1>2, <2>1, <2>2, CallsNext, StoreSteps DEF Becomes, Replies
<1>4. ASSUME NEW s \in Slots, NEW o \in Offsets, Read(t, s, o) PROVE Store!Next
  <2>1. /\ pc[t] = "idle" /\ pc'[t] \in {"entry", "fetch"} /\ loc'[t].op = "read" /\ Frame(t)
        /\ CellsKept(Slots) /\ UNCHANGED <<objs, bit_map_inode>>
        /\ s \in bit_map_inode /\ loc'[t].obj = s /\ loc'[t].off = o
    BY <1>4, ReadStarts
  <2>2. Shape(t) = [op |-> "idle"] /\ Shape(t)' = ReadOf(objs[s].key, o)
    BY <2>1 DEF Shape, KeyOf, ReadOf
  <2>3. objs[s].key \in Keys /\ objs[s].key \in DOMAIN Files
    BY <1>1, <2>1 DEF KeysApart, FilesAre
  <2> QED
    BY <1>2, <2>1, <2>2, <2>3, CallsNext, RequestSteps DEF Becomes
<1>5. ASSUME NEW s \in Slots, NEW o \in Offsets, NEW v \in Values, Write(t, s, o, v) PROVE Store!Next
  <2>1. /\ pc[t] = "idle" /\ pc'[t] = "lock" /\ loc'[t].op = "write" /\ Frame(t)
        /\ CellsKept(Slots) /\ UNCHANGED <<objs, bit_map_inode>>
        /\ s \in bit_map_inode /\ loc'[t].obj = s /\ loc'[t].off = o /\ loc'[t].value = v
    BY <1>5, WriteStarts
  <2>2. Shape(t) = [op |-> "idle"] /\ Shape(t)' = WriteOf(objs[s].key, o, v)
    BY <2>1 DEF Shape, KeyOf, WriteOf
  <2>3. objs[s].key \in Keys /\ objs[s].key \in DOMAIN Files
    BY <1>1, <2>1 DEF KeysApart, FilesAre
  <2> QED
    BY <1>2, <2>1, <2>2, <2>3, CallsNext, RequestSteps DEF Becomes
<1> QED
  BY <1>3, <1>4, <1>5

(* What the client sees of its own call stays. *)
LEMMA SameShape ==
  ASSUME NEW t \in Threads, Within(t), KeysKept,
         loc[t].obj \in Slots \/ loc[t].op \notin {"read", "write"},
         \/ loc[t].op \notin {"read", "write"}
         \/ /\ pc[t] # "done" /\ pc'[t] # "done" /\ loc'[t].off = loc[t].off
            /\ loc'[t].value = loc[t].value
  PROVE  Shape(t)' = Shape(t)
BY DEF Within, KeysKept, Shape, KeyOf

(* A step that changes neither files nor the shape of its call is none of   *)
(* the map.                                                                 *)
LEMMA KeptMaps ==
  ASSUME FInv, FInv', NEW t \in Threads, Frame(t), KeysKept, CellsKept(bit_map_inode)
  PROVE  /\ Files' = Files /\ KeyStays(t)
         /\ Shape(t)' = Shape(t) => UNCHANGED Store!vars
<1>1. Files' = Files
  BY FilesStay
<1>2. \A u \in Threads : pc[u] # "idle" /\ loc[u].op \in {"read", "write"} => loc[u].obj \in Slots
  BY DEF FInv, CallRight, BInv, SInv, Facts, WritesInUse, TInv, DataTyped
<1>3. KeyStays(t)
  BY <1>2 DEF KeysKept, KeyStays
<1> QED
  BY <1>1, <1>3, CallsNext DEF Store!vars, Files, Calls

(* Steps within a call are none. *)
LEMMA WithinMaps ==
  ASSUME FInv, FInv', NEW t \in Threads,
         \/ FillupSize(t) \/ LoadWord(t) \/ NextPointer(t) \/ MarkBlock(t)
         \/ ChooseIndirect(t) \/ ReadEntry(t) \/ WriteData(t) \/ FreeBlock(t)
  PROVE  UNCHANGED Store!vars
<1>1. /\ TInv /\ DataTyped /\ pc \in [Threads -> Labels] /\ loc \in [Threads -> Locals]
      /\ loc[t] \in Locals /\ bit_map_inode \subseteq Slots
  BY OpsAre DEF DataTyped
<1>2. Within(t) /\ Frame(t) /\ KeysKept /\ CellsKept(bit_map_inode)
  <2>1. CASE FreeBlock(t)
    BY <1>1, <2>1, FreeIs DEF CellsKept
  <2>2. CASE ~FreeBlock(t)
    BY <1>1, <2>2, QuietIs, DataIs DEF CellsKept
  <2> QED
    BY <2>1, <2>2
<1>3. CASE FillupSize(t) \/ LoadWord(t) \/ NextPointer(t) \/ FreeBlock(t)
  <2>1. pc[t] \in {"fill", "load", "free", "store"}
    BY <1>3 DEF FillupSize, LoadWord, NextPointer, FreeBlock
  <2>2. loc[t].op \in {"getattr", "unlink"}
    BY <2>1, OpsAre
  <2>3. Shape(t)' = Shape(t)
    BY <1>2, <2>2, SameShape
  <2> QED
    BY <1>2, <2>3, KeptMaps
<1>4. CASE MarkBlock(t) \/ ChooseIndirect(t) \/ ReadEntry(t) \/ WriteData(t)
  <2>1. /\ pc[t] \in {"mark", "link", "entry", "data"} /\ pc'[t] \in {"data", "grab", "fetch", "link"}
        /\ loc'[t].off = loc[t].off /\ loc'[t].value = loc[t].value
    BY <1>1, <1>4 DEF MarkBlock, ChooseIndirect, ReadEntry, WriteData, Linking, Goto, Locals
  <2>2. loc[t].obj \in Slots
    BY <1>1, <2>1, OpsAre
  <2>3. Shape(t)' = Shape(t)
    BY <1>2, <2>1, <2>2, SameShape
  <2> QED
    BY <1>2, <2>3, KeptMaps
<1> QED
  BY <1>3, <1>4

(* Choosing a block is none either, or the answer that there is none. *)
LEMMA ChooseMaps ==
  ASSUME FInv, FInv', NEW t \in Threads, ChooseBlock(t)
  PROVE  Store!Next \/ UNCHANGED Store!vars
<1>1. /\ TInv /\ DataTyped /\ pc \in [Threads -> Labels] /\ loc \in [Threads -> Locals]
      /\ loc[t] \in Locals /\ bit_map_inode \subseteq Slots
  BY OpsAre DEF DataTyped
<1>2. Within(t) /\ Frame(t) /\ KeysKept /\ CellsKept(bit_map_inode)
  BY <1>1, QuietIs DEF CellsKept
<1>3. pc[t] = "lock" /\ loc[t].op = "write" /\ loc[t].obj \in Slots /\ loc'[t].op = "write"
  BY <1>1, <1>2, OpsAre DEF ChooseBlock, Within
<1>4. \/ pc'[t] = "done" /\ loc'[t].ans = Failed
      \/ pc'[t] = "mark" /\ loc'[t].off = loc[t].off /\ loc'[t].value = loc[t].value
  BY <1>1 DEF ChooseBlock, Goto, Locals
<1>5. CASE pc'[t] = "done" /\ loc'[t].ans = Failed
  <2>1. Shape(t) = WriteOf(KeyOf(t), loc[t].off, loc[t].value) /\ Shape(t)' = Done(Failed)
    BY <1>3, <1>5 DEF Shape, WriteOf, Done
  <2>2. Files' = Files /\ KeyStays(t)
    BY <1>2, KeptMaps
  <2>3. Replies(t, Failed) /\ Calls[t] = WriteOf(KeyOf(t), loc[t].off, loc[t].value)
    BY <1>2, <2>1, <2>2, CallsNext DEF Becomes, Replies
  <2> QED
    BY <2>2, <2>3, RequestSteps
<1>6. CASE pc'[t] = "mark" /\ loc'[t].off = loc[t].off /\ loc'[t].value = loc[t].value
  <2>1. Shape(t)' = Shape(t)
    BY <1>2, <1>3, <1>6, SameShape
  <2> QED
    BY <1>2, <2>1, KeptMaps
<1> QED
  BY <1>4, <1>5, <1>6

(* A read takes effect when it fetches the block. *)
LEMMA ReadMaps ==
  ASSUME FInv, FInv', NEW t \in Threads, ReadData(t)
  PROVE  Store!Next
<1>1. /\ TInv /\ DataTyped /\ pc \in [Threads -> Labels] /\ loc \in [Threads -> Locals]
      /\ loc[t] \in Locals /\ bit_map_inode \subseteq Slots /\ CallRight(t) /\ FilesAre
  BY OpsAre, MapsAre DEF DataTyped
<1>2. Within(t) /\ Frame(t) /\ KeysKept /\ CellsKept(bit_map_inode)
  BY <1>1, QuietIs DEF CellsKept
<1>3. /\ pc[t] = "fetch" /\ pc'[t] = "done" /\ loc'[t].ans = ValueAt(loc[t].blk)
  BY <1>1 DEF ReadData, Goto, Locals
<1>4. /\ loc[t].op = "read" /\ loc'[t].op = "read" /\ loc[t].obj \in bit_map_inode
      /\ loc[t].off \in Offsets
  BY <1>1, <1>2, <1>3, OpsAre DEF Within, Locals
<1>5. Shape(t) = ReadOf(KeyOf(t), loc[t].off) /\ Shape(t)' = Done(ValueAt(loc[t].blk))
  BY <1>3, <1>4 DEF Shape, ReadOf, Done
<1>6. Files[KeyOf(t)][loc[t].off] = ValueAt(loc[t].blk)
  <2>1. Files[KeyOf(t)] = [o \in Offsets |-> Cell(loc[t].obj, o)]
    BY <1>1, <1>4 DEF FilesAre, KeyOf
  <2>2. loc[t].blk = Ptr(loc[t].obj, loc[t].off) /\ loc[t].blk # 0
    BY <1>1, <1>3 DEF CallRight
  <2> QED
    BY <1>4, <2>1, <2>2 DEF Cell
<1>7. Files' = Files /\ KeyStays(t)
  BY <1>2, KeptMaps
<1>8. Replies(t, Files[KeyOf(t)][loc[t].off]) /\ Calls[t] = ReadOf(KeyOf(t), loc[t].off)
  BY <1>2, <1>5, <1>6, <1>7, CallsNext DEF Becomes, Replies
<1> QED
  BY <1>7, <1>8, RequestSteps

(* A write takes effect when it links its block or entry. *)
LEMMA LinkMaps ==
  ASSUME FInv, FInv', NEW t \in Threads, LinkDirect(t) \/ LinkEntry(t) \/ GrabIndirect(t)
  PROVE  Store!Next
<1>1. /\ Within(t) /\ pc[t] \in {"link", "grab"} /\ pc'[t] = "done" /\ Frame(t) /\ KeysKept
      /\ loc'[t].ans = loc[t].ans
      /\ \A r \in Slots, p \in Offsets :
            Cell(r, p)' = IF r = loc[t].obj /\ p = loc[t].off THEN loc[t].value ELSE Cell(r, p)
  BY LinkIs
<1>2. /\ loc[t].op = "write" /\ loc[t].obj \in bit_map_inode /\ loc'[t].op = "write"
      /\ loc[t].off \in Offsets /\ loc[t].ans = NoValue /\ bit_map_inode \subseteq Slots /\ KeysApart
      /\ FilesAre /\ Files = [k \in KeysInUse |-> Files[k]]
  BY <1>1, OpsAre, MapsAre DEF Within, Locals, CallRight, Writing, DataTyped, FInv, Files
<1>v. PICK v : v = loc[t].value
  OBVIOUS
<1>3. PICK s \in bit_map_inode, o \in Offsets : s = loc[t].obj /\ o = loc[t].off /\ v = loc[t].value
  BY <1>2, <1>v
<1>4. Shape(t) = WriteOf(objs[s].key, o, v) /\ Shape(t)' = Done(NoValue)
  BY <1>1, <1>2, <1>3 DEF Shape, WriteOf, Done, KeyOf
<1>5. KeyStays(t)
  <2>1. \A u \in Threads : pc[u] # "idle" /\ loc[u].op \in {"read", "write"} => loc[u].obj \in Slots
    BY DEF FInv, CallRight, BInv, SInv, Facts, WritesInUse, TInv, DataTyped
  <2> QED
    BY <1>1, <2>1 DEF KeysKept, KeyStays
<1>6. /\ bit_map_inode' = bit_map_inode
      /\ \A r \in bit_map_inode : objs'[r].key = objs[r].key
  BY <1>1, <1>2 DEF KeysKept
<1>7. KeysInUse' = KeysInUse
  BY <1>6 DEF KeysInUse
<1> DEFINE G == [Files EXCEPT ![objs[s].key][o] = v]
<1>8. G = [k \in KeysInUse |-> G[k]]
  BY <1>2
<1>9. ASSUME NEW r \in bit_map_inode'
      PROVE  G[objs'[r].key] = [p \in Offsets |-> Cell(r, p)']
  <2>1. r \in bit_map_inode /\ r \in Slots /\ objs'[r].key = objs[r].key
        /\ objs[r].key \in KeysInUse /\ Files[objs[r].key] = [p \in Offsets |-> Cell(r, p)]
    BY <1>2, <1>6 DEF FilesAre
  <2>2. CASE r = s
    <3>1. G[objs[s].key] = [p \in Offsets |-> IF p = o THEN v ELSE Cell(s, p)]
      BY <1>2, <2>1, <2>2
    <3> QED
      BY <1>1, <1>3, <2>1, <2>2, <3>1
  <2>3. CASE r # s
    <3>1. objs[r].key # objs[s].key
      BY <1>2, <2>1, <2>3 DEF KeysApart
    <3>2. G[objs[r].key] = Files[objs[r].key]
      BY <1>2, <2>1, <3>1
    <3>3. \A p \in Offsets : Cell(r, p)' = Cell(r, p)
      BY <1>1, <1>3, <2>1, <2>3
    <3> QED
      BY <2>1, <3>2, <3>3
  <2> QED
    BY <2>2, <2>3
<1>10. Files' = G
  <2> HIDE DEF G
  <2> QED
    BY <1>7, <1>8, <1>9, FilesNext
<1>11. Replies(t, NoValue) /\ Calls[t] = WriteOf(objs[s].key, o, v)
  BY <1>1, <1>4, <1>5, CallsNext DEF Becomes, Replies
<1> QED
  BY <1>10, <1>11, RequestSteps

(* A call that returns answers. *)
LEMMA ReturnMaps ==
  ASSUME FInv, FInv', NEW t \in Threads, Return(t)
  PROVE  Store!Next
<1>1. /\ pc[t] = "done" /\ pc'[t] = "idle" /\ CellsKept(bit_map_inode) /\ Frame(t) /\ KeysKept
  BY ReturnIs, OpsAre DEF CellsKept, DataTyped
<1>2. (\E v : Shape(t) = Done(v)) /\ Shape(t)' = [op |-> "idle"]
  BY <1>1 DEF Shape, Done
<1>3. Files' = Files /\ KeyStays(t)
  BY <1>1, KeptMaps
<1> QED
  BY <1>1, <1>2, <1>3, CallsNext, RequestSteps DEF Becomes

(* The first mount has no files. *)
LEMMA InitMaps == Init => Store!Init
<1> SUFFICES ASSUME Init PROVE Store!Init
  OBVIOUS
<1>1. KeysInUse = {} /\ \A t \in Threads : Shape(t) = [op |-> "idle"]
  BY DEF Init, KeysInUse, Shape
<1>2. CallsAre
  BY InitFInv, MapsAre
<1> QED
  BY <1>1, <1>2 DEF Store!Init, Store!Idle, CallsAre, Calls, Files

(* Every step is one of the map, or none. *)
LEMMA NextMapped ==
  ASSUME Orderly, ~Replace, FInv, FInv', [Next]_vars
  PROVE  [Store!Next]_(Store!vars)
<1> DEFINE Goal == Store!Next \/ UNCHANGED Store!vars
<1>1. ASSUME NEW t \in Threads, NEW k \in Keys,
             \/ Create(t, k) \/ Unlink(t, k) \/ \E new \in Keys : Rename(t, k, new)
             \/ \E op \in {"open", "getattr"} : Find(t, op, k) \/ FindNothing(t, op, k)
      PROVE  Goal
  BY <1>1, CreateMaps, UnlinkMaps, RenameMaps, AskMaps
<1>2. ASSUME NEW t \in Threads, NEW s \in Slots, NEW o \in Offsets,
             Read(t, s, o) \/ \E v \in Values : Write(t, s, o, v)
      PROVE  Goal
  BY <1>2, AskMaps
<1>3. ASSUME NEW t \in Threads,
             \/ FillupSize(t) \/ LoadWord(t) \/ NextPointer(t) \/ MarkBlock(t)
             \/ ChooseIndirect(t) \/ ReadEntry(t) \/ WriteData(t) \/ FreeBlock(t)
      PROVE  Goal
  BY <1>3, WithinMaps
<1>4. ASSUME NEW t \in Threads,
             \/ ChooseBlock(t) \/ ReadData(t) \/ LinkDirect(t) \/ LinkEntry(t) \/ GrabIndirect(t)
             \/ Return(t)
      PROVE  Goal
  BY <1>4, ChooseMaps, ReadMaps, LinkMaps, ReturnMaps
<1>5. ASSUME NEW t \in Threads, RelinkDirect(t) \/ RelinkEntry(t) \/ FreeOld(t) PROVE FALSE
  BY <1>5, NoOverwrite DEF FInv
<1>6. ASSUME Unmount \/ Mount \/ UNCHANGED vars PROVE UNCHANGED Store!vars
  <2>1. UNCHANGED <<objs, bit_map_inode, disk, pc, loc>> /\ CellsKept(Slots) /\ bit_map_inode \subseteq Slots
    BY <1>6, MountIs DEF FInv, BInv, SInv, TInv, DataTyped
  <2>2. KeysKept /\ CellsKept(bit_map_inode)
    BY <2>1 DEF KeysKept, CellsKept
  <2>3. Files' = Files
    BY <2>2, FilesStay
  <2>4. Calls' = Calls
    <3>1. \A u \in Threads : Shape(u)' = Shape(u)
      BY <2>1 DEF Shape, KeyOf
    <3> QED
      BY <3>1, MapsAre, NextMaps DEF CallsAre
  <2> QED
    BY <2>3, <2>4 DEF Store!vars, Files, Calls
<1> HIDE DEF Goal
<1>7. Goal
  <2>1. CASE Next
    BY <1>1, <1>2, <1>3, <1>4, <1>5, <1>6, <2>1 DEF Next, Goal
  <2> QED
    BY <1>6, <2>1 DEF Goal
<1> QED
  BY <1>7 DEF Goal

(* The object store implements the key-value store (objstore.c:127-390,     *)
(* with its clients and mounts) for any number of objects, pointers, blocks *)
(* and names: a read finds the last value written at its offset of its own  *)
(* object, and creating, removing and renaming change just their file.  It  *)
(* takes what BlocksAreAccountedFor takes - offsets written once, unmounts  *)
(* that keep every object (FewObjectsFit), a free block for an indirect     *)
(* block, removals and indirect writes alone or one thread - and that no    *)
(* object is renamed onto another, which would leave two objects of one     *)
(* name.                                                                    *)
THEOREM StoreImplementsKeyStore ==
  ASSUME Orderly, ~Replace
  PROVE  Spec /\ []IndirectRoom => ImplementsKeyStore
<1>1. FInv /\ IndirectRoom /\ [Next]_vars => FInv'
  BY NextFInv
<1>2. FInv /\ FInv' /\ [Next]_vars => [Store!Next]_(Store!vars)
  BY NextMapped
<1> QED
  BY <1>1, <1>2, InitFInv, InitMaps, PTL DEF Spec, ImplementsKeyStore, Store!Spec

-----------------------------------------------------------------------------
(* The size of an object.  A getattr that runs alone finds in temp the      *)
(* object it looked up, and nobody changes it before the call returns.      *)
StatAlone == OneThread \/ "getattr" \in Alone

Used(s) == {o \in Offsets : Ptr(s, o) # 0}
SizesRight == \A s \in bit_map_inode : objs[s].size = Cardinality(Used(s))
StatsApart ==
    \A t, u \in Threads : t # u /\ pc[t] # "idle" /\ pc[u] # "idle" => loc[t].op # "getattr"
StatRight(t) ==
    pc[t] # "idle" /\ loc[t].op = "getattr" /\ loc[t].obj \in Slots =>
        /\ loc[t].obj \in bit_map_inode
        /\ pc[t] = "fill" => temp = loc[t].obj
        /\ pc[t] = "done" => loc[t].ans = objs[loc[t].obj].size

ZInv == BInv /\ SizesRight /\ StatsApart /\ \A t \in Threads : StatRight(t)

(* The offsets that are written are finitely many. *)
LEMMA UsedFinite == \A s : IsFiniteSet(Used(s)) /\ Used(s) \subseteq Offsets
<1>1. NDirect + NIndirect * NPer - 1 \in Int
  BY SizesAssumption
<1>2. IsFiniteSet(Offsets)
  BY <1>1, FS_Interval DEF Offsets
<1> QED
  BY <1>2, FS_Subset DEF Used

(* Steps that change neither the size nor the pointers of the objects.      *)
LEMMA SameSizes ==
  ASSUME ZInv, bit_map_inode' \subseteq bit_map_inode,
         \A s \in bit_map_inode' : /\ objs'[s].size = objs[s].size
                                  /\ \A o \in Offsets : Ptr(s, o)' = Ptr(s, o)
  PROVE  SizesRight'
<1>1. \A s \in bit_map_inode' : Used(s)' = Used(s)
  BY DEF Used
<1> QED
  BY <1>1 DEF ZInv, SizesRight

(* Only Find and FillupSize do something for a getattr.                     *)
LEMMA StatStep ==
  ASSUME StatAlone, ZInv, NEW t \in Threads, Frame(t), StatRight(t)',
         \/ pc[t] # "idle" /\ loc'[t].op = loc[t].op
         \/ pc[t] # "idle" /\ pc'[t] = "idle"
         \/ \E s, o : Admitted(t, loc'[t].op, s, o)
  PROVE  StatsApart' /\ \A u \in Threads : StatRight(u)'
<1>1. ASSUME NEW u \in Threads \ {t}, pc[u] # "idle", pc[t] # "idle" \/ pc'[t] # "idle"
      PROVE  loc[u].op # "getattr" /\ (pc'[t] # "idle" => loc'[t].op # "getattr")
  <2>1. CASE pc[t] # "idle"
    BY <1>1, <2>1 DEF ZInv, StatsApart, Admitted
  <2>2. CASE \E s, o : Admitted(t, loc'[t].op, s, o)
    <3>1. u \in Others(t) /\ "getattr" \in Alone
      BY <1>1 DEF Others, StatAlone, OneThread
    <3> QED
      BY <2>2, <3>1 DEF Admitted
  <2> QED
    BY <2>1, <2>2
<1>2. StatsApart'
  <2> SUFFICES ASSUME NEW x \in Threads, NEW y \in Threads, x # y, pc'[x] # "idle", pc'[y] # "idle"
               PROVE  loc'[x].op # "getattr"
    BY DEF StatsApart
  <2>1. CASE x = t
    BY <1>1, <2>1 DEF Frame
  <2>2. CASE y = t
    BY <1>1, <2>2 DEF Frame
  <2>3. CASE x # t /\ y # t
    BY <2>3 DEF Frame, ZInv, StatsApart
  <2> QED
    BY <2>1, <2>2, <2>3
<1>3. ASSUME NEW u \in Threads \ {t} PROVE StatRight(u)'
  <2>1. pc'[u] = pc[u] /\ loc'[u] = loc[u]
    BY DEF Frame
  <2>2. pc[t] # "idle" \/ pc'[t] # "idle" => StatRight(u)'
    BY <1>1, <2>1 DEF StatRight
  <2>3. pc[t] = "idle" /\ pc'[t] = "idle" => (pc[u] # "idle" => loc[u].op # "getattr")
    <3>1. ASSUME NEW s, NEW o, Admitted(t, loc'[t].op, s, o), pc[u] # "idle" PROVE loc[u].op # "getattr"
      <4>1. u \in Others(t) /\ "getattr" \in Alone
        BY <3>1 DEF Others, StatAlone, OneThread
      <4> QED
        BY <3>1, <4>1 DEF Admitted
    <3> QED
      BY <3>1
  <2> QED
    BY <2>1, <2>2, <2>3 DEF StatRight
<1> QED
  BY <1>2, <1>3

(* A call that starts changes sizes only in slots that are not in use.      *)
LEMMA StartSizes ==
  ASSUME StatAlone, ZInv, NEW t \in Threads, NEW op, NEW s, NEW o, Admitted(t, op, s, o),
         NEW c, loc' = [loc EXCEPT ![t] = c], c.op = op, NEW label, Goto(t, label), label # "idle",
         PointersKept, \A r \in Slots : objs'[r].size = objs[r].size, bit_map_inode' \subseteq bit_map_inode,
         op = "getattr" /\ c.obj \in Slots =>
            label = "fill" /\ temp' = c.obj /\ c.obj \in bit_map_inode'
  PROVE  SizesRight' /\ StatsApart' /\ \A u \in Threads : StatRight(u)'
<1>1. BInv /\ TInv /\ DataTyped /\ pc[t] = "idle" /\ objs \in [Slots -> Objects]
      /\ bit_map_inode \subseteq Slots /\ \A r \in Slots : objs[r] \in Objects
  BY CallFields DEF ZInv, Admitted, DataTyped
<1>2. pc'[t] = label /\ loc'[t] = c /\ Frame(t)
  BY <1>1, Starts DEF Frame
<1>3. SizesRight'
  BY <1>1, SameSizes DEF PointersKept, Positions
<1>4. StatRight(t)'
  BY <1>2 DEF StatRight
<1> QED
  BY <1>2, <1>3, <1>4, StatStep

(* A call that begins, other than create and unlink, changes no size. *)
LEMMA BeginSizes ==
  ASSUME StatAlone, ZInv, NEW t \in Threads,
         \/ \E k, new \in Keys : Rename(t, k, new)
         \/ \E k \in Keys : \E op \in {"open", "getattr"} : Find(t, op, k) \/ FindNothing(t, op, k)
         \/ \E s \in Slots, o \in Offsets : Read(t, s, o) \/ \E v \in Values : Write(t, s, o, v)
  PROVE  SizesRight' /\ StatsApart' /\ \A u \in Threads : StatRight(u)'
<1> DEFINE Goal == SizesRight' /\ StatsApart' /\ \A u \in Threads : StatRight(u)'
<1>0. ASSUME UNCHANGED <<objs, disk, bit_map_inode>>
      PROVE  /\ PointersKept /\ (\A r \in Slots : objs'[r].size = objs[r].size)
             /\ bit_map_inode' \subseteq bit_map_inode
  BY <1>0, QuietCells DEF ZInv
<1>1. ASSUME NEW k \in Keys, NEW new \in Keys, Rename(t, k, new) PROVE Goal
  <2> DEFINE s == First(Matches(k))
             c == [NoCall EXCEPT !.op = "rename", !.obj = s, !.off = 0, !.value = NoValue]
             label == "done"
  <2>1. /\ Admitted(t, "rename", s, 0) /\ loc' = [loc EXCEPT ![t] = c] /\ Goto(t, label) /\ label # "idle"
        /\ disk' = disk /\ objs' = [objs EXCEPT ![s].key = new] /\ bit_map_inode' \subseteq bit_map_inode
    BY <1>1 DEF Rename, Start, diskVars
  <2>2. c.op = "rename"
    BY DEF NoCall
  <2> HIDE DEF c, s, label
  <2>3. PointersKept
    BY <2>1, NamingCells DEF ZInv
  <2>4. \A r \in Slots : objs'[r].size = objs[r].size
    <3>1. objs \in [Slots -> Objects] /\ \A r \in Slots : objs[r] \in Objects
      BY DEF ZInv, BInv, SInv, TInv, DataTyped
    <3> QED
      BY <2>1, <3>1 DEF Objects
  <2> QED
    BY <2>1, <2>2, <2>3, <2>4, StartSizes
<1>2. ASSUME NEW k \in Keys, NEW op \in {"open", "getattr"}, Find(t, op, k) PROVE Goal
  <2> DEFINE s == First(Matches(k))
             c == [NoCall EXCEPT !.op = op, !.obj = s, !.off = 0, !.value = NoValue]
             label == IF op = "open" THEN "done" ELSE "fill"
  <2>1. /\ Admitted(t, op, s, 0) /\ loc' = [loc EXCEPT ![t] = c] /\ Goto(t, label)
        /\ label \in {"done", "fill"} /\ label # "idle" /\ UNCHANGED <<objs, bit_map_inode, disk>>
        /\ temp' = s /\ (op = "getattr" => label = "fill") /\ k \in KeysInUse
    BY <1>2 DEF Find, Start, metaVars, diskVars
  <2>2. c.op = op /\ c.obj = s
    BY DEF NoCall
  <2>3. s \in bit_map_inode
    BY <2>1, MatchesFirst DEF ZInv, BInv, SInv
  <2> HIDE DEF c, label, s
  <2> QED
    BY <1>0, <2>1, <2>2, <2>3, StartSizes
<1>3. ASSUME NEW k \in Keys, NEW op \in {"open", "getattr"}, FindNothing(t, op, k) PROVE Goal
  <2> DEFINE c == [NoCall EXCEPT !.op = op, !.obj = -1, !.ans = Failed]
             label == "done"
  <2>1. /\ Admitted(t, op, -1, 0) /\ loc' = [loc EXCEPT ![t] = c] /\ Goto(t, label) /\ label # "idle"
        /\ UNCHANGED <<objs, bit_map_inode, disk>>
    BY <1>3 DEF FindNothing, metaVars, diskVars
  <2>2. c.op = op /\ c.obj = -1 /\ -1 \notin Slots
    BY Numbers DEF NoCall
  <2> HIDE DEF c, label
  <2> QED
    BY <1>0, <2>1, <2>2, StartSizes
<1>4. ASSUME NEW s \in Slots, NEW o \in Offsets, Read(t, s, o) PROVE Goal
  <2> DEFINE blk == IF o < NDirect THEN objs[s].direct[o] ELSE objs[s].indirect[Alpha(o)]
             c == [NoCall EXCEPT !.op = "read", !.obj = s, !.off = o, !.blk = blk]
             label == IF o < NDirect THEN "fetch" ELSE "entry"
  <2>1. /\ Admitted(t, "read", s, o) /\ loc' = [loc EXCEPT ![t] = c] /\ Goto(t, label)
        /\ label # "idle" /\ UNCHANGED <<objs, bit_map_inode, disk>>
    BY <1>4 DEF Read, metaVars, diskVars
  <2>2. c.op = "read"
    BY DEF NoCall
  <2> HIDE DEF c, label
  <2> QED
    BY <1>0, <2>1, <2>2, StartSizes
<1>5. ASSUME NEW s \in Slots, NEW o \in Offsets, NEW v \in Values, Write(t, s, o, v) PROVE Goal
  <2> DEFINE c == [NoCall EXCEPT !.op = "write", !.obj = s, !.off = o, !.value = v]
             label == "lock"
  <2>1. /\ Admitted(t, "write", s, o) /\ loc' = [loc EXCEPT ![t] = c] /\ Goto(t, label)
        /\ label # "idle" /\ UNCHANGED <<objs, bit_map_inode, disk>>
    BY <1>5 DEF Write, Start, diskVars
  <2>2. c.op = "write"
    BY DEF NoCall
  <2> HIDE DEF c, label
  <2> QED
    BY <1>0, <2>1, <2>2, StartSizes
<1> QED
  BY <1>1, <1>2, <1>3, <1>4, <1>5

(* A new object has size 0 and no pointers. *)
LEMMA CreateSizes ==
  ASSUME Orderly, StatAlone, ZInv, NEW t \in Threads, NEW k \in Keys, Create(t, k)
  PROVE  SizesRight' /\ StatsApart' /\ \A u \in Threads : StatRight(u)'
<1> DEFINE free == Slots \ bit_map_inode
           r == IF free = {} THEN -1 ELSE First(free)
           c == [NoCall EXCEPT !.op = "create", !.obj = r, !.off = 0, !.value = NoValue]
           label == "done"
<1>1. /\ Admitted(t, "create", -1, 0) /\ loc' = [loc EXCEPT ![t] = c] /\ Goto(t, label) /\ label # "idle"
      /\ disk' = disk /\ NamesOnly
      /\ \/ UNCHANGED <<objs, bit_map_inode>>
         \/ /\ free # {} /\ objs' = [objs EXCEPT ![First(free)].key = k]
            /\ bit_map_inode' = bit_map_inode \cup {First(free)}
  BY DEF Create, Start, diskVars, metaVars, NamesOnly
<1>2. c.op = "create"
  BY DEF NoCall
<1> HIDE DEF c, r, label
<1>3. BInv /\ SInv /\ TInv /\ DataTyped /\ pc[t] = "idle" /\ objs \in [Slots -> Objects]
      /\ bit_map_inode \subseteq Slots /\ \A s \in Slots : objs[s] \in Objects
  BY <1>1, CallFields DEF ZInv, BInv, Admitted, DataTyped
<1>4. pc'[t] = label /\ loc'[t] = c /\ Frame(t)
  BY <1>1, <1>3, Starts DEF Frame
<1>5. PointersKept
  BY <1>1, <1>3, NamingCells DEF NamesOnly
<1>6. StatRight(t)'
  BY <1>2, <1>4 DEF StatRight
<1>7. StatsApart' /\ \A u \in Threads : StatRight(u)'
  BY <1>1, <1>2, <1>4, <1>6, StatStep
<1>8. CASE UNCHANGED <<objs, bit_map_inode>>
  BY <1>3, <1>5, <1>7, <1>8, SameSizes DEF PointersKept, Positions
<1>9. CASE /\ free # {} /\ objs' = [objs EXCEPT ![First(free)].key = k]
           /\ bit_map_inode' = bit_map_inode \cup {First(free)}
  <2>1. PICK s \in free : s = First(free)
    BY <1>9, FirstIs, Numbers
  <2>2. \A q \in Slots : objs'[q].size = objs[q].size /\ Used(q)' = Used(q)
    BY <1>3, <1>5, <1>9 DEF Objects, PointersKept, Positions, Used
  <2>3. \A u \in Threads : ~Removing(u, s)
    BY <1>1, <1>3 DEF Admitted, Others, Removing, DirOps
  <2>4. objs[s].size = 0 /\ NoPointers(s)
    BY <1>3, <2>1, <2>3 DEF SInv, Facts, FreeEmpty, Kept, RemountsFit, Orderly
  <2>5. Used(s) = {}
    <3>1. s \in Slots
      BY <2>1
    <3>2. \A o \in Offsets : Ptr(s, o) = 0
      BY <1>3, <2>4, <3>1, EmptySlot
    <3> QED
      BY <3>2 DEF Used
  <2>6. objs[s].size = Cardinality(Used(s))
    BY <2>4, <2>5, FS_EmptySet
  <2>7. SizesRight'
    BY <1>3, <1>9, <2>1, <2>2, <2>6 DEF ZInv, SizesRight
  <2> QED
    BY <1>7, <2>7
<1> QED
  BY <1>1, <1>8, <1>9

(* A removed object is counted no more. *)
LEMMA UnlinkSizes ==
  ASSUME StatAlone, ZInv, NEW t \in Threads, NEW k \in Keys, Unlink(t, k)
  PROVE  SizesRight' /\ StatsApart' /\ \A u \in Threads : StatRight(u)'
<1> DEFINE s == First(Matches(k))
           c == [NoCall EXCEPT !.op = "unlink", !.obj = s, !.off = 0, !.value = NoValue]
           label == "free"
<1>1. /\ Admitted(t, "unlink", s, 0) /\ loc' = [loc EXCEPT ![t] = c] /\ Goto(t, label) /\ label # "idle"
      /\ disk' = disk /\ objs' = [objs EXCEPT ![s].size = 0] /\ bit_map_inode' = bit_map_inode \ {s}
  BY DEF Unlink, Start, diskVars, ClearInode
<1>2. c.op = "unlink"
  BY DEF NoCall
<1> HIDE DEF c, s, label
<1>3. BInv /\ TInv /\ DataTyped /\ pc[t] = "idle" /\ objs \in [Slots -> Objects]
      /\ bit_map_inode \subseteq Slots /\ \A r \in Slots : objs[r] \in Objects
  BY <1>1, CallFields DEF ZInv, Admitted, DataTyped
<1>4. pc'[t] = label /\ loc'[t] = c /\ Frame(t)
  BY <1>1, <1>3, Starts DEF Frame
<1>5. PointersKept
  BY <1>1, <1>3, NamingCells
<1>6. StatRight(t)'
  BY <1>2, <1>4 DEF StatRight
<1>7. StatsApart' /\ \A u \in Threads : StatRight(u)'
  BY <1>1, <1>2, <1>4, <1>6, StatStep
<1>8. \A r \in Slots \ {s} : objs'[r].size = objs[r].size
  BY <1>1, <1>3 DEF Objects
<1>9. SizesRight'
  BY <1>1, <1>3, <1>5, <1>8, SameSizes DEF PointersKept, Positions
<1> QED
  BY <1>7, <1>9

(* A write that links its block has one block more.                         *)
LEMMA LinkSizes ==
  ASSUME ZInv, NEW t \in Threads, LinkDirect(t) \/ LinkEntry(t) \/ GrabIndirect(t)
  PROVE  SizesRight'
<1>1. BInv /\ TInv /\ DataTyped /\ pc[t] \in {"link", "grab"} /\ SizesRight
      /\ objs \in [Slots -> Objects] /\ \A r \in Slots : objs[r] \in Objects
      /\ bit_map_inode \subseteq Slots
  BY CallFields DEF ZInv, LinkDirect, LinkEntry, GrabIndirect, Linking, DataTyped
<1>2. PICK s \in Slots, o \in Offsets, b \in DataBlocks :
        s = loc[t].obj /\ o = loc[t].off /\ b = loc[t].blk /\ Ptr(s, o) = 0
  BY <1>1, WriteIs
<1>3. \A r \in Slots, p \in Offsets : Ptr(r, p)' = IF r = s /\ p = o THEN WriteOffset + b ELSE Ptr(r, p)
  <2>1. CASE LinkDirect(t)
    BY <1>1, <1>2, <2>1, LinkDirectPointers DEF Positions
  <2>2. CASE LinkEntry(t)
    BY <1>1, <1>2, <2>2, LinkEntryPointers DEF Positions
  <2>3. CASE GrabIndirect(t)
    <3>1. \A p \in Offsets : p \in Positions /\ \A i \in Indirects : p # -1 - i
      BY <1>1, <1>2, PtrIs DEF Positions
    <3>2. PICK q \in Offsets \ Directs, x \in Slots, d \in DataBlocks, g \in DataBlocks :
             /\ x = loc[t].obj /\ q = loc[t].off /\ d = loc[t].blk
             /\ \A r \in Slots, p \in Positions :
                   Ptr(r, p)' = IF r = x /\ p = q THEN WriteOffset + d
                                ELSE IF r = x /\ p = -1 - Alpha(q) THEN WriteOffset + g
                                ELSE Ptr(r, p)
      BY <1>1, <2>3, GrabPointers
    <3>3. Alpha(q) \in Indirects
      BY <3>2, AlphaAlp
    <3> QED
      BY <1>2, <3>1, <3>2, <3>3
  <2> QED
    BY <2>1, <2>2, <2>3
<1>4. WriteOffset + b # 0
  BY Numbers, SizesAssumption
<1>5. Used(s)' = Used(s) \cup {o} /\ o \notin Used(s)
  BY <1>2, <1>3, <1>4 DEF Used
<1>6. \A r \in Slots \ {s} : Used(r)' = Used(r)
  BY <1>3 DEF Used
<1>7. objs'[s].size = objs[s].size + 1 /\ \A r \in Slots \ {s} : objs'[r].size = objs[r].size
  <2>1. CASE LinkDirect(t)
    <3>1. PICK p : objs' = [objs EXCEPT ![s].direct[o] = p, ![s].size = @ + 1]
      BY <1>2, <2>1 DEF LinkDirect, SetDirect
    <3> QED
      BY <1>1, <3>1 DEF Objects
  <2>2. CASE LinkEntry(t)
    BY <1>1, <1>2, <2>2 DEF LinkEntry, Objects
  <2>3. CASE GrabIndirect(t)
    <3>1. PICK i, p : objs' = [objs EXCEPT ![s].indirect[i] = p, ![s].size = @ + 1]
      BY <1>2, <2>3 DEF GrabIndirect
    <3> QED
      BY <1>1, <3>1 DEF Objects
  <2> QED
    BY <2>1, <2>2, <2>3
<1>8. Cardinality(Used(s) \cup {o}) = Cardinality(Used(s)) + 1
  BY <1>5, UsedFinite, FS_AddElement
<1>9. bit_map_inode' = bit_map_inode
  BY <1>1, LinkWithin DEF Within
<1> QED
  BY <1>1, <1>5, <1>6, <1>7, <1>8, <1>9 DEF SizesRight

(* A step within a call counts a block exactly when it links it. *)
LEMMA WithinSizes ==
  ASSUME StatAlone, ZInv, NEW t \in Threads,
         \/ FillupSize(t) \/ LoadWord(t) \/ NextPointer(t) \/ ChooseBlock(t) \/ MarkBlock(t)
         \/ ChooseIndirect(t) \/ ReadEntry(t) \/ ReadData(t)
         \/ WriteData(t) \/ LinkDirect(t) \/ LinkEntry(t) \/ GrabIndirect(t) \/ FreeBlock(t)
  PROVE  SizesRight' /\ StatsApart' /\ \A u \in Threads : StatRight(u)'
<1>1. BInv /\ SInv /\ TInv /\ DataTyped /\ Within(t) /\ bit_map_inode \subseteq Slots
      /\ loc \in [Threads -> Locals] /\ pc \in [Threads -> Labels] /\ loc[t] \in Locals
      /\ InPlace(pc[t], loc[t])
  <2>1. BInv /\ SInv /\ TInv /\ DataTyped /\ bit_map_inode \subseteq Slots /\ loc[t] \in Locals
        /\ loc \in [Threads -> Locals] /\ pc \in [Threads -> Labels]
    BY CallFields DEF ZInv, BInv, DataTyped
  <2>2. Within(t)
    BY <2>1, QuietWithin, LinkWithin
  <2> QED
    BY <2>1, <2>2, InCall DEF Within
<1>2. SizesRight'
  <2>1. CASE LinkDirect(t) \/ LinkEntry(t) \/ GrabIndirect(t)
    BY <2>1, LinkSizes
  <2>2. CASE FreeBlock(t)
    <3>1. loc[t].op = "unlink" /\ pc[t] = "store"
      BY <2>2 DEF FreeBlock
    <3>2. loc[t].obj \in Slots \ bit_map_inode
      BY <1>1, <3>1 DEF InPlace, SInv, Facts, UnlinksClear, Removing
    <3>3. \A r \in Slots \ {loc[t].obj}, p \in Positions : Ptr(r, p)' = Ptr(r, p)
      BY <1>1, <2>2, FreeCells
    <3>4. \A r \in Slots : objs'[r].size = objs[r].size
      BY <1>1, <2>2, <3>1, LinkWithin
    <3>5. bit_map_inode' = bit_map_inode
      BY <1>1 DEF Within
    <3> QED
      BY <1>1, <3>2, <3>3, <3>4, <3>5, SameSizes DEF Positions
  <2>3. CASE WriteData(t)
    BY <1>1, <2>3, DataCells, QuietWithin, SameSizes DEF PointersKept, Positions, Within
  <2>4. CASE \/ FillupSize(t) \/ LoadWord(t) \/ NextPointer(t) \/ ChooseBlock(t) \/ MarkBlock(t)
             \/ ChooseIndirect(t) \/ ReadEntry(t) \/ ReadData(t)
    <3>1. disk' = disk
      BY <2>4 DEF FillupSize, LoadWord, NextPointer, ChooseBlock, MarkBlock, ChooseIndirect, ReadEntry,
                  ReadData, diskVars
    <3>2. objs' = objs
      BY <1>1, <2>4, QuietWithin
    <3>3. PointersKept
      BY <1>1, <3>1, <3>2, QuietCells
    <3> QED
      BY <1>1, <3>2, <3>3, SameSizes DEF PointersKept, Positions, Within
  <2> QED
    BY <2>1, <2>2, <2>3, <2>4
<1>3. StatRight(t)'
  <2>1. CASE FillupSize(t)
    <3>1. /\ pc[t] = "fill" /\ pc'[t] = "done" /\ UNCHANGED <<objs, bit_map_inode>>
          /\ loc' = [loc EXCEPT ![t].ans = IF temp = loc[t].obj THEN objs[temp].size ELSE -1]
      BY <1>1, <2>1 DEF FillupSize, Goto, metaVars
    <3>2. loc[t].op = "getattr" /\ loc[t].obj \in Slots
      BY <1>1, <3>1 DEF InPlace, StepsOf, Locals, CallOps
    <3>3. loc[t].obj \in bit_map_inode /\ temp = loc[t].obj
      BY <3>1, <3>2 DEF ZInv, StatRight
    <3>4. loc'[t].obj = loc[t].obj /\ loc'[t].ans = objs[loc[t].obj].size
      BY <1>1, <3>1, <3>3 DEF Locals
    <3> QED
      BY <3>1, <3>3, <3>4 DEF StatRight
  <2>2. CASE ~FillupSize(t)
    <3>1. pc[t] \in {"load", "free", "lock", "mark", "link", "entry", "fetch", "data", "grab", "store"}
      BY <2>2 DEF LoadWord, NextPointer, ChooseBlock, MarkBlock, ChooseIndirect, ReadEntry,
         ReadData, WriteData, LinkDirect, LinkEntry, GrabIndirect, FreeBlock, Linking
    <3>2. loc[t].op # "getattr"
      BY <1>1, <3>1 DEF InPlace, StepsOf, Locals, CallOps
    <3> QED
      BY <1>1, <3>2 DEF Within, StatRight
  <2> QED
    BY <2>1, <2>2
<1>4. StatsApart' /\ \A u \in Threads : StatRight(u)'
  BY <1>1, <1>3, StatStep DEF Within, Frame
<1> QED
  BY <1>2, <1>4

(* Every step keeps sizes right. *)
LEMMA NextZInv ==
  ASSUME Orderly, StatAlone, ZInv, IndirectRoom, [Next]_vars
  PROVE  ZInv'
<1> DEFINE Goal == SizesRight' /\ StatsApart' /\ \A u \in Threads : StatRight(u)'
<1>1. BInv'
  BY NextBInv DEF ZInv
<1>2. ASSUME NEW t \in Threads,
             \/ \E k \in Keys : \/ Create(t, k) \/ Unlink(t, k) \/ \E new \in Keys : Rename(t, k, new)
                                \/ \E op \in {"open", "getattr"} : Find(t, op, k) \/ FindNothing(t, op, k)
             \/ \E s \in Slots, o \in Offsets : Read(t, s, o) \/ \E v \in Values : Write(t, s, o, v)
      PROVE  Goal
  BY <1>2, BeginSizes, CreateSizes, UnlinkSizes
<1>3. ASSUME NEW t \in Threads,
             \/ FillupSize(t) \/ LoadWord(t) \/ NextPointer(t) \/ ChooseBlock(t) \/ MarkBlock(t)
             \/ ChooseIndirect(t) \/ ReadEntry(t) \/ ReadData(t)
             \/ WriteData(t) \/ LinkDirect(t) \/ LinkEntry(t) \/ GrabIndirect(t) \/ FreeBlock(t)
      PROVE  Goal
  BY <1>3, WithinSizes
<1>4. ASSUME NEW t \in Threads, Return(t) PROVE Goal
  <2>1. BInv /\ pc \in [Threads -> Labels] /\ loc \in [Threads -> Locals] /\ bit_map_inode \subseteq Slots
    BY CallFields DEF ZInv, DataTyped
  <2>2. pc[t] = "done" /\ pc'[t] = "idle" /\ UNCHANGED <<objs, bit_map_inode, disk>> /\ Frame(t)
    BY <1>4, <2>1 DEF Return, Goto, metaVars, diskVars, Frame
  <2>3. SizesRight'
    BY <2>1, <2>2, QuietCells, SameSizes DEF PointersKept, Positions
  <2>4. StatRight(t)'
    BY <2>2 DEF StatRight
  <2> QED
    BY <2>2, <2>3, <2>4, StatStep
<1>5. ASSUME NEW t \in Threads, RelinkDirect(t) \/ RelinkEntry(t) \/ FreeOld(t) PROVE FALSE
  BY <1>5, NoOverwrite DEF ZInv
<1>6. ASSUME Unmount \/ Mount \/ UNCHANGED vars PROVE Goal
  <2>1. BInv /\ UNCHANGED <<objs, bit_map_inode, disk, pc, loc>> /\ bit_map_inode \subseteq Slots
    BY <1>6, MountSteps DEF ZInv, BInv, SInv, TInv, DataTyped, Unmount, Mount, vars, metaVars,
                            diskVars, Orderly
  <2>2. SizesRight'
    BY <2>1, QuietCells, SameSizes DEF PointersKept, Positions
  <2>3. (\A t \in Threads : pc[t] = "idle") \/ temp' = temp
    BY <1>6 DEF ZInv, BInv, SInv, Facts, SavedAtUnmount, Unmount, Mount, vars
  <2>4. StatsApart' /\ \A u \in Threads : StatRight(u)'
    BY <2>1, <2>3 DEF ZInv, StatsApart, StatRight
  <2> QED
    BY <2>2, <2>4
<1> HIDE DEF Goal
<1>7. Goal
  <2>1. CASE Next
    BY <1>2, <1>3, <1>4, <1>5, <1>6, <2>1 DEF Next
  <2> QED
    BY <1>6, <2>1
<1> QED
  BY <1>1, <1>7 DEF Goal, ZInv

(* On the first mount all sizes are 0. *)
LEMMA InitZInv == Init => ZInv
<1> SUFFICES ASSUME Init PROVE ZInv
  OBVIOUS
<1>1. BInv
  BY InitBInv
<1> QED
  BY <1>1 DEF Init, ZInv, SizesRight, StatsApart, StatRight

(* So a size that is reported is right. *)
LEMMA ZInvSizes == ZInv => SizeRight
<1> SUFFICES ASSUME ZInv, NEW t \in Threads, pc[t] = "done", loc[t].op = "getattr", loc[t].obj \in Slots
             PROVE  loc[t].ans = Cardinality({o \in Offsets : Pointer(loc[t].obj, o) # 0})
  BY DEF SizeRight
<1>1. PICK s \in Slots : s = loc[t].obj
  OBVIOUS
<1>2. s \in bit_map_inode /\ loc[t].ans = objs[s].size /\ DataTyped
  BY <1>1 DEF ZInv, StatRight, BInv, SInv, TInv
<1>3. \A o \in Offsets : Ptr(s, o) = Pointer(s, o)
  BY <1>2, PtrIs
<1>4. Used(s) = {o \in Offsets : Pointer(s, o) # 0}
  BY <1>3 DEF Used
<1> QED
  BY <1>1, <1>2, <1>4 DEF ZInv, SizesRight

(* The size getattr reports is the number of blocks of the object           *)
(* (fillup_size_details, objstore.c:435-446): a write that links a block    *)
(* counts it in the same step, a new object has none, and removals, renames *)
(* and mounts keep the count.  It takes what BlocksAreAccountedFor takes,   *)
(* unmounts that keep every object among it, and that getattr runs alone:   *)
(* the object it looked up passes to fillup_size_details in a global        *)
(* variable.                                                                *)
THEOREM SizesAreRight ==
  ASSUME Orderly, StatAlone
  PROVE  Spec /\ []IndirectRoom => []SizeRight
<1>1. ZInv /\ IndirectRoom /\ [Next]_vars => ZInv'
  BY NextZInv
<1> QED
  BY <1>1, InitZInv, ZInvSizes, PTL DEF Spec
=============================================================================
