-------------------------- MODULE BlockCacheProofs --------------------------
(***************************************************************************)
(* The block cache for every number of threads, slots and blocks, as long  *)
(* as no call overlaps with find_cache: types, the mutual exclusion of     *)
(* lock_cache, the safety of the metadata, and the refinement of the block *)
(* device.                                                                 *)
(***************************************************************************)
EXTENDS BlockCache, TLAPS

(* No call runs while a block is dropped. *)
QuietDrops == ~DropsOverlap

(* The steps of write_cached, read_cached and find_cache. *)
StepsOf(op) == CASE op = "write" -> {"start", "evict", "fill", "tag", "dirty", "done"}
                 [] op = "read"  -> {"start", "evict", "load", "copy", "tag", "dirty", "done"}
                 [] op = "drop"  -> {"start", "untag", "undirty", "done"}

CallsInPlace ==
    \A t \in Threads :
        pc[t] # "idle" => /\ req[t] \in Requests
                          /\ pc[t] \in StepsOf(req[t].op)
                          /\ req[t].op = "write" => req[t].value \in Values

(* The steps that write_cached and read_cached take under lock_cache. *)
Inside == {"evict", "fill", "load", "copy", "tag", "dirty"}

Mutex == \A t \in Threads : pc[t] \in Inside => lock_cache = t

(* The data blocks of the device hold data. *)
DataOnDevice == \A b \in Blocks : device[b] \in Values

(* What holds whatever overlaps. *)
TInv ==
    /\ TypeOK
    /\ DataOnDevice
    /\ CallsInPlace
    /\ Mutex

(* A drop has no other call beside it. *)
DropsAlone ==
    \A t, u \in Threads :
        t # u /\ pc[t] # "idle" /\ pc[u] # "idle" => req[t].op # "drop"

(* A tag other than -1 is the tag of a block of the slot. *)
TagsName ==
    \A s \in Slots :
        cache_array[s] # -1 => \E b \in Blocks : Slot(b) = s /\ Tag(b) = cache_array[s]

(* A dirty slot has a tag, unless find_cache is between its two stores. *)
DirtyTagged ==
    \A s \in Slots :
        dirty_cache[s] = 1 /\ cache_array[s] = -1 =>
            \E t \in Threads : pc[t] = "undirty" /\ MySlot(t) = s

(* Until its last store, a filled slot has the tag it was given. *)
TagKept ==
    \A t \in Threads : pc[t] = "dirty" => cache_array[MySlot(t)] = MyTag(t)

(* FUSE unmounts when its workers are idle. *)
NoCallUnmounted == ~mounted => \A t \in Threads : pc[t] = "idle"

(* What holds when drops run alone. *)
QInv ==
    /\ TInv
    /\ NoCallUnmounted
    /\ TagKept
    /\ DropsAlone
    /\ TagsName
    /\ DirtyTagged
    /\ MetadataIntact

-----------------------------------------------------------------------------
(* A block is where its tag and its slot say. *)
LEMMA HomeOfBlock ==
  ASSUME NEW b \in Blocks
  PROVE  /\ Slot(b) \in Slots
         /\ Tag(b) \in 0..Tag(NBlocks-1)
         /\ Home(Tag(b), Slot(b)) = b
<1>1. /\ b \in Int /\ 0 <= b /\ b <= NBlocks - 1
      /\ NSlots \in Nat /\ NSlots > 0 /\ NBlocks \in Nat
  BY SizesAssumption DEF Blocks
<1>2. (b \div NSlots) * NSlots + (b % NSlots) = b
  BY <1>1
<1>3. b % NSlots \in 0..NSlots-1
  BY <1>1
<1>4. b \div NSlots \in Int /\ b \div NSlots >= 0
  BY <1>1
<1>5. b \div NSlots <= (NBlocks-1) \div NSlots
  BY <1>1
<1> QED
  BY <1>2, <1>3, <1>4, <1>5 DEF Slot, Tag, Home, Slots

(* The data blocks are among the addresses of the device.                   *)
LEMMA BlocksAreAddresses == Blocks \subseteq Addresses
  BY SizesAssumption DEF Blocks, Addresses

(* The block of a call, its slot and its tag. *)
LEMMA MyBlock ==
  ASSUME TypeOK, NEW t \in Threads
  PROVE  /\ req[t].block \in Blocks
         /\ MySlot(t) \in Slots
         /\ MyTag(t) \in -1..Tag(NBlocks-1)
         /\ MyTag(t) # -1
         /\ -1 \in -1..Tag(NBlocks-1)
         /\ Home(MyTag(t), MySlot(t)) = req[t].block
<1>1. 0 \in Blocks
  BY SizesAssumption DEF Blocks
<1>2. req[t].block \in Blocks
  BY <1>1 DEF TypeOK, Requests, NoRequest
<1>3. Tag(NBlocks-1) \in Int /\ Tag(NBlocks-1) >= 0
  <2>1. NBlocks - 1 \in Blocks
    BY SizesAssumption DEF Blocks
  <2> QED
    BY <2>1, HomeOfBlock
<1> QED
  BY <1>2, <1>3, HomeOfBlock DEF MySlot, MyTag

(* A step of one thread to a place where its call may be. *)
LEMMA CallStep ==
  ASSUME TypeOK, CallsInPlace, NEW t \in Threads,
         NEW label, NEW r,
         pc' = [pc EXCEPT ![t] = label],
         req' = [req EXCEPT ![t] = r],
         \/ label = "idle" /\ r = NoRequest
         \/ /\ label \in StepsOf(r.op) /\ r \in Requests
            /\ r.op = "write" => r.value \in Values
  PROVE  /\ pc' \in [Threads -> Steps]
         /\ req' \in [Threads -> Requests \cup {NoRequest}]
         /\ CallsInPlace'
<1>1. label \in Steps /\ r \in Requests \cup {NoRequest}
  BY DEF StepsOf, Steps, Requests
<1>2. pc' \in [Threads -> Steps] /\ req' \in [Threads -> Requests \cup {NoRequest}]
  BY <1>1 DEF TypeOK
<1>3. ASSUME NEW u \in Threads, pc'[u] # "idle"
      PROVE  /\ req'[u] \in Requests
             /\ pc'[u] \in StepsOf(req'[u].op)
             /\ req'[u].op = "write" => req'[u].value \in Values
  <2>1. CASE u = t
    BY <2>1, <1>3 DEF TypeOK
  <2>2. CASE u # t
    BY <2>2, <1>3 DEF CallsInPlace
  <2> QED
    BY <2>1, <2>2
<1> QED
  BY <1>2, <1>3 DEF CallsInPlace

(* objstore_init.                                                           *)
LEMMA InitTInv == Init => TInv
<1> SUFFICES ASSUME Init PROVE TInv
  OBVIOUS
<1>1. PICK v \in Values : /\ device = [a \in Addresses |-> IF a < 0 THEN Meta ELSE v]
                          /\ cache = [s \in Slots |-> v]
  BY DEF Init
<1>2. -1 \in -1..Tag(NBlocks-1)
  <2>1. NBlocks - 1 \in Blocks
    BY SizesAssumption DEF Blocks
  <2> QED
    BY <2>1, HomeOfBlock
<1>3. TypeOK
  BY <1>1, <1>2 DEF Init, TypeOK, NoTags, Clean, Steps
<1>4. DataOnDevice
  BY <1>1, SizesAssumption DEF DataOnDevice, Blocks, Addresses
<1> QED
  BY <1>3, <1>4 DEF Init, TInv, CallsInPlace, Mutex, Inside

(* One lemma for each step: a client's call and its end,                    *)
LEMMA CallTInv ==
  ASSUME TInv, NEW t \in Threads, NEW op \in {"write", "read", "drop"},
         NEW b \in Blocks, NEW v \in Values \cup {NoValue}, op = "write" => v \in Values,
         Call(t, op, b, v)
  PROVE  TInv'
<1> USE DEF TInv
<1>1. /\ pc' \in [Threads -> Steps]
      /\ req' \in [Threads -> Requests \cup {NoRequest}]
      /\ CallsInPlace'
  <2> DEFINE r == [op |-> op, block |-> b, value |-> v]
  <2>1. /\ pc' = [pc EXCEPT ![t] = "start"]
        /\ req' = [req EXCEPT ![t] = r]
    BY DEF Call
  <2>2. /\ "start" \in StepsOf(op) /\ r \in Requests
        /\ op = "write" => v \in Values
    BY DEF StepsOf, Requests
  <2> QED
    BY <2>1, <2>2, CallStep
<1>2. TypeOK'
  BY <1>1 DEF Call, TypeOK, cacheVars
<1>3. DataOnDevice'
  BY <1>1 DEF Call, DataOnDevice
<1>4. Mutex'
  BY DEF Call, Mutex, Inside
<1> QED
  BY <1>1, <1>2, <1>3, <1>4

(* Returning keeps the types. *)
LEMMA ReturnTInv ==
  ASSUME TInv, NEW t \in Threads, Return(t)
  PROVE  TInv'
<1> USE DEF TInv
<1>1. /\ pc' \in [Threads -> Steps]
      /\ req' \in [Threads -> Requests \cup {NoRequest}]
      /\ CallsInPlace'
  <2>1. /\ pc' = [pc EXCEPT ![t] = "idle"]
        /\ req' = [req EXCEPT ![t] = NoRequest]
    BY DEF Return
  <2> QED
    BY <2>1, CallStep
<1>2. TypeOK'
  BY <1>1 DEF Return, TypeOK, cacheVars
<1>3. DataOnDevice'
  BY <1>1 DEF Return, DataOnDevice
<1>4. Mutex'
  BY DEF Return, Mutex, Inside
<1> QED
  BY <1>1, <1>2, <1>3, <1>4

(* the statements of write_cached and read_cached,                          *)
LEMMA LockTInv ==
  ASSUME TInv, NEW t \in Threads, Lock(t)
  PROVE  TInv'
<1> USE DEF TInv
<1>1. /\ pc' \in [Threads -> Steps]
      /\ req' \in [Threads -> Requests \cup {NoRequest}]
      /\ CallsInPlace'
  <2> DEFINE label == IF req[t].op = "read" /\ cache_array[MySlot(t)] = MyTag(t) THEN "copy" ELSE "evict"
  <2>1. /\ pc' = [pc EXCEPT ![t] = label]
        /\ req' = [req EXCEPT ![t] = req[t]]
    BY DEF Lock, Goto, TypeOK
  <2>2. /\ label \in StepsOf(req[t].op) /\ req[t] \in Requests
        /\ req[t].op = "write" => req[t].value \in Values
    BY DEF Lock, CallsInPlace, StepsOf
  <2> QED
    BY <2>1, <2>2, CallStep
<1>2. TypeOK'
  BY <1>1 DEF Lock, TypeOK, cacheVars
<1>3. DataOnDevice'
  BY <1>1 DEF Lock, DataOnDevice
<1>4. Mutex'
  BY ThreadsAssumption DEF Lock, Mutex, Goto
<1> QED
  BY <1>1, <1>2, <1>3, <1>4

(* Writing back the old block of the slot keeps the types. *)
LEMMA EvictTInv ==
  ASSUME TInv, NEW t \in Threads, Evict(t)
  PROVE  TInv'
<1> USE DEF TInv
<1>1. /\ pc' \in [Threads -> Steps]
      /\ req' \in [Threads -> Requests \cup {NoRequest}]
      /\ CallsInPlace'
  <2> DEFINE label == IF req[t].op = "write" THEN "fill" ELSE "load"
  <2>1. /\ pc' = [pc EXCEPT ![t] = label]
        /\ req' = [req EXCEPT ![t] = req[t]]
    BY DEF Evict, Goto, TypeOK
  <2>2. /\ label \in StepsOf(req[t].op) /\ req[t] \in Requests
        /\ req[t].op = "write" => req[t].value \in Values
    BY DEF Evict, CallsInPlace, StepsOf, Requests
  <2> QED
    BY <2>1, <2>2, CallStep
<1>2. TypeOK'
  BY <1>1, MyBlock DEF Evict, TypeOK, cacheVars
<1>3. DataOnDevice'
  BY MyBlock DEF Evict, DataOnDevice, TypeOK
<1>4. Mutex'
  BY DEF Evict, Mutex, Inside, Goto
<1> QED
  BY <1>1, <1>2, <1>3, <1>4

(* Reading the block from the disk keeps the types. *)
LEMMA FillTInv ==
  ASSUME TInv, NEW t \in Threads, Fill(t)
  PROVE  TInv'
<1> USE DEF TInv
<1>1. /\ pc' \in [Threads -> Steps]
      /\ req' \in [Threads -> Requests \cup {NoRequest}]
      /\ CallsInPlace'
  <2>1. /\ pc' = [pc EXCEPT ![t] = "tag"]
        /\ req' = [req EXCEPT ![t] = req[t]]
    BY DEF Fill, Goto, TypeOK
  <2>2. /\ "tag" \in StepsOf(req[t].op) /\ req[t] \in Requests
        /\ req[t].op = "write" => req[t].value \in Values
    BY DEF Fill, CallsInPlace, StepsOf, Requests
  <2> QED
    BY <2>1, <2>2, CallStep
<1>2. TypeOK'
  BY <1>1 DEF Fill, TypeOK, CallsInPlace, StepsOf, Requests
<1>3. DataOnDevice'
  BY <1>1 DEF Fill, DataOnDevice
<1>4. Mutex'
  BY DEF Fill, Mutex, Inside, Goto
<1> QED
  BY <1>1, <1>2, <1>3, <1>4

(* Loading a block into its slot keeps the types. *)
LEMMA LoadTInv ==
  ASSUME TInv, NEW t \in Threads, Load(t)
  PROVE  TInv'
<1> USE DEF TInv
<1>1. /\ pc' \in [Threads -> Steps]
      /\ req' \in [Threads -> Requests \cup {NoRequest}]
      /\ CallsInPlace'
  <2> DEFINE answer == [req[t] EXCEPT !.value = device[req[t].block]]
  <2>1. /\ pc' = [pc EXCEPT ![t] = "tag"]
        /\ req' = [req EXCEPT ![t] = answer]
    BY DEF Load, Goto
  <2>2. /\ "tag" \in StepsOf(answer.op) /\ answer \in Requests
        /\ answer.op = "write" => answer.value \in Values
    BY DEF Load, CallsInPlace, StepsOf, Requests, DataOnDevice
  <2> QED
    BY <2>1, <2>2, CallStep
<1>2. TypeOK'
  BY <1>1, MyBlock DEF Load, TypeOK, DataOnDevice
<1>3. DataOnDevice'
  BY <1>1 DEF Load, DataOnDevice
<1>4. Mutex'
  BY DEF Load, Mutex, Inside, Goto
<1> QED
  BY <1>1, <1>2, <1>3, <1>4

(* Copying the block out keeps the types. *)
LEMMA CopyTInv ==
  ASSUME TInv, NEW t \in Threads, Copy(t)
  PROVE  TInv'
<1> USE DEF TInv
<1>1. /\ pc' \in [Threads -> Steps]
      /\ req' \in [Threads -> Requests \cup {NoRequest}]
      /\ CallsInPlace'
  <2> DEFINE answer == [req[t] EXCEPT !.value = cache[MySlot(t)]]
  <2>1. /\ pc' = [pc EXCEPT ![t] = "done"]
        /\ req' = [req EXCEPT ![t] = answer]
    BY DEF Copy, Goto
  <2>2. /\ "done" \in StepsOf(answer.op) /\ answer \in Requests
        /\ answer.op = "write" => answer.value \in Values
    BY MyBlock DEF Copy, CallsInPlace, StepsOf, Requests, TypeOK
  <2> QED
    BY <2>1, <2>2, CallStep
<1>2. TypeOK'
  BY <1>1 DEF Copy, TypeOK, cacheVars
<1>3. DataOnDevice'
  BY <1>1 DEF Copy, DataOnDevice
<1>4. Mutex'
  BY DEF Copy, Mutex, Inside, TypeOK, Goto
<1> QED
  BY <1>1, <1>2, <1>3, <1>4

(* Storing the tag keeps the types. *)
LEMMA SetTagTInv ==
  ASSUME TInv, NEW t \in Threads, SetTag(t)
  PROVE  TInv'
<1> USE DEF TInv
<1>1. /\ pc' \in [Threads -> Steps]
      /\ req' \in [Threads -> Requests \cup {NoRequest}]
      /\ CallsInPlace'
  <2>1. /\ pc' = [pc EXCEPT ![t] = "dirty"]
        /\ req' = [req EXCEPT ![t] = req[t]]
    BY DEF SetTag, Goto, TypeOK
  <2>2. /\ "dirty" \in StepsOf(req[t].op) /\ req[t] \in Requests
        /\ req[t].op = "write" => req[t].value \in Values
    BY DEF SetTag, CallsInPlace, StepsOf, Requests
  <2> QED
    BY <2>1, <2>2, CallStep
<1>2. TypeOK'
  BY <1>1, MyBlock DEF SetTag, TypeOK, cacheVars
<1>3. DataOnDevice'
  BY <1>1 DEF SetTag, DataOnDevice
<1>4. Mutex'
  BY DEF SetTag, Mutex, Inside, Goto
<1> QED
  BY <1>1, <1>2, <1>3, <1>4

(* Storing the dirty mark keeps the types. *)
LEMMA SetDirtyTInv ==
  ASSUME TInv, NEW t \in Threads, SetDirty(t)
  PROVE  TInv'
<1> USE DEF TInv
<1>1. /\ pc' \in [Threads -> Steps]
      /\ req' \in [Threads -> Requests \cup {NoRequest}]
      /\ CallsInPlace'
  <2>1. /\ pc' = [pc EXCEPT ![t] = "done"]
        /\ req' = [req EXCEPT ![t] = req[t]]
    BY DEF SetDirty, Goto, TypeOK
  <2>2. /\ "done" \in StepsOf(req[t].op) /\ req[t] \in Requests
        /\ req[t].op = "write" => req[t].value \in Values
    BY DEF SetDirty, CallsInPlace, StepsOf, Requests
  <2> QED
    BY <2>1, <2>2, CallStep
<1>2. TypeOK'
  BY <1>1 DEF SetDirty, TypeOK, cacheVars
<1>3. DataOnDevice'
  BY <1>1 DEF SetDirty, DataOnDevice
<1>4. Mutex'
  BY DEF SetDirty, TypeOK, Mutex, Inside, Goto
<1> QED
  BY <1>1, <1>2, <1>3, <1>4

(* those of find_cache,                                                     *)
LEMMA FindTInv ==
  ASSUME TInv, NEW t \in Threads, Find(t)
  PROVE  TInv'
<1> USE DEF TInv
<1>1. /\ pc' \in [Threads -> Steps]
      /\ req' \in [Threads -> Requests \cup {NoRequest}]
      /\ CallsInPlace'
  <2> DEFINE label == IF cache_array[MySlot(t)] = MyTag(t) THEN "untag" ELSE "done"
  <2>1. /\ pc' = [pc EXCEPT ![t] = label]
        /\ req' = [req EXCEPT ![t] = req[t]]
    BY DEF Find, Goto, TypeOK
  <2>2. /\ label \in StepsOf(req[t].op) /\ req[t] \in Requests
        /\ req[t].op = "write" => req[t].value \in Values
    BY DEF Find, CallsInPlace, StepsOf, Requests
  <2> QED
    BY <2>1, <2>2, CallStep
<1>2. TypeOK'
  BY <1>1 DEF Find, TypeOK, cacheVars
<1>3. DataOnDevice'
  BY <1>1 DEF Find, DataOnDevice
<1>4. Mutex'
  BY DEF Find, Mutex, Inside, Goto
<1> QED
  BY <1>1, <1>2, <1>3, <1>4

(* Clearing the tag keeps the types. *)
LEMMA UntagTInv ==
  ASSUME TInv, NEW t \in Threads, Untag(t)
  PROVE  TInv'
<1> USE DEF TInv
<1>1. /\ pc' \in [Threads -> Steps]
      /\ req' \in [Threads -> Requests \cup {NoRequest}]
      /\ CallsInPlace'
  <2>1. /\ pc' = [pc EXCEPT ![t] = "undirty"]
        /\ req' = [req EXCEPT ![t] = req[t]]
    BY DEF Untag, Goto, TypeOK
  <2>2. /\ "undirty" \in StepsOf(req[t].op) /\ req[t] \in Requests
        /\ req[t].op = "write" => req[t].value \in Values
    BY DEF Untag, CallsInPlace, StepsOf, Requests
  <2> QED
    BY <2>1, <2>2, CallStep
<1>2. TypeOK'
  BY <1>1, MyBlock DEF Untag, TypeOK, cacheVars
<1>3. DataOnDevice'
  BY <1>1 DEF Untag, DataOnDevice
<1>4. Mutex'
  BY DEF Untag, Mutex, Inside, Goto
<1> QED
  BY <1>1, <1>2, <1>3, <1>4

(* Clearing the dirty mark keeps the types. *)
LEMMA UndirtyTInv ==
  ASSUME TInv, NEW t \in Threads, Undirty(t)
  PROVE  TInv'
<1> USE DEF TInv
<1>1. /\ pc' \in [Threads -> Steps]
      /\ req' \in [Threads -> Requests \cup {NoRequest}]
      /\ CallsInPlace'
  <2>1. /\ pc' = [pc EXCEPT ![t] = "done"]
        /\ req' = [req EXCEPT ![t] = req[t]]
    BY DEF Undirty, Goto, TypeOK
  <2>2. /\ "done" \in StepsOf(req[t].op) /\ req[t] \in Requests
        /\ req[t].op = "write" => req[t].value \in Values
    BY DEF Undirty, CallsInPlace, StepsOf, Requests
  <2> QED
    BY <2>1, <2>2, CallStep
<1>2. TypeOK'
  BY <1>1 DEF Undirty, TypeOK, cacheVars
<1>3. DataOnDevice'
  BY <1>1 DEF Undirty, DataOnDevice
<1>4. Mutex'
  BY DEF Undirty, Mutex, Inside, Goto
<1> QED
  BY <1>1, <1>2, <1>3, <1>4

(* and objstore_destroy and objstore_init.                                  *)
LEMMA MountTInv ==
  ASSUME TInv, Unmount \/ Mount \/ UNCHANGED vars
  PROVE  TInv'
<1> USE DEF TInv
<1>1. UNCHANGED <<pc, req, lock_cache>>
  BY DEF Unmount, Mount, vars
<1>2. CallsInPlace' /\ Mutex'
  BY <1>1 DEF CallsInPlace, Mutex
<1>3. \A a \in Blocks : Slot(a) \in Slots /\ a \in Addresses
  BY HomeOfBlock, BlocksAreAddresses
<1>4. \A a \in Addresses : Slot(a) \in Slots
  BY SizesAssumption DEF Slot, Slots, Addresses
<1>5. DataOnDevice'
  BY <1>3 DEF DataOnDevice, Unmount, Mount, vars, TypeOK
<1>6. TypeOK'
  <2>1. CASE Unmount
    BY <1>4, <2>1 DEF Unmount, TypeOK, cacheVars
  <2>2. CASE Mount
    <3>1. NBlocks - 1 \in Blocks
      BY SizesAssumption DEF Blocks
    <3>2. NoTags \in [Slots -> -1..Tag(NBlocks-1)] /\ Clean \in [Slots -> {0, 1}]
      BY <3>1, HomeOfBlock DEF NoTags, Clean
    <3> QED
      BY <2>2, <3>2 DEF Mount, TypeOK
  <2>3. CASE UNCHANGED vars
    BY <2>3 DEF vars, cacheVars, TypeOK
  <2> QED
    BY <2>1, <2>2, <2>3
<1> QED
  BY <1>2, <1>5, <1>6

(* Every step keeps TInv, whatever overlaps.                                *)
LEMMA NextTInv == TInv /\ [Next]_vars => TInv'
<1> SUFFICES ASSUME TInv, [Next]_vars PROVE TInv'
  OBVIOUS
<1>1. ASSUME NEW t \in Threads, NEW b \in Blocks,
             \/ \E v \in Values : Call(t, "write", b, v)
             \/ Call(t, "read", b, NoValue)
             \/ Call(t, "drop", b, NoValue)
      PROVE  TInv'
  BY <1>1, CallTInv
<1>2. ASSUME NEW t \in Threads,
             \/ Lock(t) \/ Evict(t) \/ Fill(t) \/ Load(t) \/ Copy(t)
             \/ SetTag(t) \/ SetDirty(t)
      PROVE  TInv'
  BY <1>2, LockTInv, EvictTInv, FillTInv, LoadTInv, CopyTInv, SetTagTInv, SetDirtyTInv
<1>3. ASSUME NEW t \in Threads, Find(t) \/ Untag(t) \/ Undirty(t) \/ Return(t)
      PROVE  TInv'
  BY <1>3, FindTInv, UntagTInv, UndirtyTInv, ReturnTInv
<1> QED
  BY <1>1, <1>2, <1>3, MountTInv DEF Next

(* The variables keep their types, whatever calls overlap. *)
THEOREM CacheTypeCorrect == Spec => []TypeOK
<1>1. TInv => TypeOK
  BY DEF TInv
<1> QED
  BY <1>1, InitTInv, NextTInv, PTL DEF Spec

(* lock_cache excludes: only the thread that holds it is between the lock   *)
(* and the unlock of write_cached or read_cached.                           *)
THEOREM MutualExclusion ==
  Spec => [](\A t, u \in Threads : pc[t] \in Inside /\ pc[u] \in Inside => t = u)
<1>1. TInv => \A t, u \in Threads : pc[t] \in Inside /\ pc[u] \in Inside => t = u
  BY DEF TInv, Mutex
<1> QED
  BY <1>1, InitTInv, NextTInv, PTL DEF Spec

-----------------------------------------------------------------------------
(* objstore_init leaves no tag and no mark.                                 *)
LEMMA InitQInv == Init => QInv
<1>1. Init => MetadataIntact
  BY DEF Init, MetadataIntact, Addresses
<1>2. Init => NoCallUnmounted /\ TagKept /\ DropsAlone /\ TagsName /\ DirtyTagged
  BY DEF Init, NoCallUnmounted, TagKept, DropsAlone, TagsName, DirtyTagged, NoTags, Clean
<1> QED
  BY <1>1, <1>2, InitTInv DEF QInv

(* A step of a running call of one thread that stores no tag and no mark.   *)
LEMMA LocalStep ==
  ASSUME QInv, NEW t \in Threads, NEW label,
         pc[t] \notin {"idle", "undirty"},
         label # "dirty",
         pc' = [pc EXCEPT ![t] = label],
         \A u \in Threads : /\ req'[u].block = req[u].block
                            /\ req'[u].op = req[u].op,
         UNCHANGED <<cache_array, dirty_cache, mounted>>
  PROVE  NoCallUnmounted' /\ TagKept' /\ DropsAlone' /\ TagsName' /\ DirtyTagged'
<1> USE DEF QInv, TInv
<1>1. \A u \in Threads : pc'[u] = IF u = t THEN label ELSE pc[u]
  BY DEF TypeOK
<1>2. \A u \in Threads : MySlot(u)' = MySlot(u) /\ MyTag(u)' = MyTag(u)
  BY DEF MySlot, MyTag
<1>3. NoCallUnmounted' /\ DropsAlone'
  BY <1>1 DEF NoCallUnmounted, DropsAlone
<1>4. TagKept'
  BY <1>1, <1>2 DEF TagKept
<1>5. TagsName'
  BY DEF TagsName
<1>6. DirtyTagged'
  BY <1>1, <1>2 DEF DirtyTagged
<1> QED
  BY <1>3, <1>4, <1>5, <1>6

(* The steps that change a tag, a mark, or who is in a call.                *)
LEMMA QuietCall ==
  ASSUME QuietDrops, QInv, NEW t \in Threads, NEW op, NEW b, NEW v, Call(t, op, b, v)
  PROVE  NoCallUnmounted' /\ TagKept' /\ DropsAlone' /\ TagsName' /\ DirtyTagged'
<1> USE DEF QInv, TInv
<1>1. \A u \in Threads : pc'[u] = IF u = t THEN "start" ELSE pc[u]
  BY DEF Call, TypeOK
<1>2. \A u \in Threads :
         req'[u] = IF u = t THEN [op |-> op, block |-> b, value |-> v] ELSE req[u]
  BY DEF Call, TypeOK
<1>3. \A u \in Threads \ {t} : MySlot(u)' = MySlot(u) /\ MyTag(u)' = MyTag(u)
  BY <1>2 DEF MySlot, MyTag
<1>4. NoCallUnmounted'
  BY DEF Call, NoCallUnmounted
<1>5. TagKept'
  BY <1>1, <1>3 DEF TagKept, Call, cacheVars
<1>6. DropsAlone'
  BY <1>1, <1>2 DEF DropsAlone, Call, Admitted, Others, Busy, QuietDrops
<1>7. TagsName'
  BY DEF TagsName, Call, cacheVars
<1>8. DirtyTagged'
  BY <1>1, <1>3 DEF DirtyTagged, Call, cacheVars
<1> QED
  BY <1>4, <1>5, <1>6, <1>7, <1>8

(* Returning disturbs nothing that a quiet cache relies on. *)
LEMMA QuietReturn ==
  ASSUME QInv, NEW t \in Threads, Return(t)
  PROVE  NoCallUnmounted' /\ TagKept' /\ DropsAlone' /\ TagsName' /\ DirtyTagged'
<1> USE DEF QInv, TInv
<1>1. \A u \in Threads : pc'[u] = IF u = t THEN "idle" ELSE pc[u]
  BY DEF Return, TypeOK
<1>2. \A u \in Threads \ {t} : req'[u] = req[u]
  BY DEF Return, TypeOK
<1>3. \A u \in Threads \ {t} : MySlot(u)' = MySlot(u) /\ MyTag(u)' = MyTag(u)
  BY <1>2 DEF MySlot, MyTag
<1>4. NoCallUnmounted' /\ DropsAlone'
  BY <1>1, <1>2 DEF NoCallUnmounted, DropsAlone, Return
<1>5. TagKept' /\ TagsName'
  BY <1>1, <1>3 DEF TagKept, TagsName, Return, cacheVars
<1>6. DirtyTagged'
  BY <1>1, <1>3 DEF DirtyTagged, Return, cacheVars
<1> QED
  BY <1>4, <1>5, <1>6

(* A thread that is not in find_cache has no other thread there with it.    *)
LEMMA NobodyDrops ==
  ASSUME QInv, NEW t \in Threads, NEW u \in Threads,
         pc[t] \in Inside, pc[u] \in {"untag", "undirty"}
  PROVE  FALSE
<1>1. pc[t] # "idle" /\ pc[u] # "idle" /\ t # u
  BY DEF Inside
<1>2. req[u].op = "drop"
  BY DEF QInv, TInv, CallsInPlace, StepsOf, Requests
<1> QED
  BY <1>1, <1>2 DEF QInv, DropsAlone

(* A stored tag is that of a block of its slot. *)
LEMMA QuietSetTag ==
  ASSUME QInv, NEW t \in Threads, SetTag(t)
  PROVE  NoCallUnmounted' /\ TagKept' /\ DropsAlone' /\ TagsName' /\ DirtyTagged'
<1> USE DEF QInv, TInv
<1>1. \A u \in Threads : pc'[u] = IF u = t THEN "dirty" ELSE pc[u]
  BY DEF SetTag, Goto, TypeOK
<1>2. \A u \in Threads : MySlot(u)' = MySlot(u) /\ MyTag(u)' = MyTag(u)
  BY DEF MySlot, MyTag, SetTag
<1>3. \A s \in Slots : cache_array'[s] = IF s = MySlot(t) THEN MyTag(t) ELSE cache_array[s]
  BY DEF SetTag, TypeOK
<1>4. NoCallUnmounted' /\ DropsAlone'
  BY <1>1 DEF NoCallUnmounted, DropsAlone, SetTag
<1>5. TagKept'
  <2>1. \A u \in Threads : pc[u] = "dirty" => u = t
    BY DEF Mutex, Inside, SetTag
  <2> QED
    BY <1>1, <1>2, <1>3, <2>1, MyBlock DEF TagKept, SetTag
<1>6. TagsName'
  BY <1>3, MyBlock DEF TagsName, MySlot, MyTag
<1>7. DirtyTagged'
  <2>1. \A u \in Threads : pc[u] # "undirty"
    BY NobodyDrops DEF SetTag, Inside
  <2> QED
    BY <1>3, <2>1, MyBlock DEF DirtyTagged, SetTag
<1> QED
  BY <1>4, <1>5, <1>6, <1>7

(* What becomes dirty has its tag. *)
LEMMA QuietSetDirty ==
  ASSUME QInv, NEW t \in Threads, SetDirty(t)
  PROVE  NoCallUnmounted' /\ TagKept' /\ DropsAlone' /\ TagsName' /\ DirtyTagged'
<1> USE DEF QInv, TInv
<1>1. \A u \in Threads : pc'[u] = IF u = t THEN "done" ELSE pc[u]
  BY DEF SetDirty, Goto, TypeOK
<1>2. \A u \in Threads : MySlot(u)' = MySlot(u) /\ MyTag(u)' = MyTag(u)
  BY DEF MySlot, MyTag, SetDirty
<1>3. NoCallUnmounted' /\ DropsAlone'
  BY <1>1 DEF NoCallUnmounted, DropsAlone, SetDirty
<1>4. TagKept' /\ TagsName'
  BY <1>1, <1>2 DEF TagKept, TagsName, SetDirty
<1>5. DirtyTagged'
  <2>1. cache_array[MySlot(t)] # -1
    BY MyBlock DEF TagKept, SetDirty
  <2> QED
    BY <1>1, <1>2, <2>1 DEF DirtyTagged, SetDirty, TypeOK
<1> QED
  BY <1>3, <1>4, <1>5

(* A drop clears the tag of its own slot, alone. *)
LEMMA QuietUntag ==
  ASSUME QInv, NEW t \in Threads, Untag(t)
  PROVE  NoCallUnmounted' /\ TagKept' /\ DropsAlone' /\ TagsName' /\ DirtyTagged'
<1> USE DEF QInv, TInv
<1>1. \A u \in Threads : pc'[u] = IF u = t THEN "undirty" ELSE pc[u]
  BY DEF Untag, Goto, TypeOK
<1>2. \A u \in Threads : MySlot(u)' = MySlot(u) /\ MyTag(u)' = MyTag(u)
  BY DEF MySlot, MyTag, Untag
<1>3. \A s \in Slots : cache_array'[s] = IF s = MySlot(t) THEN -1 ELSE cache_array[s]
  BY DEF Untag, TypeOK
<1>4. NoCallUnmounted' /\ DropsAlone'
  BY <1>1 DEF NoCallUnmounted, DropsAlone, Untag
<1>5. TagKept'
  <2>1. \A u \in Threads : pc[u] # "dirty"
    BY NobodyDrops DEF Untag, Inside
  <2> QED
    BY <1>1, <2>1 DEF TagKept
<1>6. TagsName'
  BY <1>3 DEF TagsName
<1>7. DirtyTagged'
  BY <1>1, <1>2, <1>3 DEF DirtyTagged, Untag
<1> QED
  BY <1>4, <1>5, <1>6, <1>7

(* A drop clears the mark of its own slot, alone. *)
LEMMA QuietUndirty ==
  ASSUME QInv, NEW t \in Threads, Undirty(t)
  PROVE  NoCallUnmounted' /\ TagKept' /\ DropsAlone' /\ TagsName' /\ DirtyTagged'
<1> USE DEF QInv, TInv
<1>1. \A u \in Threads : pc'[u] = IF u = t THEN "done" ELSE pc[u]
  BY DEF Undirty, Goto, TypeOK
<1>2. \A u \in Threads : MySlot(u)' = MySlot(u) /\ MyTag(u)' = MyTag(u)
  BY DEF MySlot, MyTag, Undirty
<1>3. NoCallUnmounted' /\ DropsAlone'
  BY <1>1 DEF NoCallUnmounted, DropsAlone, Undirty
<1>4. TagKept' /\ TagsName'
  BY <1>1, <1>2 DEF TagKept, TagsName, Undirty
<1>5. DirtyTagged'
  BY <1>1, <1>2 DEF DirtyTagged, Undirty, TypeOK
<1> QED
  BY <1>3, <1>4, <1>5

(* Nobody is in a call at unmount and mount. *)
LEMMA QuietMount ==
  ASSUME QInv, Unmount \/ Mount \/ UNCHANGED vars
  PROVE  NoCallUnmounted' /\ TagKept' /\ DropsAlone' /\ TagsName' /\ DirtyTagged'
<1> USE DEF QInv, TInv
<1>1. UNCHANGED <<pc, req>>
  BY DEF Unmount, Mount, vars
<1>2. \A u \in Threads : MySlot(u)' = MySlot(u) /\ MyTag(u)' = MyTag(u)
  BY <1>1 DEF MySlot, MyTag
<1>3. NoCallUnmounted' /\ DropsAlone'
  BY <1>1 DEF NoCallUnmounted, DropsAlone, Unmount, Mount, Busy, vars
<1>4. CASE Mount
  BY <1>1, <1>3, <1>4 DEF TagKept, TagsName, DirtyTagged, NoCallUnmounted, Mount, NoTags, Clean
<1>5. CASE UNCHANGED <<cache_array, dirty_cache>>
  BY <1>1, <1>2, <1>3, <1>5 DEF TagKept, TagsName, DirtyTagged
<1> QED
  BY <1>4, <1>5 DEF Unmount, cacheVars, vars

(* A dirty slot is written back to a block, because its tag is a block's.   *)
LEMMA DirtyHome ==
  ASSUME QInv, NEW s \in Slots, dirty_cache[s] = 1, cache_array[s] # -1
  PROVE  Home(cache_array[s], s) \in Blocks
<1>1. PICK b \in Blocks : Slot(b) = s /\ Tag(b) = cache_array[s]
  BY DEF QInv, TagsName
<1> QED
  BY <1>1, HomeOfBlock

(* An eviction writes to the home of the slot it evicts.                    *)
LEMMA EvictSafe ==
  ASSUME QInv, NEW t \in Threads, Evict(t)
  PROVE  MetadataIntact'
<1> USE DEF QInv, TInv
<1>1. CASE dirty_cache[MySlot(t)] = 1
  <2>1. \A u \in Threads : pc[u] # "undirty"
    BY NobodyDrops DEF Evict, Inside
  <2>2. cache_array[MySlot(t)] # -1
    BY <1>1, <2>1, MyBlock DEF DirtyTagged
  <2>3. Home(cache_array[MySlot(t)], MySlot(t)) >= 0
    BY <1>1, <2>2, MyBlock, DirtyHome, SizesAssumption DEF Blocks
  <2>4. device' = [device EXCEPT ![Home(cache_array[MySlot(t)], MySlot(t))] = cache[MySlot(t)]]
    BY <1>1 DEF Evict
  <2>5. \A a \in Addresses : a < 0 => device'[a] = device[a]
    BY <2>3, <2>4 DEF TypeOK, Addresses
  <2> QED
    BY <2>5 DEF MetadataIntact
<1>2. CASE dirty_cache[MySlot(t)] # 1
  BY <1>2 DEF Evict, MetadataIntact
<1> QED
  BY <1>1, <1>2

(* objstore_destroy writes to the homes of the dirty slots.                 *)
LEMMA UnmountSafe ==
  ASSUME QInv, Unmount
  PROVE  MetadataIntact'
<1>1. WrittenBack \subseteq Blocks
  BY DirtyHome DEF WrittenBack
<1>2. \A a \in Addresses : a < 0 => a \notin WrittenBack
  BY <1>1, SizesAssumption DEF Blocks, Addresses
<1> QED
  BY <1>2 DEF Unmount, MetadataIntact, QInv

(* Every step keeps QInv as long as drops run alone.                        *)
LEMMA NextQInv == QuietDrops /\ QInv /\ [Next]_vars => QInv'
<1> SUFFICES ASSUME QuietDrops, QInv, [Next]_vars PROVE QInv'
  OBVIOUS
<1> DEFINE Tags == NoCallUnmounted /\ TagKept /\ DropsAlone /\ TagsName /\ DirtyTagged
<1>1. TInv'
  BY NextTInv DEF QInv
<1>2. ASSUME NEW t \in Threads, NEW b \in Blocks,
             \/ \E v \in Values : Call(t, "write", b, v)
             \/ Call(t, "read", b, NoValue)
             \/ Call(t, "drop", b, NoValue)
      PROVE  Tags' /\ MetadataIntact'
  <2>1. UNCHANGED device
    BY <1>2 DEF Call
  <2> QED
    BY <1>2, <2>1, QuietCall DEF QInv, MetadataIntact
<1>3. ASSUME NEW t \in Threads, Evict(t)
      PROVE  Tags' /\ MetadataIntact'
  <2> DEFINE label == IF req[t].op = "write" THEN "fill" ELSE "load"
  <2>1. /\ pc[t] \notin {"idle", "undirty"} /\ label # "dirty"
        /\ pc' = [pc EXCEPT ![t] = label]
        /\ \A u \in Threads : req'[u].block = req[u].block /\ req'[u].op = req[u].op
        /\ UNCHANGED <<cache_array, dirty_cache, mounted>>
    BY <1>3 DEF Evict, Goto, cacheVars
  <2> QED
    BY <1>3, <2>1, LocalStep, EvictSafe
<1>4. ASSUME NEW t \in Threads, Lock(t) \/ Fill(t) \/ Load(t) \/ Copy(t) \/ Find(t)
      PROVE  Tags' /\ MetadataIntact'
  <2>1. \E label : /\ pc[t] \notin {"idle", "undirty"} /\ label # "dirty"
                   /\ pc' = [pc EXCEPT ![t] = label]
    BY <1>4 DEF Lock, Fill, Load, Copy, Find, Goto
  <2>2. \A u \in Threads : req'[u].block = req[u].block /\ req'[u].op = req[u].op
    <3>1. CASE req' = req
      BY <3>1
    <3>2. CASE \E v : req' = [req EXCEPT ![t].value = v]
      BY <3>2 DEF QInv, TInv, TypeOK, Requests, NoRequest
    <3> QED
      BY <1>4, <3>1, <3>2 DEF Lock, Fill, Load, Copy, Find
  <2>3. UNCHANGED <<device, cache_array, dirty_cache, mounted>>
    BY <1>4 DEF Lock, Fill, Load, Copy, Find, cacheVars
  <2> QED
    BY <2>1, <2>2, <2>3, LocalStep DEF QInv, MetadataIntact
<1>5. ASSUME NEW t \in Threads,
             SetTag(t) \/ SetDirty(t) \/ Untag(t) \/ Undirty(t) \/ Return(t)
      PROVE  Tags' /\ MetadataIntact'
  <2>1. UNCHANGED device
    BY <1>5 DEF SetTag, SetDirty, Untag, Undirty, Return
  <2> QED
    BY <1>5, <2>1, QuietSetTag, QuietSetDirty, QuietUntag, QuietUndirty, QuietReturn
       DEF QInv, MetadataIntact
<1>6. ASSUME Unmount \/ Mount \/ UNCHANGED vars
      PROVE  Tags' /\ MetadataIntact'
  <2>1. CASE UNCHANGED device
    BY <1>6, <2>1, QuietMount DEF QInv, MetadataIntact
  <2> QED
    BY <1>6, <2>1, QuietMount, UnmountSafe DEF Mount, vars
<1>7. Tags' /\ MetadataIntact'
  BY <1>2, <1>3, <1>4, <1>5, <1>6 DEF Next
<1> QED
  BY <1>1, <1>7 DEF QInv

(* If nothing overlaps with find_cache, no write-back of an eviction or of  *)
(* objstore_destroy reaches the metadata before the data blocks.            *)
THEOREM MetadataSafe ==
  ASSUME QuietDrops
  PROVE  Spec => []MetadataIntact
<1>1. QInv => MetadataIntact
  BY DEF QInv
<1>2. QInv /\ [Next]_vars => QInv'
  BY NextQInv
<1> QED
  BY <1>1, <1>2, InitQInv, PTL DEF Spec

-----------------------------------------------------------------------------
(* The block cache implements the block device. *)

(* The device holds what the slot s holds, if s has a tag. *)
OnDevice(s) == cache_array[s] # -1 => device[Home(cache_array[s], s)] = cache[s]

(* Between its fill and the dirty mark a slot belongs to a thread. *)
InFill(s) == \E t \in Threads : pc[t] \in {"tag", "dirty"} /\ MySlot(t) = s

CleanOnDevice == \A s \in Slots : dirty_cache[s] = 0 /\ ~InFill(s) => OnDevice(s)

(* A slot is overwritten only after it was written back, and the caches'   *)
(* contents are not needed any more once the store is unmounted.           *)
EvictedFirst == \A t \in Threads : pc[t] \in {"fill", "load"} => OnDevice(MySlot(t))
SavedAtUnmount == ~mounted => \A s \in Slots : OnDevice(s)

(* What a thread saw in the tag of its slot is still so. *)
Hit(t) == cache_array[MySlot(t)] = MyTag(t)
HitsAndMisses ==
    \A t \in Threads :
        /\ pc[t] \in {"copy", "untag"} => Hit(t)
        /\ pc[t] \in {"evict", "load"} /\ req[t].op = "read" => ~Hit(t)
        /\ pc[t] = "undirty" => cache_array[MySlot(t)] = -1

(* A loaded slot holds what the device holds. *)
LoadedFresh ==
    \A t \in Threads :
        pc[t] \in {"tag", "dirty"} /\ req[t].op = "read"
            => cache[MySlot(t)] = device[req[t].block]

(* A block is read while it is in use and dropped when it no longer is. *)
ReadsLive ==
    \A t \in Threads : pc[t] # "idle" =>
        /\ req[t].op = "read" => req[t].block \in live
        /\ req[t].op = "drop" => req[t].block \notin live

RInv ==
    /\ QInv
    /\ CleanOnDevice
    /\ EvictedFirst
    /\ SavedAtUnmount
    /\ HitsAndMisses
    /\ LoadedFresh
    /\ ReadsLive

(* What RInv adds to QInv. *)
Facts == /\ CleanOnDevice /\ EvictedFirst /\ SavedAtUnmount
         /\ HitsAndMisses /\ LoadedFresh /\ ReadsLive

-----------------------------------------------------------------------------
(* The home of a tagged slot is a block of that slot, so two slots have no  *)
(* home in common. *)
LEMMA TaggedHome ==
  ASSUME QInv, NEW s \in Slots, cache_array[s] # -1
  PROVE  /\ Home(cache_array[s], s) \in Blocks
         /\ Slot(Home(cache_array[s], s)) = s
         /\ Tag(Home(cache_array[s], s)) = cache_array[s]
<1>1. PICK b \in Blocks : Slot(b) = s /\ Tag(b) = cache_array[s]
  BY DEF QInv, TagsName
<1>2. Home(cache_array[s], s) = b
  BY <1>1, HomeOfBlock
<1> QED
  BY <1>1, <1>2

(* Two threads that move data do so one after the other. *)
LEMMA OneInside ==
  ASSUME QInv, NEW t \in Threads, NEW u \in Threads, pc[t] \in Inside, pc[u] \in Inside
  PROVE  t = u
  BY DEF QInv, TInv, Mutex

(* The block of a call is at home under the call's tag. *)
LEMMA MyHome ==
  ASSUME QInv, NEW t \in Threads
  PROVE  /\ req[t].block \in Blocks /\ MySlot(t) \in Slots
         /\ Home(MyTag(t), MySlot(t)) = req[t].block /\ MyTag(t) # -1
  BY MyBlock DEF QInv, TInv

(* A cache just mounted is empty. *)
LEMMA InitFacts == Init => Facts
<1> SUFFICES ASSUME Init PROVE Facts
  OBVIOUS
<1>1. \A s \in Slots : cache_array[s] = -1
  BY DEF Init, NoTags
<1>2. mounted /\ \A t \in Threads : pc[t] = "idle"
  BY DEF Init
<1> QED
  BY <1>1, <1>2 DEF Facts, CleanOnDevice, EvictedFirst, SavedAtUnmount, HitsAndMisses,
                    LoadedFresh, ReadsLive, OnDevice

(* A call that begins changes neither slots nor blocks. *)
LEMMA CallFacts ==
  ASSUME QuietDrops, RInv, NEW t \in Threads, NEW op, NEW b, NEW v, Call(t, op, b, v)
  PROVE  Facts'
<1> USE DEF RInv
<1>t. TypeOK
  BY DEF QInv, TInv
<1>1. /\ \A u \in Threads : pc'[u] = IF u = t THEN "start" ELSE pc[u]
      /\ \A u \in Threads :
            req'[u] = IF u = t THEN [op |-> op, block |-> b, value |-> v] ELSE req[u]
      /\ pc[t] = "idle" /\ mounted /\ mounted'
      /\ UNCHANGED <<device, cache, cache_array, dirty_cache>>
  BY <1>t DEF Call, TypeOK, cacheVars
<1>2. \A u \in Threads \ {t} : MySlot(u)' = MySlot(u) /\ MyTag(u)' = MyTag(u)
  BY <1>1 DEF MySlot, MyTag
<1>3. \A s \in Slots : OnDevice(s)' <=> OnDevice(s)
  BY <1>1 DEF OnDevice
<1>4. \A s : InFill(s)' <=> InFill(s)
  BY <1>1, <1>2 DEF InFill
<1>5. CleanOnDevice'
  BY <1>1, <1>3, <1>4 DEF CleanOnDevice
<1>6. EvictedFirst'
  <2>1. ASSUME NEW u \in Threads, pc'[u] \in {"fill", "load"}
        PROVE  OnDevice(MySlot(u))'
    <3>1. u # t /\ pc[u] \in {"fill", "load"}
      BY <1>1, <2>1
    <3> QED
      BY <1>2, <1>3, <3>1, MyHome DEF EvictedFirst
  <2> QED
    BY <2>1 DEF EvictedFirst
<1>7. SavedAtUnmount' /\ HitsAndMisses' /\ LoadedFresh'
  BY <1>1, <1>2 DEF SavedAtUnmount, HitsAndMisses, Hit, LoadedFresh
<1>8. ReadsLive'
  <2>1. ASSUME NEW u \in Threads, pc'[u] # "idle"
        PROVE  /\ req'[u].op = "read" => req'[u].block \in live'
               /\ req'[u].op = "drop" => req'[u].block \notin live'
    <3>1. CASE u = t
      <4>1. req'[u] = [op |-> op, block |-> b, value |-> v]
        BY <1>1, <3>1
      <4>2. op = "read" => b \in live /\ live' = live
        BY DEF Call, Admitted
      <4>3. op = "drop" => live' = live \ {b}
        BY DEF Call
      <4> QED
        BY <4>1, <4>2, <4>3
    <3>2. CASE u # t
      <4>1. u \in Others(t) /\ req'[u] = req[u] /\ pc[u] # "idle" /\ op # "drop"
        BY <1>1, <2>1, <3>2 DEF Others, Busy, Call, Admitted, QuietDrops
      <4> QED
        BY <4>1 DEF ReadsLive, Call
    <3> QED
      BY <3>1, <3>2
  <2> QED
    BY <2>1 DEF ReadsLive
<1> QED
  BY <1>5, <1>6, <1>7, <1>8 DEF Facts

(* A step of one thread to a place that says nothing about the slot, which  *)
(* leaves data, tags and marks alone. *)
LEMMA MoveFacts ==
  ASSUME RInv, NEW t \in Threads, NEW label,
         pc' = [pc EXCEPT ![t] = label],
         pc[t] \notin {"tag", "dirty"}, label \notin {"fill", "load", "tag", "dirty", "undirty"},
         pc[t] = "idle" => label = "idle",
         label \in {"copy", "untag"} => Hit(t),
         label = "evict" => ~Hit(t) \/ req[t].op # "read",
         label = "idle" \/ (\A u \in Threads : req'[u].op = req[u].op),
         label = "idle" \/ (\A u \in Threads : req'[u].block = req[u].block),
         \A u \in Threads \ {t} : req'[u] = req[u],
         UNCHANGED <<device, cache, cache_array, dirty_cache, live, mounted>>
  PROVE  Facts'
<1> USE DEF RInv
<1>t. TypeOK
  BY DEF QInv, TInv
<1>1. \A u \in Threads : pc'[u] = IF u = t THEN label ELSE pc[u]
  BY <1>t DEF TypeOK
<1>2. \A u \in Threads : u # t \/ label # "idle" =>
         MySlot(u)' = MySlot(u) /\ MyTag(u)' = MyTag(u)
  BY DEF MySlot, MyTag
<1>3. \A s \in Slots : OnDevice(s)' <=> OnDevice(s)
  BY DEF OnDevice
<1>4. \A s : InFill(s)' <=> InFill(s)
  BY <1>1, <1>2 DEF InFill
<1>5. CleanOnDevice' /\ SavedAtUnmount'
  BY <1>3, <1>4 DEF CleanOnDevice, SavedAtUnmount
<1>6. EvictedFirst'
  BY <1>1, <1>2, <1>3, MyHome DEF EvictedFirst
<1>7. HitsAndMisses'
  BY <1>1, <1>2 DEF HitsAndMisses, Hit
<1>8. LoadedFresh' /\ ReadsLive'
  BY <1>1, <1>2 DEF LoadedFresh, ReadsLive
<1> QED
  BY <1>5, <1>6, <1>7, <1>8 DEF Facts

(* Nor does one that ends. *)
LEMMA ReturnFacts ==
  ASSUME RInv, NEW t \in Threads, Return(t)
  PROVE  Facts'
<1>1. pc[t] = "done" /\ \A u \in Threads \ {t} : req'[u] = req[u]
  BY DEF Return, RInv, QInv, TInv, TypeOK
<1> QED
  BY <1>1, MoveFacts DEF Return, cacheVars

(* Nor does one that only looks. *)
LEMMA LookFacts ==
  ASSUME RInv, NEW t \in Threads, Lock(t) \/ Copy(t) \/ Find(t)
  PROVE  Facts'
<1>t. TypeOK
  BY DEF RInv, QInv, TInv
<1>1. CASE Lock(t)
  <2> DEFINE label == IF req[t].op = "read" /\ Hit(t) THEN "copy" ELSE "evict"
  <2>1. pc' = [pc EXCEPT ![t] = label] /\ pc[t] = "start" /\ req' = req
    BY <1>1 DEF Lock, Goto, Hit
  <2> QED
    BY <1>1, <2>1, MoveFacts DEF Lock, cacheVars
<1>2. CASE Copy(t)
  <2>1. \A u \in Threads : /\ req'[u].op = req[u].op /\ req'[u].block = req[u].block
                           /\ u # t => req'[u] = req[u]
    BY <1>2, <1>t DEF Copy, TypeOK, Requests, NoRequest
  <2> QED
    BY <1>2, <2>1, MoveFacts DEF Copy, Goto, cacheVars
<1>3. CASE Find(t)
  <2> DEFINE label == IF Hit(t) THEN "untag" ELSE "done"
  <2>1. pc' = [pc EXCEPT ![t] = label] /\ pc[t] = "start" /\ req' = req
    BY <1>3 DEF Find, Goto, Hit
  <2> QED
    BY <1>3, <2>1, MoveFacts DEF Find, cacheVars
<1> QED
  BY <1>1, <1>2, <1>3

(* What an eviction does to the device: the slot reaches its home. *)
LEMMA EvictWrites ==
  ASSUME RInv, NEW t \in Threads, Evict(t)
  PROVE  /\ OnDevice(MySlot(t))'
         /\ \A b \in Blocks : device'[b] # device[b] =>
               Slot(b) = MySlot(t) /\ Tag(b) = cache_array[MySlot(t)]
         /\ \A b \in Blocks : device'[b] # device[b] => device'[b] = cache[MySlot(t)]
<1> DEFINE s == MySlot(t)
           home == Home(cache_array[s], s)
<1>1. /\ TypeOK /\ s \in Slots /\ pc[t] = "evict" /\ Blocks \subseteq Addresses
      /\ UNCHANGED <<cache, cache_array, dirty_cache, req>>
  BY MyHome, BlocksAreAddresses DEF RInv, QInv, TInv, Evict, cacheVars
<1>2. MySlot(t)' = s
  BY <1>1 DEF MySlot
<1>3. CASE dirty_cache[s] = 1
  <2>1. device' = [device EXCEPT ![home] = cache[s]]
    BY <1>3 DEF Evict
  <2>2. \A u \in Threads : pc[u] # "undirty"
    BY <1>1, NobodyDrops DEF RInv, Inside
  <2>3. cache_array[s] # -1
    BY <1>1, <1>3, <2>2 DEF RInv, QInv, DirtyTagged
  <2>4. home \in Blocks /\ Slot(home) = s /\ Tag(home) = cache_array[s]
    BY <1>1, <2>3, TaggedHome DEF RInv
  <2>5. \A a \in Blocks : device'[a] = IF a = home THEN cache[s] ELSE device[a]
    BY <1>1, <2>1 DEF TypeOK
  <2>6. OnDevice(s)'
    BY <1>1, <1>2, <2>4, <2>5 DEF OnDevice
  <2> QED
    BY <1>2, <2>4, <2>5, <2>6
<1>4. CASE dirty_cache[s] # 1
  <2>1. device' = device /\ dirty_cache[s] = 0
    BY <1>1, <1>4 DEF Evict, TypeOK
  <2>2. ~InFill(s)
    BY <1>1, OneInside DEF InFill, Inside, RInv
  <2>3. OnDevice(s)
    BY <1>1, <2>1, <2>2 DEF RInv, CleanOnDevice
  <2>4. OnDevice(s)'
    BY <1>1, <1>2, <2>1, <2>3 DEF OnDevice
  <2> QED
    BY <1>2, <2>1, <2>4
<1> QED
  BY <1>3, <1>4

(* A block written back is on the disk before its slot is taken. *)
LEMMA EvictFacts ==
  ASSUME RInv, NEW t \in Threads, Evict(t)
  PROVE  Facts'
<1> DEFINE label == IF req[t].op = "write" THEN "fill" ELSE "load"
<1>1. /\ pc[t] = "evict" /\ label \in {"fill", "load"}
      /\ \A u \in Threads : pc'[u] = IF u = t THEN label ELSE pc[u]
      /\ UNCHANGED <<cache, cache_array, dirty_cache, live, req, mounted>>
      /\ RInv /\ QInv /\ TypeOK
  BY DEF Evict, Goto, cacheVars, RInv, QInv, TInv, TypeOK
<1>2. \A u \in Threads : MySlot(u)' = MySlot(u) /\ MyTag(u)' = MyTag(u)
  BY <1>1 DEF MySlot, MyTag
<1>3. \A u \in Threads : pc[u] \in Inside => u = t
  BY <1>1, OneInside DEF Inside
<1>4. \A s \in Slots : OnDevice(s) => OnDevice(s)'
  <2>1. ASSUME NEW s \in Slots, OnDevice(s), s # MySlot(t), cache_array[s] # -1
        PROVE  OnDevice(s)'
    <3>1. Home(cache_array[s], s) \in Blocks /\ Slot(Home(cache_array[s], s)) = s
      BY <1>1, <2>1, TaggedHome
    <3>2. device'[Home(cache_array[s], s)] = device[Home(cache_array[s], s)]
      BY <3>1, <2>1, EvictWrites
    <3> QED
      BY <1>1, <2>1, <3>2 DEF OnDevice
  <2>2. ASSUME NEW s \in Slots, cache_array[s] = -1 PROVE OnDevice(s)'
    BY <1>1, <2>2 DEF OnDevice
  <2>3. ASSUME NEW s \in Slots, s = MySlot(t) PROVE OnDevice(s)'
    BY <1>2, <2>3, EvictWrites DEF OnDevice
  <2> QED
    BY <2>1, <2>2, <2>3
<1>5. \A s : InFill(s)' <=> InFill(s)
  BY <1>1, <1>2 DEF InFill
<1>6. CleanOnDevice' /\ SavedAtUnmount'
  BY <1>1, <1>4, <1>5 DEF CleanOnDevice, SavedAtUnmount, RInv
<1>7. EvictedFirst'
  BY <1>1, <1>3, EvictWrites DEF EvictedFirst, Inside
<1>8. HitsAndMisses'
  BY <1>1, <1>2 DEF HitsAndMisses, Hit, RInv
<1>9. LoadedFresh' /\ ReadsLive'
  BY <1>1, <1>3 DEF LoadedFresh, ReadsLive, RInv, Inside
<1> QED
  BY <1>6, <1>7, <1>8, <1>9 DEF Facts

(* Fill and Load put the contents of a block in a slot that was written back. *)
LEMMA FillFacts ==
  ASSUME RInv, NEW t \in Threads, Fill(t) \/ Load(t)
  PROVE  Facts'
<1> DEFINE s == MySlot(t)
<1>t. RInv /\ QInv /\ TypeOK
  BY DEF RInv, QInv, TInv
<1>1. /\ pc[t] \in {"fill", "load"} /\ pc[t] \in Inside
      /\ \A u \in Threads : pc'[u] = IF u = t THEN "tag" ELSE pc[u]
      /\ UNCHANGED <<device, cache_array, dirty_cache, mounted>>
  BY <1>t DEF Fill, Load, Goto, cacheVars, TypeOK, Inside
<1>2. \A u \in Threads : /\ req'[u].op = req[u].op /\ req'[u].block = req[u].block
                         /\ u # t => req'[u] = req[u]
  <2>1. CASE Fill(t)
    BY <2>1 DEF Fill
  <2>2. CASE Load(t)
    BY <2>2, <1>t DEF Load, TypeOK, Requests, NoRequest
  <2> QED
    BY <2>1, <2>2
<1>3. \A u \in Threads : MySlot(u)' = MySlot(u) /\ MyTag(u)' = MyTag(u)
  BY <1>2 DEF MySlot, MyTag
<1>4. \A u \in Threads : pc[u] \in Inside => u = t
  BY <1>t, <1>1, OneInside
<1>5. \A r \in Slots : r # s => cache'[r] = cache[r]
  BY <1>t, MyHome DEF Fill, Load, TypeOK
<1>6. \A r \in Slots : r # s /\ OnDevice(r) => OnDevice(r)'
  BY <1>1, <1>5 DEF OnDevice
<1>7. \A r \in Slots : ~InFill(r)' => r # s /\ ~InFill(r)
  BY <1>1, <1>3 DEF InFill
<1>8. CleanOnDevice'
  BY <1>1, <1>6, <1>7, <1>t DEF CleanOnDevice, RInv
<1>9. EvictedFirst'
  BY <1>1, <1>4 DEF EvictedFirst, Inside
<1>10. mounted'
  BY <1>1, <1>t DEF NoCallUnmounted, QInv
<1>11. SavedAtUnmount'
  BY <1>10 DEF SavedAtUnmount
<1>12. HitsAndMisses'
  BY <1>1, <1>2, <1>3, <1>t DEF HitsAndMisses, Hit, RInv
<1>13. LoadedFresh'
  <2>1. ASSUME NEW u \in Threads, pc'[u] \in {"tag", "dirty"}, req'[u].op = "read"
        PROVE  cache'[MySlot(u)'] = device'[req'[u].block]
    <3>1. u = t
      BY <1>1, <1>4, <2>1 DEF Inside
    <3>2. req[t].op = "read" /\ pc[t] = "load"
      BY <1>1, <1>2, <1>t, <2>1, <3>1 DEF QInv, TInv, CallsInPlace, StepsOf
    <3>3. cache' = [cache EXCEPT ![s] = device[req[t].block]]
      BY <3>2 DEF Fill, Load
    <3>4. cache'[s] = device[req[t].block]
      BY <3>3, <1>t, MyHome DEF TypeOK
    <3> QED
      BY <1>1, <1>2, <1>3, <3>1, <3>4
  <2> QED
    BY <2>1 DEF LoadedFresh
<1>14. ReadsLive'
  <2>1. \A u \in Threads : pc'[u] # "idle" => pc[u] # "idle"
    BY <1>1
  <2>2. req[t].op # "drop"
    BY <1>1, <1>t DEF QInv, TInv, CallsInPlace, StepsOf
  <2>3. live \subseteq live' /\ (Load(t) => live' = live)
    BY DEF Fill, Load
  <2>4. ASSUME NEW u \in Threads, pc'[u] # "idle"
        PROVE  /\ req'[u].op = "read" => req'[u].block \in live'
               /\ req'[u].op = "drop" => req'[u].block \notin live'
    <3>1. /\ req[u].op = "read" => req[u].block \in live
          /\ req[u].op = "drop" => req[u].block \notin live
      BY <1>t, <2>1, <2>4 DEF RInv, ReadsLive
    <3>2. req[u].op = "drop" => FALSE
      BY <2>2, <2>1, <2>4, <1>t, <1>1 DEF QInv, DropsAlone
    <3> QED
      BY <3>1, <3>2, <1>2, <2>3
  <2> QED
    BY <2>4 DEF ReadsLive
<1> QED
  BY <1>8, <1>9, <1>11, <1>12, <1>13, <1>14 DEF Facts

(* A new tag names the block that the slot was filled with. *)
LEMMA SetTagFacts ==
  ASSUME RInv, NEW t \in Threads, SetTag(t)
  PROVE  Facts'
<1> DEFINE s == MySlot(t)
<1>t. RInv /\ QInv /\ TypeOK
  BY DEF RInv, QInv, TInv
<1>1. /\ pc[t] = "tag" /\ pc[t] \in Inside
      /\ \A u \in Threads : pc'[u] = IF u = t THEN "dirty" ELSE pc[u]
      /\ UNCHANGED <<device, cache, dirty_cache, req, live, mounted>>
      /\ \A r \in Slots : r # s => cache_array'[r] = cache_array[r]
  BY <1>t, MyHome DEF SetTag, Goto, TypeOK, Inside
<1>3. \A u \in Threads : MySlot(u)' = MySlot(u) /\ MyTag(u)' = MyTag(u)
  BY <1>1 DEF MySlot, MyTag
<1>4. \A u \in Threads : pc[u] \in Inside => u = t
  BY <1>t, <1>1, OneInside
<1>6. \A r \in Slots : r # s /\ OnDevice(r) => OnDevice(r)'
  BY <1>1 DEF OnDevice
<1>7. \A r \in Slots : ~InFill(r)' => r # s /\ ~InFill(r)
  BY <1>1, <1>3 DEF InFill
<1>8. CleanOnDevice'
  BY <1>1, <1>6, <1>7, <1>t DEF CleanOnDevice, RInv
<1>9. EvictedFirst'
  BY <1>1, <1>4 DEF EvictedFirst, Inside
<1>10. mounted'
  BY <1>1, <1>t DEF NoCallUnmounted, QInv
<1>11. SavedAtUnmount'
  BY <1>10 DEF SavedAtUnmount
<1>12. HitsAndMisses'
  <2>1. \A u \in Threads : pc'[u] \notin {"copy", "untag", "evict", "load", "undirty"}
    BY <1>1, <1>4, NobodyDrops, <1>t DEF Inside
  <2> QED
    BY <2>1 DEF HitsAndMisses
<1>13. LoadedFresh' /\ ReadsLive'
  BY <1>1, <1>3, <1>t DEF LoadedFresh, ReadsLive, RInv
<1> QED
  BY <1>8, <1>9, <1>11, <1>12, <1>13 DEF Facts

(* A dirty mark changes no block. *)
LEMMA SetDirtyFacts ==
  ASSUME RInv, NEW t \in Threads, SetDirty(t)
  PROVE  Facts'
<1> DEFINE s == MySlot(t)
<1>t. RInv /\ QInv /\ TypeOK /\ req[t].block \in Blocks /\ s \in Slots
  BY MyHome DEF RInv, QInv, TInv
<1>1. /\ pc[t] = "dirty" /\ pc[t] \in Inside
      /\ \A u \in Threads : pc'[u] = IF u = t THEN "done" ELSE pc[u]
      /\ UNCHANGED <<device, cache, cache_array, req, live, mounted>>
      /\ \A r \in Slots : r # s => dirty_cache'[r] = dirty_cache[r]
  BY <1>t DEF SetDirty, Goto, TypeOK, Inside
<1>2. \A u \in Threads : MySlot(u)' = MySlot(u) /\ MyTag(u)' = MyTag(u)
  BY <1>1 DEF MySlot, MyTag
<1>3. \A r \in Slots : OnDevice(r)' <=> OnDevice(r)
  BY <1>1 DEF OnDevice
<1>4. \A r \in Slots : r # s /\ ~InFill(r)' => ~InFill(r)
  BY <1>1, <1>2 DEF InFill
<1>5. req[t].op = "read" => OnDevice(s)
  <2>1. SUFFICES ASSUME req[t].op = "read" PROVE OnDevice(s)
    OBVIOUS
  <2>2. cache[s] = device[req[t].block] /\ cache_array[s] = MyTag(t)
    BY <1>1, <2>1, <1>t DEF RInv, LoadedFresh, QInv, TagKept
  <2> QED
    BY <2>2, <1>t, MyHome DEF OnDevice
<1>6. CleanOnDevice'
  <2>1. req[t].op # "read" => dirty_cache'[s] = 1
    <3>1. req[t].op \in {"read", "write"}
      BY <1>1, <1>t DEF QInv, TInv, CallsInPlace, StepsOf, Requests
    <3> QED
      BY <3>1, <1>t DEF SetDirty, TypeOK
  <2> QED
    BY <1>1, <1>3, <1>4, <1>5, <2>1, <1>t DEF CleanOnDevice, RInv
<1>7. EvictedFirst' /\ SavedAtUnmount'
  BY <1>1, <1>2, <1>3, <1>t, MyHome DEF EvictedFirst, SavedAtUnmount, RInv
<1>8. HitsAndMisses' /\ LoadedFresh' /\ ReadsLive'
  BY <1>1, <1>2, <1>t DEF HitsAndMisses, Hit, LoadedFresh, ReadsLive, RInv
<1> QED
  BY <1>6, <1>7, <1>8 DEF Facts

(* find_cache runs alone, so its stores meet no other call. *)
LEMMA DropFacts ==
  ASSUME RInv, NEW t \in Threads, Untag(t) \/ Undirty(t)
  PROVE  Facts'
<1> DEFINE s == MySlot(t)
<1>t. RInv /\ QInv /\ TypeOK /\ req[t].block \in Blocks /\ s \in Slots
  BY MyHome DEF RInv, QInv, TInv
<1>1. PICK label \in {"undirty", "done"} :
         /\ pc[t] \in {"untag", "undirty"}
         /\ \A u \in Threads : pc'[u] = IF u = t THEN label ELSE pc[u]
         /\ UNCHANGED <<device, cache, req, live, mounted>>
         /\ \A r \in Slots : r # s =>
               cache_array'[r] = cache_array[r] /\ dirty_cache'[r] = dirty_cache[r]
  BY <1>t DEF Untag, Undirty, Goto, TypeOK, cacheVars
<1>2. \A u \in Threads : MySlot(u)' = MySlot(u) /\ MyTag(u)' = MyTag(u)
  BY <1>1 DEF MySlot, MyTag
<1>3. \A u \in Threads : u # t => pc[u] = "idle"
  <2>1. req[t].op = "drop"
    BY <1>1, <1>t DEF QInv, TInv, CallsInPlace, StepsOf, Requests
  <2> QED
    BY <2>1, <1>1, <1>t DEF QInv, DropsAlone
<1>4. \A r \in Slots : r # s => (OnDevice(r)' <=> OnDevice(r))
  BY <1>1 DEF OnDevice
<1>5. OnDevice(s)'
  <2>1. CASE Untag(t)
    BY <2>1, <1>t, <1>2 DEF Untag, OnDevice, TypeOK
  <2>2. CASE Undirty(t)
    <3>1. cache_array[s] = -1
      BY <2>2, <1>t DEF Undirty, RInv, HitsAndMisses
    <3> QED
      BY <3>1, <2>2, <1>2 DEF Undirty, OnDevice
  <2> QED
    BY <2>1, <2>2
<1>6. \A r \in Slots : r = s \/ OnDevice(r) => OnDevice(r)'
  <2>1. ASSUME NEW r \in Slots, r = s PROVE OnDevice(r)'
    BY <2>1, <1>2, <1>5 DEF OnDevice
  <2> QED
    BY <1>4, <2>1
<1>10. EvictedFirst' /\ SavedAtUnmount'
  BY <1>1, <1>2, <1>3, <1>6, <1>t DEF EvictedFirst, SavedAtUnmount, NoCallUnmounted, QInv
<1>7. CleanOnDevice'
  <2>1. \A r \in Slots : ~InFill(r)
    BY <1>1, <1>3 DEF InFill
  <2> QED
    BY <1>1, <1>2, <1>4, <1>6, <2>1, <1>t DEF CleanOnDevice, RInv
<1>8. HitsAndMisses'
  <2>1. \A u \in Threads : pc'[u] \notin {"copy", "untag", "evict", "load"}
    BY <1>1, <1>3
  <2>2. ASSUME NEW u \in Threads, pc'[u] = "undirty" PROVE cache_array'[MySlot(u)'] = -1
    BY <1>1, <1>2, <1>3, <1>t, <2>2 DEF Untag, Undirty, Goto, TypeOK
  <2> QED
    BY <2>1, <2>2 DEF HitsAndMisses
<1>9. LoadedFresh' /\ ReadsLive'
  BY <1>1, <1>2, <1>3, <1>t DEF LoadedFresh, ReadsLive, RInv
<1> QED
  BY <1>7, <1>8, <1>9, <1>10 DEF Facts

(* objstore_destroy brings every dirty slot home, and the next mount needs  *)
(* no slot. *)
LEMMA MountFacts ==
  ASSUME RInv, Unmount \/ Mount \/ UNCHANGED vars
  PROVE  Facts'
<1>t. RInv /\ QInv /\ TypeOK
  BY DEF RInv, QInv, TInv
<1>1. UNCHANGED <<pc, req, cache, live>>
  BY DEF Unmount, Mount, vars, cacheVars
<1>2. \A u \in Threads : MySlot(u)' = MySlot(u) /\ MyTag(u)' = MyTag(u)
  BY <1>1 DEF MySlot, MyTag
<1>3. \A s : InFill(s)' <=> InFill(s)
  BY <1>1, <1>2 DEF InFill
<1>4. CASE UNCHANGED vars
  <2>1. \A s : OnDevice(s)' <=> OnDevice(s)
    BY <1>4 DEF OnDevice, vars, cacheVars
  <2> QED
    BY <1>1, <1>2, <1>3, <1>4, <2>1, <1>t
       DEF vars, cacheVars, Facts, RInv, CleanOnDevice, EvictedFirst, SavedAtUnmount,
           HitsAndMisses, Hit, LoadedFresh, ReadsLive
<1>5. CASE Mount \/ Unmount
  <2>1. \A u \in Threads : pc'[u] = "idle"
    BY <1>5, <1>1, <1>t DEF Mount, Unmount, Busy, QInv, NoCallUnmounted
  <2>2. EvictedFirst' /\ HitsAndMisses' /\ LoadedFresh' /\ ReadsLive'
    BY <2>1 DEF EvictedFirst, HitsAndMisses, LoadedFresh, ReadsLive
  <2>3. \A s \in Slots : OnDevice(s)'
    <3>1. CASE Mount
      BY <3>1 DEF Mount, NoTags, OnDevice
    <3>2. ASSUME Unmount, NEW s \in Slots, cache_array[s] # -1
          PROVE  OnDevice(s)'
      <4> DEFINE home == Home(cache_array[s], s)
      <4>1. home \in Blocks /\ home \in Addresses /\ Slot(home) = s
        BY <3>2, <1>t, TaggedHome, BlocksAreAddresses
      <4>2. device'[home] = IF home \in WrittenBack THEN cache[s] ELSE device[home]
        BY <3>2, <4>1 DEF Unmount
      <4>3. home \in WrittenBack \/ OnDevice(s)
        <5>1. CASE dirty_cache[s] = 1
          BY <3>2, <5>1, <1>t DEF WrittenBack, TypeOK
        <5>2. CASE dirty_cache[s] # 1
          <6>1. dirty_cache[s] = 0 /\ ~InFill(s)
            BY <5>2, <3>2, <1>1, <2>1, <1>t DEF TypeOK, InFill
          <6> QED
            BY <6>1, <1>t DEF RInv, CleanOnDevice
        <5> QED
          BY <5>1, <5>2
      <4> QED
        BY <1>1, <3>2, <4>2, <4>3 DEF OnDevice, Unmount, cacheVars
    <3>3. ASSUME Unmount, NEW s \in Slots, cache_array[s] = -1
          PROVE  OnDevice(s)'
      BY <3>3 DEF Unmount, cacheVars, OnDevice
    <3> QED
      BY <1>5, <3>1, <3>2, <3>3
  <2> QED
    BY <2>2, <2>3 DEF Facts, CleanOnDevice, SavedAtUnmount
<1> QED
  BY <1>4, <1>5

(* Every step keeps the invariant of the refinement. *)
LEMMA NextRInv == QuietDrops /\ RInv /\ [Next]_vars => RInv'
<1> SUFFICES ASSUME QuietDrops, RInv, [Next]_vars PROVE RInv'
  OBVIOUS
<1>1. QInv'
  BY NextQInv DEF RInv
<1>2. ASSUME NEW t \in Threads, NEW b \in Blocks,
             \/ \E v \in Values : Call(t, "write", b, v)
             \/ Call(t, "read", b, NoValue)
             \/ Call(t, "drop", b, NoValue)
      PROVE  Facts'
  BY <1>2, CallFacts
<1>3. ASSUME NEW t \in Threads,
             \/ Lock(t) \/ Evict(t) \/ Fill(t) \/ Load(t) \/ Copy(t) \/ SetTag(t)
             \/ SetDirty(t) \/ Find(t) \/ Untag(t) \/ Undirty(t) \/ Return(t)
      PROVE  Facts'
  BY <1>3, LookFacts, EvictFacts, FillFacts, SetTagFacts, SetDirtyFacts, DropFacts, ReturnFacts
<1>4. Facts'
  BY <1>2, <1>3, MountFacts DEF Next
<1> QED
  BY <1>1, <1>4 DEF RInv, Facts

-----------------------------------------------------------------------------
(* The mapped call of a thread at each place of its call. *)
Asking == {"start", "evict", "fill", "load", "copy"}

(* What each place of a call is to a client of the disk. *)
LEMMA MappedCall ==
  ASSUME NEW t \in Threads
  PROVE  /\ pc[t] = "idle" => CallOf(t) = Device!Idle
         /\ pc[t] # "idle" /\ req[t].op = "drop" => CallOf(t) = Device!Answer(NoValue)
         /\ pc[t] \in Asking \ {"fill"} /\ req[t].op = "read"
               => CallOf(t) = [op |-> "read", block |-> req[t].block]
         /\ pc[t] \in {"start", "evict", "fill"} /\ req[t].op = "write" => CallOf(t) = req[t]
         /\ pc[t] \in {"tag", "dirty", "done"} /\ req[t].op = "read"
               => CallOf(t) = Device!Answer(req[t].value)
         /\ pc[t] \in {"tag", "dirty", "done"} /\ req[t].op = "write"
               => CallOf(t) = Device!Answer(NoValue)
<1> USE DEF CallOf, Device!Idle, Device!Answer
<1>0. pc[t] = "idle" => CallOf(t) = Device!Idle
  OBVIOUS
<1>1. pc[t] # "idle" /\ req[t].op = "drop" => CallOf(t) = Device!Answer(NoValue)
  OBVIOUS
<1>2. pc[t] \in Asking \ {"fill"} /\ req[t].op = "read"
         => CallOf(t) = [op |-> "read", block |-> req[t].block]
  BY DEF Asking
<1>3. pc[t] \in {"start", "evict", "fill"} /\ req[t].op = "write" => CallOf(t) = req[t]
  OBVIOUS
<1>4. pc[t] \in {"tag", "dirty", "done"} /\ req[t].op = "read"
         => CallOf(t) = Device!Answer(req[t].value)
  OBVIOUS
<1>5. pc[t] \in {"tag", "dirty", "done"} /\ req[t].op = "write"
         => CallOf(t) = Device!Answer(NoValue)
  OBVIOUS
<1> QED
  BY <1>0, <1>1, <1>2, <1>3, <1>4, <1>5

(* The calls of the other threads are mapped to the same. *)
LEMMA OthersMapped ==
  ASSUME NEW t \in Threads,
         \A u \in Threads \ {t} : pc'[u] = pc[u] /\ req'[u] = req[u]
  PROVE  [u \in Threads |-> CallOf(u)]' = [[u \in Threads |-> CallOf(u)] EXCEPT ![t] = CallOf(t)']
<1>1. \A u \in Threads \ {t} : CallOf(u)' = CallOf(u)
  BY DEF CallOf
<1> QED
  BY <1>1

(* Where the value of a block is, with a thread that fills its slot and     *)
(* without one. *)
LEMMA HeldByFiller ==
  ASSUME QInv, NEW t \in Threads, pc[t] = "tag", NEW b \in Blocks, Slot(b) = MySlot(t)
  PROVE  Held(b) <=> b = req[t].block
<1>1. Filling(Slot(b)) = {t}
  BY OneInside DEF Filling, Inside
<1> QED
  BY <1>1 DEF Held

(* While nobody is about to store a tag, a slot holds the block it is       *)
(* tagged with.                                                             *)
LEMMA HeldByTag ==
  ASSUME NEW b \in Blocks, \A u \in Threads : pc[u] = "tag" => MySlot(u) # Slot(b)
  PROVE  Held(b) <=> cache_array[Slot(b)] = Tag(b)
<1>1. Filling(Slot(b)) = {}
  BY DEF Filling
<1> QED
  BY <1>1 DEF Held

(* Blocks keep their value when nobody moves data or tags. *)
LEMMA SameLatest ==
  ASSUME NEW b \in Blocks,
         UNCHANGED <<device, cache, cache_array>>,
         \A u \in Threads : pc'[u] = "tag" <=> pc[u] = "tag",
         \A u \in Threads : pc[u] = "tag" => req'[u].block = req[u].block
  PROVE  Latest(b)' = Latest(b)
<1>1. \A u \in Threads : pc[u] = "tag" => MySlot(u)' = MySlot(u)
  BY DEF MySlot
<1>2. Filling(Slot(b))' = Filling(Slot(b)) /\ Filling(Slot(b)) \subseteq {u \in Threads : pc[u] = "tag"}
  BY <1>1 DEF Filling
<1>3. Held(b)' <=> Held(b)
  BY <1>2 DEF Held
<1> QED
  BY <1>3 DEF Latest

Stored == [b \in live |-> Latest(b)]
Calls  == [t \in Threads |-> CallOf(t)]

(* If no block's latest value changes, a client sees no change. *)
LEMMA SameStored ==
  ASSUME live' = live, \A b \in live : Latest(b)' = Latest(b)
  PROVE  Stored' = Stored
  BY DEF Stored

(* A step of the cache that the device does not see. *)
LEMMA StutterStep ==
  ASSUME Stored' = Stored, Calls' = Calls
  PROVE  UNCHANGED Device!vars
  BY DEF Stored, Calls, Device!vars

(* A cache just mounted is an untouched disk. *)
LEMMA InitMapped == Init => Device!Init
<1> SUFFICES ASSUME Init PROVE Device!Init
  OBVIOUS
<1>1. live = {} /\ \A t \in Threads : CallOf(t) = Device!Idle
  BY MappedCall DEF Init
<1> QED
  BY <1>1 DEF Device!Init

(* A call that begins is a request to the disk. *)
LEMMA CallSimulated ==
  ASSUME QuietDrops, RInv, NEW t \in Threads, NEW b \in Blocks,
         \/ \E v \in Values : Call(t, "write", b, v)
         \/ Call(t, "read", b, NoValue)
         \/ Call(t, "drop", b, NoValue)
  PROVE  Device!Next
<1>t. TypeOK /\ pc[t] = "idle" /\ CallOf(t) = Device!Idle /\ Calls[t] = Device!Idle
  BY MappedCall DEF RInv, QInv, TInv, Call, Calls
<1>1. PICK op \in {"write", "read", "drop"}, v \in Values \cup {NoValue} :
         /\ Call(t, op, b, v)
         /\ op = "write" => v \in Values
  BY DEF Call
<1>2. /\ \A u \in Threads : pc'[u] = IF u = t THEN "start" ELSE pc[u]
      /\ \A u \in Threads :
            req'[u] = IF u = t THEN [op |-> op, block |-> b, value |-> v] ELSE req[u]
      /\ UNCHANGED <<device, cache, cache_array>>
  BY <1>1, <1>t DEF Call, TypeOK, cacheVars
<1>3. Calls' = [Calls EXCEPT ![t] = CallOf(t)']
  BY <1>2, OthersMapped DEF Calls
<1>4. live \subseteq Blocks /\ \A c \in live : Latest(c)' = Latest(c)
  BY <1>2, <1>t, SameLatest DEF TypeOK
<1>5. CASE op = "write"
  <2>1. CallOf(t)' = [op |-> "write", block |-> b, value |-> v]
    BY <1>2, <1>5, MappedCall DEF CallOf
  <2>2. Stored' = Stored
    BY <1>1, <1>4, <1>5, SameStored DEF Call
  <2>3. Device!AskWrite(t, b, v)
    BY <1>3, <1>t, <2>1, <2>2 DEF Device!AskWrite, Stored, Calls
  <2> QED
    BY <2>3, <1>1, <1>5 DEF Device!Next
<1>6. CASE op = "read"
  <2>1. CallOf(t)' = [op |-> "read", block |-> b]
    BY <1>2, <1>6 DEF CallOf
  <2>2. Stored' = Stored /\ b \in DOMAIN Stored
    BY <1>1, <1>4, <1>6, SameStored DEF Call, Admitted, Stored
  <2>3. Device!AskRead(t, b)
    BY <1>3, <1>t, <2>1, <2>2 DEF Device!AskRead, Stored, Calls
  <2> QED
    BY <2>3 DEF Device!Next
<1>7. CASE op = "drop"
  <2>1. CallOf(t)' = Device!Answer(NoValue)
    BY <1>2, <1>7 DEF CallOf, Device!Answer
  <2>2. live' = live \ {b} /\ b \in live
    BY <1>1, <1>7 DEF Call, Admitted
  <2>3. Stored' = [c \in live \ {b} |-> Stored[c]]
    BY <1>4, <2>2 DEF Stored
  <2>4. DOMAIN Stored = live
    BY DEF Stored
  <2>5. Device!Drop(t, b)
    BY <1>3, <1>t, <2>1, <2>2, <2>3, <2>4 DEF Device!Drop, Device!Restrict, Stored, Calls
  <2> QED
    BY <2>5 DEF Device!Next
<1> QED
  BY <1>1, <1>5, <1>6, <1>7

(* Steps of a call that neither move data or tags nor end it. *)
LEMMA SilentStep ==
  ASSUME RInv, NEW t \in Threads, Lock(t) \/ SetDirty(t) \/ Find(t) \/ Undirty(t)
  PROVE  UNCHANGED Device!vars
<1>t. TypeOK /\ QInv /\ live \subseteq Blocks
  BY DEF RInv, QInv, TInv, TypeOK
<1>1. /\ \A u \in Threads \ {t} : pc'[u] = pc[u]
      /\ UNCHANGED <<device, cache, cache_array, req, live>>
      /\ pc[t] # "tag" /\ pc'[t] # "tag"
  BY <1>t DEF Lock, SetDirty, Find, Undirty, Goto, TypeOK, cacheVars
<1>2. Stored' = Stored
  BY <1>1, <1>t, SameLatest, SameStored
<1>3. CallOf(t)' = CallOf(t)
  <2>1. CASE Lock(t)
    <3>1. pc[t] = "start" /\ pc'[t] \in {"copy", "evict"} /\ req[t].op \in {"read", "write"}
          /\ (req[t].op = "write" => pc'[t] = "evict")
      BY <2>1, <1>t DEF Lock, Goto, TypeOK
    <3> QED
      BY <3>1, <1>1 DEF CallOf
  <2>2. CASE SetDirty(t)
    <3>1. pc[t] = "dirty" /\ pc'[t] = "done"
      BY <2>2, <1>t DEF SetDirty, Goto, TypeOK
    <3> QED
      BY <3>1, <1>1 DEF CallOf
  <2>3. CASE Find(t) \/ Undirty(t)
    <3>1. pc[t] # "idle" /\ pc'[t] # "idle" /\ req[t].op = "drop"
      BY <2>3, <1>t DEF Find, Undirty, Goto, TypeOK, QInv, TInv, CallsInPlace, StepsOf, Requests
    <3> QED
      BY <3>1, <1>1 DEF CallOf
  <2> QED
    BY <2>1, <2>2, <2>3
<1>4. Calls' = Calls
  BY <1>1, <1>3 DEF Calls, CallOf
<1> QED
  BY <1>2, <1>4, StutterStep

(* A slot is written back to its own block, which is in the slot anyway. *)
LEMMA EvictSimulated ==
  ASSUME RInv, NEW t \in Threads, Evict(t)
  PROVE  UNCHANGED Device!vars
<1>t. TypeOK /\ QInv /\ live \subseteq Blocks
  BY DEF RInv, QInv, TInv, TypeOK
<1>1. /\ \A u \in Threads \ {t} : pc'[u] = pc[u]
      /\ UNCHANGED <<cache, cache_array, req, live>>
      /\ pc[t] = "evict" /\ pc'[t] = IF req[t].op = "write" THEN "fill" ELSE "load"
  BY <1>t DEF Evict, Goto, TypeOK, cacheVars
<1>2. \A u \in Threads : pc[u] # "tag" /\ pc'[u] # "tag"
  BY <1>1, <1>t, OneInside DEF Inside
<1>3. ASSUME NEW b \in Blocks PROVE Latest(b)' = Latest(b)
  <2>1. Held(b) <=> cache_array[Slot(b)] = Tag(b)
    BY <1>2, HeldByTag
  <2>2. Held(b)' <=> cache_array[Slot(b)] = Tag(b)
    BY <1>1, <1>2 DEF Held, Filling
  <2>3. CASE Held(b)
    BY <1>1, <2>1, <2>2, <2>3 DEF Latest
  <2>4. CASE ~Held(b)
    <3>1. device'[b] = device[b]
      BY <2>1, <2>4, EvictWrites
    <3> QED
      BY <2>1, <2>2, <2>4, <3>1 DEF Latest
  <2> QED
    BY <2>3, <2>4
<1>4. Stored' = Stored
  BY <1>1, <1>3, <1>t, SameStored
<1>5. CallOf(t)' = CallOf(t)
  <2>1. req[t].op \in {"read", "write"}
    BY <1>1, <1>t DEF QInv, TInv, CallsInPlace, StepsOf, Requests
  <2> QED
    BY <2>1, <1>1 DEF CallOf
<1>6. Calls' = Calls
  BY <1>1, <1>5 DEF Calls, CallOf
<1> QED
  BY <1>4, <1>6, StutterStep

(* What filling a slot does to the blocks: its own block has what was put   *)
(* in the slot, every other block what it had, now on the device. *)
LEMMA FillLatest ==
  ASSUME RInv, NEW t \in Threads, Fill(t) \/ Load(t), NEW b \in Blocks
  PROVE  Latest(b)' = IF b = req[t].block THEN cache'[MySlot(t)] ELSE Latest(b)
<1> DEFINE s == MySlot(t)
<1>t. TypeOK /\ QInv /\ s \in Slots /\ Slot(b) \in Slots /\ Home(Tag(b), Slot(b)) = b
  BY MyHome, HomeOfBlock DEF RInv, QInv, TInv, TypeOK
<1>1. /\ pc[t] \in {"fill", "load"} /\ pc[t] \in Inside
      /\ \A u \in Threads : pc'[u] = IF u = t THEN "tag" ELSE pc[u]
      /\ UNCHANGED <<device, cache_array>>
      /\ \A r \in Slots : r # s => cache'[r] = cache[r]
  BY <1>t DEF Fill, Load, Goto, TypeOK, cacheVars, Inside
<1>2. req'[t].block = req[t].block /\ MySlot(t)' = s
  <2>1. CASE Fill(t)
    BY <2>1 DEF Fill, MySlot
  <2>2. CASE Load(t)
    BY <2>2, <1>t DEF Load, MySlot, TypeOK, Requests, NoRequest
  <2> QED
    BY <2>1, <2>2
<1>3. \A u \in Threads : pc[u] # "tag" /\ (pc'[u] = "tag" => u = t)
  BY <1>1, <1>t, OneInside DEF Inside
<1>4. Filling(Slot(b))' = IF Slot(b) = s THEN {t} ELSE {}
  BY <1>1, <1>2, <1>3 DEF Filling
<1>5. Held(b) <=> cache_array[Slot(b)] = Tag(b)
  BY <1>3, HeldByTag
<1>6. CASE Slot(b) = s
  <2>1. Held(b)' <=> b = req[t].block
    BY <1>2, <1>4, <1>6 DEF Held
  <2>2. b # req[t].block /\ Held(b) => cache[s] = device[b]
    <3>1. OnDevice(s)
      BY <1>1 DEF RInv, EvictedFirst
    <3>2. Tag(b) # -1
      BY HomeOfBlock, MyHome, <1>t DEF QInv, TInv, TypeOK
    <3> QED
      BY <1>5, <1>6, <1>t, <3>1, <3>2 DEF OnDevice
  <2> QED
    BY <1>1, <1>6, <2>1, <2>2 DEF Latest
<1>7. CASE Slot(b) # s
  <2>1. b # req[t].block
    BY <1>7 DEF MySlot
  <2>2. Held(b)' <=> cache_array[Slot(b)] = Tag(b)
    BY <1>1, <1>4, <1>7 DEF Held
  <2> QED
    BY <1>1, <1>5, <1>7, <1>t, <2>1, <2>2 DEF Latest
<1> QED
  BY <1>6, <1>7

(* A write takes effect when the slot is filled. *)
LEMMA FillSimulated ==
  ASSUME RInv, NEW t \in Threads, Fill(t)
  PROVE  Device!Write(t)
<1> DEFINE b == req[t].block
<1>t. TypeOK /\ QInv /\ live \subseteq Blocks /\ b \in Blocks
  BY MyHome DEF RInv, QInv, TInv, TypeOK
<1>1. /\ pc[t] = "fill" /\ pc'[t] = "tag" /\ req' = req
      /\ \A u \in Threads \ {t} : pc'[u] = pc[u]
      /\ live' = live \cup {b} /\ cache'[MySlot(t)] = req[t].value
  BY <1>t, MyHome DEF Fill, Goto, TypeOK
<1>2. req[t].op = "write"
  BY <1>1, <1>t DEF QInv, TInv, CallsInPlace, StepsOf, Requests
<1>3. CallOf(t) = req[t] /\ CallOf(t)' = Device!Answer(NoValue)
  BY <1>1, <1>2, MappedCall DEF CallOf, Device!Answer
<1>4. Calls[t] = req[t] /\ Calls' = [Calls EXCEPT ![t] = Device!Answer(NoValue)]
  BY <1>1, <1>3, OthersMapped DEF Calls
<1>5. \A c \in live' : Latest(c)' = IF c = b THEN req[t].value ELSE Latest(c)
  BY <1>1, <1>t, FillLatest
<1>6. Stored' = [c \in DOMAIN Stored \cup {b} |-> IF c = b THEN req[t].value ELSE Stored[c]]
  BY <1>1, <1>5 DEF Stored
<1> QED
  BY <1>2, <1>4, <1>6 DEF Device!Write, Stored, Calls

(* What it takes for a step to be a read of the device. *)
LEMMA ReadStep ==
  ASSUME NEW t \in Threads, NEW b,
         Calls[t] = [op |-> "read", block |-> b],
         Stored' = Stored, Calls' = [Calls EXCEPT ![t] = Device!Answer(Stored[b])]
  PROVE  Device!Read(t)
<1>1. Calls[t].op = "read" /\ Calls[t].block = b
  OBVIOUS
<1>2. Calls' = [Calls EXCEPT ![t] = Device!Answer(Stored[Calls[t].block])]
  BY <1>1
<1>3. Calls[t].op = "read" /\ Stored' = Stored
  BY <1>1
<1> QED
  BY <1>2, <1>3 DEF Device!Read, Stored, Calls

(* A read that misses takes effect when the block is loaded. *)
LEMMA LoadSimulated ==
  ASSUME RInv, NEW t \in Threads, Load(t)
  PROVE  Device!Read(t)
<1> DEFINE b == req[t].block
<1>t. TypeOK /\ QInv /\ live \subseteq Blocks /\ b \in Blocks
  BY MyHome DEF RInv, QInv, TInv, TypeOK
<1>1. /\ pc[t] = "load" /\ pc'[t] = "tag" /\ live' = live
      /\ \A u \in Threads \ {t} : pc'[u] = pc[u] /\ req'[u] = req[u]
      /\ req'[t].op = req[t].op /\ req'[t].value = device[b]
      /\ cache'[MySlot(t)] = device[b]
  BY <1>t, MyHome DEF Load, Goto, TypeOK, Requests, NoRequest
<1>2. req[t].op = "read" /\ b \in live
  BY <1>1, <1>t DEF QInv, TInv, CallsInPlace, StepsOf, Requests, RInv, ReadsLive
<1>3. Latest(b) = device[b]
  <2>1. \A u \in Threads : pc[u] # "tag"
    BY <1>1, <1>t, OneInside DEF Inside
  <2>2. ~Held(b)
    BY <1>1, <1>2, <1>t, <2>1, HeldByTag DEF RInv, HitsAndMisses, Hit, MySlot, MyTag
  <2> QED
    BY <2>2 DEF Latest
<1>4. \A c \in live : Latest(c)' = Latest(c)
  BY <1>1, <1>3, <1>t, FillLatest
<1>5. Stored' = Stored /\ Stored[b] = device[b]
  BY <1>1, <1>2, <1>3, <1>4, SameStored DEF Stored
<1>6. CallOf(t) = [op |-> "read", block |-> b] /\ CallOf(t)' = Device!Answer(device[b])
  BY <1>1, <1>2, MappedCall DEF CallOf, Device!Answer, Asking
<1>7. Calls[t] = [op |-> "read", block |-> b] /\ Calls' = [Calls EXCEPT ![t] = Device!Answer(Stored[b])]
  BY <1>1, <1>5, <1>6, OthersMapped DEF Calls
<1> QED
  BY <1>5, <1>7, ReadStep

(* A read that hits takes effect when the slot is copied. *)
LEMMA CopySimulated ==
  ASSUME RInv, NEW t \in Threads, Copy(t)
  PROVE  Device!Read(t)
<1> DEFINE b == req[t].block
<1>t. TypeOK /\ QInv /\ live \subseteq Blocks /\ b \in Blocks
  BY MyHome DEF RInv, QInv, TInv, TypeOK
<1>1. /\ pc[t] = "copy" /\ pc'[t] = "done"
      /\ \A u \in Threads \ {t} : pc'[u] = pc[u] /\ req'[u] = req[u]
      /\ req'[t].op = req[t].op /\ req'[t].value = cache[MySlot(t)]
      /\ UNCHANGED <<device, cache, cache_array, live>>
  BY <1>t, MyHome DEF Copy, Goto, TypeOK, Requests, NoRequest, cacheVars
<1>2. req[t].op = "read" /\ b \in live
  BY <1>1, <1>t DEF QInv, TInv, CallsInPlace, StepsOf, Requests, RInv, ReadsLive
<1>3. \A u \in Threads : pc[u] # "tag"
  BY <1>1, <1>t, OneInside DEF Inside
<1>4. Latest(b) = cache[MySlot(t)]
  <2>1. Held(b)
    BY <1>1, <1>t, <1>3, HeldByTag DEF RInv, HitsAndMisses, Hit, MySlot, MyTag
  <2> QED
    BY <2>1 DEF Latest, MySlot
<1>5. Stored' = Stored /\ Stored[b] = cache[MySlot(t)]
  BY <1>1, <1>2, <1>3, <1>4, <1>t, SameStored, SameLatest DEF Stored
<1>6. CallOf(t) = [op |-> "read", block |-> b] /\ CallOf(t)' = Device!Answer(cache[MySlot(t)])
  BY <1>1, <1>2, MappedCall DEF CallOf, Device!Answer, Asking
<1>7. Calls[t] = [op |-> "read", block |-> b] /\ Calls' = [Calls EXCEPT ![t] = Device!Answer(Stored[b])]
  BY <1>1, <1>5, <1>6, OthersMapped DEF Calls
<1> QED
  BY <1>5, <1>7, ReadStep

(* The new tag names the block that the slot already belonged to. *)
LEMMA SetTagSimulated ==
  ASSUME RInv, NEW t \in Threads, SetTag(t)
  PROVE  UNCHANGED Device!vars
<1> DEFINE s == MySlot(t)
<1>t. TypeOK /\ QInv /\ live \subseteq Blocks /\ req[t].block \in Blocks
  BY MyHome DEF RInv, QInv, TInv, TypeOK
<1>1. /\ pc[t] = "tag" /\ pc'[t] = "dirty"
      /\ \A u \in Threads \ {t} : pc'[u] = pc[u]
      /\ UNCHANGED <<device, cache, req, live>>
      /\ cache_array' = [cache_array EXCEPT ![s] = MyTag(t)]
  BY <1>t DEF SetTag, Goto, TypeOK
<1>2. \A u \in Threads : (pc[u] = "tag" => u = t) /\ pc'[u] # "tag"
  BY <1>1, <1>t, OneInside DEF Inside
<1>3. ASSUME NEW b \in Blocks PROVE Latest(b)' = Latest(b)
  <2>1. Slot(b) \in Slots /\ s \in Slots /\ Home(Tag(b), Slot(b)) = b /\ Home(MyTag(t), s) = req[t].block
    BY HomeOfBlock, MyHome, <1>t
  <2>2. Held(b)' <=> cache_array'[Slot(b)] = Tag(b)
    BY <1>2 DEF Held, Filling
  <2>3. CASE Slot(b) = s
    <3>1. Held(b) <=> b = req[t].block
      BY <1>1, <1>t, <2>3, HeldByFiller
    <3>2. Held(b)' <=> MyTag(t) = Tag(b)
      BY <1>1, <1>t, <2>1, <2>2, <2>3 DEF TypeOK
    <3>3. b = req[t].block <=> MyTag(t) = Tag(b)
      BY <2>1, <2>3 DEF MyTag
    <3> QED
      BY <1>1, <3>1, <3>2, <3>3 DEF Latest
  <2>4. CASE Slot(b) # s
    <3>1. Held(b) <=> cache_array[Slot(b)] = Tag(b)
      BY <1>2, <2>4, HeldByTag
    <3>2. cache_array'[Slot(b)] = cache_array[Slot(b)]
      BY <1>1, <1>t, <2>1, <2>4 DEF TypeOK
    <3> QED
      BY <1>1, <2>2, <3>1, <3>2 DEF Latest
  <2> QED
    BY <2>3, <2>4
<1>4. Stored' = Stored
  BY <1>1, <1>3, <1>t, SameStored
<1>5. CallOf(t)' = CallOf(t)
  BY <1>1 DEF CallOf
<1>6. Calls' = Calls
  BY <1>1, <1>5 DEF Calls, CallOf
<1> QED
  BY <1>4, <1>6, StutterStep

(* A dropped block loses its tag when it is no longer in use. *)
LEMMA UntagSimulated ==
  ASSUME RInv, NEW t \in Threads, Untag(t)
  PROVE  UNCHANGED Device!vars
<1> DEFINE s == MySlot(t)
<1>t. TypeOK /\ QInv /\ live \subseteq Blocks /\ req[t].block \in Blocks
  BY MyHome DEF RInv, QInv, TInv, TypeOK
<1>1. /\ pc[t] = "untag" /\ pc'[t] = "undirty"
      /\ \A u \in Threads \ {t} : pc'[u] = pc[u]
      /\ UNCHANGED <<device, cache, req, live>>
      /\ cache_array' = [cache_array EXCEPT ![s] = -1]
  BY <1>t DEF Untag, Goto, TypeOK
<1>2. req[t].op = "drop" /\ req[t].block \notin live /\ cache_array[s] = MyTag(t)
  BY <1>1, <1>t DEF QInv, TInv, CallsInPlace, StepsOf, Requests, RInv, ReadsLive,
                    HitsAndMisses, Hit
<1>3. \A u \in Threads : pc[u] # "tag" /\ pc'[u] # "tag"
  BY <1>1, <1>2, <1>t DEF QInv, DropsAlone
<1>4. ASSUME NEW b \in live PROVE Latest(b)' = Latest(b)
  <2>1. /\ b \in Blocks /\ b # req[t].block
        /\ Slot(b) \in Slots /\ s \in Slots /\ Home(Tag(b), Slot(b)) = b
        /\ Home(MyTag(t), s) = req[t].block /\ Tag(b) # -1
    BY <1>2, <1>t, HomeOfBlock, MyHome
  <2>2. Held(b) <=> cache_array[Slot(b)] = Tag(b)
    BY <1>3, <2>1, HeldByTag
  <2>3. Held(b)' <=> cache_array'[Slot(b)] = Tag(b)
    BY <1>3 DEF Held, Filling
  <2>4. Slot(b) = s => Tag(b) # MyTag(t)
    BY <2>1
  <2>5. Held(b)' <=> Held(b)
    BY <1>1, <1>2, <1>t, <2>1, <2>2, <2>3, <2>4 DEF TypeOK
  <2> QED
    BY <1>1, <2>5 DEF Latest
<1>5. Stored' = Stored
  BY <1>1, <1>4, SameStored
<1>6. CallOf(t)' = CallOf(t)
  BY <1>1, <1>2 DEF CallOf
<1>7. Calls' = Calls
  BY <1>1, <1>6 DEF Calls, CallOf
<1> QED
  BY <1>5, <1>7, StutterStep

(* A call that ends is an answer of the disk. *)
LEMMA ReturnSimulated ==
  ASSUME RInv, NEW t \in Threads, Return(t)
  PROVE  Device!Return(t)
<1>t. TypeOK /\ QInv /\ live \subseteq Blocks
  BY DEF RInv, QInv, TInv, TypeOK
<1>1. /\ pc[t] = "done" /\ pc'[t] = "idle"
      /\ \A u \in Threads \ {t} : pc'[u] = pc[u] /\ req'[u] = req[u]
      /\ UNCHANGED <<device, cache, cache_array, live>>
  BY <1>t DEF Return, TypeOK, cacheVars
<1>2. Stored' = Stored
  BY <1>1, <1>t, SameLatest, SameStored
<1>3. req[t].op \in {"read", "write", "drop"}
  BY <1>1, <1>t DEF QInv, TInv, CallsInPlace, Requests
<1>4. CallOf(t).op = "done" /\ CallOf(t)' = Device!Idle
  <2>1. \E v : CallOf(t) = Device!Answer(v)
    BY <1>1, <1>3, MappedCall
  <2> QED
    BY <1>1, <2>1 DEF CallOf, Device!Answer, Device!Idle
<1>5. Calls[t].op = "done" /\ Calls' = [Calls EXCEPT ![t] = Device!Idle]
  BY <1>1, <1>4, OthersMapped DEF Calls
<1> QED
  BY <1>2, <1>5 DEF Device!Return, Stored, Calls

(* Unmounting leaves in every block what its slot holds, so that mounting   *)
(* with an empty cache forgets nothing. *)
LEMMA MountSimulated ==
  ASSUME RInv, Unmount \/ Mount
  PROVE  UNCHANGED Device!vars
<1>t. TypeOK /\ QInv /\ live \subseteq Blocks
  BY DEF RInv, QInv, TInv, TypeOK
<1>1. UNCHANGED <<cache, live, pc, req>> /\ \A t \in Threads : pc[t] = "idle"
  BY <1>t DEF Unmount, Mount, Busy, QInv, NoCallUnmounted, cacheVars
<1>2. ASSUME NEW b \in Blocks PROVE Latest(b)' = Latest(b)
  <2>1. /\ b \in Addresses /\ Slot(b) \in Slots
        /\ Home(Tag(b), Slot(b)) = b /\ Tag(b) # -1
    BY HomeOfBlock, BlocksAreAddresses DEF Tag
  <2>2. Held(b) <=> cache_array[Slot(b)] = Tag(b)
    BY <1>1, HeldByTag
  <2>3. Held(b)' <=> cache_array'[Slot(b)] = Tag(b)
    BY <1>1 DEF Held, Filling
  <2>4. CASE Unmount
    <3>1. cache_array' = cache_array
          /\ device'[b] = IF b \in WrittenBack THEN cache[Slot(b)] ELSE device[b]
      BY <2>1, <2>4 DEF Unmount, cacheVars
    <3>2. b \in WrittenBack => Held(b)
      <4>1. ASSUME NEW s \in Slots, cache_array[s] >= 0, Home(cache_array[s], s) = b
            PROVE  cache_array[Slot(b)] = Tag(b)
        BY <4>1, <1>t, TaggedHome
      <4> QED
        BY <4>1, <2>2 DEF WrittenBack
    <3> QED
      BY <1>1, <2>2, <2>3, <3>1, <3>2 DEF Latest
  <2>5. CASE Mount
    <3>1. device' = device /\ ~Held(b)'
      BY <2>1, <2>3, <2>5 DEF Mount, NoTags
    <3>2. Held(b) => device[b] = cache[Slot(b)]
      BY <2>1, <2>2, <2>5 DEF Mount, RInv, SavedAtUnmount, OnDevice
    <3> QED
      BY <3>1, <3>2 DEF Latest
  <2> QED
    BY <2>4, <2>5
<1>3. Stored' = Stored
  BY <1>1, <1>2, <1>t, SameStored
<1>4. Calls' = Calls
  BY <1>1 DEF Calls, CallOf
<1> QED
  BY <1>3, <1>4, StutterStep

(* Every step of the cache is a step of the block device, or none. *)
LEMMA StepSimulated == QuietDrops /\ RInv /\ [Next]_vars => [Device!Next]_(Device!vars)
<1> SUFFICES ASSUME QuietDrops, RInv, [Next]_vars PROVE Device!Next \/ UNCHANGED Device!vars
  OBVIOUS
<1>1. ASSUME NEW t \in Threads, NEW b \in Blocks,
             \/ \E v \in Values : Call(t, "write", b, v)
             \/ Call(t, "read", b, NoValue)
             \/ Call(t, "drop", b, NoValue)
      PROVE  Device!Next
  BY <1>1, CallSimulated
<1>2. ASSUME NEW t \in Threads,
             Lock(t) \/ Evict(t) \/ SetTag(t) \/ SetDirty(t) \/ Find(t) \/ Untag(t) \/ Undirty(t)
      PROVE  UNCHANGED Device!vars
  BY <1>2, SilentStep, EvictSimulated, SetTagSimulated, UntagSimulated
<1>3. ASSUME NEW t \in Threads, Fill(t) \/ Load(t) \/ Copy(t) \/ Return(t)
      PROVE  Device!Next
  <2>1. Device!Write(t) \/ Device!Read(t) \/ Device!Return(t)
    BY <1>3, FillSimulated, LoadSimulated, CopySimulated, ReturnSimulated
  <2> QED
    BY <2>1 DEF Device!Next
<1>4. CASE UNCHANGED vars
  <2>1. UNCHANGED <<device, cache, cache_array, live, pc, req>>
    BY <1>4 DEF vars, cacheVars
  <2>2. Stored' = Stored /\ Calls' = Calls
    BY <2>1 DEF Stored, Calls, Latest, Held, Filling, MySlot, CallOf
  <2> QED
    BY <2>2, StutterStep
<1> QED
  BY <1>1, <1>2, <1>3, <1>4, MountSimulated DEF Next

(* write_cached, read_cached, find_cache and the write-back of              *)
(* objstore_destroy implement the block device for every number of threads, *)
(* slots and blocks: through hits, misses, evictions and remounts a read    *)
(* returns the last value written to its block.  A write takes effect when  *)
(* it fills its slot, a read when it loads or copies.  No other call may    *)
(* run beside find_cache, which takes no lock.                              *)
THEOREM CacheImplementsDevice ==
  ASSUME QuietDrops
  PROVE  Spec => ImplementsBlockDevice
<1>1. Init => RInv /\ Device!Init
  BY InitQInv, InitFacts, InitMapped DEF RInv, Facts
<1>2. RInv /\ [Next]_vars => RInv' /\ [Device!Next]_(Device!vars)
  BY NextRInv, StepSimulated
<1> QED
  BY <1>1, <1>2, PTL DEF Spec, ImplementsBlockDevice, Device!Spec
=============================================================================
