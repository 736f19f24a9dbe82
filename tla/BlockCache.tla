----------------------------- MODULE BlockCache -----------------------------
(***************************************************************************)
(* The direct-mapped write-back cache of the cached build of objfs         *)
(* (src/Ass4/objstore.c compiled with -DCACHE): write_cached, read_cached, *)
(* find_cache, the set-up of objstore_init and the write-back of           *)
(* objstore_destroy.  FUSE runs the calls in several threads.              *)
(*                                                                         *)
(* write_cached and read_cached work under lock_cache, find_cache does     *)
(* not: the statements it can come between are separate actions.  Copying  *)
(* a block is one step.  Which blocks are used for what is decided by the  *)
(* object store: here a client writes blocks into use, reads them and      *)
(* drops them.                                                             *)
(***************************************************************************)
EXTENDS Integers

CONSTANTS
    Threads,       \* FUSE worker threads
    NSlots,        \* CACHE_BLOCKS
    NBlocks,       \* data blocks of the device
    Values,        \* block contents
    Meta,          \* contents of the metadata blocks
    NoValue,       \* no contents: the answer of a write or a drop
    NoThread,      \* lock_cache is free
    DropsOverlap   \* whether other calls run while a block is dropped

ASSUME SizesAssumption == /\ NSlots \in Nat \ {0} /\ NBlocks \in Nat \ {0}
                          /\ NBlocks >= NSlots
ASSUME ValuesAssumption == /\ Values # {} /\ Meta \notin Values
                           /\ NoValue \notin Values \cup {Meta}
ASSUME ThreadsAssumption == NoThread \notin Threads
ASSUME OverlapAssumption == DropsOverlap \in BOOLEAN

Blocks == 0..NBlocks-1
Slots  == 0..NSlots-1

Slot(b) == b % NSlots
Tag(b)  == b \div NSlots

(* Where the slot s with tag g is written back, relative to WRITE_OFFSET.  *)
(* Tag -1 falls before the data blocks, into the metadata.                 *)
Home(g, s) == g * NSlots + s
Addresses == -NSlots..NBlocks-1

VARIABLES
    device,       \* the blocks of disk.img
    cache,        \* objfs->cache, one block per slot
    cache_array,  \* the tag of every slot, -1 for none
    dirty_cache,  \* 1 if the slot is newer than the device
    lock_cache,   \* the thread that holds the mutex
    live,         \* blocks written since the object store allocated them
    pc,           \* where each thread is
    req,          \* its call; a read puts its answer in value
    mounted       \* between objstore_init and objstore_destroy

cacheVars == <<cache, cache_array, dirty_cache>>
vars == <<device, cacheVars, lock_cache, live, pc, req, mounted>>

Requests == [op : {"write", "read", "drop"}, block : Blocks,
             value : Values \cup {NoValue}]
NoRequest == [op |-> "none", block |-> 0, value |-> NoValue]
Steps == {"idle", "start", "evict", "fill", "load", "copy", "tag", "dirty",
          "untag", "undirty", "done"}

TypeOK ==
    /\ device \in [Addresses -> Values \cup {Meta}]
    /\ cache \in [Slots -> Values]
    /\ cache_array \in [Slots -> -1..Tag(NBlocks-1)]
    /\ dirty_cache \in [Slots -> {0, 1}]
    /\ lock_cache \in Threads \cup {NoThread}
    /\ live \subseteq Blocks
    /\ pc \in [Threads -> Steps]
    /\ req \in [Threads -> Requests \cup {NoRequest}]
    /\ mounted \in BOOLEAN

(* objstore_init: a cache that holds nothing. *)
TagsPastEnd == [s \in Slots |-> NBlocks]  \* mutant: another value for no tag
NoTags == [s \in Slots |-> -1]
Clean  == [s \in Slots |-> 0]

Init ==
    /\ \E v \in Values : /\ device = [a \in Addresses |-> IF a < 0 THEN Meta ELSE v]
                         /\ cache = [s \in Slots |-> v]
    /\ cache_array = NoTags /\ dirty_cache = Clean
    /\ lock_cache = NoThread
    /\ live = {}
    /\ pc = [t \in Threads |-> "idle"]
    /\ req = [t \in Threads |-> NoRequest]
    /\ mounted = TRUE

-----------------------------------------------------------------------------
(* The clients.  A block has one writer at a time (the kernel locks the    *)
(* file), is read only while it is in use, and is dropped when no call on  *)
(* it is running.  Its bit is cleared before find_cache is called, so it   *)
(* may be taken into use again while find_cache runs.                      *)
Busy(u) == pc[u] # "idle"

Others(t) == {u \in Threads \ {t} : Busy(u)}

Admitted(t, op, b) ==
    /\ CASE op = "write" -> \A u \in Others(t) : req[u].block = b => req[u].op # "write"
         [] op = "read"  -> b \in live
         [] op = "drop"  -> b \in live /\ \A u \in Others(t) : req[u].block # b
    /\ ~DropsOverlap => \A u \in Others(t) : req[u].op # "drop" /\ op # "drop"

Call(t, op, b, v) ==
    /\ mounted /\ pc[t] = "idle"
    /\ Admitted(t, op, b)
    /\ live' = IF op = "drop" THEN live \ {b} ELSE live
    /\ req' = [req EXCEPT ![t] = [op |-> op, block |-> b, value |-> v]]
    /\ pc' = [pc EXCEPT ![t] = "start"]
    /\ UNCHANGED <<device, cacheVars, lock_cache, mounted>>

Return(t) ==
    /\ pc[t] = "done"
    /\ pc' = [pc EXCEPT ![t] = "idle"]
    /\ req' = [req EXCEPT ![t] = NoRequest]
    /\ UNCHANGED <<device, cacheVars, lock_cache, live, mounted>>

-----------------------------------------------------------------------------
(* write_cached and read_cached *)
MySlot(t) == Slot(req[t].block)
MyTag(t)  == Tag(req[t].block)
Goto(t, label) == pc' = [pc EXCEPT ![t] = label]

(* A read that hits goes straight to its copy. *)
Lock(t) ==
    /\ pc[t] = "start" /\ req[t].op \in {"write", "read"}
    /\ lock_cache = NoThread
    /\ lock_cache' = t
    /\ Goto(t, IF req[t].op = "read" /\ cache_array[MySlot(t)] = MyTag(t)
                 THEN "copy" ELSE "evict")
    /\ UNCHANGED <<device, cacheVars, live, req, mounted>>

EvictHere(t) ==  \* mutant: the slot is written back to the caller's block
    /\ pc[t] = "evict"
    /\ device' = IF dirty_cache[MySlot(t)] = 1
                   THEN [device EXCEPT ![req[t].block] = cache[MySlot(t)]]
                   ELSE device
    /\ Goto(t, IF req[t].op = "write" THEN "fill" ELSE "load")
    /\ UNCHANGED <<cacheVars, lock_cache, live, req, mounted>>

(* A dirty slot is written back to the block its tag names. *)
Evict(t) ==
    /\ pc[t] = "evict"
    /\ device' = IF dirty_cache[MySlot(t)] = 1
                   THEN [device EXCEPT ![Home(cache_array[MySlot(t)], MySlot(t))]
                                         = cache[MySlot(t)]]
                   ELSE device
    /\ Goto(t, IF req[t].op = "write" THEN "fill" ELSE "load")
    /\ UNCHANGED <<cacheVars, lock_cache, live, req, mounted>>

Fill(t) ==
    /\ pc[t] = "fill"
    /\ cache' = [cache EXCEPT ![MySlot(t)] = req[t].value]
    /\ live' = live \cup {req[t].block}
    /\ Goto(t, "tag")
    /\ UNCHANGED <<device, cache_array, dirty_cache, lock_cache, req, mounted>>

Load(t) ==
    /\ pc[t] = "load"
    /\ cache' = [cache EXCEPT ![MySlot(t)] = device[req[t].block]]
    /\ req' = [req EXCEPT ![t].value = device[req[t].block]]
    /\ Goto(t, "tag")
    /\ UNCHANGED <<device, cache_array, dirty_cache, lock_cache, live, mounted>>

Copy(t) ==
    /\ pc[t] = "copy"
    /\ req' = [req EXCEPT ![t].value = cache[MySlot(t)]]
    /\ lock_cache' = NoThread
    /\ Goto(t, "done")
    /\ UNCHANGED <<device, cacheVars, live, mounted>>

SetTag(t) ==
    /\ pc[t] = "tag"
    /\ cache_array' = [cache_array EXCEPT ![MySlot(t)] = MyTag(t)]
    /\ Goto(t, "dirty")
    /\ UNCHANGED <<device, cache, dirty_cache, lock_cache, live, req, mounted>>

(* A written slot is dirty, a loaded one is not; then the mutex is freed. *)
SetDirty(t) ==
    /\ pc[t] = "dirty"
    /\ dirty_cache' = [dirty_cache EXCEPT ![MySlot(t)] =
                         IF req[t].op = "write" THEN 1 ELSE 0]
    /\ lock_cache' = NoThread
    /\ Goto(t, "done")
    /\ UNCHANGED <<device, cache, cache_array, live, req, mounted>>

-----------------------------------------------------------------------------
(* find_cache: no mutex *)
Find(t) ==
    /\ pc[t] = "start" /\ req[t].op = "drop"
    /\ Goto(t, IF cache_array[MySlot(t)] = MyTag(t) THEN "untag" ELSE "done")
    /\ UNCHANGED <<device, cacheVars, lock_cache, live, req, mounted>>

Untag(t) ==
    /\ pc[t] = "untag"
    /\ cache_array' = [cache_array EXCEPT ![MySlot(t)] = -1]
    /\ Goto(t, "undirty")
    /\ UNCHANGED <<device, cache, dirty_cache, lock_cache, live, req, mounted>>

UndirtyForgotten(t) ==  \* mutant: the dirty mark of a dropped block stays
    /\ pc[t] = "undirty"
    /\ Goto(t, "done")
    /\ UNCHANGED <<device, cacheVars, lock_cache, live, req, mounted>>

Undirty(t) ==
    /\ pc[t] = "undirty"
    /\ dirty_cache' = [dirty_cache EXCEPT ![MySlot(t)] = 0]
    /\ Goto(t, "done")
    /\ UNCHANGED <<device, cache, cache_array, lock_cache, live, req, mounted>>

-----------------------------------------------------------------------------
(* objstore_destroy writes every dirty slot back; FUSE calls it when no     *)
(* worker is in a call.  The next mount starts with an empty cache.         *)
WrittenBack == {Home(cache_array[s], s) :
                  s \in {x \in Slots : dirty_cache[x] = 1 /\ cache_array[x] >= 0}}

Unmount ==
    /\ mounted /\ \A t \in Threads : ~Busy(t)
    /\ device' = [a \in Addresses |-> IF a \in WrittenBack THEN cache[Slot(a)]
                                                           ELSE device[a]]
    /\ mounted' = FALSE
    /\ UNCHANGED <<cacheVars, lock_cache, live, pc, req>>

Mount ==
    /\ ~mounted
    /\ cache_array' = NoTags /\ dirty_cache' = Clean
    /\ mounted' = TRUE
    /\ UNCHANGED <<device, cache, lock_cache, live, pc, req>>

Next ==
    \/ \E t \in Threads, b \in Blocks :
          \/ \E v \in Values : Call(t, "write", b, v)
          \/ Call(t, "read", b, NoValue)
          \/ Call(t, "drop", b, NoValue)
    \/ \E t \in Threads : Lock(t)
    \/ \E t \in Threads : Evict(t)
    \/ \E t \in Threads : Fill(t)
    \/ \E t \in Threads : Load(t)
    \/ \E t \in Threads : Copy(t)
    \/ \E t \in Threads : SetTag(t)
    \/ \E t \in Threads : SetDirty(t)
    \/ \E t \in Threads : Find(t)
    \/ \E t \in Threads : Untag(t)
    \/ \E t \in Threads : Undirty(t)
    \/ \E t \in Threads : Return(t)
    \/ Unmount
    \/ Mount

Spec == Init /\ [][Next]_vars

-----------------------------------------------------------------------------
(* No write-back reaches the metadata that lies before the data blocks on   *)
(* the device: objstore.c:46 and 66 compute its address from a tag that     *)
(* find_cache may have set to -1.                                           *)
MetadataIntact == \A a \in Addresses : a < 0 => device[a] = Meta

(* The value of a block: while a thread has filled its slot and not yet set *)
(* the tag, the slot belongs to the block of that thread.                   *)
Filling(s) == {t \in Threads : pc[t] = "tag" /\ MySlot(t) = s}

Held(b) ==
    IF Filling(Slot(b)) # {}
      THEN \E t \in Filling(Slot(b)) : req[t].block = b
      ELSE cache_array[Slot(b)] = Tag(b)

Latest(b) == IF Held(b) THEN cache[Slot(b)] ELSE device[b]

CallOf(t) ==
    IF pc[t] = "idle" THEN [op |-> "idle"]
    ELSE CASE req[t].op = "drop" -> [op |-> "done", value |-> NoValue]
           [] req[t].op = "read" /\ pc[t] \in {"start", "evict", "load", "copy"} ->
                 [op |-> "read", block |-> req[t].block]
           [] req[t].op = "write" /\ pc[t] \in {"start", "evict", "fill"} -> req[t]
           [] OTHER -> [op |-> "done",
                        value |-> IF req[t].op = "read" THEN req[t].value ELSE NoValue]

Device == INSTANCE BlockDevice WITH store <- [b \in live |-> Latest(b)],
                                    call <- [t \in Threads |-> CallOf(t)]

(* Every block in use holds the last value written to it, whether the       *)
(* value is in its slot or on the device, through evictions, misses and     *)
(* remounts, and a read returns it: write_cached, read_cached, find_cache   *)
(* and the write-back of objstore_destroy implement the block device.       *)
ImplementsBlockDevice == Device!Spec
=============================================================================
