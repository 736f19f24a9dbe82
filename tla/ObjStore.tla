------------------------------ MODULE ObjStore ------------------------------
(***************************************************************************)
(* The object store of assignment 4, src/Ass4/objstore.c in the build      *)
(* without CACHE, behind the handlers of src/Ass4/objfs.c: the inode       *)
(* table, the two bitmaps, allocation, block pointers and the metadata     *)
(* kept across mounts.  FUSE runs the handlers in several threads.         *)
(*                                                                         *)
(* lock_data is held only while a data block is chosen in objstore_write;  *)
(* every other use of a bitmap is an unlocked load, change and store of a  *)
(* word, so these are separate actions.  A bitmap is one word here.  The   *)
(* body of create_object runs under lock_inode and becomes visible with    *)
(* its inode bit, so it is one action.  A call moves one block: FUSE cuts  *)
(* writes into pages, and a long read is a sequence of such steps.         *)
(***************************************************************************)
EXTENDS Integers, FiniteSets, Functions

CONSTANTS
    Threads,      \* FUSE worker threads
    Keys,         \* object names
    NObjs,        \* number of inode slots
    PerMark,      \* inodes that share a mark in d_bit_map (46)
    BlockBytes,   \* bytes of the inode table saved in one disk block (4048)
    NDirect,      \* direct pointers of an object (4)
    NIndirect,    \* indirect pointers of an object (4)
    NPer,         \* pointers in an indirect block (1024)
    NBlocks,      \* data blocks counted by bit_map_data
    WriteOffset,  \* disk blocks before the first data block
    Values,       \* block contents
    NoValue, NoKey, NoThread, Failed,
    Ops,          \* calls the clients make, "unmount" if they unmount
    Alone,        \* calls they make only when no other call is running
    Rewrite,      \* whether they write an offset again
    Replace,      \* whether they rename an object onto an existing one
    Spill         \* whether they create objects that an unmount saves in part

ASSUME SizesAssumption ==
    /\ {NObjs, PerMark, BlockBytes, NDirect, NPer, NBlocks, WriteOffset}
          \subseteq Nat \ {0}
    /\ NIndirect \in Nat
ASSUME ClientsAssumption == /\ NoThread \notin Threads
                            /\ Alone \subseteq Ops
                            /\ {Rewrite, Replace, Spill} \subseteq BOOLEAN

Slots      == 0..NObjs-1
DataBlocks == 0..NBlocks-1
Addresses  == 0..WriteOffset+NBlocks-1
Offsets    == 0..NDirect + NIndirect * NPer - 1
Directs    == 0..NDirect-1
Indirects  == 0..NIndirect-1
Entries    == 0..NPer-1

VARIABLES
    objs,           \* the inode table
    bit_map_inode,  \* slots in use
    bit_map_data,   \* data blocks in use
    d_bit_map,      \* blocks of the inode table changed since the mount
    temp,           \* the slot of the last successful find_object_id
    lock_data,      \* the thread that holds the mutex
    disk,           \* the blocks of disk.img
    saved,          \* the metadata on disk.img
    mounted,        \* between objstore_init and objstore_destroy
    pc,             \* where each thread is
    loc             \* its arguments and local variables

metaVars == <<objs, bit_map_inode, d_bit_map>>
diskVars == <<disk, saved, mounted>>
vars == <<metaVars, bit_map_data, temp, lock_data, diskVars, pc, loc>>

First(S) == CHOOSE x \in S : \A y \in S : x <= y

(* The mark of a slot in d_bit_map, and the disk block that holds a field  *)
(* of its inode.  A struct object has 96 bytes, a mark stands for 46 of    *)
(* them, and a disk block takes 4048 bytes of the table: 42 inodes and the *)
(* first 16 bytes of the next.  Blocks begin at multiples of 16 bytes, so  *)
(* only key can be cut, and only for a name of 16 characters or more: it   *)
(* is taken to be where it begins.                                         *)
InodeBytes == 96
FieldAt    == [size |-> 8, key |-> 16, direct |-> 64, indirect |-> 80]
Fields     == {"size", "key", "direct", "indirect"}
MarkOf(s)     == s \div PerMark
BlockOf(s, f) == (s * InodeBytes + FieldAt[f]) \div BlockBytes
Fits(s)       == \A f \in Fields : BlockOf(s, f) = MarkOf(s)

NoObject == [key |-> NoKey, size |-> 0, direct |-> [l \in Directs |-> 0],
             indirect |-> [l \in Indirects |-> 0]]
(* A call: todo has the pointers it still has to look after, by position. *)
NoCall == [op |-> "none", obj |-> 0, off |-> 0, value |-> NoValue, blk |-> 0,
           word |-> {}, todo |-> [i \in {} |-> 0], ans |-> NoValue]
Just(p) == [i \in {0} |-> p]

(* A disk block holds data or the pointers of an indirect block; data read *)
(* as pointers has none.                                                   *)
Data(v)   == [kind |-> "data", value |-> v]
Table(f)  == [kind |-> "table", ptr |-> f]
NoEntries == [e \in Entries |-> 0]
ValueAt(a) == IF disk[a].kind = "data" THEN disk[a].value ELSE NoValue
TableAt(a) == IF disk[a].kind = "table" THEN disk[a].ptr ELSE NoEntries

TypeOK ==
    /\ objs \in [Slots -> [key : Keys \cup {NoKey}, size : Nat,
                           direct : [Directs -> Addresses],
                           indirect : [Indirects -> Addresses]]]
    /\ bit_map_inode \subseteq Slots
    /\ bit_map_data \subseteq DataBlocks
    /\ d_bit_map \subseteq {MarkOf(s) : s \in Slots}
    /\ temp \in Slots \cup {-1}
    /\ lock_data \in Threads \cup {NoThread}
    /\ DOMAIN disk = Addresses
    /\ DOMAIN saved = {"objs", "inodes", "blocks"}
    /\ mounted \in BOOLEAN
    /\ pc \in [Threads -> {"idle", "fill", "free", "load", "store", "lock", "mark",
                           "data", "link", "grab", "entry", "fetch", "done"}]
    /\ DOMAIN loc = Threads

(* The mount of a zeroed disk image. *)
Init ==
    /\ objs = [s \in Slots |-> NoObject]
    /\ bit_map_inode = {} /\ bit_map_data = {} /\ d_bit_map = {}
    /\ temp = -1
    /\ lock_data = NoThread
    /\ disk = [a \in Addresses |-> Data(NoValue)]
    /\ saved = [objs |-> objs, inodes |-> {}, blocks |-> {}]
    /\ mounted = TRUE
    /\ pc = [t \in Threads |-> "idle"]
    /\ loc = [t \in Threads |-> NoCall]

-----------------------------------------------------------------------------
(* The clients.  The kernel runs one change of the directory at a time and *)
(* one write per file, and locks the page that is read or written; libfuse *)
(* lets no call on a path overlap with its removal or renaming.            *)
DirOps == {"create", "unlink", "rename"}
Moves  == {"unlink", "rename"}
Others(t) == {u \in Threads \ {t} : pc[u] # "idle"}

Admitted(t, op, s, o) ==
    /\ mounted /\ pc[t] = "idle" /\ op \in Ops
    /\ \A u \in Others(t) :
          /\ op \notin Alone /\ loc[u].op \notin Alone
          /\ ~(op \in DirOps /\ loc[u].op \in DirOps)
          /\ loc[u].obj = s =>
                /\ op \notin Moves /\ loc[u].op \notin Moves
                /\ ~(op = "write" /\ loc[u].op = "write")
                /\ op \in {"read", "write"} => loc[u].off # o \/ loc[u].op \notin {"read", "write"}

MatchesAny(k) == bit_map_inode  \* mutant: the names are not compared
Matches(k) == {s \in bit_map_inode : objs[s].key = k}
KeysInUse  == {objs[s].key : s \in bit_map_inode}

Start(t, op, s, o, v) ==
    loc' = [loc EXCEPT ![t] = [NoCall EXCEPT !.op = op, !.obj = s, !.off = o, !.value = v]]
Goto(t, label) == pc' = [pc EXCEPT ![t] = label]

Return(t) ==
    /\ pc[t] = "done"
    /\ Goto(t, "idle")
    /\ loc' = [loc EXCEPT ![t] = NoCall]
    /\ UNCHANGED <<metaVars, bit_map_data, temp, lock_data, diskVars>>

-----------------------------------------------------------------------------
(* create_object: the first slot whose inode bit is clear.  Nothing of the *)
(* object but its name is reset.  -1 if there is no such slot.  Unless     *)
(* Spill, clients keep so few objects that the slot is one that Fits.      *)
Create(t, k) ==
    LET free == Slots \ bit_map_inode
        s == First(free)
    IN  /\ Admitted(t, "create", -1, 0) /\ k \notin KeysInUse
        /\ free # {} => Fits(s) \/ Spill
        /\ IF free = {} THEN UNCHANGED metaVars
           ELSE /\ objs' = [objs EXCEPT ![s].key = k]
                /\ bit_map_inode' = bit_map_inode \cup {s}
                /\ d_bit_map' = d_bit_map \cup {MarkOf(s)}
        /\ Start(t, "create", IF free = {} THEN -1 ELSE s, 0, NoValue)
        /\ Goto(t, "done")
        /\ UNCHANGED <<bit_map_data, temp, lock_data, diskVars>>

(* rename_object: the name is overwritten in place. *)
Rename(t, k, new) ==
    LET s == First(Matches(k))
    IN  /\ k \in KeysInUse /\ new # k
        /\ new \in KeysInUse => Replace
        /\ Admitted(t, "rename", s, 0)
        /\ objs' = [objs EXCEPT ![s].key = new]
        /\ d_bit_map' = d_bit_map \cup {MarkOf(s)}
        /\ Start(t, "rename", s, 0, NoValue)
        /\ Goto(t, "done")
        /\ UNCHANGED <<bit_map_inode, bit_map_data, temp, lock_data, diskVars>>

(* objfs_open and the first half of objfs_getattr: find_object_id leaves   *)
(* the object it found in the global variable temp.                        *)
Find(t, op, k) ==
    /\ op \in {"open", "getattr"} /\ k \in KeysInUse
    /\ Admitted(t, op, First(Matches(k)), 0)
    /\ temp' = First(Matches(k))
    /\ Start(t, op, First(Matches(k)), 0, NoValue)
    /\ Goto(t, IF op = "open" THEN "done" ELSE "fill")
    /\ UNCHANGED <<metaVars, bit_map_data, lock_data, diskVars>>

(* find_object_id finds nothing: -ENOENT, temp is left as it was.  The     *)
(* kernel looks a missing name up while the directory does not change.     *)
FindNothing(t, op, k) ==
    /\ op \in {"open", "getattr"} /\ k \notin KeysInUse
    /\ Admitted(t, op, -1, 0) /\ \A u \in Others(t) : loc[u].op \notin DirOps
    /\ loc' = [loc EXCEPT ![t] = [NoCall EXCEPT !.op = op, !.obj = -1, !.ans = Failed]]
    /\ Goto(t, "done")
    /\ UNCHANGED <<metaVars, bit_map_data, temp, lock_data, diskVars>>

(* fillup_size_details: the size of temp, -EBADF if it is another object.  *)
FillupSize(t) ==
    /\ pc[t] = "fill"
    /\ loc' = [loc EXCEPT ![t].ans = IF temp = loc[t].obj THEN objs[temp].size ELSE -1]
    /\ Goto(t, "done")
    /\ UNCHANGED <<metaVars, bit_map_data, temp, lock_data, diskVars>>

-----------------------------------------------------------------------------
(* bit_map_data[k] ^= 1 << mo: a load, then a store of the changed word.   *)
(* A block number outside the bitmap changes other memory.                 *)
FlipAnywhere(word, d) ==  \* mutant: memory outside the bitmap counts as bitmap
    IF d \in word THEN word \ {d} ELSE word \cup {d}
Flip(word, d) == IF d \in word THEN word \ {d}
                 ELSE IF d \in DataBlocks THEN word \cup {d} ELSE word

LoadWord(t) ==
    /\ pc[t] = "load"
    /\ loc' = [loc EXCEPT ![t].word = bit_map_data]
    /\ Goto(t, "store")
    /\ UNCHANGED <<metaVars, bit_map_data, temp, lock_data, diskVars>>

KeepsSize(t, s) ==  \* mutant: the size of a removed object is kept
    /\ bit_map_inode' = bit_map_inode \ {s}
    /\ UNCHANGED objs
ClearInode(t, s) ==
    /\ bit_map_inode' = bit_map_inode \ {s}
    /\ objs' = [objs EXCEPT ![s].size = 0]

(* destroy_object: the inode bit goes first, then the size, then the       *)
(* blocks one by one.                                                      *)
Unlink(t, k) ==
    LET s == First(Matches(k))
    IN  /\ k \in KeysInUse
        /\ Admitted(t, "unlink", s, 0)
        /\ ClearInode(t, s)
        /\ d_bit_map' = d_bit_map \cup {MarkOf(s)}
        /\ Start(t, "unlink", s, 0, NoValue)
        /\ Goto(t, "free")
        /\ UNCHANGED <<bit_map_data, temp, lock_data, diskVars>>

UsedDirects(s)   == {l \in Directs : objs[s].direct[l] # 0}
UsedIndirects(s) == {l \in Indirects : objs[s].indirect[l] # 0}

LeaksEntries(a) == Just(a)  \* mutant: the blocks of the table are not freed
(* The blocks an indirect pointer frees: those in its table, then its own. *)
TableBlocks(a) ==
    [e \in {x \in Entries : TableAt(a)[x] # 0} \cup {NPer} |->
        IF e = NPer THEN a ELSE TableAt(a)[e]]

(* The next pointer of the object being removed. *)
NextPointer(t) ==
    LET s == loc[t].obj
        list == IF UsedDirects(s) # {} THEN Just(objs[s].direct[First(UsedDirects(s))])
                ELSE IF UsedIndirects(s) # {}
                     THEN TableBlocks(objs[s].indirect[First(UsedIndirects(s))])
                     ELSE NoCall.todo
    IN  /\ pc[t] = "free"
        /\ loc' = [loc EXCEPT ![t].todo = [i \in DOMAIN list |-> list[i] - WriteOffset]]
        /\ Goto(t, IF DOMAIN list = {} THEN "done" ELSE "load")
        /\ UNCHANGED <<metaVars, bit_map_data, temp, lock_data, diskVars>>

ClearPointer(s) ==
    objs' = IF UsedDirects(s) # {}
              THEN [objs EXCEPT ![s].direct[First(UsedDirects(s))] = 0]
              ELSE [objs EXCEPT ![s].indirect[First(UsedIndirects(s))] = 0]

FreeBlock(t) ==
    LET next == First(DOMAIN loc[t].todo)
        last == DOMAIN loc[t].todo = {next}
    IN  /\ pc[t] = "store" /\ loc[t].op = "unlink"
        /\ bit_map_data' = Flip(loc[t].word, loc[t].todo[next])
        /\ IF last THEN ClearPointer(loc[t].obj) ELSE UNCHANGED objs
        /\ loc' = [loc EXCEPT ![t].todo = Restrict(@, DOMAIN @ \ {next}), ![t].word = {}]
        /\ Goto(t, IF last THEN "free" ELSE "load")
        /\ UNCHANGED <<bit_map_inode, d_bit_map, temp, lock_data, diskVars>>

-----------------------------------------------------------------------------
(* objstore_write *)
Alpha(o) == (o - NDirect) \div NPer
AlpZero(o) == 0  \* mutant: every offset uses the first entry
Alp(o)   == (o - NDirect) % NPer

Pointer(s, o) ==
    IF o < NDirect THEN objs[s].direct[o]
    ELSE IF objs[s].indirect[Alpha(o)] = 0 THEN 0
         ELSE TableAt(objs[s].indirect[Alpha(o)])[Alp(o)]

DirtyForgotten(s) == UNCHANGED d_bit_map  \* mutant: the inode is not marked changed
MarkDirty(s) == d_bit_map' = d_bit_map \cup {MarkOf(s)}

Write(t, s, o, v) ==
    /\ s \in bit_map_inode
    /\ Pointer(s, o) # 0 => Rewrite
    /\ Admitted(t, "write", s, o)
    /\ MarkDirty(s)
    /\ Start(t, "write", s, o, v)
    /\ Goto(t, "lock")
    /\ UNCHANGED <<objs, bit_map_inode, bit_map_data, temp, lock_data, diskVars>>

LockFree == TRUE  \* mutant: lock_data is not waited for
LockAvailable == lock_data = NoThread

(* Under lock_data: the first clear bit is found and its word loaded.  If  *)
(* there is none the call returns -1 and the mutex stays locked.           *)
ChooseBlock(t) ==
    LET free == DataBlocks \ bit_map_data
    IN  /\ pc[t] = "lock" /\ LockAvailable
        /\ lock_data' = t
        /\ IF free = {}
             THEN loc' = [loc EXCEPT ![t].ans = Failed] /\ Goto(t, "done")
             ELSE /\ loc' = [loc EXCEPT ![t].blk = First(free), ![t].word = bit_map_data]
                  /\ Goto(t, "mark")
        /\ UNCHANGED <<metaVars, bit_map_data, temp, diskVars>>

WithBlock(word, b) == word \cup {b}

Unlock == lock_data' = NoThread

MarkBlock(t) ==
    /\ pc[t] = "mark"
    /\ bit_map_data' = WithBlock(loc[t].word, loc[t].blk)
    /\ Unlock
    /\ loc' = [loc EXCEPT ![t].word = {}]
    /\ Goto(t, "data")
    /\ UNCHANGED <<metaVars, temp, diskVars>>

(* write_block *)
WriteBlock(a, contents) == disk' = [disk EXCEPT ![a] = contents]

WriteData(t) ==
    /\ pc[t] = "data"
    /\ WriteBlock(WriteOffset + loc[t].blk, Data(loc[t].value))
    /\ Goto(t, "link")
    /\ UNCHANGED <<metaVars, bit_map_data, temp, lock_data, saved, mounted, loc>>

(* What the call finds at its offset. *)
Linking(t, direct, present) ==
    /\ pc[t] = "link"
    /\ direct  <=> loc[t].off < NDirect
    /\ present <=> Pointer(loc[t].obj, loc[t].off) # 0

SetDirect(s, o, p, grow) ==
    objs' = [objs EXCEPT ![s].direct[o] = p, ![s].size = @ + grow]

LinkDirect(t) ==
    /\ Linking(t, TRUE, FALSE)
    /\ SetDirect(loc[t].obj, loc[t].off, WriteOffset + loc[t].blk, 1)
    /\ Goto(t, "done")
    /\ UNCHANGED <<bit_map_inode, d_bit_map, bit_map_data, temp, lock_data, diskVars, loc>>

(* A direct pointer is replaced by the block number without WRITE_OFFSET,  *)
(* and the old pointer, with WRITE_OFFSET, is taken for a block number.    *)
RelinkDirect(t) ==
    /\ Linking(t, TRUE, TRUE)
    /\ loc' = [loc EXCEPT ![t].todo = Just(objs[loc[t].obj].direct[loc[t].off])]
    /\ SetDirect(loc[t].obj, loc[t].off, loc[t].blk, 0)
    /\ Goto(t, "load")
    /\ UNCHANGED <<bit_map_inode, d_bit_map, bit_map_data, temp, lock_data, diskVars>>

(* The table entry of an offset is written, in a new table or an old one.  *)
SetEntry(t, a, table) ==
    WriteBlock(a, Table([table EXCEPT ![Alp(loc[t].off)] = WriteOffset + loc[t].blk]))

Indirect(t) == objs[loc[t].obj].indirect[Alpha(loc[t].off)]

(* No indirect block yet: one is chosen as above, but without lock_data.   *)
(* blk stays -1 if none is free.                                           *)
ChooseIndirect(t) ==
    LET free == DataBlocks \ bit_map_data
    IN  /\ Linking(t, FALSE, FALSE) /\ Indirect(t) = 0
        /\ loc' = [loc EXCEPT ![t].todo = Just(IF free = {} THEN -1 ELSE First(free)),
                              ![t].word = bit_map_data]
        /\ Goto(t, "grab")
        /\ UNCHANGED <<metaVars, bit_map_data, temp, lock_data, diskVars>>

GrabIndirect(t) ==
    LET b == loc[t].todo[0]
        s == loc[t].obj
    IN  /\ pc[t] = "grab"
        /\ bit_map_data' = IF b = -1 THEN bit_map_data ELSE WithBlock(loc[t].word, b)
        /\ SetEntry(t, WriteOffset + b, NoEntries)
        /\ objs' = [objs EXCEPT ![s].indirect[Alpha(loc[t].off)] = WriteOffset + b,
                                ![s].size = @ + 1]
        /\ loc' = [loc EXCEPT ![t].todo = NoCall.todo, ![t].word = {}]
        /\ Goto(t, "done")
        /\ UNCHANGED <<bit_map_inode, d_bit_map, temp, lock_data, saved, mounted>>

LinkEntry(t) ==
    /\ Linking(t, FALSE, FALSE) /\ Indirect(t) # 0
    /\ SetEntry(t, Indirect(t), TableAt(Indirect(t)))
    /\ objs' = [objs EXCEPT ![loc[t].obj].size = @ + 1]
    /\ Goto(t, "done")
    /\ UNCHANGED <<bit_map_inode, d_bit_map, bit_map_data, temp, lock_data, saved, mounted, loc>>

(* The same confusion for an entry, whose new value is right. *)
RelinkEntry(t) ==
    /\ Linking(t, FALSE, TRUE)
    /\ loc' = [loc EXCEPT ![t].todo = Just(Pointer(loc[t].obj, loc[t].off))]
    /\ Goto(t, "load")
    /\ UNCHANGED <<metaVars, bit_map_data, temp, lock_data, diskVars>>

FreeOld(t) ==
    /\ pc[t] = "store" /\ loc[t].op = "write"
    /\ bit_map_data' = Flip(loc[t].word, loc[t].todo[0])
    /\ IF loc[t].off < NDirect THEN UNCHANGED disk
       ELSE SetEntry(t, Indirect(t), TableAt(Indirect(t)))
    /\ loc' = [loc EXCEPT ![t].todo = NoCall.todo, ![t].word = {}]
    /\ Goto(t, "done")
    /\ UNCHANGED <<metaVars, temp, lock_data, saved, mounted>>

-----------------------------------------------------------------------------
(* objstore_read: the pointer, then for an indirect offset the entry, then *)
(* the block.  Clients read offsets that have a pointer.                   *)
Read(t, s, o) ==
    /\ s \in bit_map_inode /\ Pointer(s, o) # 0
    /\ Admitted(t, "read", s, o)
    /\ loc' = [loc EXCEPT ![t] = [NoCall EXCEPT !.op = "read", !.obj = s, !.off = o,
                 !.blk = IF o < NDirect THEN objs[s].direct[o]
                         ELSE objs[s].indirect[Alpha(o)]]]
    /\ Goto(t, IF o < NDirect THEN "fetch" ELSE "entry")
    /\ UNCHANGED <<metaVars, bit_map_data, temp, lock_data, diskVars>>

ReadEntry(t) ==
    /\ pc[t] = "entry"
    /\ loc' = [loc EXCEPT ![t].blk = TableAt(@)[Alp(loc[t].off)]]
    /\ Goto(t, "fetch")
    /\ UNCHANGED <<metaVars, bit_map_data, temp, lock_data, diskVars>>

ReadData(t) ==
    /\ pc[t] = "fetch"
    /\ loc' = [loc EXCEPT ![t].ans = ValueAt(loc[t].blk), ![t].blk = 0]
    /\ Goto(t, "done")
    /\ UNCHANGED <<metaVars, bit_map_data, temp, lock_data, diskVars>>

-----------------------------------------------------------------------------
(* objstore_destroy saves the blocks of the inode table whose number is    *)
(* marked, and both bitmaps; objstore_init and init_free load them.        *)
SavesNext(s, f) == BlockOf(s, f) + 1 \in d_bit_map  \* mutant: counted from one
Saves(s, f) == BlockOf(s, f) \in d_bit_map
SavedInode(s) ==
    [key      |-> IF Saves(s, "key") THEN objs[s].key ELSE saved.objs[s].key,
     size     |-> IF Saves(s, "size") THEN objs[s].size ELSE saved.objs[s].size,
     direct   |-> IF Saves(s, "direct") THEN objs[s].direct ELSE saved.objs[s].direct,
     indirect |-> IF Saves(s, "indirect") THEN objs[s].indirect ELSE saved.objs[s].indirect]

Unmount ==
    /\ mounted /\ "unmount" \in Ops /\ \A t \in Threads : pc[t] = "idle"
    /\ saved' = [objs |-> [s \in Slots |-> SavedInode(s)],
                 inodes |-> bit_map_inode, blocks |-> bit_map_data]
    /\ mounted' = FALSE
    /\ UNCHANGED <<metaVars, bit_map_data, temp, lock_data, disk, pc, loc>>

Mount ==
    /\ ~mounted
    /\ objs' = saved.objs /\ bit_map_inode' = saved.inodes
    /\ bit_map_data' = saved.blocks /\ d_bit_map' = {}
    /\ temp' = -1 /\ lock_data' = NoThread
    /\ mounted' = TRUE
    /\ UNCHANGED <<disk, saved, pc, loc>>

Next ==
    \/ \E t \in Threads, k \in Keys : Create(t, k)
    \/ \E t \in Threads, k, new \in Keys : Rename(t, k, new)
    \/ \E t \in Threads, k \in Keys : Unlink(t, k)
    \/ \E t \in Threads, k \in Keys : \E op \in {"open", "getattr"} : Find(t, op, k)
    \/ \E t \in Threads, k \in Keys : \E op \in {"open", "getattr"} : FindNothing(t, op, k)
    \/ \E t \in Threads, s \in Slots, o \in Offsets : \E v \in Values : Write(t, s, o, v)
    \/ \E t \in Threads, s \in Slots, o \in Offsets : Read(t, s, o)
    \/ \E t \in Threads : FillupSize(t)
    \/ \E t \in Threads : NextPointer(t)
    \/ \E t \in Threads : LoadWord(t)
    \/ \E t \in Threads : FreeBlock(t)
    \/ \E t \in Threads : ChooseBlock(t)
    \/ \E t \in Threads : MarkBlock(t)
    \/ \E t \in Threads : WriteData(t)
    \/ \E t \in Threads : LinkDirect(t)
    \/ \E t \in Threads : RelinkDirect(t)
    \/ \E t \in Threads : ChooseIndirect(t)
    \/ \E t \in Threads : GrabIndirect(t)
    \/ \E t \in Threads : LinkEntry(t)
    \/ \E t \in Threads : RelinkEntry(t)
    \/ \E t \in Threads : FreeOld(t)
    \/ \E t \in Threads : ReadEntry(t)
    \/ \E t \in Threads : ReadData(t)
    \/ \E t \in Threads : Return(t)
    \/ Unmount
    \/ Mount

Spec == Init /\ [][Next]_vars

-----------------------------------------------------------------------------
(* Every place that holds a block pointer, and the block it names. *)
Places ==
    {<<"direct", s, l>> : s \in Slots, l \in Directs}
      \cup {<<"indirect", s, l>> : s \in Slots, l \in Indirects}
      \cup {<<"entry", s, o>> : s \in Slots, o \in Offsets \ Directs}

Target(r) == CASE r[1] = "direct"   -> objs[r[2]].direct[r[3]]
               [] r[1] = "indirect" -> objs[r[2]].indirect[r[3]]
               [] r[1] = "entry"    -> Pointer(r[2], r[3])

References == {r \in Places : Target(r) # 0}
Idling == \A t \in Threads : pc[t] = "idle"

(* No block is reached by two pointers: the allocations of concurrent       *)
(* writes, the reuse of freed blocks and the indirect blocks never hand a   *)
(* block to two owners (objstore.c:269-283, 302-317, 179, 209).             *)
NoSharedBlocks == \A r, q \in References : r # q => Target(r) # Target(q)

(* A block of an existing object is never free for the taking, and with no  *)
(* call running the bitmap counts exactly the blocks that are reached: no   *)
(* call loses a block or leaks one.                                         *)
BitmapExact ==
    /\ \A r \in References : r[2] \in bit_map_inode => Target(r) - WriteOffset \in bit_map_data
    /\ Idling => bit_map_data = {Target(r) - WriteOffset : r \in References}

(* Blocks are accounted for: each has one owner, and the bitmap of the data *)
(* blocks agrees with the pointers of the objects (objstore.c:174-217,      *)
(* 269-346), whatever was written and removed before, on a full disk, and   *)
(* after remounts by clients whose objects fit.                             *)
BlocksAccounted == NoSharedBlocks /\ BitmapExact

(* An unmount keeps the whole slot: its inode lies in the block its mark    *)
(* stands for, or nobody uses it, or nobody unmounts.                       *)
Kept(s) == Fits(s) \/ ~Spill \/ "unmount" \notin Ops

(* create_object resets nothing but the name, so a free slot that nobody is *)
(* still clearing has no size and no pointers left from its last object,    *)
(* after remounts too if unmounts keep it (objstore.c:129, 173-209).        *)
FreeSlotsEmpty ==
    \A s \in {x \in Slots \ bit_map_inode : Kept(x)} :
        \/ objs[s] = [NoObject EXCEPT !.key = objs[s].key]
        \/ \E t \in Threads : pc[t] # "idle" /\ loc[t].op = "unlink" /\ loc[t].obj = s

(* The size that getattr reports is the number of blocks the object holds,  *)
(* whatever was created, removed and renamed before, and after remounts by  *)
(* clients whose objects fit: create, destroy and write keep it between     *)
(* them (objstore.c:173, 284, 326, 345).                                    *)
SizeRight ==
    \A t \in Threads : pc[t] = "done" /\ loc[t].op = "getattr" /\ loc[t].obj \in Slots =>
        loc[t].ans = Cardinality({o \in Offsets : Pointer(loc[t].obj, o) # 0})

(* A mount finds the bitmaps of the last unmount and the inode of every     *)
(* slot that unmounts keep, although only marked blocks of the inode table  *)
(* were saved: whoever changed the inode marked it, whichever other objects *)
(* are cut by a block's end (objstore.c:125, 169, 241, 262, 500).           *)
MountRestores ==
    [][~mounted => /\ UNCHANGED <<bit_map_inode, bit_map_data>>
                   /\ \A s \in Slots : Kept(s) => objs'[s] = objs[s]]_vars

(* The key-value store: an existing object and what its pointers reach. *)
Contents(k) == LET s == First(Matches(k)) IN
    [o \in Offsets |-> IF Pointer(s, o) = 0 THEN NoValue ELSE ValueAt(Pointer(s, o))]

Linked(t) == pc[t] = "done" \/ (pc[t] \in {"load", "store"} /\ loc[t].off < NDirect)

CallOf(t) ==
    LET key == objs[loc[t].obj].key
    IN  CASE pc[t] = "idle" -> [op |-> "idle"]
          [] loc[t].op = "read" /\ pc[t] # "done" ->
                [op |-> "read", key |-> key, off |-> loc[t].off]
          [] loc[t].op = "write" /\ ~Linked(t) ->
                [op |-> "write", key |-> key, off |-> loc[t].off, value |-> loc[t].value]
          [] loc[t].op \in {"read", "write"} /\ Linked(t) ->
                [op |-> "done", value |-> loc[t].ans]
          [] OTHER -> [op |-> "done", value |-> NoValue]

Store == INSTANCE KeyStore WITH files <- [k \in KeysInUse |-> Contents(k)],
                                call <- [t \in Threads |-> CallOf(t)]

(* The object store implements the key-value store: a write is seen by      *)
(* every later read of its offset, and by no other offset and no other      *)
(* object; creating, removing and renaming change just their file; frees    *)
(* and look-ups change no file, nor do remounts if every object fits; a     *)
(* write that finds the disk full fails and changes none.                   *)
ImplementsKeyStore == Store!Spec
=============================================================================
