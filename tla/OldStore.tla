------------------------------ MODULE OldStore ------------------------------
(***************************************************************************)
(* Four earlier versions of the object store, kept beside objstore.c:      *)
(* objstore_succes.c, obj_wi_per.c (and its copy onj_wi_per.c),            *)
(* without_cache.c, and corect_correct.c in the build without CACHE.  None *)
(* of them locks anything, so one call runs at a time.  The first two      *)
(* forget everything at unmount and never clear the pointers of a removed  *)
(* object; the first appends whatever the offset.                          *)
(*                                                                         *)
(* A bitmap is a set, a call moves one block, sizes count blocks.          *)
(***************************************************************************)
EXTENDS Integers, FiniteSets

CONSTANTS
    Keys,         \* object names
    NObjs,        \* number of inode slots
    PerMark,      \* inodes that share a mark in d_bit_map (46)
    BlockBytes,   \* bytes of the inode table saved in one disk block (4048)
    NDirect,      \* direct pointers of an object (4)
    NIndirect,    \* indirect pointers of an object (4)
    NPer,         \* pointers in an indirect block (1024)
    NBlocks,      \* data blocks counted by bit_map_data
    WriteOffset,  \* disk blocks before the first data block
    Values,       \* block contents
    NoValue, NoKey, Done, Failed,
    Careful       \* clients leave out the calls these versions get wrong

(* What is asked of the sizes. *)
Sizes ==
    /\ {NObjs, PerMark, BlockBytes, NDirect} \subseteq Nat \ {0}
    /\ NIndirect \in Nat /\ NPer \in Nat \ {0} /\ NBlocks \in Nat \ {0}
    /\ WriteOffset \in Nat \ {0} /\ NoValue \notin Values

Versions   == {"succes", "wi_per", "without_cache", "corect"}
Slots      == 0..NObjs-1
DataBlocks == 0..NBlocks-1
Offsets    == 0..NDirect + NIndirect * NPer - 1
Directs    == 0..NDirect-1
Indirects  == 0..NIndirect-1
Entries    == 0..NPer-1

VARIABLES
    version,        \* which of the four is mounted
    objs,           \* the inode table
    bit_map_inode,  \* slots in use
    bit_map_data,   \* data blocks in use
    d_bit_map,      \* blocks of the inode table changed since the mount
    disk,           \* the blocks of disk.img
    saved,          \* the metadata on disk.img
    call,           \* the last call of the kernel
    ans             \* what it answered

vars == <<version, objs, bit_map_inode, bit_map_data, d_bit_map, disk, saved, call, ans>>

First(S) == CHOOSE x \in S : \A y \in S : x <= y

(* The mark of a slot in d_bit_map, and the disk block that holds a field  *)
(* of its inode: as in objstore.c a mark stands for 46 inodes of 96 bytes  *)
(* and a disk block takes 4048 bytes of the table.                         *)
InodeBytes == 96
FieldAt    == [size |-> 8, key |-> 16, direct |-> 64, indirect |-> 80]
Fields     == {"size", "key", "direct", "indirect"}
MarkOf(s)     == s \div PerMark
BlockOf(s, f) == (s * InodeBytes + FieldAt[f]) \div BlockBytes
Fits(s)       == \A f \in Fields : BlockOf(s, f) = MarkOf(s)

NoObject == [key |-> NoKey, size |-> 0, direct |-> [l \in Directs |-> 0],
             indirect |-> [l \in Indirects |-> 0]]
Data(v)   == [kind |-> "data", value |-> v]
Table(f)  == [kind |-> "table", ptr |-> f]
NoEntries == [e \in Entries |-> 0]
ValueAt(a) == IF disk[a].kind = "data" THEN disk[a].value ELSE NoValue
TableAt(a) == IF disk[a].kind = "table" THEN disk[a].ptr ELSE NoEntries

(* The first mount of a zeroed image. *)
Init ==
    /\ version \in Versions
    /\ objs = [s \in Slots |-> NoObject]
    /\ bit_map_inode = {} /\ bit_map_data = {} /\ d_bit_map = {}
    /\ disk = [a \in 0..WriteOffset+NBlocks-1 |-> Data(NoValue)]
    /\ saved = [objs |-> objs, inodes |-> {}, blocks |-> {}]
    /\ call = <<"mount">> /\ ans = Done

-----------------------------------------------------------------------------
(* What the versions share. *)

Matches(k) == {s \in bit_map_inode : objs[s].key = k}
FindObject(k) == ans' = IF Matches(k) = {} THEN Failed ELSE Done

(* The first slot whose inode bit is clear; nothing but the name is reset. *)
FreeSlots == Slots \ bit_map_inode
CreateObject(k) ==
    IF FreeSlots = {} THEN ans' = Failed /\ UNCHANGED <<objs, bit_map_inode>>
    ELSE /\ objs' = [objs EXCEPT ![First(FreeSlots)].key = k]
         /\ bit_map_inode' = bit_map_inode \cup {First(FreeSlots)}
         /\ ans' = Done

RenameObject(k, new) ==
    /\ objs' = [objs EXCEPT ![First(Matches(k))].key = new]
    /\ ans' = Done

Alpha(o) == (o - NDirect) \div NPer
Alp(o)   == (o - NDirect) % NPer

Pointer(s, o) ==
    IF o < NDirect THEN objs[s].direct[o]
    ELSE IF objs[s].indirect[Alpha(o)] = 0 THEN 0
         ELSE TableAt(objs[s].indirect[Alpha(o)])[Alp(o)]

(* Where an object has a pointer: at its offsets, and below 0 at its tables. *)
Positions == -NIndirect..NDirect + NIndirect * NPer - 1
Target(s, p) == IF p < 0 THEN objs[s].indirect[-1 - p] ELSE Pointer(s, p)
Held(s) == {p \in Positions : Target(s, p) # 0}

(* bit_map_data[k] ^= 1 << mo; outside the bitmap it changes other memory. *)
Flip(word, d) == IF d \in word THEN word \ {d}
                 ELSE IF d \in DataBlocks THEN word \cup {d} ELSE word

(* The same for every pointer in turn: a bit ends up changed if an odd      *)
(* number of them lead to its block.                                       *)
Flipped(s, pointers) ==
    LET Met(d) == Cardinality({p \in pointers : Target(s, p) = WriteOffset + d}) % 2 = 1
    IN  {d \in DataBlocks : (d \in bit_map_data) # Met(d)}

LeavesTables(s) == Flipped(s, Held(s) \cap Offsets)  \* mutant: tables are not freed
Released(s) == Flipped(s, Held(s))

Sizeless(object) == [object EXCEPT !.size = 0]

(* destroy_object, which leaves the slot with remains. *)
DestroyObject(s, remains) ==
    /\ bit_map_inode' = bit_map_inode \ {s}
    /\ bit_map_data' = Released(s)
    /\ objs' = [objs EXCEPT ![s] = remains]
    /\ ans' = Done
Emptied(object) == [NoObject EXCEPT !.key = object.key, !.size = object.size]

(* The first clear data bit takes the block, which is linked at offset o.  *)
(* A pointer already there is taken for a block number, and if direct, the *)
(* new one lacks WRITE_OFFSET.                                             *)
Replaced(word, old) == IF old = 0 THEN word ELSE Flip(word, old)
PutDirect(s, o, v, b) ==
    LET old == objs[s].direct[o]
    IN  /\ objs' = [objs EXCEPT ![s].direct[o] = IF old = 0 THEN WriteOffset + b ELSE b,
                                ![s].size = IF old = 0 THEN @ + 1 ELSE @]
        /\ bit_map_data' = Replaced(bit_map_data \cup {b}, old)
        /\ disk' = [disk EXCEPT ![WriteOffset + b] = Data(v)]

(* Without an indirect block the next free one becomes it, block -1 if     *)
(* there is none.                                                          *)
PutEntry(s, o, v, b) ==
    LET old   == Pointer(s, o)
        tab   == objs[s].indirect[Alpha(o)]
        rest  == DataBlocks \ (bit_map_data \cup {b})
        blk   == IF rest = {} THEN -1 ELSE First(rest)
        taken == IF tab # 0 \/ rest = {} THEN {b} ELSE {b, blk}
        at    == IF tab = 0 THEN WriteOffset + blk ELSE tab
        table == IF tab = 0 THEN NoEntries ELSE TableAt(tab)
    IN  /\ objs' = [objs EXCEPT ![s].indirect[Alpha(o)] = at,
                                ![s].size = IF old = 0 THEN @ + 1 ELSE @]
        /\ bit_map_data' = Replaced(bit_map_data \cup taken, old)
        /\ disk' = [disk EXCEPT ![WriteOffset + b] = Data(v),
                                ![at] = Table([table EXCEPT ![Alp(o)] = WriteOffset + b])]

PutBlock(s, o, v) ==
    LET free == DataBlocks \ bit_map_data
    IN  IF free = {} THEN ans' = Failed /\ UNCHANGED <<objs, bit_map_data, disk>>
        ELSE /\ IF o < NDirect THEN PutDirect(s, o, v, First(free))
                ELSE PutEntry(s, o, v, First(free))
             /\ ans' = Done

FetchBlock(s, o) == ans' = ValueAt(Pointer(s, o))
SizeOf(k) == ans' = IF Matches(k) = {} THEN Failed ELSE objs[First(Matches(k))].size

(* Only the marked blocks of the inode table are written at unmount, and   *)
(* both bitmaps; the next mount reads them all.                            *)
Mark(s) == d_bit_map' = d_bit_map \cup {MarkOf(s)}
Saves(s, f) == BlockOf(s, f) \in d_bit_map
SavedInode(s) ==
    [key      |-> IF Saves(s, "key") THEN objs[s].key ELSE saved.objs[s].key,
     size     |-> IF Saves(s, "size") THEN objs[s].size ELSE saved.objs[s].size,
     direct   |-> IF Saves(s, "direct") THEN objs[s].direct ELSE saved.objs[s].direct,
     indirect |-> IF Saves(s, "indirect") THEN objs[s].indirect ELSE saved.objs[s].indirect]
SaveMarked ==
    saved' = [objs |-> [s \in Slots |-> SavedInode(s)],
              inodes |-> bit_map_inode, blocks |-> bit_map_data]
LoadAll ==
    /\ objs' = saved'.objs /\ bit_map_inode' = saved'.inodes
    /\ bit_map_data' = saved'.blocks /\ d_bit_map' = {}
LoadTableOnly ==
    /\ objs' = saved'.objs /\ bit_map_inode' = {}
    /\ bit_map_data' = {} /\ d_bit_map' = {}

-----------------------------------------------------------------------------
(* objstore_succes.c: a write fills the first empty place of the object,   *)
(* whatever its offset, and nothing is saved.                              *)

EmptyPlaces(s) == {o \in Offsets : Pointer(s, o) = 0}

SuccesFind(k)        == FindObject(k)
SuccesCreate(k)      == CreateObject(k) /\ UNCHANGED d_bit_map
SuccesDestroy(s)     == DestroyObject(s, Sizeless(objs[s])) /\ UNCHANGED d_bit_map
SuccesRename(k, new) == RenameObject(k, new) /\ UNCHANGED d_bit_map
SuccesWrite(s, v)    == PutBlock(s, First(EmptyPlaces(s)), v) /\ UNCHANGED d_bit_map
SuccesRead(s, o)     == FetchBlock(s, o)
SuccesStat(k)        == SizeOf(k)
SuccesRemount        == UNCHANGED saved /\ LoadTableOnly

(* obj_wi_per.c: as before, but a write goes to its offset.  A mount reads *)
(* the blocks after the inode table to addresses beyond both bitmaps,      *)
(* which stay empty; what else those reads hit is not modelled.            *)
WiPerFind(k)        == FindObject(k)
WiPerCreate(k)      == CreateObject(k) /\ UNCHANGED d_bit_map
WiPerDestroy(s)     == DestroyObject(s, Sizeless(objs[s])) /\ UNCHANGED d_bit_map
WiPerRename(k, new) == RenameObject(k, new) /\ UNCHANGED d_bit_map
WiPerWrite(s, o, v) == PutBlock(s, o, v) /\ UNCHANGED d_bit_map
WiPerRead(s, o)     == FetchBlock(s, o)
WiPerStat(k)        == SizeOf(k)
WiPerRemount        == UNCHANGED saved /\ LoadTableOnly

(* without_cache.c: pointers are cleared, changed inodes marked and saved. *)
WithoutCacheFind(k)   == FindObject(k)
WithoutCacheCreate(k) ==
    /\ CreateObject(k)
    /\ IF FreeSlots = {} THEN UNCHANGED d_bit_map ELSE Mark(First(FreeSlots))
WithoutCacheDestroy(s)     == DestroyObject(s, Emptied(Sizeless(objs[s]))) /\ Mark(s)
WithoutCacheRename(k, new) == RenameObject(k, new) /\ Mark(First(Matches(k)))
WithoutCacheWrite(s, o, v) == PutBlock(s, o, v) /\ Mark(s)
WithoutCacheRead(s, o)     == FetchBlock(s, o)
WithoutCacheStat(k)        == SizeOf(k)
WithoutCacheRemount        == SaveMarked /\ LoadAll

(* corect_correct.c without CACHE: the same store.                         *)
CorectFind(k)   == FindObject(k)
CorectCreate(k) ==
    /\ CreateObject(k)
    /\ IF FreeSlots = {} THEN UNCHANGED d_bit_map ELSE Mark(First(FreeSlots))
CorectDestroy(s)     == DestroyObject(s, Emptied(Sizeless(objs[s]))) /\ Mark(s)
CorectRename(k, new) == RenameObject(k, new) /\ Mark(First(Matches(k)))
CorectWrite(s, o, v) == PutBlock(s, o, v) /\ Mark(s)
CorectRead(s, o)     == FetchBlock(s, o)
CorectStat(k)        == SizeOf(k)
CorectRemount        == SaveMarked /\ LoadAll

-----------------------------------------------------------------------------
(* The handlers of objfs.c.  The kernel looks a name up before it creates, *)
(* removes or renames; a handle is the slot.  A new name that exists is    *)
(* left to rename_object, which does not look for it.  A careful client    *)
(* stays off what these versions get wrong: a slot that kept the pointers  *)
(* of its last object, or whose inode a remount keeps in part; a rename    *)
(* onto an existing name; an offset written before (or, appending, out of  *)
(* order); and a table when one block is left.                             *)
Forgetful == version \in {"succes", "wi_per"}

objfs_create(k) ==
    /\ Matches(k) = {}
    /\ Careful /\ FreeSlots # {} =>
          /\ Held(First(FreeSlots)) = {}
          /\ Forgetful \/ Fits(First(FreeSlots))
    /\ CASE version = "succes" -> SuccesCreate(k)
         [] version = "wi_per" -> WiPerCreate(k)
         [] version = "without_cache" -> WithoutCacheCreate(k)
         [] version = "corect" -> CorectCreate(k)
    /\ call' = <<"create", k>>
    /\ UNCHANGED <<version, bit_map_data, disk, saved>>

objfs_unlink(k) ==
    LET s == First(Matches(k))
    IN  /\ Matches(k) # {}
        /\ CASE version = "succes" -> SuccesDestroy(s)
             [] version = "wi_per" -> WiPerDestroy(s)
             [] version = "without_cache" -> WithoutCacheDestroy(s)
             [] version = "corect" -> CorectDestroy(s)
        /\ call' = <<"unlink", k>>
        /\ UNCHANGED <<version, disk, saved>>

objfs_rename_key(k, new) ==
    /\ Matches(k) # {} /\ new # k
    /\ Careful => Matches(new) = {}
    /\ CASE version = "succes" -> SuccesRename(k, new)
         [] version = "wi_per" -> WiPerRename(k, new)
         [] version = "without_cache" -> WithoutCacheRename(k, new)
         [] version = "corect" -> CorectRename(k, new)
    /\ call' = <<"rename", k, new>>
    /\ UNCHANGED <<version, bit_map_inode, bit_map_data, disk, saved>>

objfs_open(k) ==
    /\ CASE version = "succes" -> SuccesFind(k)
         [] version = "wi_per" -> WiPerFind(k)
         [] version = "without_cache" -> WithoutCacheFind(k)
         [] version = "corect" -> CorectFind(k)
    /\ call' = <<"open", k>>
    /\ UNCHANGED <<version, objs, bit_map_inode, bit_map_data, d_bit_map, disk, saved>>

objfs_getattr(k) ==
    /\ CASE version = "succes" -> SuccesStat(k)
         [] version = "wi_per" -> WiPerStat(k)
         [] version = "without_cache" -> WithoutCacheStat(k)
         [] version = "corect" -> CorectStat(k)
    /\ call' = <<"getattr", k>>
    /\ UNCHANGED <<version, objs, bit_map_inode, bit_map_data, d_bit_map, disk, saved>>

TakesTable(s, o) == o >= NDirect /\ objs[s].indirect[Alpha(o)] = 0
objfs_write(s, o, v) ==
    /\ s \in bit_map_inode
    /\ version = "succes" => EmptyPlaces(s) # {}
    /\ Careful =>
          /\ Pointer(s, o) = 0
          /\ version = "succes" => o = First(EmptyPlaces(s))
          /\ TakesTable(s, o) => Cardinality(DataBlocks \ bit_map_data) # 1
    /\ CASE version = "succes" -> SuccesWrite(s, v)
         [] version = "wi_per" -> WiPerWrite(s, o, v)
         [] version = "without_cache" -> WithoutCacheWrite(s, o, v)
         [] version = "corect" -> CorectWrite(s, o, v)
    /\ call' = <<"write", objs[s].key, o, v>>
    /\ UNCHANGED <<version, bit_map_inode, saved>>

objfs_read(s, o) ==
    /\ s \in bit_map_inode /\ Pointer(s, o) # 0
    /\ CASE version = "succes" -> SuccesRead(s, o)
         [] version = "wi_per" -> WiPerRead(s, o)
         [] version = "without_cache" -> WithoutCacheRead(s, o)
         [] version = "corect" -> CorectRead(s, o)
    /\ call' = <<"read", objs[s].key, o>>
    /\ UNCHANGED <<version, objs, bit_map_inode, bit_map_data, d_bit_map, disk, saved>>

(* objfs_destroy, and objfs_init of the next mount. *)
Remount ==
    /\ CASE version = "succes" -> SuccesRemount
         [] version = "wi_per" -> WiPerRemount
         [] version = "without_cache" -> WithoutCacheRemount
         [] version = "corect" -> CorectRemount
    /\ ans' = Done
    /\ call' = <<"mount">>
    /\ UNCHANGED <<version, disk>>

Next ==
    \/ \E k \in Keys : objfs_create(k)
    \/ \E k \in Keys : objfs_unlink(k)
    \/ \E k, new \in Keys : objfs_rename_key(k, new)
    \/ \E k \in Keys : objfs_open(k)
    \/ \E k \in Keys : objfs_getattr(k)
    \/ \E s \in Slots, o \in Offsets : \E v \in Values : objfs_write(s, o, v)
    \/ \E s \in Slots, o \in Offsets : objfs_read(s, o)
    \/ Remount

Spec == Init /\ [][Next]_vars

-----------------------------------------------------------------------------
KeysInUse == {objs[s].key : s \in bit_map_inode}
Contents(k) == LET s == First(Matches(k)) IN
    [o \in Offsets |-> IF Pointer(s, o) = 0 THEN NoValue ELSE ValueAt(Pointer(s, o))]

(* The blocks some files need: one for each offset written, and one for    *)
(* each table.                                                             *)
Places(files) == {r \in (DOMAIN files) \X Offsets : files[r[1]][r[2]] # NoValue}
Tables(files) == {<<r[1], Alpha(r[2])>> : r \in {q \in Places(files) : q[2] >= NDirect}}
Exhausted(files) == Cardinality(Places(files)) + Cardinality(Tables(files)) >= NBlocks

Map == INSTANCE FileMap WITH files <- [k \in KeysInUse |-> Contents(k)],
                             keeps <- ~Forgetful, MaxFiles <- NObjs, Full <- Exhausted,
                             LongNames <- {}

(* Every version is a map of files for a careful client: reads answer what  *)
(* was written, sizes count it, and a call fails only when the slots or the *)
(* blocks that the files themselves need are used up, so none is ever lost  *)
(* or shared; the two versions that save their metadata have every file     *)
(* again after a remount.                                                   *)
OldImplementsMap == Map!Spec
=============================================================================
