---------------------------- MODULE ExampleStore ----------------------------
(***************************************************************************)
(* The two example stores the course handed out, src/Ass4/example and      *)
(* src/Ass4/examplenew/example: objstore.c behind objfs.c, each built with *)
(* and without CACHE.  An object is one block, a write replaces it, and    *)
(* block 0 of the disk is the inode table.  Only the second has a rename.  *)
(* Nothing is locked: one call runs at a time.                             *)
(***************************************************************************)
EXTENDS Integers, FiniteSets, TLC

CONSTANTS
    Keys,     \* object names
    NObjs,    \* MAX_OBJS (16)
    Values,   \* contents of an object
    NoValue, NoKey, Done, Failed,
    LongNames, \* the names longer than 32 characters
    Careful   \* clients leave out the renames these versions get wrong

(* There is room for an object, and what nobody wrote is no content. *)
ASSUME HandedOut == NObjs \in Nat \ {0} /\ NoValue \notin Values

Slots == 0..NObjs-1
Id(s) == s + 2

VARIABLES
    example,  \* which of the two is mounted
    cached,   \* whether it was built with CACHE
    objs,     \* the inode table
    cache,    \* the page of each object in objfs->cache
    disk,     \* the block of each object
    call,     \* the last call of the kernel
    ans       \* what it answered

vars == <<example, cached, objs, cache, disk, call, ans>>

First(S) == CHOOSE x \in S : \A y \in S : x <= y
Live == {s \in Slots : objs[s].id # 0}

(* The first mount of a zeroed image: slots without an object count as     *)
(* cached, cache_index being 0.                                            *)
Init ==
    /\ example \in {"example", "examplenew"} /\ cached \in BOOLEAN
    /\ objs = [s \in Slots |-> [id |-> 0, size |-> 0, cache_index |-> 0, dirty |-> 0,
                                key |-> NoKey]]
    /\ cache = [s \in Slots |-> NoValue] /\ disk = cache
    /\ call = <<"mount">> /\ ans = Done

-----------------------------------------------------------------------------
(* The helpers of the build with CACHE. *)
LoadPage(s) == IF objs[s].cache_index < 0 THEN disk[s] ELSE cache[s]

FindReadCached(s) ==
    /\ cache' = [cache EXCEPT ![s] = LoadPage(s)]
    /\ objs' = [objs EXCEPT ![s].cache_index = IF @ < 0 THEN Id(s) ELSE @]
    /\ ans' = cache'[s]
    /\ UNCHANGED disk

(* The page is loaded first, then overwritten. *)
FindWriteCached(s, v) ==
    /\ cache' = [cache EXCEPT ![s] = v]
    /\ objs' = [objs EXCEPT ![s].cache_index = IF @ < 0 THEN Id(s) ELSE @,
                            ![s].dirty = 1, ![s].size = 1]
    /\ UNCHANGED disk

SyncNothing(s) == disk[s]  \* mutant: dirty pages are not written back
Synced(s) == IF objs[s].dirty = 1 THEN cache[s] ELSE disk[s]

ObjectUncached(object) == [object EXCEPT !.cache_index = -1, !.dirty = 0]

(* The helpers of the other build go to the disk. *)
FindReadUncached(s) ==
    /\ ans' = disk[s]
    /\ UNCHANGED <<objs, cache, disk>>
FindWriteUncached(s, v) ==
    /\ disk' = [disk EXCEPT ![s] = v]
    /\ objs' = [objs EXCEPT ![s].size = 1]
    /\ UNCHANGED cache

-----------------------------------------------------------------------------
Matches(k) == {s \in Live : objs[s].key = k}
FindObjectId(k) == ans' = IF Matches(k) = {} THEN Failed ELSE Done

(* create_object: the first free slot.  The cache state it wants to reset  *)
(* is that of the object after the last one.                               *)
CreateObject(k) ==
    LET s == First(Slots \ Live)
    IN  IF Live = Slots THEN ans' = Failed /\ UNCHANGED objs
        ELSE /\ objs' = [objs EXCEPT ![s].id = Id(s), ![s].key = k]
             /\ ans' = Done

Sizeless(object) == [object EXCEPT !.size = 0]

DestroyObject(s) ==
    LET bare == IF cached THEN ObjectUncached(objs[s]) ELSE objs[s]
    IN  objs' = [objs EXCEPT ![s] = [Sizeless(bare) EXCEPT !.id = 0]]

(* rename_object marks the object dirty, for the inode table's sake.  It   *)
(* refuses a long name, as create_object does not.                         *)
RenameObject(s, new) ==
    IF new \in LongNames THEN ans' = Failed /\ UNCHANGED objs
    ELSE /\ objs' = [objs EXCEPT ![s].key = new, ![s].dirty = 1]
         /\ ans' = Done

ObjstoreWrite(s, v) == IF cached THEN FindWriteCached(s, v) ELSE FindWriteUncached(s, v)
ObjstoreRead(s) == IF cached THEN FindReadCached(s) ELSE FindReadUncached(s)
FillupSize(s) == ans' = objs[s].size

(* objstore_destroy writes the dirty pages back and the inode table to     *)
(* block 0, from where the next objstore_init has it.                      *)
Saved(s) == IF cached /\ s \in Live THEN [objs[s] EXCEPT !.dirty = 0] ELSE objs[s]
ObjstoreDestroy ==
    disk' = [s \in Slots |-> IF cached /\ s \in Live THEN Synced(s) ELSE disk[s]]
ObjstoreInit ==
    /\ objs' = [s \in Slots |-> IF cached /\ Saved(s).id # 0 THEN ObjectUncached(Saved(s))
                                ELSE Saved(s)]
    /\ cache' = [s \in Slots |-> NoValue]

-----------------------------------------------------------------------------
(* The handlers.  The kernel looks a name up before it creates, removes or *)
(* renames; a handle is the slot.  A new name that exists is left to       *)
(* rename_object, which does not look for it: a careful client renames     *)
(* onto no existing name, and no object it has not read or written.        *)
objfs_create(k) ==
    /\ Matches(k) = {}
    /\ CreateObject(k)
    /\ call' = <<"create", k>>
    /\ UNCHANGED <<example, cached, cache, disk>>

objfs_unlink(k) ==
    /\ Matches(k) # {}
    /\ DestroyObject(First(Matches(k)))
    /\ ans' = Done
    /\ call' = <<"unlink", k>>
    /\ UNCHANGED <<example, cached, cache, disk>>

objfs_rename_key(k, new) ==
    LET s == First(Matches(k))
    IN  /\ example = "examplenew"
        /\ Matches(k) # {} /\ new # k
        /\ Careful => /\ Matches(new) = {}
                      /\ ~cached \/ objs[s].cache_index >= 0
        /\ RenameObject(s, new)
        /\ call' = <<"rename", k, new>>
        /\ UNCHANGED <<example, cached, cache, disk>>

objfs_open(k) ==
    /\ FindObjectId(k)
    /\ call' = <<"open", k>>
    /\ UNCHANGED <<example, cached, objs, cache, disk>>

objfs_getattr(k) ==
    /\ IF Matches(k) = {} THEN ans' = Failed ELSE FillupSize(First(Matches(k)))
    /\ call' = <<"getattr", k>>
    /\ UNCHANGED <<example, cached, objs, cache, disk>>

objfs_read(s) ==
    /\ s \in Live /\ objs[s].size # 0
    /\ ObjstoreRead(s)
    /\ call' = <<"read", objs[s].key, 0>>
    /\ UNCHANGED <<example, cached>>

objfs_write(s, v) ==
    /\ s \in Live
    /\ ObjstoreWrite(s, v)
    /\ ans' = Done
    /\ call' = <<"write", objs[s].key, 0, v>>
    /\ UNCHANGED <<example, cached>>

(* objfs_destroy, and objfs_init of the next mount with a new cache. *)
Remount ==
    /\ ObjstoreDestroy
    /\ ObjstoreInit
    /\ ans' = Done
    /\ call' = <<"mount">>
    /\ UNCHANGED <<example, cached>>

Next ==
    \/ \E k \in Keys : objfs_create(k)
    \/ \E k \in Keys : objfs_unlink(k)
    \/ \E k, new \in Keys : objfs_rename_key(k, new)
    \/ \E k \in Keys : objfs_open(k)
    \/ \E k \in Keys : objfs_getattr(k)
    \/ \E s \in Slots : objfs_read(s)
    \/ \E s \in Slots : \E v \in Values : objfs_write(s, v)
    \/ Remount

Spec == Init /\ [][Next]_vars

-----------------------------------------------------------------------------
(* What an object holds: its page if that is loaded or written, else its   *)
(* block.                                                                  *)
Contents(k) == LET s == First(Matches(k)) IN
    [o \in {0} |-> IF objs[s].size = 0 THEN NoValue
                   ELSE IF cached THEN LoadPage(s) ELSE disk[s]]

NeverFull(files) == FALSE
Map == INSTANCE FileMap WITH files <- [k \in {objs[s].key : s \in Live} |-> Contents(k)],
                             keeps <- TRUE, Offsets <- {0}, MaxFiles <- NObjs,
                             Full <- NeverFull

(* Both examples, in both builds, are for a careful client a map of files   *)
(* whose reads answer what was written, across any number of remounts,      *)
(* although a page reaches the disk only at unmount and only if dirty       *)
(* (objstore.c:37, 57, 64); a rename to a long name fails and changes none. *)
ExampleImplementsMap == Map!Spec
=============================================================================
