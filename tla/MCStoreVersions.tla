--------------------------- MODULE MCStoreVersions ---------------------------
(* The earlier and the example stores for TLC: a behaviour is that of one   *)
(* version of one family, the variables of the other family do not move.    *)
EXTENDS ExampleStore

CONSTANTS PerMark, BlockBytes, NDirect, NIndirect, NPer, NBlocks, WriteOffset

VARIABLES old,  \* whether an earlier version runs, else an example
          version, table, bit_map_inode, bit_map_data, d_bit_map, blocks, saved,
          request, answer

(* The earlier stores, with what is proved of them; their sizes are assumed *)
(* here because they are an instance.                                       *)
Old == INSTANCE OldStoreProofs WITH
           objs <- table, disk <- blocks, call <- request, ans <- answer
ASSUME StoreSizesAssumption == Old!Sizes /\ Careful \in BOOLEAN

oldVars == <<version, table, bit_map_inode, bit_map_data, d_bit_map, blocks, saved,
             request, answer>>
mcVars  == <<old, oldVars, vars>>

MCInit ==
    /\ Old!Init /\ Init /\ old \in BOOLEAN
    /\ old => example = "example" /\ ~cached
    /\ ~old => version = "succes"

MCNext ==
    \/ old /\ Old!Next /\ UNCHANGED <<old, vars>>
    \/ ~old /\ Next /\ UNCHANGED <<old, oldVars>>

MCSpec == MCInit /\ [][MCNext]_mcVars

OldImplementsMap == Old!OldImplementsMap

(* Names but the long one, and contents, are interchangeable.  States that *)
(* differ only in what no call reads before it is written are one: the last *)
(* call and answer, the name of a removed object, blocks that no pointer   *)
(* reaches, inodes saved before they were changed, of which every field    *)
(* will be saved again.                                                    *)
Symmetric == Permutations(Keys \ LongNames) \cup Permutations(Values)

Nameless(object) == [object EXCEPT !.key = NoKey]
Reached == {Old!Pointer(s, o) : s \in Old!Slots, o \in Old!Offsets}
             \cup {table[s].indirect[l] : s \in Old!Slots, l \in Old!Indirects}
Meaning ==
    <<old, version, bit_map_inode, bit_map_data, d_bit_map,
      [s \in Old!Slots |-> IF s \in bit_map_inode THEN table[s] ELSE Nameless(table[s])],
      [a \in Reached |-> blocks[a]],
      [s \in {t \in Old!Slots : \E f \in Old!Fields : ~Old!Saves(t, f)} |-> Nameless(saved.objs[s])],
      example, cached, cache, disk,
      [s \in Slots |-> IF s \in Live THEN objs[s] ELSE Nameless(objs[s])]>>
=============================================================================
