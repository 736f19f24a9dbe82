---------------------------- MODULE MCPageTables ----------------------------
(* Instances of PageTables for TLC.  A layout gives the index of level 1   *)
(* first.  Kernel is the one create_context sets up; the others have the   *)
(* segments meet one and two tables further down, or less.                 *)
EXTENDS PageTables

Seg3(c, k, d) == [seg \in Segs |-> CASE seg = "code" -> c [] seg = "stack" -> k [] OTHER -> d]

Kernel    == Seg3(<<0, 0, 1, 0>>, <<3, 3, 3, 0>>, <<0, 0, 2, 0>>)
SameLevel2 == Seg3(<<0, 0, 1, 0>>, <<3, 3, 1, 0>>, <<0, 1, 1, 0>>)
SameLevel1 == Seg3(<<0, 0, 1, 0>>, <<3, 0, 1, 0>>, <<1, 0, 1, 0>>)
CodeApart == Seg3(<<0, 0, 1, 0>>, <<3, 1, 1, 1>>, <<0, 1, 1, 1>>)
DataApart == Seg3(<<0, 0, 1, 0>>, <<3, 3, 3, 0>>, <<0, 0, 2, 1>>)

MCLayouts == {Kernel, SameLevel2, SameLevel1, CodeApart, DataApart}
MCPtFrames == 1..12
MCUserFrames == 21..24
(* Clean memory, one dirty frame, dirty everywhere. *)
MCBoots == {{}, MCPtFrames} \cup {{f} : f \in MCPtFrames}
=============================================================================
