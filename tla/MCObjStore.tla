----------------------------- MODULE MCObjStore -----------------------------
(* Instances of ObjStore for TLC; threads, names and values are            *)
(* interchangeable.                                                        *)
EXTENDS ObjStore, TLC

Symmetric == Permutations(Threads) \cup Permutations(Keys) \cup Permutations(Values)
AllOps == {"create", "unlink", "rename", "getattr", "open", "read", "write"}
=============================================================================
