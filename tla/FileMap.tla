------------------------------ MODULE FileMap ------------------------------
(***************************************************************************)
(* What a store promises to clients that make one call at a time: files    *)
(* found by name, a fixed number of them, whose blocks hold what was last  *)
(* written, a size, and failure only when there is no room.  A store that  *)
(* keeps its files has them again after a remount; one that does not       *)
(* starts empty.                                                           *)
(***************************************************************************)
EXTENDS FiniteSets, Integers, Functions

CONSTANTS Keys,      \* names of files
          Offsets,   \* block offsets within a file
          Values,    \* block contents
          NoValue,   \* contents of an offset never written
          Done, Failed,
          LongNames, \* names no file is renamed to
          MaxFiles,  \* how many files there can be
          Full(_)    \* whether there is no room left beside these files

VARIABLES files,     \* the contents of every existing file
          call,      \* the last call
          ans,       \* what it answered
          keeps      \* whether files outlive the mount

vars == <<files, call, ans, keeps>>

Empty == [o \in Offsets |-> NoValue]
NoFiles == [k \in {} |-> Empty]
Written(k) == {o \in Offsets : files[k][o] # NoValue}

Init == files = NoFiles /\ call = <<"mount">> /\ ans = Done /\ keeps \in BOOLEAN

Refuse == ans' = Failed /\ UNCHANGED files

Create(k) ==
    /\ call' = <<"create", k>>
    /\ k \notin DOMAIN files
    /\ IF Cardinality(DOMAIN files) = MaxFiles THEN Refuse
       ELSE /\ files' = [x \in DOMAIN files \cup {k} |-> IF x = k THEN Empty ELSE files[x]]
            /\ ans' = Done

Unlink(k) ==
    /\ call' = <<"unlink", k>>
    /\ k \in DOMAIN files
    /\ files' = Restrict(files, DOMAIN files \ {k})
    /\ ans' = Done

Rename(k, new) ==
    /\ call' = <<"rename", k, new>>
    /\ k \in DOMAIN files /\ new \notin DOMAIN files
    /\ IF new \in LongNames THEN Refuse
       ELSE /\ files' = [x \in (DOMAIN files \ {k}) \cup {new} |->
                            files[IF x = new THEN k ELSE x]]
            /\ ans' = Done

Open(k) ==
    /\ call' = <<"open", k>>
    /\ ans' = IF k \in DOMAIN files THEN Done ELSE Failed
    /\ UNCHANGED files

Stat(k) ==
    /\ call' = <<"getattr", k>>
    /\ ans' = IF k \in DOMAIN files THEN Cardinality(Written(k)) ELSE Failed
    /\ UNCHANGED files

Write(k, o, v) ==
    /\ call' = <<"write", k, o, v>>
    /\ k \in DOMAIN files
    /\ IF Full(files) THEN Refuse
       ELSE files' = [files EXCEPT ![k][o] = v] /\ ans' = Done

Read(k, o) ==
    /\ call' = <<"read", k, o>>
    /\ k \in DOMAIN files /\ o \in Written(k)
    /\ ans' = files[k][o]
    /\ UNCHANGED files

Remount ==
    /\ call' = <<"mount">>
    /\ files' = IF keeps THEN files ELSE NoFiles
    /\ ans' = Done

Next ==
    /\ UNCHANGED keeps
    /\ \/ \E k \in Keys : Create(k) \/ Unlink(k) \/ Open(k) \/ Stat(k)
       \/ \E k, new \in Keys : Rename(k, new)
       \/ \E k \in Keys, o \in Offsets : Read(k, o) \/ \E v \in Values : Write(k, o, v)
       \/ Remount

Spec == Init /\ [][Next]_vars
=============================================================================
