------------------------------ MODULE KeyStore ------------------------------
(***************************************************************************)
(* What the object store promises: files found by key, created empty,      *)
(* renamed and removed at once, whose blocks hold the last value written   *)
(* at each offset.  A read or a write takes effect at one moment between   *)
(* its start and its return.                                               *)
(***************************************************************************)
EXTENDS Functions

CONSTANTS Threads,  \* FUSE worker threads
          Keys,     \* names of objects
          Offsets,  \* block offsets within an object
          Values,   \* block contents
          NoValue,  \* contents of an offset never written
          Failed    \* the answer of a write that failed

VARIABLES files,    \* the contents of every existing file
          call      \* the call each thread is in

vars == <<files, call>>

Idle == [op |-> "idle"]
Answer(v) == [op |-> "done", value |-> v]
Empty == [o \in Offsets |-> NoValue]

Init == files = [k \in {} |-> Empty] /\ call = [t \in Threads |-> Idle]

Answered(t, v) == call' = [call EXCEPT ![t] = Answer(v)]

Create(t, k) ==
    /\ call[t] = Idle /\ k \notin DOMAIN files
    /\ files' = [x \in DOMAIN files \cup {k} |-> IF x = k THEN Empty ELSE files[x]]
    /\ Answered(t, NoValue)

Unlink(t, k) ==
    /\ call[t] = Idle /\ k \in DOMAIN files
    /\ files' = Restrict(files, DOMAIN files \ {k})
    /\ Answered(t, NoValue)

Rename(t, k, l) ==
    /\ call[t] = Idle /\ k \in DOMAIN files /\ l \notin DOMAIN files
    /\ files' = [x \in (DOMAIN files \ {k}) \cup {l} |-> files[IF x = l THEN k ELSE x]]
    /\ Answered(t, NoValue)

(* A call that changes nothing: a look-up, or a failed one. *)
Query(t) ==
    /\ call[t] = Idle
    /\ Answered(t, NoValue)
    /\ UNCHANGED files

Ask(t, request) ==
    /\ call[t] = Idle /\ request.key \in DOMAIN files
    /\ call' = [call EXCEPT ![t] = request]
    /\ UNCHANGED files

Write(t) ==
    /\ call[t].op = "write"
    /\ files' = [files EXCEPT ![call[t].key][call[t].off] = call[t].value]
    /\ Answered(t, NoValue)

(* There may be no room for a block. *)
Fail(t) ==
    /\ call[t].op = "write"
    /\ Answered(t, Failed)
    /\ UNCHANGED files

Read(t) ==
    /\ call[t].op = "read"
    /\ Answered(t, files[call[t].key][call[t].off])
    /\ UNCHANGED files

Return(t) ==
    /\ call[t].op = "done"
    /\ call' = [call EXCEPT ![t] = Idle]
    /\ UNCHANGED files

Next == \E t \in Threads :
    \/ \E k \in Keys : Create(t, k) \/ Unlink(t, k) \/ \E l \in Keys : Rename(t, k, l)
    \/ \E k \in Keys, o \in Offsets :
          \/ Ask(t, [op |-> "read", key |-> k, off |-> o])
          \/ \E v \in Values : Ask(t, [op |-> "write", key |-> k, off |-> o, value |-> v])
    \/ Query(t) \/ Write(t) \/ Fail(t) \/ Read(t) \/ Return(t)

Spec == Init /\ [][Next]_vars
=============================================================================
