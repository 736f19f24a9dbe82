---------------------------- MODULE BlockDevice ----------------------------
(***************************************************************************)
(* What the object store expects of its data blocks, cached or not: the    *)
(* blocks in use hold the last value written, and a call of a FUSE worker  *)
(* takes effect at one moment between its start and its return.            *)
(***************************************************************************)
EXTENDS Functions

CONSTANTS Threads,  \* FUSE worker threads
          Blocks,   \* data block numbers
          Values,   \* block contents
          NoValue   \* the answer of a call that returns no contents

VARIABLES store,    \* contents of the blocks in use
          call      \* the call each thread is in

vars == <<store, call>>

Idle == [op |-> "idle"]
Answer(v) == [op |-> "done", value |-> v]

Init == store = [b \in {} |-> NoValue] /\ call = [t \in Threads |-> Idle]

(* Writing takes a block into use. *)
AskWrite(t, b, v) ==
    /\ call[t] = Idle
    /\ call' = [call EXCEPT ![t] = [op |-> "write", block |-> b, value |-> v]]
    /\ UNCHANGED store

AskRead(t, b) ==
    /\ call[t] = Idle /\ b \in DOMAIN store
    /\ call' = [call EXCEPT ![t] = [op |-> "read", block |-> b]]
    /\ UNCHANGED store

(* A block goes out of use. *)
Drop(t, b) ==
    /\ call[t] = Idle /\ b \in DOMAIN store
    /\ store' = Restrict(store, DOMAIN store \ {b})
    /\ call' = [call EXCEPT ![t] = Answer(NoValue)]

Write(t) ==
    /\ call[t].op = "write"
    /\ store' = [b \in DOMAIN store \cup {call[t].block} |->
                    IF b = call[t].block THEN call[t].value ELSE store[b]]
    /\ call' = [call EXCEPT ![t] = Answer(NoValue)]

Read(t) ==
    /\ call[t].op = "read"
    /\ call' = [call EXCEPT ![t] = Answer(store[call[t].block])]
    /\ UNCHANGED store

Return(t) ==
    /\ call[t].op = "done"
    /\ call' = [call EXCEPT ![t] = Idle]
    /\ UNCHANGED store

Next == \E t \in Threads :
    \/ \E b \in Blocks : AskRead(t, b) \/ Drop(t, b)
    \/ \E b \in Blocks, v \in Values : AskWrite(t, b, v)
    \/ Write(t) \/ Read(t) \/ Return(t)

Spec == Init /\ [][Next]_vars
=============================================================================
