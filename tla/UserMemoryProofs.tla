-------------------------- MODULE UserMemoryProofs --------------------------
(***************************************************************************)
(* What the promised memory gives a process, for every layout: no page     *)
(* outside of what expand granted ever holds anything, whatever was        *)
(* expanded, touched and shrunk before, and in whichever order.            *)
(***************************************************************************)
EXTENDS UserMemory, TLAPS

(* Pages and bounds are numbers. *)
Layout == /\ Pages \subseteq Int /\ CodePages \in Int /\ Sizes \subseteq Nat
          /\ \A seg \in {"CODE", "RODATA", "DATA", "STACK"} :
                Start[seg] \in Int /\ End[seg] \in Int /\ Start[seg] < End[seg]

AllUsable == UNION {Usable(seg) : seg \in {"CODE", "RODATA", "DATA", "STACK"}}

(* A page that holds something belongs to a process that runs, and lies in *)
(* its code, its stack or below a limit: shrink leaves nothing behind.     *)
OnlyGrantedHeld == \A p \in Pages : content[p] # Untouched => alive /\ p \in AllUsable

HeldInv == /\ limit \in [Movable -> Int]
           /\ DOMAIN content = Pages
           /\ OnlyGrantedHeld

(* Growing keeps what could be used. *)
LEMMA UsableGrows ==
    ASSUME Layout, limit \in [Movable -> Int], limit' \in [Movable -> Int],
           \A seg \in Movable : limit[seg] <= limit'[seg]
    PROVE  AllUsable \subseteq AllUsable'
  BY DEF Layout, AllUsable, Usable, Movable

(* No step leaves contents on a page that is not granted. *)
LEMMA HeldStep ==
    ASSUME Layout, HeldInv, [Next]_vars
    PROVE  HeldInv'
  <1>1. CASE UNCHANGED <<alive, limit, content>>
    BY <1>1 DEF HeldInv, OnlyGrantedHeld, AllUsable, Usable
  <1>2. ASSUME Gone PROVE HeldInv'
    BY <1>2 DEF Gone, HeldInv, OnlyGrantedHeld, NoLimits, Layout, Movable
  <1>3. CASE Begin
    <2>1. limit' = [seg \in Movable |-> IF seg = "DATA" THEN Start[seg] + 1 ELSE Start[seg]]
      BY <1>3 DEF Begin, NoLimits, Movable
    <2>2. Loaded \subseteq AllUsable'
      BY <2>1 DEF Loaded, AllUsable, Usable, Movable, Layout
    <2>3. alive' /\ content' = [p \in Pages |-> IF p \in Loaded THEN Old ELSE Untouched]
      BY <1>3 DEF Begin
    <2>4. limit' \in [Movable -> Int]
      BY <2>1 DEF Layout, Movable
    <2>5. OnlyGrantedHeld'
      BY <2>2, <2>3 DEF OnlyGrantedHeld
    <2> QED BY <2>3, <2>4, <2>5 DEF HeldInv
  <1>4. ASSUME NEW p \in Pages, Load(p) PROVE HeldInv'
    BY <1>4, <1>1 DEF Load
  <1>5. ASSUME NEW p \in Pages, NEW v \in Values, Store(p, v) PROVE HeldInv'
    <2>1. p \in AllUsable
      BY <1>5 DEF Store, Legal, AllUsable
    <2>2. AllUsable' = AllUsable
      BY <1>5 DEF Store, AllUsable, Usable
    <2> QED BY <1>5, <2>1, <2>2 DEF Store, HeldInv, OnlyGrantedHeld
  <1>6. ASSUME NEW p \in Pages, NEW w \in BOOLEAN, Touch(p, w) PROVE HeldInv'
    <2>1. p \in AllUsable
      BY <1>6 DEF Touch, Legal, AllUsable
    <2>2. AllUsable' = AllUsable
      BY <1>6 DEF Touch, AllUsable, Usable
    <2> QED BY <1>6, <2>1, <2>2 DEF Touch, HeldInv, OnlyGrantedHeld
  <1>7. ASSUME NEW p \in Pages, NEW q \in Pages, Write(p, q) \/ WriteNothing(p, q)
        PROVE  HeldInv'
    BY <1>7, <1>1 DEF Write, WriteNothing
  <1>8. CASE WriteLong
    BY <1>8, <1>1 DEF WriteLong
  <1>9. ASSUME NEW p \in Pages, NEW w \in BOOLEAN, Kill(p, w) PROVE HeldInv'
    BY <1>9, <1>2 DEF Kill
  <1>10. ASSUME NEW seg \in Movable, NEW n \in Sizes, Expand(seg, n) PROVE HeldInv'
    <2>1. CASE UNCHANGED limit
      BY <1>10, <2>1, <1>1 DEF Expand
    <2>2. CASE limit' = [limit EXCEPT ![seg] = @ + n]
      <3>1. n \in Nat /\ limit[seg] \in Int /\ limit' \in [Movable -> Int]
        BY <2>2 DEF Layout, HeldInv
      <3>2. \A s \in Movable : limit[s] <= limit'[s]
        BY <2>2, <3>1 DEF HeldInv
      <3>3. AllUsable \subseteq AllUsable'
        BY <3>1, <3>2, UsableGrows DEF HeldInv
      <3>4. alive' = alive /\ content' = content
        BY <1>10 DEF Expand
      <3> QED BY <3>1, <3>3, <3>4 DEF HeldInv, OnlyGrantedHeld
    <2> QED BY <1>10, <2>1, <2>2 DEF Expand
  <1>11. ASSUME NEW seg \in Movable, NEW n \in Sizes, Shrink(seg, n) PROVE HeldInv'
    <2>1. CASE UNCHANGED <<limit, content>>
      BY <1>11, <2>1, <1>1 DEF Shrink
    <2>2. CASE /\ limit' = [limit EXCEPT ![seg] = @ - n]
               /\ content' = [p \in Pages |-> IF p \in limit[seg]-n..limit[seg]-1
                                              THEN Untouched ELSE content[p]]
      <3>1. n \in Nat /\ limit[seg] \in Int /\ limit' \in [Movable -> Int] /\ alive' = alive
        BY <1>11, <2>2 DEF Layout, HeldInv, Shrink
      <3>2. ASSUME NEW p \in Pages, content'[p] # Untouched
            PROVE  alive /\ p \in AllUsable'
        <4>1. p \notin limit[seg]-n..limit[seg]-1 /\ content[p] # Untouched
          BY <2>2, <3>2
        <4>2. alive /\ p \in Int /\ \E s \in {"CODE", "RODATA", "DATA", "STACK"} : p \in Usable(s)
          BY <4>1 DEF HeldInv, OnlyGrantedHeld, AllUsable, Layout
        <4>3. PICK s \in {"CODE", "RODATA", "DATA", "STACK"} : p \in Usable(s)
          BY <4>2
        <4>4. CASE s \in Movable
          <5>1. p \in Start[s]..limit[s]-1
            BY <4>3, <4>4 DEF Usable, Movable
          <5>2. p \in Start[s]..limit'[s]-1
            BY <2>2, <3>1, <4>1, <4>2, <4>4, <5>1 DEF HeldInv, Layout, Movable
          <5> QED BY <4>2, <4>4, <5>2 DEF AllUsable, Usable, Movable
        <4>5. CASE s \notin Movable
          BY <4>2, <4>3, <4>5 DEF AllUsable, Usable, Movable
        <4> QED BY <4>4, <4>5
      <3> QED BY <2>2, <3>1, <3>2 DEF HeldInv, OnlyGrantedHeld
    <2> QED BY <1>11, <2>1, <2>2 DEF Shrink
  <1>12. CASE Exit
    BY <1>12, <1>2 DEF Exit
  <1>13. CASE UNCHANGED vars
    BY <1>13, <1>1 DEF vars
  <1> QED BY <1>3, <1>4, <1>5, <1>6, <1>7, <1>8, <1>9, <1>10, <1>11, <1>12, <1>13 DEF Next

(* Nothing outside of what expand granted is ever held, for every layout.  *)
THEOREM OnlyGrantedPagesHeld == Layout /\ Spec => []OnlyGrantedHeld
  <1> SUFFICES ASSUME Layout PROVE Spec => []OnlyGrantedHeld
    OBVIOUS
  <1>1. Init => HeldInv
    BY DEF Init, NoLimits, HeldInv, OnlyGrantedHeld, Layout, Movable
  <1>2. HeldInv /\ [Next]_vars => HeldInv'
    BY HeldStep
  <1>3. HeldInv => OnlyGrantedHeld
    BY DEF HeldInv
  <1> QED BY <1>1, <1>2, <1>3, PTL DEF Spec
=============================================================================
