------------------------------- MODULE OneTime -------------------------------
(***************************************************************************)
(* What the keeping of XMSS state promises, whatever files, locks and      *)
(* copies it is built on: a one-time slot (an index of a key) is in one    *)
(* hand at most, and once it has signed it is in no hand again.            *)
(*                                                                         *)
(* A signer takes a slot before it signs, a crash or an error drops what   *)
(* it holds, and the user may give up the protection of slots (xmssfgt(),  *)
(* a session with the record off): these leave the promise for good.       *)
(***************************************************************************)
EXTENDS TLAPS

CONSTANTS
    Slots,    \* the one-time slots
    Signers,  \* who signs
    Blocks    \* the sets of slots that can be taken in one step

VARIABLES
    hand,     \* the slots each signer has taken and not yet signed with
    spent,    \* the slots that have signed
    loose     \* the slots whose protection the user gave up

vars == <<hand, spent, loose>>

Held == UNION {hand[s] : s \in Signers}

Init ==
    /\ hand = [s \in Signers |-> {}]
    /\ spent \subseteq Slots
    /\ loose = {}

Take(s, S) ==
    /\ UNCHANGED <<spent, loose>>
    /\ hand' = [hand EXCEPT ![s] = @ \cup S]
    /\ S \cap (Held \cup spent \cup loose) = {}

Spend(s, x) ==
    /\ x \in hand[s]
    /\ hand' = [hand EXCEPT ![s] = @ \ {x}]
    /\ spent' = spent \cup {x}
    /\ UNCHANGED loose

\* Signers gone \subseteq Signers lose what they hold
Drop(gone) ==
    /\ hand' = [s \in Signers |-> IF s \in gone THEN {} ELSE hand[s]]
    /\ UNCHANGED <<spent, loose>>

GiveUp ==
    /\ loose \subseteq loose' /\ loose' \subseteq Slots
    /\ hand' = [s \in Signers |-> hand[s] \ loose']
    /\ spent' = spent \ loose'

Next ==
    \/ \E s \in Signers : \/ \E S \in Blocks : Take(s, S)
                          \/ \E x \in Slots : Spend(s, x)
    \/ \E gone \in SUBSET Signers : Drop(gone)
    \/ GiveUp

Spec == Init /\ [][Next]_vars

\* The promise: no slot is in two hands, and none that is held has signed.
Exclusive ==
    /\ \A s, t \in Signers : s # t => hand[s] \cap hand[t] = {}
    /\ Held \cap spent = {}

-----------------------------------------------------------------------------
(* It is kept by every behaviour.                                          *)

\* A signer's hand is always defined.
HandInv == hand = [s \in Signers |-> hand[s]]

LEMMA ExclusiveNext == HandInv /\ Exclusive /\ [Next]_vars => (HandInv /\ Exclusive)'
<1> SUFFICES ASSUME HandInv, Exclusive, [Next]_vars PROVE (HandInv /\ Exclusive)'
  OBVIOUS
<1>1. ASSUME NEW s \in Signers, NEW S \in Blocks, Take(s, S)
      PROVE  (HandInv /\ Exclusive)'
  <2>1. HandInv'
    BY <1>1 DEF Take, HandInv
  <2>2. \A t \in Signers : hand'[t] = IF t = s THEN hand[t] \cup S ELSE hand[t]
    BY <1>1 DEF Take, HandInv
  <2>3. \A t \in Signers : hand[t] \cap S = {}
    BY <1>1 DEF Take, Held
  <2>4. S \cap spent = {} /\ spent' = spent
    BY <1>1 DEF Take
  <2>5. \A t, u \in Signers : t # u => hand'[t] \cap hand'[u] = {}
    BY <2>2, <2>3 DEF Exclusive
  <2>6. \A t \in Signers : hand'[t] \cap spent' = {}
    BY <2>2, <2>4 DEF Exclusive, Held
  <2> QED BY <2>1, <2>5, <2>6 DEF Exclusive, Held
<1>2. ASSUME NEW s \in Signers, NEW x \in Slots, Spend(s, x)
      PROVE  (HandInv /\ Exclusive)'
  <2>1. HandInv'
    BY <1>2 DEF Spend, HandInv
  <2>2. \A t \in Signers : hand'[t] = IF t = s THEN hand[t] \ {x} ELSE hand[t]
    BY <1>2 DEF Spend, HandInv
  <2>3. x \in hand[s] /\ spent' = spent \cup {x}
    BY <1>2 DEF Spend
  <2>4. \A t \in Signers : x \notin hand'[t]
    BY <2>2, <2>3 DEF Exclusive
  <2>5. \A t, u \in Signers : t # u => hand'[t] \cap hand'[u] = {}
    BY <2>2 DEF Exclusive
  <2>6. \A t \in Signers : hand'[t] \cap spent' = {}
    <3>1. \A t \in Signers : hand'[t] \cap spent = {}
      BY <2>2 DEF Exclusive, Held
    <3> QED BY <2>3, <2>4, <3>1
  <2> QED BY <2>1, <2>5, <2>6 DEF Exclusive, Held
<1>3. ASSUME HandInv', spent' \subseteq spent,
             \A t \in Signers : hand'[t] \subseteq hand[t]
      PROVE  (HandInv /\ Exclusive)'
  BY <1>3 DEF Exclusive, Held
<1>4. ASSUME NEW gone \in SUBSET Signers, Drop(gone)
      PROVE  (HandInv /\ Exclusive)'
  BY <1>3, <1>4 DEF Drop, HandInv
<1>5. CASE GiveUp
  BY <1>3, <1>5 DEF GiveUp, HandInv
<1>6. CASE UNCHANGED vars
  BY <1>6 DEF vars, HandInv, Exclusive, Held
<1> QED BY <1>1, <1>2, <1>4, <1>5, <1>6 DEF Next

\* Whoever implements OneTime never lets two signers hold one slot, nor a signer
\* hold a slot that has signed.
THEOREM StaysExclusive == Spec => []Exclusive
<1>1. Init => HandInv /\ Exclusive
  BY DEF Init, HandInv, Exclusive, Held
<1> QED BY <1>1, ExclusiveNext, PTL DEF Spec
=============================================================================
