-------------------------- MODULE XmssRecordProofs --------------------------
(***************************************************************************)
(* Proofs about XmssRecord, for any sessions, keys and capacity.           *)
(*                                                                         *)
(* NoIndexReuse is not inductive.  Its strengthening says what a session   *)
(* inside the lock knows: the index it is retiring is not retired yet, and *)
(* the record it is about to write, or has written, shows every retired    *)
(* index without the help of the old xmss_index.json.                      *)
(***************************************************************************)
EXTENDS XmssRecord, TLAPS

\* Whoever is inside the locked function holds the lock.
LockInv == \A s \in Sessions : pc[s] \in InLock => holder = s

\* The files as processes see them are among what a power cut may leave.
VisibleInv == rec \in recMay /\ json \in jsonMay

\* A call that signs has a real index, and only such a call reaches "sign".
SignInv ==
    \A s \in Sessions :
        /\ op[s].kind = "sign" => op[s].idx \in Index
        /\ pc[s] = "sign" => op[s].kind = "sign"

\* A key that signs or has signed exists; a key being reset is exempt.
CallFine(s) ==
    /\ op[s].kind = "sign" => copies[op[s].key] # {}
    /\ op[s].kind = "forget" => op[s].key \in exempt

CallInv ==
    /\ \A k \in Keys, i \in Index : <<k, i>> \in signed => copies[k] # {}
    /\ \A s \in Sessions : CallFine(s)

\* A record shows every retired index of the keys that are not exempt
Complete(r) ==
    \A k \in Keys \ exempt, i \in Index : Retired(k, i) => Shows(r, k, i)

\* The record in the making, and the record just written, are complete and
\* show the index being retired.
WriteInv ==
    \A s \in Sessions :
        /\ pc[s] \in {"write", "tmp"} =>
              /\ Complete(buf[s])
              /\ op[s].kind = "sign" /\ op[s].key \notin exempt =>
                    Shows(buf[s], op[s].key, op[s].idx)
        /\ pc[s] = "renamed" =>
              /\ Complete(rec)
              /\ op[s].kind = "sign" /\ op[s].key \notin exempt =>
                    Shows(rec, op[s].key, op[s].idx)
        /\ pc[s] = "written" => \A r \in recMay : Complete(r)
        /\ pc[s] \in {"written", "done"} =>
              (op[s].kind = "sign" /\ op[s].key \notin exempt =>
                   \A r \in recMay : Shows(r, op[s].key, op[s].idx))

\* The index a session inside the lock is retiring is not retired yet.
PendingInv ==
    \A s \in Sessions :
        pc[s] \in InLock \ {"held"} /\ op[s].kind = "sign"
            /\ op[s].key \notin exempt
        => ~Retired(op[s].key, op[s].idx)

\* An index about to sign has not signed and is nobody else's.
SoleInv ==
    \A s \in Sessions :
        pc[s] = "sign" /\ op[s].key \notin exempt =>
            /\ <<op[s].key, op[s].idx>> \notin signed
            /\ \A t \in Sessions \ {s} :
                  ~(pc[t] = "sign" /\ op[t].key = op[s].key
                                   /\ op[t].idx = op[s].idx)

\* The inductive invariant.
IInv ==
    /\ TypeOK /\ SignInv
    /\ LockInv
    /\ VisibleInv
    /\ CallInv
    /\ RetiredOnDisk
    /\ WriteInv
    /\ PendingInv
    /\ SoleInv
    /\ NoIndexReuse
    /\ TmpIntact

-----------------------------------------------------------------------------
USE ConstantsAssumption

\* The empty record, the idle call and the larger of two entries have their
\* types, and reading the record yields a record that is no lower than the
\* file and includes the old xmss_index.json while that is there.
LEMMA Helpers ==
    /\ EmptyRecord \in Record
    /\ NoCall \in Call
    /\ \A a, b \in Entry : Larger(a, b) \in Entry /\ Larger(a, b) >= a /\ Larger(a, b) >= b
    /\ \A a, b \in 0 .. Capacity : Larger(a, b) \in 0 .. Capacity
    /\ -1 \in Entry /\ Absent \in Entry /\ Index \subseteq Entry
  BY DEF EmptyRecord, Record, NoCall, Call, Kinds, Entry, Index, Absent, Larger

LEMMA RecordReadIs ==
    ASSUME TypeOK
    PROVE  /\ RecordRead \in Record
           /\ RecordRead.id = rec.id
           /\ \A k \in Keys : RecordRead.legacy[k] >= rec.legacy[k]
           /\ json => \A k \in Keys : RecordRead.legacy[k] >= LegacyIndex[k]
<1>1. rec \in Record /\ json \in BOOLEAN
  BY DEF TypeOK
<1>2. \A k \in Keys : rec.legacy[k] \in Entry /\ LegacyIndex[k] \in Entry /\ rec.id \in [Keys -> Entry]
  BY <1>1 DEF Record
<1>3. \A k \in Keys : rec.legacy[k] >= rec.legacy[k]
  BY <1>2 DEF Entry, Absent
<1> QED
  BY <1>1, <1>2, <1>3, Helpers DEF RecordRead, Record

\* The highest index known of a key is an entry, no lower than -1, than the
\* session's memory or than the record.
LEMMA HighestIs ==
    ASSUME TypeOK, NEW s \in Sessions, NEW k \in Keys, NEW r \in Record
    PROVE  /\ Highest(s, k, r) \in Entry
           /\ Highest(s, k, r) >= -1
           /\ Highest(s, k, r) >= r.id[k]
           /\ Highest(s, k, r) >= r.legacy[k]
           /\ Highest(s, k, r) >= mem[s][k]
<1>1. mem[s][k] \in Entry /\ r.id[k] \in Entry /\ r.legacy[k] \in Entry
  BY DEF TypeOK, Record
<1>2. Larger(-1, mem[s][k]) \in Entry /\ Larger(r.id[k], r.legacy[k]) \in Entry
  BY <1>1, Helpers
<1> QED
  BY <1>1, <1>2, Helpers DEF Highest, Larger, Entry, Absent

\* Giving a key another copy, or changing what a session remembers of a key,
\* keeps the types.
LEMMA CopyAdded ==
    ASSUME TypeOK, NEW k \in Keys, NEW n \in 0 .. Capacity
    PROVE  [copies EXCEPT ![k] = @ \cup {n}] \in [Keys -> SUBSET (0 .. Capacity)]
<1>1. copies[k] \cup {n} \in SUBSET (0 .. Capacity)
  BY DEF TypeOK
<1> QED
  BY <1>1 DEF TypeOK

LEMMA MemoryChanged ==
    ASSUME TypeOK, NEW s \in Sessions, NEW k \in Keys, NEW e \in Entry
    PROVE  [mem EXCEPT ![s][k] = e] \in [Sessions -> [Keys -> Entry]]
<1>1. [mem[s] EXCEPT ![k] = e] \in [Keys -> Entry]
  BY DEF TypeOK
<1> QED
  BY <1>1 DEF TypeOK

LEMMA MadeChanged ==
    ASSUME TypeOK, NEW s \in Sessions, NEW S \in SUBSET (Keys \X Index)
    PROVE  [made EXCEPT ![s] = S] \in [Sessions -> SUBSET (Keys \X Index)]
  BY DEF TypeOK

-----------------------------------------------------------------------------
\* Every reachable state has its types.
LEMMA TypeInit == Init => TypeOK /\ SignInv
<1> SUFFICES ASSUME Init PROVE TypeOK /\ SignInv
  OBVIOUS
<1>1. copies \in [Keys -> SUBSET (0 .. Capacity)]
  BY DEF Init, Entry, Absent
<1>2. mem \in [Sessions -> [Keys -> Entry]]
  BY Helpers DEF Init
<1>3. made \in [Sessions -> SUBSET (Keys \X Index)]
  BY DEF Init
<1>4. pc \in [Sessions -> Phases] /\ op \in [Sessions -> Call]
      /\ buf \in [Sessions -> Record]
  BY Helpers DEF Init, Phases
<1>5. SignInv
  BY DEF Init, SignInv, NoCall
<1> QED
  BY <1>1, <1>2, <1>3, <1>4, <1>5, Helpers DEF Init, TypeOK

LEMMA TypeNext == TypeOK /\ SignInv /\ [Next]_vars => TypeOK'
<1> SUFFICES ASSUME TypeOK, SignInv, [Next]_vars PROVE TypeOK'
  OBVIOUS
<1> USE Helpers
<1>0. 0 \in Index /\ 0 \in Entry
  BY DEF Index, Entry, Absent
<1> USE DEF TypeOK
<1>1. ASSUME NEW s \in Sessions, NEW k \in Keys, NEW i \in 0 .. Capacity,
             BeginSign(s, k, i) \/ SignOff(s, k, i)
      PROVE TypeOK'
  <2>1. CASE BeginSign(s, k, i)
    BY <1>1, <2>1 DEF BeginSign, Start, Goto, Call, Kinds, Phases, recordVars, historyVars
  <2>2. CASE SignOff(s, k, i)
    BY <1>1, <2>2 DEF SignOff, Goto, Call, Kinds, Phases, recordVars
  <2> QED BY <1>1, <2>1, <2>2
<1>2. ASSUME NEW s \in Sessions, NEW k \in Keys, BeginFresh(s, k)
      PROVE TypeOK'
  BY <1>2, <1>0 DEF BeginFresh, Start, Goto, Call, Kinds, Phases, recordVars, historyVars
<1>3. ASSUME NEW s \in Sessions, NEW k \in Keys, Regenerate(s, k)
      PROVE TypeOK'
  <2>1. copies' \in [Keys -> SUBSET (0 .. Capacity)]
    BY <1>3, CopyAdded, 0 \in 0 .. Capacity DEF Regenerate
  <2> QED
    BY <1>3, <2>1 DEF Regenerate, recordVars, historyVars, sessionVars
<1>4. ASSUME NEW s \in Sessions, NEW k \in Keys, BeginRegister(s, k)
      PROVE TypeOK'
  BY <1>4, <1>0 DEF BeginRegister, Start, Goto, Call, Kinds, Phases, recordVars, historyVars
<1>5. ASSUME NEW s \in Sessions, NEW k \in Keys, RegisterOff(s, k)
      PROVE TypeOK'
  <2>1. copies' \in [Keys -> SUBSET (0 .. Capacity)]
    BY <1>5, 0 \in 0 .. Capacity DEF RegisterOff
  <2>2. mem' \in [Sessions -> [Keys -> Entry]]
    BY <1>5, MemoryChanged DEF RegisterOff
  <2> QED
    BY <1>5, <2>1, <2>2 DEF RegisterOff, recordVars, historyVars
<1>6. ASSUME NEW s \in Sessions, NEW k \in Keys, BeginForget(s, k)
      PROVE TypeOK'
  <2>1. mem' \in [Sessions -> [Keys -> Entry]]
    BY <1>6, MemoryChanged DEF BeginForget
  <2>2. made' \in [Sessions -> SUBSET (Keys \X Index)]
    BY <1>6 DEF BeginForget
  <2>3. op' \in [Sessions -> Call] /\ pc' \in [Sessions -> Phases]
    BY <1>6, <1>0 DEF BeginForget, Start, Goto, Call, Kinds, Phases
  <2> QED
    BY <1>6, <2>1, <2>2, <2>3 DEF BeginForget, recordVars
<1>7. ASSUME NEW s \in Sessions, NEW k \in Keys, ForgetOff(s, k)
      PROVE TypeOK'
  BY <1>7 DEF ForgetOff, recordVars
<1>8. ASSUME NEW s \in Sessions, NEW k \in Keys, NEW i \in Index,
             NEW next \in 0 .. Capacity,
             Advance(s, k, i, next)
      PROVE TypeOK'
  <2> DEFINE r  == IF s \in On THEN RecordRead ELSE EmptyRecord
             hi == Highest(s, k, r)
  <2>1. hi \in Entry /\ hi >= -1
    BY RecordReadIs, HighestIs
  <2> HIDE DEF hi
  <2>2. Larger(next, Larger(i + 1, hi + 1)) \in 0 .. Capacity
    <3>1. i + 1 \in 0 .. Capacity /\ hi + 1 \in 0 .. Capacity
      BY <2>1 DEF Index, Entry
    <3> QED BY <3>1
  <2>3. copies' = [copies EXCEPT ![k] = @ \cup {Larger(next, Larger(i + 1, hi + 1))}]
    BY <1>8 DEF Advance, hi
  <2>4. copies' \in [Keys -> SUBSET (0 .. Capacity)]
    BY <2>2, <2>3, CopyAdded
  <2> QED
    BY <1>8, <2>4 DEF Advance, recordVars, historyVars, sessionVars
<1>9. ASSUME NEW s \in Sessions, ForgetAll(s)
      PROVE TypeOK'
  BY <1>9 DEF ForgetAll
<1>10. ASSUME NEW s \in Sessions, Acquire(s) PROVE TypeOK'
  BY <1>10 DEF Acquire, Goto, Phases, InLock, recordVars, historyVars
<1>11. ASSUME NEW s \in Sessions, GiveUp(s) PROVE TypeOK'
  BY <1>11 DEF GiveUp, End, Phases, recordVars, historyVars
<1>12. ASSUME NEW s \in Sessions, Fail(s) PROVE TypeOK'
  BY <1>12 DEF Fail, End, Phases, historyVars
<1>13. ASSUME NEW s \in Sessions, Reserve(s) PROVE TypeOK'
  <2>1. WithIndex(RecordRead, op[s].key, op[s].idx) \in Record
    BY RecordReadIs DEF Call, Record, WithIndex
  <2> QED
    BY <1>13, <2>1 DEF Reserve, Goto, Phases, InLock, recordVars, historyVars
<1>14. ASSUME NEW s \in Sessions, Register(s) PROVE TypeOK'
  <2> DEFINE k == op[s].key
             hi == Highest(s, k, RecordRead)
  <2>0. k \in Keys /\ op[s] \in Call
    BY DEF Call
  <2>1. hi \in Entry
    BY <2>0, RecordReadIs, HighestIs
  <2>2. WithIndex(RecordRead, k, hi) \in Record
    BY <2>0, <2>1, RecordReadIs DEF Record, WithIndex
  <2>3. [op EXCEPT ![s] = [kind |-> @.kind, key |-> k, idx |-> hi]] \in [Sessions -> Call]
    BY <2>0, <2>1 DEF Call
  <2>4. buf' \in [Sessions -> Record]
    <3>1. buf' = buf \/ buf' = [buf EXCEPT ![s] = WithIndex(RecordRead, k, hi)]
      BY <1>14 DEF Register
    <3>2. [buf EXCEPT ![s] = WithIndex(RecordRead, k, hi)] \in [Sessions -> Record]
      BY <2>2
    <3> QED BY <3>1, <3>2
  <2>5. op' \in [Sessions -> Call]
    BY <1>14, <2>3 DEF Register
  <2>6. pc' \in [Sessions -> Phases]
    BY <1>14 DEF Register, Goto, Phases, InLock
  <2> QED
    BY <1>14, <2>4, <2>5, <2>6 DEF Register, recordVars, historyVars
<1>15. ASSUME NEW s \in Sessions, Forget(s) PROVE TypeOK'
  <2>1. [id |-> [rec.id EXCEPT ![op[s].key] = -1],
            legacy |-> [RecordRead.legacy EXCEPT ![op[s].key] = Absent]] \in Record
    BY RecordReadIs DEF Call, Record, WithIndex
  <2> QED
    BY <1>15, <2>1 DEF Forget, Goto, Phases, InLock, recordVars, historyVars
<1>16. ASSUME NEW s \in Sessions, WriteTmp(s) PROVE TypeOK'
  BY <1>16 DEF WriteTmp, Goto, Phases, InLock, historyVars
<1>17. ASSUME NEW s \in Sessions, Rename(s) PROVE TypeOK'
  <2>1. rec' \in Record /\ recMay' \subseteq Record /\ buf' \in [Sessions -> Record]
    BY <1>17 DEF Rename
  <2> QED
    BY <1>17, <2>1 DEF Rename, Goto, Phases, InLock, historyVars
<1>18. ASSUME NEW s \in Sessions, SyncDir(s) PROVE TypeOK'
  BY <1>18 DEF SyncDir, Goto, Phases, InLock, historyVars
<1>19. ASSUME NEW s \in Sessions, Migrate(s) PROVE TypeOK'
  BY <1>19 DEF Migrate, Goto, Phases, InLock, historyVars
<1>20. ASSUME NEW s \in Sessions, Return(s) PROVE TypeOK'
  <2>1. op[s].key \in Keys /\ op[s].idx \in Entry
    BY DEF Call
  <2>2. copies' \in [Keys -> SUBSET (0 .. Capacity)] /\ mem' \in [Sessions -> [Keys -> Entry]]
    <3>1. copies' \in [Keys -> SUBSET (0 .. Capacity)]
      BY <1>20, <2>1, CopyAdded, 0 \in 0 .. Capacity DEF Return
    <3>2. mem' \in [Sessions -> [Keys -> Entry]]
      BY <1>20, <2>1, MemoryChanged DEF Return
    <3> QED BY <3>1, <3>2
  <2>3. pc' \in [Sessions -> Phases] /\ op' \in [Sessions -> Call] /\ buf' \in [Sessions -> Record]
    <3>1. CASE op[s].kind = "sign"
      BY <1>20, <3>1 DEF Return, Goto, Phases
    <3>2. CASE op[s].kind # "sign"
      <4>1. End(s)
        BY <1>20, <3>2 DEF Return
      <4> QED
        BY <4>1 DEF End, Phases
    <3> QED BY <3>1, <3>2
  <2> QED
    BY <1>20, <2>2, <2>3 DEF Return, recordVars, historyVars
<1>21. ASSUME NEW s \in Sessions, MakeSignature(s) \/ SignFails(s) PROVE TypeOK'
  <2>1. CASE SignFails(s)
    BY <2>1 DEF SignFails, End, Phases, recordVars, historyVars
  <2>2. CASE MakeSignature(s)
    <3>1. <<op[s].key, op[s].idx>> \in Keys \X Index
      BY <2>2 DEF Call, MakeSignature, SignInv
    <3>2. made' \in [Sessions -> SUBSET (Keys \X Index)]
      BY <2>2, <3>1 DEF MakeSignature
    <3>3. pc' \in [Sessions -> Phases] /\ op' \in [Sessions -> Call] /\ buf' \in [Sessions -> Record]
      BY <2>2 DEF MakeSignature, End, Phases
    <3> QED
      BY <2>2, <3>1, <3>2, <3>3 DEF MakeSignature, recordVars
  <2> QED BY <1>21, <2>1, <2>2
<1>22. ASSUME NEW s \in Sessions, Crash(s) PROVE TypeOK'
  BY <1>22 DEF Crash, End, Phases, recordVars
<1>23. CASE PowerCut
  BY <1>23 DEF PowerCut, Phases
<1>24. CASE UNCHANGED vars
  BY <1>24 DEF vars, recordVars, sessionVars, historyVars
<1>25. ASSUME NEW s \in Sessions, Begin(s) PROVE TypeOK'
  <2>1. ASSUME NEW k \in Keys, BeginWith(s, k) PROVE TypeOK'
    <3>1. CASE \E i \in 0 .. Capacity : BeginSign(s, k, i) \/ SignOff(s, k, i)
      BY <1>1, <3>1
    <3>2. CASE \E i \in Index, next \in 0 .. Capacity :
                  Advance(s, k, i, next)
      <4>1. PICK i \in Index, next \in 0 .. Capacity :
               Advance(s, k, i, next)
        BY <3>2
      <4> QED BY <1>8, <4>1
    <3> QED
      BY <2>1, <3>1, <3>2, <1>2, <1>3, <1>4, <1>5, <1>6, <1>7 DEF BeginWith
  <2> QED
    BY <1>9, <1>25, <2>1 DEF Begin
<1>26. ASSUME NEW s \in Sessions, Progress(s) PROVE TypeOK'
  BY <1>10, <1>11, <1>12, <1>13, <1>14, <1>15, <1>16, <1>17, <1>18, <1>19,
     <1>20, <1>21, <1>26 DEF Progress
<1> QED
  BY <1>22, <1>23, <1>24, <1>25, <1>26 DEF Next


\* ... and signs with a real index.
LEMMA SignNext == TypeOK /\ SignInv /\ [Next]_vars => SignInv'
<1> SUFFICES ASSUME TypeOK, SignInv, [Next]_vars, NEW s \in Sessions
             PROVE  /\ op'[s].kind = "sign" => op'[s].idx \in Index
                    /\ pc'[s] = "sign" => op'[s].kind = "sign"
  BY DEF SignInv
<1> USE DEF TypeOK, SignInv
<1>1. ASSUME NEW t \in Sessions, Begin(t)
      PROVE  /\ op'[s].kind = "sign" => op'[s].idx \in Index
             /\ pc'[s] = "sign" => op'[s].kind = "sign"
  <2>1. CASE ForgetAll(t)
    BY <2>1 DEF ForgetAll
  <2>2. ASSUME NEW k \in Keys, NEW i \in 0 .. Capacity,
               BeginSign(t, k, i) \/ SignOff(t, k, i)
        PROVE  /\ op'[s].kind = "sign" => op'[s].idx \in Index
               /\ pc'[s] = "sign" => op'[s].kind = "sign"
    <3>1. CASE BeginSign(t, k, i)
      BY <3>1 DEF BeginSign, Start, Goto
    <3>2. CASE SignOff(t, k, i)
      BY <3>2 DEF SignOff, Goto
    <3> QED BY <2>2, <3>1, <3>2
  <2>3. ASSUME NEW k \in Keys,
               BeginFresh(t, k) \/ BeginRegister(t, k) \/ BeginForget(t, k)
        PROVE  /\ op'[s].kind = "sign" => op'[s].idx \in Index
               /\ pc'[s] = "sign" => op'[s].kind = "sign"
    BY <2>3 DEF BeginFresh, BeginRegister, BeginForget, Start, Goto
  <2>4. ASSUME NEW k \in Keys,
               \/ Regenerate(t, k) \/ RegisterOff(t, k) \/ ForgetOff(t, k)
               \/ \E i \in Index, next \in 0 .. Capacity :
                     Advance(t, k, i, next)
        PROVE  pc' = pc /\ op' = op
    BY <2>4 DEF Regenerate, RegisterOff, ForgetOff, Advance, sessionVars
  <2> QED
    BY <1>1, <2>1, <2>2, <2>3, <2>4 DEF Begin, BeginWith
<1>2. ASSUME NEW t \in Sessions, Progress(t)
      PROVE  /\ op'[s].kind = "sign" => op'[s].idx \in Index
             /\ pc'[s] = "sign" => op'[s].kind = "sign"
  <2>1. CASE Register(t)
    BY <2>1 DEF Register, Goto
  <2>2. CASE Return(t)
    <3>1. CASE op[t].kind = "sign"
      BY <2>2, <3>1 DEF Return, Goto
    <3>2. CASE op[t].kind # "sign"
      <4>1. End(t)
        BY <2>2, <3>2 DEF Return
      <4> QED
        BY <4>1 DEF End, NoCall
    <3> QED BY <3>1, <3>2
  <2>3. CASE GiveUp(t) \/ Fail(t) \/ MakeSignature(t) \/ SignFails(t)
    BY <2>3 DEF GiveUp, Fail, MakeSignature, SignFails, End, NoCall
  <2>4. CASE Acquire(t) \/ Reserve(t) \/ Forget(t) \/ WriteTmp(t) \/ Rename(t)
             \/ SyncDir(t) \/ Migrate(t)
    BY <2>4 DEF Acquire, Reserve, Forget, WriteTmp, Rename, SyncDir, Migrate, Goto
  <2> QED
    BY <1>2, <2>1, <2>2, <2>3, <2>4 DEF Progress
<1>3. CASE PowerCut \/ \E t \in Sessions : Crash(t)
  BY <1>3 DEF PowerCut, Crash, End, NoCall
<1>4. CASE UNCHANGED vars
  BY <1>4 DEF vars, sessionVars
<1> QED
  BY <1>1, <1>2, <1>3, <1>4 DEF Next

\* Type correctness, whatever the constants.
THEOREM TypeCorrect == Spec => []TypeOK
  BY TypeInit, TypeNext, SignNext, PTL DEF Spec

-----------------------------------------------------------------------------
(* What a step leaves alone.                                               *)

\* The steps that only one session takes
Act(s) == Begin(s) \/ Progress(s) \/ Crash(s)

\* A session's step leaves the other sessions where they are.
LEMMA OthersStay ==
    ASSUME TypeOK, NEW s \in Sessions, NEW t \in Sessions \ {s}, Act(s)
    PROVE  pc'[t] = pc[t] /\ op'[t] = op[t] /\ buf'[t] = buf[t]
<1> USE DEF TypeOK
<1>1. CASE Begin(s)
  <2>1. CASE ForgetAll(s)
    BY <2>1 DEF ForgetAll
  <2>2. ASSUME NEW k \in Keys, BeginWith(s, k)
        PROVE  pc'[t] = pc[t] /\ op'[t] = op[t] /\ buf'[t] = buf[t]
    <3>1. CASE \E i \in 0 .. Capacity : BeginSign(s, k, i) \/ SignOff(s, k, i)
      BY <3>1 DEF BeginSign, SignOff, Start, Goto
    <3>2. CASE BeginFresh(s, k) \/ BeginRegister(s, k) \/ BeginForget(s, k)
      BY <3>2 DEF BeginFresh, BeginRegister, BeginForget, Start, Goto
    <3>3. CASE \/ Regenerate(s, k) \/ RegisterOff(s, k) \/ ForgetOff(s, k)
               \/ \E i \in Index, next \in 0 .. Capacity : Advance(s, k, i, next)
      BY <3>3 DEF Regenerate, RegisterOff, ForgetOff, Advance, sessionVars
    <3> QED BY <2>2, <3>1, <3>2, <3>3 DEF BeginWith
  <2> QED BY <1>1, <2>1, <2>2 DEF Begin
<1>2. CASE Progress(s)
  <2>1. CASE GiveUp(s) \/ Fail(s) \/ MakeSignature(s) \/ SignFails(s)
    BY <2>1 DEF GiveUp, Fail, MakeSignature, SignFails, End
  <2>2. CASE Acquire(s) \/ WriteTmp(s) \/ Rename(s) \/ SyncDir(s) \/ Migrate(s)
    BY <2>2 DEF Acquire, WriteTmp, Rename, SyncDir, Migrate, Goto
  <2>3. CASE Reserve(s) \/ Register(s) \/ Forget(s)
    BY <2>3 DEF Reserve, Register, Forget, Goto
  <2>4. CASE Return(s)
    <3>1. CASE op[s].kind = "sign"
      BY <2>4, <3>1 DEF Return, Goto
    <3>2. CASE op[s].kind # "sign"
      BY <2>4, <3>2 DEF Return, End
    <3> QED BY <3>1, <3>2
  <2> QED BY <1>2, <2>1, <2>2, <2>3, <2>4 DEF Progress
<1>3. CASE Crash(s)
  BY <1>3 DEF Crash, End
<1> QED BY <1>1, <1>2, <1>3 DEF Act

\* Signatures, copies and exemptions are never taken back.
LEMMA HistoryGrows ==
    ASSUME TypeOK, [Next]_vars
    PROVE  /\ exempt \subseteq exempt'
           /\ signed \subseteq signed'
           /\ \A k \in Keys : copies[k] \subseteq copies'[k]
<1> DEFINE Grows == /\ exempt \subseteq exempt'
                   /\ signed \subseteq signed'
                   /\ \A k \in Keys : copies[k] \subseteq copies'[k]
<1> USE DEF TypeOK
<1>1. ASSUME NEW s \in Sessions, Begin(s) PROVE Grows
  <2>1. CASE ForgetAll(s)
    BY <2>1 DEF ForgetAll
  <2>2. ASSUME NEW k \in Keys, BeginWith(s, k) PROVE Grows
    <3>1. CASE \E i \in 0 .. Capacity : BeginSign(s, k, i) \/ SignOff(s, k, i)
      BY <3>1 DEF BeginSign, SignOff, historyVars
    <3>2. CASE BeginFresh(s, k) \/ BeginRegister(s, k) \/ BeginForget(s, k)
      BY <3>2 DEF BeginFresh, BeginRegister, BeginForget, historyVars
    <3>3. CASE Regenerate(s, k)
      BY <3>3 DEF Regenerate, historyVars
    <3>4. CASE RegisterOff(s, k) \/ ForgetOff(s, k)
      BY <3>4 DEF RegisterOff, ForgetOff, historyVars
    <3>5. CASE \E i \in Index, next \in 0 .. Capacity : Advance(s, k, i, next)
      <4>1. PICK i \in Index, next \in 0 .. Capacity : Advance(s, k, i, next)
        BY <3>5
      <4>2. PICK n : copies' = [copies EXCEPT ![k] = @ \cup {n}]
        BY <4>1 DEF Advance
      <4>3. UNCHANGED <<exempt, signed>>
        BY <4>1 DEF Advance, historyVars
      <4> QED BY <4>2, <4>3
    <3> QED BY <2>2, <3>1, <3>2, <3>3, <3>4, <3>5 DEF BeginWith
  <2> QED BY <1>1, <2>1, <2>2 DEF Begin
<1>2. ASSUME NEW s \in Sessions, Progress(s) PROVE Grows
  <2>1. CASE GiveUp(s) \/ Fail(s) \/ MakeSignature(s) \/ SignFails(s)
    BY <2>1 DEF GiveUp, Fail, MakeSignature, SignFails, historyVars
  <2>2. CASE Acquire(s) \/ WriteTmp(s) \/ Rename(s) \/ SyncDir(s) \/ Migrate(s)
    BY <2>2 DEF Acquire, WriteTmp, Rename, SyncDir, Migrate, historyVars
  <2>3. CASE Reserve(s) \/ Register(s) \/ Forget(s)
    BY <2>3 DEF Reserve, Register, Forget, historyVars
  <2>4. CASE Return(s)
    BY <2>4 DEF Return, historyVars
  <2> QED BY <1>2, <2>1, <2>2, <2>3, <2>4 DEF Progress
<1>3. CASE PowerCut \/ \E s \in Sessions : Crash(s)
  BY <1>3 DEF PowerCut, Crash
<1>4. CASE UNCHANGED vars
  BY <1>4 DEF vars, historyVars
<1> QED BY <1>1, <1>2, <1>3, <1>4 DEF Next

\* The locked function that took a session's index returns
ReturnsIndex(s, k, i) ==
    Return(s) /\ op[s].kind = "sign" /\ op[s].key = k /\ op[s].idx = i

\* An index of a protected key is retired by the return of a locked function
\* and in no other way.
LEMMA RetiredStep ==
    ASSUME TypeOK, SignInv, [Next]_vars,
           NEW k \in Keys, k \notin exempt', NEW i \in Index, Retired(k, i)'
    PROVE  Retired(k, i) \/ \E s \in Sessions : ReturnsIndex(s, k, i)
<1> USE DEF TypeOK, SignInv
<1>1. CASE UNCHANGED vars
  BY <1>1 DEF vars, sessionVars, historyVars, Retired
<1>2. CASE PowerCut
  BY <1>2 DEF PowerCut, Retired
<1>3. ASSUME NEW s \in Sessions, Act(s)
      PROVE  Retired(k, i) \/ ReturnsIndex(s, k, i)
  <2>1. CASE \E t \in Sessions \ {s} :
               pc'[t] = "sign" /\ op'[t].key = k /\ op'[t].idx = i
    BY <1>3, <2>1, OthersStay DEF Retired
  <2>2. CASE signed' # signed
    <3>1. MakeSignature(s)
      <4>1. CASE Begin(s)
        BY <2>2, <4>1 DEF Begin, BeginWith, BeginSign, SignOff, BeginFresh,
             Regenerate, BeginRegister, RegisterOff, BeginForget, ForgetOff,
             ForgetAll, Advance, historyVars
      <4>2. CASE Progress(s)
        BY <2>2, <4>2 DEF Progress, Acquire, GiveUp, Fail, Reserve, Register,
             Forget, WriteTmp, Rename, SyncDir, Migrate, Return, SignFails, historyVars
      <4>3. CASE Crash(s)
        BY <2>2, <4>3 DEF Crash
      <4> QED BY <1>3, <4>1, <4>2, <4>3 DEF Act
    <3>2. signed' = signed \cup {<<op[s].key, op[s].idx>>} /\ pc[s] = "sign"
      BY <3>1 DEF MakeSignature
    <3>3. pc'[s] = "idle"
      BY <3>1 DEF MakeSignature, End
    <3>4. <<k, i>> \in signed' => Retired(k, i)
      BY <3>2 DEF Retired
    <3> QED BY <3>3, <3>4, <2>1 DEF Retired
  <2>3. CASE signed' = signed /\ pc'[s] = "sign" /\ op'[s].key = k /\ op'[s].idx = i
    <3>1. CASE pc[s] = "sign"
      BY <3>1, <1>3, <2>3 DEF Act, Begin, BeginWith, BeginSign, SignOff, BeginFresh,
           Regenerate, BeginRegister, RegisterOff, BeginForget, ForgetOff,
           ForgetAll, Advance, Progress, Acquire, GiveUp, Fail, Reserve, Register,
           Forget, WriteTmp, Rename, SyncDir, Migrate, Return, MakeSignature,
           SignFails, Crash, Start, Goto, End, InLock, Retired
    <3>2. CASE pc[s] # "sign"
      <4>1. CASE Begin(s)
        <5>1. \/ \E kk \in Keys, n \in 0 .. Capacity : SignOff(s, kk, n)
              \/ pc'[s] = "lock" \/ pc'[s] = pc[s]
          BY <4>1 DEF Begin, BeginWith, BeginSign, BeginFresh, Regenerate,
               BeginRegister, RegisterOff, BeginForget, ForgetOff, ForgetAll,
               Advance, Start, Goto, sessionVars
        <5>2. PICK kk \in Keys, n \in 0 .. Capacity : SignOff(s, kk, n)
          BY <5>1, <3>2, <2>3
        <5>3. op'[s].key = kk /\ kk \in exempt'
          BY <5>2 DEF SignOff
        <5> QED BY <5>3, <2>3
      <4>2. CASE Progress(s)
        <5>1. Return(s)
          BY <4>2, <3>2, <2>3 DEF Progress, Acquire, GiveUp, Fail, Reserve,
               Register, Forget, WriteTmp, Rename, SyncDir, Migrate,
               MakeSignature, SignFails, Goto, End
        <5>2. op[s].kind = "sign"
          BY <5>1, <2>3 DEF Return, End
        <5>3. op' = op
          BY <5>1, <5>2 DEF Return
        <5> QED BY <5>1, <5>2, <5>3, <2>3 DEF ReturnsIndex
      <4>3. CASE Crash(s)
        BY <4>3, <2>3 DEF Crash, End
      <4> QED BY <1>3, <4>1, <4>2, <4>3 DEF Act
    <3> QED BY <3>1, <3>2
  <2>4. CASE signed' = signed /\ <<k, i>> \in signed'
    BY <2>4 DEF Retired
  <2> QED BY <2>1, <2>2, <2>3, <2>4 DEF Retired
<1> QED BY <1>1, <1>2, <1>3 DEF Next, Act

-----------------------------------------------------------------------------
(* The parts of the invariant, one lemma each.                             *)

\* xmssfgt() with the record on
Wipes(s) == s \in On /\ ForgetAll(s)

\* A session begins a call only when it has none, and its call has not come
\* to the lock yet; xmssfgt() apart, no file is touched.
LEMMA BeginIdle ==
    ASSUME TypeOK, NEW s \in Sessions, Begin(s)
    PROVE  /\ pc[s] = "idle" /\ pc'[s] \in {"idle", "lock", "sign"}
           /\ Wipes(s) \/ UNCHANGED recordVars
<1> USE DEF TypeOK
<1>1. CASE ForgetAll(s)
  BY <1>1 DEF ForgetAll, Wipes, On, recordVars
<1>2. ASSUME NEW k \in Keys, BeginWith(s, k)
      PROVE  /\ pc[s] = "idle" /\ pc'[s] \in {"idle", "lock", "sign"}
             /\ UNCHANGED recordVars
  <2>1. CASE \E i \in 0 .. Capacity : BeginSign(s, k, i) \/ SignOff(s, k, i)
    BY <2>1 DEF BeginSign, SignOff, Start, Goto
  <2>2. CASE BeginFresh(s, k) \/ BeginRegister(s, k) \/ BeginForget(s, k)
    BY <2>2 DEF BeginFresh, BeginRegister, BeginForget, Start, Goto
  <2>3. CASE Regenerate(s, k) \/ RegisterOff(s, k) \/ ForgetOff(s, k)
    BY <2>3 DEF Regenerate, RegisterOff, ForgetOff, sessionVars
  <2>4. CASE \E i \in Index, next \in 0 .. Capacity : Advance(s, k, i, next)
    BY <2>4 DEF Advance, sessionVars
  <2> QED BY <1>2, <2>1, <2>2, <2>3, <2>4 DEF BeginWith
<1> QED BY <1>1, <1>2 DEF Begin

\* Outside the locked function a step leaves the files alone, unless it is
\* xmssfgt().
LEMMA FilesStay ==
    ASSUME TypeOK, NEW s \in Sessions, Act(s), ~Wipes(s), pc[s] \notin InLock
    PROVE  UNCHANGED recordVars
<1>1. CASE Begin(s)
  BY <1>1, BeginIdle
<1>2. CASE Progress(s)
  BY <1>2 DEF Progress, Acquire, GiveUp, Fail, Reserve, Register, Forget, WriteTmp,
       Rename, SyncDir, Migrate, Return, MakeSignature, SignFails, InLock, Goto
<1>3. CASE Crash(s)
  BY <1>3 DEF Crash
<1> QED BY <1>1, <1>2, <1>3 DEF Act

\* xmssfgt() exempts every key that has an index retired or asked for.
LEMMA AfterWipe ==
    ASSUME TypeOK, SignInv, CallInv, NEW s \in Sessions, Wipes(s),
           NEW k \in Keys, k \notin exempt'
    PROVE  /\ \A i \in Index : ~Retired(k, i)'
           /\ \A t \in Sessions : ~(op'[t].kind = "sign" /\ op'[t].key = k)
<1>1. copies[k] = {} /\ UNCHANGED <<signed, pc, op>>
  BY DEF Wipes, ForgetAll, On
<1>2. \A t \in Sessions : ~(op[t].kind = "sign" /\ op[t].key = k)
  BY <1>1 DEF CallInv, CallFine
<1>3. \A i \in Index : ~Retired(k, i)
  BY <1>1, <1>2 DEF CallInv, SignInv, Retired
<1> QED BY <1>1, <1>2, <1>3 DEF Retired

\* At most one session is inside the locked function.
LEMMA Alone ==
    ASSUME LockInv, NEW s \in Sessions, NEW t \in Sessions,
           pc[s] \in InLock, pc[t] \in InLock
    PROVE  s = t
  BY DEF LockInv

LEMMA LockNext == TypeOK /\ LockInv /\ [Next]_vars => LockInv'
<1> SUFFICES ASSUME TypeOK, LockInv, [Next]_vars,
                    NEW t \in Sessions, pc'[t] \in InLock
             PROVE  holder' = t
  BY DEF LockInv
<1>1. CASE UNCHANGED vars
  BY <1>1 DEF vars, sessionVars, LockInv
<1>2. CASE PowerCut
  BY <1>2 DEF PowerCut, InLock
<1>3. ASSUME NEW s \in Sessions, Act(s), s # t PROVE holder' = t
  <2>1. pc[t] \in InLock /\ holder = t
    BY <1>3, OthersStay DEF LockInv
  <2>2. pc[s] \notin InLock /\ NoSession # t
    BY <1>3, <2>1 DEF LockInv
  <2>3. CASE Begin(s)
    BY <2>1, <2>3 DEF Begin, BeginWith, BeginSign, SignOff, BeginFresh, Regenerate,
       BeginRegister, RegisterOff, BeginForget, ForgetOff, Advance, ForgetAll,
       sessionVars
  <2>4. CASE Progress(s)
    BY <2>1, <2>2, <2>4 DEF Progress, Acquire, GiveUp, Fail, Reserve, Register,
       Forget, WriteTmp, Rename, SyncDir, Migrate, Return, MakeSignature,
       SignFails, InLock
  <2>5. CASE Crash(s)
    BY <1>3, <2>1, <2>5 DEF Crash
  <2> QED BY <1>3, <2>3, <2>4, <2>5 DEF Act
<1>4. ASSUME Act(t) PROVE holder' = t
  <2> USE DEF TypeOK
  <2>1. CASE Begin(t)
    BY <2>1, BeginIdle DEF InLock
  <2>2. CASE GiveUp(t) \/ Fail(t) \/ MakeSignature(t) \/ SignFails(t) \/ Crash(t)
    BY <2>2 DEF GiveUp, Fail, MakeSignature, SignFails, Crash, End, InLock
  <2>3. CASE Acquire(t)
    BY <2>3 DEF Acquire
  <2>4. CASE \/ Reserve(t) \/ Register(t) \/ Forget(t) \/ WriteTmp(t)
             \/ Rename(t) \/ SyncDir(t) \/ Migrate(t)
    <3>1. pc[t] \in InLock /\ holder' = holder
      BY <2>4 DEF Reserve, Register, Forget, WriteTmp, Rename, SyncDir, Migrate,
         Goto, InLock
    <3> QED BY <3>1 DEF LockInv
  <2>5. CASE Return(t)
    <3>1. pc'[t] = "sign" \/ pc'[t] = "idle"
      BY <2>5 DEF Return, Goto, End
    <3> QED BY <3>1 DEF InLock
  <2> QED BY <1>4, <2>1, <2>2, <2>3, <2>4, <2>5 DEF Act, Progress
<1> QED BY <1>1, <1>2, <1>3, <1>4 DEF Next, Act

LEMMA VisibleNext == TypeOK /\ VisibleInv /\ [Next]_vars => VisibleInv'
<1> SUFFICES ASSUME TypeOK, VisibleInv, [Next]_vars PROVE VisibleInv'
  OBVIOUS
<1> USE DEF VisibleInv
<1>1. CASE UNCHANGED vars \/ PowerCut
  BY <1>1 DEF vars, recordVars, PowerCut
<1>2. ASSUME NEW s \in Sessions, Act(s) PROVE VisibleInv'
  <2>1. CASE Wipes(s)
    BY <2>1 DEF Wipes, ForgetAll
  <2>2. CASE pc[s] \notin InLock /\ ~Wipes(s)
    BY <1>2, <2>2, FilesStay DEF recordVars
  <2>3. CASE pc[s] \in InLock /\ ~Wipes(s)
    <3>1. ~Begin(s)
      BY <2>3, BeginIdle DEF InLock
    <3>2. CASE Progress(s)
      BY <3>2 DEF Progress, Acquire, GiveUp, Fail, Reserve, Register, Forget,
         WriteTmp, Rename, SyncDir, Migrate, Return, MakeSignature, SignFails,
         recordVars
    <3>3. CASE Crash(s)
      BY <3>3 DEF Crash, recordVars
    <3> QED BY <1>2, <3>1, <3>2, <3>3 DEF Act
  <2> QED BY <2>1, <2>2, <2>3
<1> QED BY <1>1, <1>2 DEF Next, Act

\* The temporary file of a writer inside the lock is its own and stays.
LEMMA TmpNext == TypeOK /\ LockInv /\ TmpIntact /\ [Next]_vars => TmpIntact'
<1> SUFFICES ASSUME TypeOK, LockInv, TmpIntact, [Next]_vars,
                    NEW t \in Sessions, pc'[t] = "tmp"
             PROVE  t \in tmp'
  BY DEF TmpIntact
<1> USE DEF TmpIntact
<1>1. CASE UNCHANGED vars \/ PowerCut
  BY <1>1 DEF vars, recordVars, sessionVars, PowerCut
<1>2. ASSUME NEW s \in Sessions, Act(s), s # t PROVE t \in tmp'
  <2>1. pc[t] = "tmp" /\ t \in tmp
    BY <1>2, OthersStay
  <2>2. pc[s] \notin InLock
    BY <1>2, <2>1 DEF LockInv, InLock
  <2> QED
    BY <1>2, <2>1, <2>2, FilesStay DEF Wipes, ForgetAll, recordVars
<1>3. ASSUME Act(t) PROVE t \in tmp'
  <2> USE DEF TypeOK
  <2>1. CASE Begin(t)
    BY <2>1, BeginIdle
  <2>2. CASE GiveUp(t) \/ Fail(t) \/ MakeSignature(t) \/ SignFails(t) \/ Crash(t)
    BY <2>2 DEF GiveUp, Fail, MakeSignature, SignFails, Crash, End
  <2>3. CASE \/ Acquire(t) \/ Reserve(t) \/ Register(t) \/ Forget(t) \/ WriteTmp(t)
             \/ Rename(t) \/ SyncDir(t) \/ Migrate(t)
    BY <2>3 DEF Acquire, Reserve, Register, Forget, WriteTmp, Rename, SyncDir,
       Migrate, Goto
  <2>4. CASE Return(t)
    BY <2>4 DEF Return, Goto, End
  <2> QED BY <1>3, <2>1, <2>2, <2>3, <2>4 DEF Act, Progress
<1> QED BY <1>1, <1>2, <1>3 DEF Next, Act

LEMMA CallNext == TypeOK /\ SignInv /\ CallInv /\ [Next]_vars => CallInv'
<1> SUFFICES ASSUME TypeOK, SignInv, CallInv, [Next]_vars PROVE CallInv'
  OBVIOUS
<1>1. ASSUME NEW t \in Sessions, op'[t] = op[t] PROVE CallFine(t)'
  <2>1. op[t].key \in Keys
    BY DEF TypeOK, Call
  <2> QED BY <1>1, <2>1, HistoryGrows DEF CallInv, CallFine
<1>2. ASSUME NEW t \in Sessions, op'[t] = NoCall PROVE CallFine(t)'
  BY <1>2 DEF NoCall, CallFine
<1>3. ASSUME NEW t \in Sessions, Act(t) PROVE CallFine(t)'
  <2> USE DEF TypeOK
  <2>1. CASE Begin(t)
    <3>1. CASE ForgetAll(t)
      BY <3>1, <1>1 DEF ForgetAll
    <3>2. ASSUME NEW k \in Keys, BeginWith(t, k) PROVE CallFine(t)'
      <4>1. CASE \E i \in 0 .. Capacity : BeginSign(t, k, i) \/ SignOff(t, k, i)
        <5>1. op'[t].kind = "sign" /\ op'[t].key = k /\ copies[k] # {}
          BY <4>1 DEF BeginSign, SignOff, Start
        <5>2. op'[t].key = k /\ copies'[k] # {}
          BY <5>1, HistoryGrows
        <5> QED BY <5>1, <5>2 DEF CallFine
      <4>2. CASE BeginFresh(t, k) \/ BeginRegister(t, k)
        BY <4>2 DEF BeginFresh, BeginRegister, Start, CallFine
      <4>3. CASE BeginForget(t, k)
        BY <4>3 DEF BeginForget, Start, CallFine
      <4>4. CASE \/ Regenerate(t, k) \/ RegisterOff(t, k) \/ ForgetOff(t, k)
                 \/ \E i \in Index, next \in 0 .. Capacity : Advance(t, k, i, next)
        BY <1>1, <4>4 DEF Regenerate, RegisterOff, ForgetOff, Advance, sessionVars
      <4> QED BY <3>2, <4>1, <4>2, <4>3, <4>4 DEF BeginWith
    <3> QED BY <2>1, <3>1, <3>2 DEF Begin
  <2>2. CASE GiveUp(t) \/ Fail(t) \/ MakeSignature(t) \/ SignFails(t) \/ Crash(t)
    BY <1>2, <2>2 DEF GiveUp, Fail, MakeSignature, SignFails, Crash, End
  <2>3. CASE \/ Acquire(t) \/ Reserve(t) \/ Forget(t) \/ WriteTmp(t)
             \/ Rename(t) \/ SyncDir(t) \/ Migrate(t)
    BY <1>1, <2>3 DEF Acquire, Reserve, Forget, WriteTmp, Rename, SyncDir, Migrate
  <2>4. CASE Register(t)
    BY <2>4 DEF Register, CallFine
  <2>5. CASE Return(t)
    BY <1>1, <1>2, <2>5 DEF Return, End
  <2> QED BY <1>3, <2>1, <2>2, <2>3, <2>4, <2>5 DEF Act, Progress
<1>4. \A t \in Sessions : CallFine(t)'
  <2>1. CASE UNCHANGED vars
    BY <1>1, <2>1 DEF vars, sessionVars
  <2>2. CASE PowerCut
    BY <1>2, <2>2 DEF PowerCut
  <2>3. ASSUME NEW s \in Sessions, Act(s), NEW t \in Sessions PROVE CallFine(t)'
    BY <1>1, <1>3, <2>3, OthersStay
  <2> QED BY <2>1, <2>2, <2>3 DEF Next, Act
<1>5. ASSUME NEW k \in Keys, NEW i \in Index, <<k, i>> \in signed'
      PROVE  copies'[k] # {}
  <2>1. copies[k] \subseteq copies'[k]
    BY HistoryGrows
  <2>2. CASE <<k, i>> \in signed
    BY <2>1, <2>2 DEF CallInv
  <2>3. CASE <<k, i>> \notin signed
    <3>1. PICK s \in Sessions : MakeSignature(s)
      <4>1. CASE UNCHANGED vars \/ PowerCut
        BY <1>5, <2>3, <4>1 DEF vars, historyVars, PowerCut
      <4>2. ASSUME NEW s \in Sessions, Begin(s) PROVE FALSE
        BY <1>5, <2>3, <4>2 DEF Begin, BeginWith, BeginSign, SignOff, BeginFresh,
           Regenerate, BeginRegister, RegisterOff, BeginForget, ForgetOff,
           ForgetAll, Advance, historyVars
      <4>3. ASSUME NEW s \in Sessions, Progress(s) PROVE MakeSignature(s)
        BY <1>5, <2>3, <4>3 DEF Progress, Acquire, GiveUp, Fail, Reserve, Register,
           Forget, WriteTmp, Rename, SyncDir, Migrate, Return, SignFails, historyVars
      <4>4. ASSUME NEW s \in Sessions, Crash(s) PROVE FALSE
        BY <1>5, <2>3, <4>4 DEF Crash
      <4> QED BY <4>1, <4>2, <4>3, <4>4 DEF Next
    <3>2. op[s].kind = "sign" /\ op[s].key = k
      BY <1>5, <2>3, <3>1 DEF MakeSignature, SignInv
    <3> QED BY <2>1, <3>2 DEF CallInv, CallFine
  <2> QED BY <2>2, <2>3
<1>6. \A k \in Keys, i \in Index : <<k, i>> \in signed' => copies'[k] # {}
  BY <1>5
<1> QED BY <1>4, <1>6 DEF CallInv

\* Reading the record finds every retired index of a protected key.
LEMMA ReadFindsRetired ==
    ASSUME TypeOK, VisibleInv, RetiredOnDisk, NEW k \in Keys, k \notin exempt,
           NEW i \in Index, Retired(k, i)
    PROVE  Shows(RecordRead, k, i)
<1>1. Shows(rec, k, i) \/ JsonShows(json, k, i)
  BY DEF VisibleInv, RetiredOnDisk
<1>2. /\ rec.id[k] \in Entry /\ rec.legacy[k] \in Entry /\ LegacyIndex[k] \in Entry
      /\ RecordRead.legacy[k] \in Entry
  BY RecordReadIs DEF TypeOK, Record
<1>3. i \in Int
  BY DEF Index
<1> QED
  BY <1>1, <1>2, <1>3, RecordReadIs DEF Shows, JsonShows, Entry, Absent

\* ... so the index that Reserve takes is not retired.
LEMMA ReserveTakesUnretired ==
    ASSUME TypeOK, SignInv, VisibleInv, RetiredOnDisk, NEW s \in Sessions, Reserve(s),
           op[s].key \notin exempt
    PROVE  ~Retired(op[s].key, op[s].idx)
<1> DEFINE k == op[s].key
<1>1. k \in Keys /\ op[s].idx \in Index /\ op[s].idx > Highest(s, k, RecordRead)
  BY DEF TypeOK, Call, Reserve, SignInv, MayReserve
<1>2. /\ Highest(s, k, RecordRead) \in Int
      /\ Highest(s, k, RecordRead) >= RecordRead.id[k]
      /\ Highest(s, k, RecordRead) >= RecordRead.legacy[k]
  BY <1>1, RecordReadIs, HighestIs DEF Entry, Absent
<1>3. RecordRead.id[k] \in Int /\ RecordRead.legacy[k] \in Int /\ op[s].idx \in Int
  BY <1>1, RecordReadIs DEF Record, Entry, Index, Absent
<1>4. ~Shows(RecordRead, k, op[s].idx)
  BY <1>1, <1>2, <1>3 DEF Shows
<1> QED BY <1>1, <1>4, ReadFindsRetired

LEMMA RetiredNext ==
    TypeOK /\ SignInv /\ CallInv /\ VisibleInv /\ RetiredOnDisk /\ WriteInv /\ [Next]_vars
    => RetiredOnDisk'
<1> SUFFICES ASSUME TypeOK, SignInv, CallInv, VisibleInv, RetiredOnDisk, WriteInv,
                    [Next]_vars,
                    NEW k \in Keys, k \notin exempt', NEW i \in Index, Retired(k, i)',
                    NEW r \in recMay', NEW j \in jsonMay'
             PROVE  Shows(r, k, i) \/ JsonShows(j, k, i)
  BY DEF RetiredOnDisk, Shows, JsonShows
<1>1. k \notin exempt
  BY HistoryGrows
<1>2. ASSUME NEW s \in Sessions, ReturnsIndex(s, k, i)
      PROVE  Shows(r, k, i)
  <2>1. pc[s] = "done" /\ recMay' = recMay
    BY <1>2 DEF ReturnsIndex, Return, recordVars
  <2> QED BY <1>1, <1>2, <2>1 DEF WriteInv, ReturnsIndex
<1>3. CASE Retired(k, i)
  <2>1. CASE r \in recMay /\ j \in jsonMay
    BY <1>1, <1>3, <2>1 DEF RetiredOnDisk
  <2>2. CASE ~(r \in recMay /\ j \in jsonMay)
    <3>1. CASE UNCHANGED vars \/ PowerCut
      BY <2>2, <3>1 DEF vars, recordVars, PowerCut
    <3>2. ASSUME NEW s \in Sessions, Act(s)
          PROVE  Shows(r, k, i)
      <4>1. pc[s] \in InLock /\ ~Wipes(s)
        BY <2>2, <3>2, FilesStay, AfterWipe DEF recordVars
      <4>2. CASE Begin(s) \/ Crash(s)
        BY <2>2, <4>1, <4>2, BeginIdle DEF Crash, recordVars
      <4>3. CASE Progress(s)
        <5>1. CASE Rename(s)
          BY <1>1, <1>3, <2>2, <5>1 DEF Rename, Goto, WriteInv, Complete
        <5>2. CASE SyncDir(s)
          BY <2>2, <5>2 DEF SyncDir, VisibleInv
        <5>3. CASE Migrate(s)
          BY <1>1, <1>3, <2>2, <5>3 DEF Migrate, Goto, WriteInv, Complete
        <5> QED
          BY <2>2, <4>3, <5>1, <5>2, <5>3 DEF Progress, Acquire, GiveUp, Fail,
             Reserve, Register, Forget, WriteTmp, Return, MakeSignature,
             SignFails, recordVars
      <4> QED BY <3>2, <4>2, <4>3 DEF Act
    <3> QED BY <3>1, <3>2 DEF Next, Act
  <2> QED BY <2>1, <2>2
<1> QED BY <1>2, <1>3, RetiredStep

\* While no locked function returns, a record that is complete stays complete.
LEMMA StaysComplete ==
    ASSUME TypeOK, SignInv, [Next]_vars, \A s \in Sessions : ~Return(s),
           NEW r, Complete(r)
    PROVE  \A k \in Keys \ exempt', i \in Index : Retired(k, i)' => Shows(r, k, i)
<1> SUFFICES ASSUME NEW k \in Keys, k \notin exempt', NEW i \in Index, Retired(k, i)'
             PROVE  Shows(r, k, i)
  OBVIOUS
<1>1. k \notin exempt
  BY HistoryGrows
<1>2. Retired(k, i)
  BY RetiredStep DEF ReturnsIndex
<1> QED BY <1>1, <1>2 DEF Complete

\* What a session puts into the record it is about to write: it is complete,
\* and shows the index being retired.
LEMMA BufferComplete ==
    ASSUME TypeOK, SignInv, CallInv, VisibleInv, RetiredOnDisk, NEW s \in Sessions,
           Reserve(s) \/ (Register(s) /\ pc'[s] = "write") \/ Forget(s)
    PROVE  /\ Complete(buf'[s])
           /\ op[s].kind = "sign" => Shows(buf'[s], op[s].key, op[s].idx)
<1> DEFINE k == op[s].key
<1>1. k \in Keys /\ op[s].idx \in Entry
  BY DEF TypeOK, Call
<1>2. /\ RecordRead \in Record /\ RecordRead.id = rec.id
      /\ rec.id[k] \in Entry /\ RecordRead.legacy[k] \in Entry
  BY <1>1, RecordReadIs DEF TypeOK, Record
<1>3. ASSUME NEW n \in Entry, n >= rec.id[k], buf'[s] = WithIndex(RecordRead, k, n)
      PROVE  Complete(buf'[s])
  <2> SUFFICES ASSUME NEW kk \in Keys \ exempt, NEW i \in Index, Retired(kk, i)
               PROVE  Shows(buf'[s], kk, i)
    BY DEF Complete
  <2>1. Shows(RecordRead, kk, i)
    BY ReadFindsRetired
  <2>2. buf'[s].legacy = RecordRead.legacy /\ buf'[s].id = [RecordRead.id EXCEPT ![k] = n]
    BY <1>3 DEF WithIndex
  <2>3. RecordRead.id \in [Keys -> Entry]
    BY <1>2 DEF Record
  <2>4. i \in Int /\ n \in Int /\ rec.id[k] \in Int
    BY <1>2 DEF Index, Entry, Absent
  <2> QED BY <1>2, <1>3, <2>1, <2>2, <2>3, <2>4 DEF Shows
<1>4. CASE Reserve(s)
  <2>1. buf'[s] = WithIndex(RecordRead, k, op[s].idx) /\ op[s].kind = "sign"
        /\ op[s].idx > Highest(s, k, RecordRead)
    BY <1>4 DEF Reserve, MayReserve, TypeOK
  <2>2. Highest(s, k, RecordRead) >= rec.id[k] /\ Highest(s, k, RecordRead) \in Int
    BY <1>1, <1>2, HighestIs DEF Entry, Absent
  <2>3. op[s].idx >= rec.id[k]
    BY <1>1, <1>2, <2>1, <2>2 DEF Entry, Absent
  <2>4. Shows(buf'[s], k, op[s].idx)
    <3>1. buf'[s].id[k] = op[s].idx
      BY <1>1, <1>2, <2>1 DEF WithIndex, Record
    <3> QED BY <1>1, <3>1 DEF Shows, Entry, Absent
  <2> QED BY <1>1, <1>3, <2>1, <2>3, <2>4
<1>5. CASE Register(s) /\ pc'[s] = "write"
  <2>1. buf'[s] = WithIndex(RecordRead, k, Highest(s, k, RecordRead)) /\ op[s].kind # "sign"
    BY <1>5 DEF Register, Goto, TypeOK
  <2>2. Highest(s, k, RecordRead) >= rec.id[k] /\ Highest(s, k, RecordRead) \in Entry
    BY <1>1, <1>2, HighestIs
  <2> QED BY <1>3, <2>1, <2>2
<1>6. CASE Forget(s)
  <2>1. /\ buf'[s].id = [rec.id EXCEPT ![k] = -1]
        /\ buf'[s].legacy = [RecordRead.legacy EXCEPT ![k] = Absent]
        /\ op[s].kind = "forget"
    BY <1>6 DEF Forget, TypeOK
  <2>2. k \in exempt
    BY <2>1 DEF CallInv, CallFine
  <2>3. ASSUME NEW kk \in Keys \ exempt, NEW i \in Index, Retired(kk, i)
        PROVE  Shows(buf'[s], kk, i)
    <3>1. Shows(RecordRead, kk, i)
      BY <2>3, ReadFindsRetired
    <3>2. kk # k /\ rec.id \in [Keys -> Entry] /\ RecordRead.legacy \in [Keys -> Entry]
      BY <1>2, <2>2 DEF Record
    <3> QED BY <1>2, <2>1, <3>1, <3>2 DEF Shows
  <2> QED BY <2>1, <2>3 DEF Complete
<1> QED BY <1>4, <1>5, <1>6

LEMMA PendingNext ==
    TypeOK /\ SignInv /\ LockInv /\ CallInv /\ VisibleInv /\ RetiredOnDisk /\ PendingInv
      /\ [Next]_vars
    => PendingInv'
<1> SUFFICES ASSUME TypeOK, SignInv, LockInv, CallInv, VisibleInv, RetiredOnDisk,
                    PendingInv, [Next]_vars, NEW t \in Sessions,
                    pc'[t] \in InLock \ {"held"}, op'[t].kind = "sign",
                    op'[t].key \notin exempt',
                    NEW k, NEW i, k = op'[t].key, i = op'[t].idx, Retired(k, i)'
             PROVE  FALSE
  BY DEF PendingInv, Retired
<1>1. k \in Keys /\ i \in Index /\ k \notin exempt
  BY TypeNext, SignNext, HistoryGrows DEF TypeOK, Call, SignInv
<1>2. Retired(k, i) \/ \E s \in Sessions : Return(s)
  BY <1>1, RetiredStep DEF ReturnsIndex
<1>3. ASSUME pc[t] \in InLock \ {"held"}, op'[t] = op[t], \A s \in Sessions : ~Return(s)
      PROVE  FALSE
  BY <1>1, <1>2, <1>3 DEF PendingInv
<1>4. CASE UNCHANGED vars
  BY <1>1, <1>4 DEF vars, sessionVars, historyVars, PendingInv, Retired
<1>5. CASE PowerCut
  BY <1>5 DEF PowerCut, InLock
<1>6. ASSUME NEW s \in Sessions, Act(s), s # t PROVE FALSE
  <2>1. pc[t] \in InLock \ {"held"} /\ op'[t] = op[t]
    BY <1>6, OthersStay
  <2>2. pc[s] \notin InLock
    BY <1>6, <2>1, Alone
  <2>3. ~ReturnsIndex(s, k, i)
    BY <2>2 DEF ReturnsIndex, Return, InLock
  <2>4. ASSUME NEW u \in Sessions, Return(u) PROVE FALSE
    <3>1. pc[u] \in InLock /\ pc'[u] # "done"
      BY <2>4 DEF Return, InLock, Goto, End, TypeOK
    <3>2. u = t
      BY <2>1, <3>1, Alone
    <3> QED BY <1>6, <2>1, <2>4, <3>1, <3>2, OthersStay DEF Return
  <2> QED BY <1>3, <2>1, <2>4
<1>7. ASSUME Act(t) PROVE FALSE
  <2>1. ASSUME NEW u \in Sessions, Return(u), pc[t] \in InLock PROVE FALSE
    <3>1. pc[u] \in InLock /\ pc'[u] \in {"sign", "idle"}
      BY <2>1 DEF Return, InLock, Goto, End, TypeOK
    <3> QED BY <2>1, <3>1, Alone DEF InLock
  <2>2. CASE Begin(t)
    BY <2>2, BeginIdle DEF InLock
  <2>3. CASE GiveUp(t) \/ Fail(t) \/ MakeSignature(t) \/ SignFails(t) \/ Crash(t)
    BY <2>3 DEF GiveUp, Fail, MakeSignature, SignFails, Crash, End, InLock, TypeOK
  <2>4. CASE Acquire(t) \/ Return(t)
    <3>1. pc'[t] \in {"held", "sign", "idle"}
      BY <2>4 DEF Acquire, Return, Goto, End, TypeOK
    <3> QED BY <3>1 DEF InLock
  <2>5. CASE Register(t)
    BY <2>5 DEF Register, TypeOK
  <2>6. CASE Forget(t)
    BY <2>6 DEF Forget, TypeOK
  <2>7. CASE Reserve(t)
    <3>1. pc[t] = "held" /\ op' = op
      BY <2>7 DEF Reserve, Goto
    <3>2. ~Retired(k, i)
      BY <1>1, <2>7, <3>1, ReserveTakesUnretired
    <3> QED BY <1>2, <2>1, <3>1, <3>2 DEF InLock
  <2>8. CASE WriteTmp(t) \/ Rename(t) \/ SyncDir(t) \/ Migrate(t)
    <3>1. pc[t] \in InLock \ {"held"} /\ op'[t] = op[t]
      BY <2>8 DEF WriteTmp, Rename, SyncDir, Migrate, Goto, InLock
    <3> QED BY <1>3, <2>1, <3>1
  <2> QED BY <1>7, <2>2, <2>3, <2>4, <2>5, <2>6, <2>7, <2>8 DEF Act, Progress
<1> QED BY <1>4, <1>5, <1>6, <1>7 DEF Next, Act

LEMMA WriteNext ==
    ASSUME DirFlush
    PROVE  TypeOK /\ SignInv /\ LockInv /\ CallInv /\ VisibleInv /\ RetiredOnDisk
             /\ WriteInv /\ [Next]_vars
           => WriteInv'
<1> DEFINE Holds(t) ==
      /\ pc'[t] \in {"write", "tmp"} =>
            /\ \A k \in Keys \ exempt', i \in Index : Retired(k, i)' => Shows(buf'[t], k, i)
            /\ op'[t].kind = "sign" /\ op'[t].key \notin exempt' =>
                  Shows(buf'[t], op'[t].key, op'[t].idx)
      /\ pc'[t] = "renamed" =>
            /\ \A k \in Keys \ exempt', i \in Index : Retired(k, i)' => Shows(rec', k, i)
            /\ op'[t].kind = "sign" /\ op'[t].key \notin exempt' =>
                  Shows(rec', op'[t].key, op'[t].idx)
      /\ pc'[t] = "written" =>
            \A r \in recMay' : \A k \in Keys \ exempt', i \in Index :
                Retired(k, i)' => Shows(r, k, i)
      /\ pc'[t] \in {"written", "done"} =>
            (op'[t].kind = "sign" /\ op'[t].key \notin exempt' =>
                 \A r \in recMay' : Shows(r, op'[t].key, op'[t].idx))
<1> SUFFICES ASSUME TypeOK, SignInv, LockInv, CallInv, VisibleInv, RetiredOnDisk,
                    WriteInv, [Next]_vars, NEW t \in Sessions
             PROVE  Holds(t)
  BY DEF WriteInv, Complete, Shows
<1>0. exempt \subseteq exempt'
  BY HistoryGrows
<1>1. ASSUME pc'[t] = pc[t], op'[t] = op[t], buf'[t] = buf[t], rec' = rec,
             recMay' = recMay, \A s \in Sessions : ~Return(s)
      PROVE  Holds(t)
  BY <1>0, <1>1, StaysComplete DEF WriteInv
<1>2. ASSUME pc'[t] \notin {"write", "tmp", "renamed", "written", "done"}
      PROVE  Holds(t)
  BY <1>2
<1> HIDE DEF Holds
<1>3. ASSUME NEW s \in Sessions, Wipes(s) PROVE Holds(t)
  <2>1. \A k \in Keys \ exempt', i \in Index : ~Retired(k, i)'
    BY <1>3, AfterWipe
  <2>2. op'[t].kind = "sign" => op'[t].key \in exempt'
    <3>1. op'[t].key \in Keys
      BY TypeNext DEF TypeOK, Call
    <3> QED BY <1>3, <3>1, AfterWipe
  <2> QED BY <2>1, <2>2 DEF Holds
<1>4. CASE UNCHANGED vars
  <2>1. \A k, i : Retired(k, i)' <=> Retired(k, i)
    BY <1>4 DEF vars, sessionVars, historyVars, Retired
  <2> QED BY <1>4, <2>1 DEF vars, recordVars, sessionVars, historyVars, WriteInv,
           Complete, Holds
<1>5. CASE PowerCut
  BY <1>2, <1>5 DEF PowerCut
<1>6. ASSUME NEW s \in Sessions, Act(s), ~Wipes(s), s # t PROVE Holds(t)
  <2>1. CASE pc[t] \notin InLock
    BY <1>2, <1>6, <2>1, OthersStay DEF InLock
  <2>2. CASE pc[t] \in InLock
    <3>1. pc[s] \notin InLock
      BY <1>6, <2>2, Alone
    <3>2. rec' = rec /\ recMay' = recMay
      BY <1>6, <3>1, FilesStay DEF recordVars
    <3>3. ASSUME NEW u \in Sessions, Return(u) PROVE FALSE
      <4>1. pc[u] \in InLock /\ pc'[u] # "done" /\ pc[u] = "done"
        BY <3>3 DEF Return, InLock, Goto, End, TypeOK
      <4>2. u = t
        BY <2>2, <4>1, Alone
      <4> QED BY <1>6, <4>1, <4>2, OthersStay
    <3> QED BY <1>1, <1>6, <3>2, <3>3, OthersStay
  <2> QED BY <2>1, <2>2
<1>7. ASSUME Act(t), ~Wipes(t) PROVE Holds(t)
  <2>1. ASSUME NEW u \in Sessions, Return(u), pc[t] \in InLock, pc'[t] \in InLock
        PROVE  FALSE
    <3>1. pc[u] \in InLock /\ pc'[u] \in {"sign", "idle"}
      BY <2>1 DEF Return, InLock, Goto, End, TypeOK
    <3> QED BY <2>1, <3>1, Alone DEF InLock
  <2>2. CASE Begin(t)
    BY <1>2, <2>2, BeginIdle
  <2>3. CASE GiveUp(t) \/ Fail(t) \/ MakeSignature(t) \/ SignFails(t) \/ Crash(t)
    BY <1>2, <2>3 DEF GiveUp, Fail, MakeSignature, SignFails, Crash, End, TypeOK
  <2>4. CASE Acquire(t) \/ Return(t)
    <3>1. pc'[t] \in {"held", "sign", "idle"}
      BY <2>4 DEF Acquire, Return, Goto, End, TypeOK
    <3> QED BY <1>2, <3>1
  <2>5. CASE Reserve(t) \/ (Register(t) /\ pc'[t] = "write") \/ Forget(t)
    <3>1. pc[t] = "held" /\ pc'[t] = "write"
      BY <2>5 DEF Reserve, Register, Forget, Goto, TypeOK
    <3>2. \A s \in Sessions : ~Return(s)
      BY <2>1, <3>1 DEF InLock
    <3>3. Complete(buf'[t]) /\ (op[t].kind = "sign" => Shows(buf'[t], op[t].key, op[t].idx))
      BY <2>5, BufferComplete
    <3>4. op'[t].kind = "sign" => op'[t] = op[t]
      BY <2>5 DEF Reserve, Register, Forget, TypeOK
    <3> QED BY <3>1, <3>2, <3>3, <3>4, StaysComplete DEF Holds
  <2>6. CASE Register(t) /\ pc'[t] # "write"
    <3>1. pc'[t] = "done" /\ op'[t].kind # "sign"
      BY <2>6 DEF Register, Goto, TypeOK
    <3> QED BY <3>1 DEF Holds
  <2>7. CASE WriteTmp(t)
    <3>1. /\ pc[t] = "write" /\ pc'[t] = "tmp" /\ op' = op /\ buf' = buf
      BY <2>7 DEF WriteTmp, Goto, TypeOK
    <3>2. \A s \in Sessions : ~Return(s)
      BY <2>1, <3>1 DEF InLock
    <3>3. Complete(buf[t])
      BY <3>1 DEF WriteInv
    <3> QED BY <1>0, <3>1, <3>2, <3>3, StaysComplete DEF Holds, WriteInv
  <2>8. CASE Rename(t)
    <3>1. pc[t] = "tmp" /\ pc'[t] = "renamed" /\ op' = op /\ rec' = buf[t]
      BY <2>8 DEF Rename, Goto, TypeOK
    <3>2. \A s \in Sessions : ~Return(s)
      BY <2>1, <3>1 DEF InLock
    <3>3. Complete(buf[t])
      BY <3>1 DEF WriteInv
    <3> QED BY <1>0, <3>1, <3>2, <3>3, StaysComplete DEF Holds, WriteInv
  <2>9. CASE SyncDir(t)
    <3>1. /\ pc[t] = "renamed" /\ pc'[t] = "written" /\ op' = op /\ rec' = rec
          /\ recMay' = {rec}
      BY <2>9 DEF SyncDir, Goto, TypeOK
    <3>2. \A s \in Sessions : ~Return(s)
      BY <2>1, <3>1 DEF InLock
    <3>3. Complete(rec)
      BY <3>1 DEF WriteInv
    <3> QED BY <1>0, <3>1, <3>2, <3>3, StaysComplete DEF Holds, WriteInv
  <2>10. CASE Migrate(t)
    <3>1. pc[t] = "written" /\ pc'[t] = "done" /\ op' = op /\ recMay' = recMay
      BY <2>10 DEF Migrate, Goto, TypeOK
    <3> QED BY <1>0, <3>1 DEF Holds, WriteInv
  <2> QED
    BY <1>7, <2>2, <2>3, <2>4, <2>5, <2>6, <2>7, <2>8, <2>9, <2>10 DEF Act, Progress
<1> QED BY <1>3, <1>4, <1>5, <1>6, <1>7 DEF Next, Act

LEMMA SoleNext ==
    TypeOK /\ SignInv /\ LockInv /\ RetiredOnDisk /\ PendingInv /\ SoleInv /\ [Next]_vars
    => SoleInv'
<1> SUFFICES ASSUME TypeOK, SignInv, LockInv, PendingInv, SoleInv, [Next]_vars,
                    NEW t \in Sessions, pc'[t] = "sign", op'[t].key \notin exempt'
             PROVE  /\ <<op'[t].key, op'[t].idx>> \notin signed'
                    /\ \A u \in Sessions \ {t} :
                          ~(pc'[u] = "sign" /\ op'[u].key = op'[t].key
                                            /\ op'[u].idx = op'[t].idx)
  BY DEF SoleInv
<1>1. exempt \subseteq exempt'
  BY HistoryGrows
<1>2. CASE UNCHANGED vars \/ PowerCut
  BY <1>1, <1>2 DEF vars, sessionVars, historyVars, PowerCut, SoleInv
<1>3. ASSUME NEW s \in Sessions, Act(s) PROVE
                    /\ <<op'[t].key, op'[t].idx>> \notin signed'
                    /\ \A u \in Sessions \ {t} :
                          ~(pc'[u] = "sign" /\ op'[u].key = op'[t].key
                                            /\ op'[u].idx = op'[t].idx)
  <2>1. CASE Return(s) /\ op[s].kind = "sign"
    <3>1. /\ pc[s] = "done" /\ op' = op /\ pc' = [pc EXCEPT ![s] = "sign"]
          /\ signed' = signed
      BY <2>1 DEF Return, Goto, historyVars
    <3>2. op[s].key \notin exempt => ~Retired(op[s].key, op[s].idx)
      BY <2>1, <3>1 DEF PendingInv, InLock
    <3> QED BY <1>1, <3>1, <3>2 DEF SoleInv, Retired, TypeOK
  <2>2. CASE MakeSignature(s)
    <3>1. /\ pc[s] = "sign" /\ pc' = [pc EXCEPT ![s] = "idle"]
          /\ op' = [op EXCEPT ![s] = NoCall]
          /\ signed' = signed \cup {<<op[s].key, op[s].idx>>}
      BY <2>2 DEF MakeSignature, End
    <3>2. s # t
      BY <3>1 DEF TypeOK
    <3> QED BY <1>1, <3>1, <3>2 DEF SoleInv, TypeOK
  <2>3. CASE \E k \in Keys, i \in 0 .. Capacity : SignOff(s, k, i)
    <3>1. PICK k \in Keys, i \in 0 .. Capacity : SignOff(s, k, i)
      BY <2>3
    <3>2. /\ pc' = [pc EXCEPT ![s] = "sign"] /\ op'[s].key = k /\ signed' = signed
          /\ exempt' = exempt \cup {k}
          /\ op' = [op EXCEPT ![s] = [kind |-> "sign", key |-> k, idx |-> i]]
      BY <3>1 DEF SignOff, Goto, TypeOK
    <3>3. s # t
      BY <3>2
    <3> QED BY <1>1, <3>2, <3>3 DEF SoleInv, TypeOK
  <2>4. CASE /\ signed' = signed
             /\ \A u \in Sessions : pc'[u] = "sign" => pc[u] = "sign" /\ op'[u] = op[u]
    BY <1>1, <2>4 DEF SoleInv
  <2>5. CASE Begin(s) /\ ~\E k \in Keys, i \in 0 .. Capacity : SignOff(s, k, i)
    <3>1. signed' = signed
      BY <2>5 DEF Begin, BeginWith, BeginSign, BeginFresh, Regenerate,
         BeginRegister, RegisterOff, BeginForget, ForgetOff, Advance, ForgetAll,
         historyVars
    <3>2. pc'[s] = "lock" \/ (pc[s] = "idle" /\ pc' = pc)
      BY <2>5 DEF Begin, BeginWith, BeginSign, BeginFresh, Regenerate,
         BeginRegister, RegisterOff, BeginForget, ForgetOff, Advance, ForgetAll,
         Start, Goto, sessionVars, TypeOK
    <3> QED BY <1>3, <2>4, <3>1, <3>2, OthersStay
  <2>6. CASE GiveUp(s) \/ Fail(s) \/ SignFails(s) \/ Crash(s)
    <3>1. signed' = signed /\ pc'[s] = "idle"
      BY <2>6 DEF GiveUp, Fail, SignFails, Crash, End, historyVars, TypeOK
    <3> QED BY <1>3, <2>4, <3>1, OthersStay
  <2>7. CASE \/ Acquire(s) \/ Reserve(s) \/ Register(s) \/ Forget(s) \/ WriteTmp(s)
             \/ Rename(s) \/ SyncDir(s) \/ Migrate(s)
    <3>1. signed' = signed /\ pc'[s] # "sign"
      BY <2>7 DEF Acquire, Reserve, Register, Forget, WriteTmp, Rename, SyncDir,
         Migrate, Goto, historyVars, TypeOK
    <3> QED BY <1>3, <2>4, <3>1, OthersStay
  <2>8. CASE Return(s) /\ op[s].kind # "sign"
    <3>1. signed' = signed /\ pc'[s] = "idle"
      BY <2>8 DEF Return, End, historyVars, TypeOK
    <3> QED BY <1>3, <2>4, <3>1, OthersStay
  <2> QED
    BY <1>3, <2>1, <2>2, <2>3, <2>5, <2>6, <2>7, <2>8 DEF Act, Progress
<1> QED BY <1>2, <1>3 DEF Next, Act

LEMMA ReuseNext ==
    TypeOK /\ SignInv /\ SoleInv /\ NoIndexReuse /\ [Next]_vars => NoIndexReuse'
<1> SUFFICES ASSUME TypeOK, SignInv, SoleInv, NoIndexReuse, [Next]_vars,
                    NEW p \in reused'
             PROVE  p[1] \in exempt'
  BY DEF NoIndexReuse
<1>1. exempt \subseteq exempt'
  BY HistoryGrows
<1>2. CASE p \in reused
  BY <1>1, <1>2 DEF NoIndexReuse
<1>3. CASE p \notin reused
  <2>1. PICK s \in Sessions : MakeSignature(s)
    <3>1. CASE UNCHANGED vars \/ PowerCut
      BY <1>3, <3>1 DEF vars, historyVars, PowerCut
    <3>2. ASSUME NEW s \in Sessions, Begin(s) PROVE FALSE
      BY <1>3, <3>2 DEF Begin, BeginWith, BeginSign, SignOff, BeginFresh,
         Regenerate, BeginRegister, RegisterOff, BeginForget, ForgetOff,
         ForgetAll, Advance, historyVars
    <3>3. ASSUME NEW s \in Sessions, Progress(s) PROVE MakeSignature(s)
      BY <1>3, <3>3 DEF Progress, Acquire, GiveUp, Fail, Reserve, Register,
         Forget, WriteTmp, Rename, SyncDir, Migrate, Return, SignFails, historyVars
    <3>4. ASSUME NEW s \in Sessions, Crash(s) PROVE FALSE
      BY <1>3, <3>4 DEF Crash
    <3> QED BY <3>1, <3>2, <3>3, <3>4 DEF Next
  <2>2. p = <<op[s].key, op[s].idx>> /\ p \in signed /\ pc[s] = "sign"
    BY <1>3, <2>1 DEF MakeSignature
  <2> QED BY <1>1, <2>2 DEF SoleInv
<1> QED BY <1>2, <1>3

-----------------------------------------------------------------------------
(* The theorems.                                                           *)

LEMMA InvInit == Init => IInv
<1> SUFFICES ASSUME Init PROVE IInv
  OBVIOUS
<1>1. TypeOK /\ SignInv
  BY TypeInit
<1>2. \A s \in Sessions : pc[s] = "idle" /\ op[s] = NoCall
  BY DEF Init
<1>3. LockInv /\ VisibleInv /\ WriteInv /\ PendingInv /\ SoleInv /\ TmpIntact
  BY <1>2 DEF Init, LockInv, VisibleInv, WriteInv, PendingInv, SoleInv, TmpIntact, InLock
<1>4. ASSUME NEW k \in Keys, NEW i \in Index, <<k, i>> \in signed
      PROVE  i <= LegacyIndex[k] /\ copies[k] # {}
  <2>1. i <= LegacyIndex[k] /\ i \in Nat /\ LegacyIndex[k] \in Int
    BY <1>4 DEF Init, Index, Entry, Absent
  <2>2. LegacyIndex[k] # Absent /\ 0 \in 0 .. (LegacyIndex[k] + 1)
    BY <2>1 DEF Absent
  <2> QED BY <2>1, <2>2 DEF Init
<1>5. CallInv
  <2>1. \A s \in Sessions : CallFine(s)
    <3>1. ASSUME NEW s \in Sessions, op[s] = NoCall PROVE CallFine(s)
      BY <3>1 DEF NoCall, CallFine
    <3> QED BY <1>2, <3>1
  <2>2. \A k \in Keys, i \in Index : <<k, i>> \in signed => copies[k] # {}
    BY <1>4
  <2> QED BY <2>1, <2>2 DEF CallInv
<1>6. RetiredOnDisk
  <2> SUFFICES ASSUME NEW k \in Keys \ exempt, NEW i \in Index, Retired(k, i),
                      NEW r \in recMay, NEW j \in jsonMay
               PROVE  JsonShows(j, k, i)
    BY DEF RetiredOnDisk
  <2>1. <<k, i>> \in signed /\ j = TRUE
    BY <1>2 DEF Retired, Init
  <2> QED BY <1>4, <2>1 DEF JsonShows
<1>7. NoIndexReuse
  BY DEF Init, NoIndexReuse
<1> QED BY <1>1, <1>3, <1>5, <1>6, <1>7 DEF IInv

LEMMA InvNext == ASSUME DirFlush PROVE IInv /\ [Next]_vars => IInv'
<1> SUFFICES ASSUME IInv, [Next]_vars PROVE IInv'
  OBVIOUS
<1> USE DEF IInv
<1>1. TypeOK' /\ SignInv'
  BY TypeNext, SignNext
<1>2. LockInv' /\ VisibleInv' /\ TmpIntact'
  BY LockNext, VisibleNext, TmpNext
<1>3. CallInv' /\ RetiredOnDisk'
  BY CallNext, RetiredNext
<1>4. WriteInv' /\ PendingInv'
  BY WriteNext, PendingNext
<1>5. SoleInv' /\ NoIndexReuse'
  BY SoleNext, ReuseNext
<1> QED BY <1>1, <1>2, <1>3, <1>4, <1>5

\* Where a directory can be flushed, an index of a key that was neither reset
\* nor signed with the record off signs at most once: for any number of
\* sessions, keys, copies, crashes and power cuts.
THEOREM NoReuse == ASSUME DirFlush PROVE Spec => []NoIndexReuse
<1>1. IInv => NoIndexReuse
  BY DEF IInv
<1> QED BY <1>1, InvInit, InvNext, PTL DEF Spec

\* ... and what any power cut leaves behind still shows it as used.
THEOREM RetiredStaysOnDisk == ASSUME DirFlush PROVE Spec => []RetiredOnDisk
<1>1. IInv => RetiredOnDisk
  BY DEF IInv
<1> QED BY <1>1, InvInit, InvNext, PTL DEF Spec

\* The clean-up of leftovers spares the file of a live writer, whatever the
\* file system can flush.
THEOREM TmpStaysIntact == Spec => []TmpIntact
<1>1. Init => TypeOK /\ SignInv /\ LockInv /\ TmpIntact
  BY InvInit DEF IInv
<1>2. TypeOK /\ SignInv /\ LockInv /\ TmpIntact /\ [Next]_vars
      => (TypeOK /\ SignInv /\ LockInv /\ TmpIntact)'
  BY TypeNext, SignNext, LockNext, TmpNext
<1> QED BY <1>1, <1>2, PTL DEF Spec

\* xmssadv() reads a record that shows every retired index.
LEMMA AdvanceStep ==
    ASSUME OffSessions = {}, IInv, [Next]_vars,
           NEW k \in Keys \ exempt, NEW c \in copies'[k] \ (copies[k] \cup {0}),
           NEW i \in Index, <<k, i>> \in signed
    PROVE  i < c
<1> USE DEF IInv, TypeOK
<1>1. PICK s \in Sessions, n \in Index, next \in 0 .. Capacity : Advance(s, k, n, next)
  <2>1. CASE UNCHANGED vars \/ PowerCut
    BY <2>1 DEF vars, PowerCut
  <2>2. ASSUME NEW s \in Sessions, Begin(s)
        PROVE  \E n \in Index, next \in 0 .. Capacity : Advance(s, k, n, next)
    <3>1. PICK kk \in Keys : BeginWith(s, kk)
      BY <2>2 DEF Begin, ForgetAll
    <3>2. kk = k /\ \E n \in Index, next \in 0 .. Capacity : Advance(s, kk, n, next)
      BY <3>1 DEF BeginWith, BeginSign, SignOff, BeginFresh, Regenerate,
         BeginRegister, RegisterOff, BeginForget, ForgetOff, Advance
    <3> QED BY <3>2
  <2>3. ASSUME NEW s \in Sessions, Progress(s) PROVE FALSE
    <3>1. copies' = copies \/ Return(s)
      BY <2>3 DEF Progress, Acquire, GiveUp, Fail, Reserve, Register, Forget,
         WriteTmp, Rename, SyncDir, Migrate, MakeSignature, SignFails
    <3> QED BY <3>1 DEF Return
  <2>4. ASSUME NEW s \in Sessions, Crash(s) PROVE FALSE
    BY <2>4 DEF Crash
  <2> QED BY <2>1, <2>2, <2>3, <2>4 DEF Next
<1> DEFINE hi == Highest(s, k, RecordRead)
<1>2. c = Larger(next, Larger(n + 1, hi + 1))
  BY <1>1 DEF Advance, On
<1>3. /\ hi \in Entry /\ hi >= RecordRead.id[k] /\ hi >= RecordRead.legacy[k]
      /\ RecordRead.id[k] \in Entry /\ RecordRead.legacy[k] \in Entry
  BY RecordReadIs, HighestIs DEF Record
<1>4. Shows(RecordRead, k, i)
  BY ReadFindsRetired DEF Retired
<1>5. i <= hi
  BY <1>3, <1>4 DEF Shows, Entry, Absent, Index
<1> HIDE DEF hi
<1> QED BY <1>2, <1>3, <1>5 DEF Larger, Entry, Absent, Index

\* A key that xmssadv() hands out is past every index that has signed, when no
\* session runs with the record off.
THEOREM AdvanceGoesPast ==
    ASSUME DirFlush, OffSessions = {} PROVE Spec => AdvancePastUsed
<1>1. IInv /\ [Next]_vars =>
        [\A k \in Keys \ exempt :
          \A c \in copies'[k] \ (copies[k] \cup {0}), i \in Index :
              <<k, i>> \in signed => i < c]_vars
  BY AdvanceStep
<1> QED BY <1>1, InvInit, InvNext, PTL DEF Spec, AdvancePastUsed

-----------------------------------------------------------------------------
(* Two more promises of XmssRecord, for any sessions, keys and capacity,   *)
(* and for any file system: no write of the record takes back what another *)
(* session entered, for whichever key; and a session never signs an index  *)
(* twice in its own life, even with the record off.                        *)

(* SessionNeverRepeats.                                                    *)

\* A session remembers an index no lower than any it has made in its life; the
\* index it is retiring is above that, the one it is about to sign with is that.
Remembers(s) ==
    /\ \A p \in made[s] : p[2] <= mem[s][p[1]]
    /\ pc[s] \in InLock \ {"held"} /\ op[s].kind = "sign" =>
          op[s].idx > mem[s][op[s].key]
    /\ pc[s] = "sign" =>
          /\ <<op[s].key, op[s].idx>> \notin made[s]
          /\ op[s].idx = mem[s][op[s].key]

RemembersInv == \A s \in Sessions : Remembers(s)

\* A session's step leaves the memory of the other sessions alone.
LEMMA OthersRemember ==
    ASSUME TypeOK, NEW s \in Sessions, NEW t \in Sessions \ {s}, Act(s)
    PROVE  mem'[t] = mem[t] /\ made'[t] = made[t]
<1> USE DEF TypeOK
<1>1. CASE Begin(s)
  <2>1. CASE ForgetAll(s)
    BY <2>1 DEF ForgetAll
  <2>2. ASSUME NEW k \in Keys, BeginWith(s, k)
        PROVE  mem'[t] = mem[t] /\ made'[t] = made[t]
    <3>1. CASE \E i \in 0 .. Capacity : BeginSign(s, k, i) \/ SignOff(s, k, i)
      BY <3>1 DEF BeginSign, SignOff, historyVars
    <3>2. CASE BeginFresh(s, k) \/ BeginRegister(s, k) \/ BeginForget(s, k)
      BY <3>2 DEF BeginFresh, BeginRegister, BeginForget, historyVars
    <3>3. CASE \/ Regenerate(s, k) \/ RegisterOff(s, k) \/ ForgetOff(s, k)
               \/ \E i \in Index, next \in 0 .. Capacity : Advance(s, k, i, next)
      BY <3>3 DEF Regenerate, RegisterOff, ForgetOff, Advance, sessionVars, historyVars
    <3> QED BY <2>2, <3>1, <3>2, <3>3 DEF BeginWith
  <2> QED BY <1>1, <2>1, <2>2 DEF Begin
<1>2. CASE Progress(s)
  <2>1. CASE GiveUp(s) \/ Fail(s) \/ MakeSignature(s) \/ SignFails(s)
    BY <2>1 DEF GiveUp, Fail, MakeSignature, SignFails, historyVars
  <2>2. CASE Acquire(s) \/ WriteTmp(s) \/ Rename(s) \/ SyncDir(s) \/ Migrate(s)
    BY <2>2 DEF Acquire, WriteTmp, Rename, SyncDir, Migrate, historyVars
  <2>3. CASE Reserve(s) \/ Register(s) \/ Forget(s)
    BY <2>3 DEF Reserve, Register, Forget, historyVars
  <2>4. CASE Return(s)
    BY <2>4 DEF Return, historyVars
  <2> QED BY <1>2, <2>1, <2>2, <2>3, <2>4 DEF Progress
<1>3. CASE Crash(s)
  BY <1>3 DEF Crash
<1> QED BY <1>1, <1>2, <1>3 DEF Act

\* What a session remembers of one key rises to e, or it had forgotten the key.
LEMMA MemoryRises ==
    ASSUME TypeOK, NEW s \in Sessions, Remembers(s), NEW k \in Keys, NEW e \in Entry,
           mem[s][k] = Absent \/ mem[s][k] <= e,
           mem' = [mem EXCEPT ![s][k] = e], made' = made
    PROVE  \A p \in made'[s] : p[2] <= mem'[s][p[1]]
<1> SUFFICES ASSUME NEW p \in made[s] PROVE p[2] <= mem'[s][p[1]]
  OBVIOUS
<1>1. p[1] \in Keys /\ p[2] \in Index /\ p[2] <= mem[s][p[1]]
  BY DEF TypeOK, Remembers
<1>2. mem[s] \in [Keys -> Entry] /\ mem'[s] = [mem[s] EXCEPT ![k] = e]
  BY DEF TypeOK
<1>3. CASE p[1] = k
  BY <1>1, <1>2, <1>3 DEF Index, Entry, Absent
<1>4. CASE p[1] # k
  BY <1>1, <1>2, <1>4
<1> QED BY <1>3, <1>4

\* A session's own step keeps what it remembers.
LEMMA BeginRemembers ==
    ASSUME TypeOK, NEW s \in Sessions, Remembers(s), Begin(s)
    PROVE  Remembers(s)'
<1> USE DEF TypeOK
<1>1. CASE ForgetAll(s)
  BY <1>1 DEF ForgetAll, Remembers, InLock
<1>2. ASSUME NEW k \in Keys, BeginWith(s, k) PROVE Remembers(s)'
  <2>1. CASE \E i \in 0 .. Capacity : BeginSign(s, k, i)
    BY <2>1 DEF BeginSign, Start, Goto, Remembers, InLock, historyVars
  <2>2. CASE \E i \in 0 .. Capacity : SignOff(s, k, i)
    <3>1. PICK i \in 0 .. Capacity : SignOff(s, k, i)
      BY <2>2
    <3>2. i \in Index /\ i \in Entry /\ i > mem[s][k] /\ mem[s][k] \in Entry
      <4>1. i \in Index /\ i > Highest(s, k, EmptyRecord)
        BY <3>1 DEF SignOff
      <4>2. /\ Highest(s, k, EmptyRecord) \in Entry
            /\ Highest(s, k, EmptyRecord) >= mem[s][k]
        BY HighestIs, Helpers
      <4> QED BY <4>1, <4>2 DEF Index, Entry, Absent
    <3>3. \A p \in made'[s] : p[2] <= mem'[s][p[1]]
      <4>1. mem' = [mem EXCEPT ![s][k] = i] /\ made' = made /\ mem[s][k] <= i
        BY <3>1, <3>2 DEF SignOff, Entry, Absent
      <4> QED BY <3>2, <4>1, MemoryRises
    <3>4. pc'[s] = "sign" /\ op'[s].key = k /\ op'[s].idx = i /\ mem'[s][k] = i
      BY <3>1 DEF SignOff, Goto
    <3>5. <<k, i>> \notin made'[s]
      <4>1. made' = made
        BY <3>1 DEF SignOff
      <4>2. <<k, i>> \in made[s] => i <= mem[s][k]
        BY DEF Remembers
      <4> QED BY <3>2, <4>1, <4>2 DEF Entry, Absent, Index
    <3> QED BY <3>3, <3>4, <3>5 DEF Remembers, InLock
  <2>3. CASE BeginFresh(s, k) \/ BeginRegister(s, k)
    BY <2>3 DEF BeginFresh, BeginRegister, Start, Goto, Remembers, InLock, historyVars
  <2>4. CASE Regenerate(s, k)
    BY <2>4 DEF Regenerate, Remembers, InLock, sessionVars, historyVars
  <2>5. CASE RegisterOff(s, k)
    <3>1. \A p \in made'[s] : p[2] <= mem'[s][p[1]]
      BY <2>5, MemoryRises, Helpers DEF RegisterOff, historyVars
    <3>2. pc'[s] = "idle"
      BY <2>5 DEF RegisterOff
    <3> QED BY <3>1, <3>2 DEF Remembers, InLock
  <2>6. CASE BeginForget(s, k) \/ ForgetOff(s, k)
    <3>1. /\ mem'[s] = [mem[s] EXCEPT ![k] = -1]
          /\ made'[s] = {p \in made[s] : p[1] # k}
      BY <2>6 DEF BeginForget, ForgetOff
    <3>2. \A p \in made[s] : p[1] \in Keys
      OBVIOUS
    <3>3. \A p \in made'[s] : p[2] <= mem'[s][p[1]]
      BY <3>1, <3>2 DEF Remembers
    <3>4. pc'[s] \in {"idle", "lock"}
      BY <2>6 DEF BeginForget, ForgetOff, Start, Goto
    <3> QED BY <3>3, <3>4 DEF Remembers, InLock
  <2>7. CASE \E i \in Index, next \in 0 .. Capacity : Advance(s, k, i, next)
    BY <2>7 DEF Advance, Remembers, InLock, sessionVars, historyVars
  <2> QED BY <1>2, <2>1, <2>2, <2>3, <2>4, <2>5, <2>6, <2>7 DEF BeginWith
<1> QED BY <1>1, <1>2 DEF Begin

LEMMA ProgressRemembers ==
    ASSUME TypeOK, SignInv, NEW s \in Sessions, Remembers(s), Progress(s)
    PROVE  Remembers(s)'
<1> USE DEF TypeOK
<1>1. CASE GiveUp(s) \/ Fail(s) \/ SignFails(s)
  BY <1>1 DEF GiveUp, Fail, SignFails, End, Remembers, InLock, historyVars
<1>2. CASE Acquire(s)
  BY <1>2 DEF Acquire, Goto, Remembers, InLock, historyVars
<1>3. CASE Reserve(s)
  <2> DEFINE k == op[s].key
  <2>1. k \in Keys /\ op[s].idx \in Index
    BY <1>3 DEF Reserve, Call, SignInv
  <2>2. op[s].idx > mem[s][k]
    <3>1. op[s].idx > Highest(s, k, RecordRead)
      BY <1>3 DEF Reserve, MayReserve
    <3>2. /\ Highest(s, k, RecordRead) \in Entry
          /\ Highest(s, k, RecordRead) >= mem[s][k] /\ mem[s][k] \in Entry
      BY <2>1, HighestIs, RecordReadIs
    <3> QED BY <2>1, <3>1, <3>2 DEF Index, Entry, Absent
  <2> QED
    BY <1>3, <2>2 DEF Reserve, Goto, Remembers, InLock, historyVars
<1>4. CASE Register(s) \/ Forget(s)
  BY <1>4 DEF Register, Forget, Goto, Remembers, InLock, historyVars, Call
<1>5. CASE WriteTmp(s) \/ Rename(s) \/ SyncDir(s) \/ Migrate(s)
  BY <1>5 DEF WriteTmp, Rename, SyncDir, Migrate, Goto, Remembers, InLock, historyVars
<1>6. CASE Return(s)
  <2> DEFINE k == op[s].key
  <2>1. k \in Keys /\ op[s].idx \in Entry /\ mem[s][k] \in Entry /\ made' = made
    BY <1>6 DEF Return, Call, historyVars
  <2>2. CASE op[s].kind = "sign"
    <3>1. mem' = [mem EXCEPT ![s][k] = op[s].idx] /\ op[s].idx > mem[s][k]
      BY <1>6, <2>2 DEF Return, Remembers, InLock
    <3>2. \A p \in made'[s] : p[2] <= mem'[s][p[1]]
      <4>1. mem[s][k] <= op[s].idx
        BY <2>1, <3>1 DEF Entry, Absent
      <4> QED BY <2>1, <3>1, <4>1, MemoryRises
    <3>3. pc'[s] = "sign" /\ op' = op /\ mem'[s][k] = op[s].idx
      BY <1>6, <2>1, <2>2, <3>1 DEF Return, Goto
    <3>4. <<k, op[s].idx>> \notin made[s]
      <4>1. <<k, op[s].idx>> \in made[s] => op[s].idx <= mem[s][k]
        BY DEF Remembers
      <4> QED BY <2>1, <3>1, <4>1 DEF Entry, Absent
    <3> QED BY <2>1, <3>2, <3>3, <3>4 DEF Remembers, InLock
  <2>3. CASE op[s].kind # "sign"
    <3>1. pc'[s] = "idle"
      BY <1>6, <2>3 DEF Return, End
    <3>2. \A p \in made'[s] : p[2] <= mem'[s][p[1]]
      <4>1. CASE mem' = mem
        BY <2>1, <4>1 DEF Remembers
      <4>2. CASE mem[s][k] = Absent /\ mem' = [mem EXCEPT ![s][k] = op[s].idx]
        BY <2>1, <4>2, MemoryRises
      <4> QED BY <1>6, <2>3, <4>1, <4>2 DEF Return
    <3> QED BY <3>1, <3>2 DEF Remembers, InLock
  <2> QED BY <2>2, <2>3
<1>7. CASE MakeSignature(s)
  <2>1. /\ made'[s] = made[s] \cup {<<op[s].key, op[s].idx>>}
        /\ mem' = mem /\ pc'[s] = "idle" /\ pc[s] = "sign"
    BY <1>7 DEF MakeSignature, End
  <2>2. op[s].idx \in Entry /\ op[s].idx <= mem[s][op[s].key]
    BY <2>1 DEF Remembers, Call, Entry, Absent
  <2>3. \A p \in made'[s] : p[2] <= mem'[s][p[1]]
    BY <2>1, <2>2 DEF Remembers
  <2> QED BY <2>1, <2>3 DEF Remembers, InLock
<1> QED
  BY <1>1, <1>2, <1>3, <1>4, <1>5, <1>6, <1>7 DEF Progress

LEMMA RemembersNext ==
    TypeOK /\ SignInv /\ RemembersInv /\ [Next]_vars => RemembersInv'
<1> SUFFICES ASSUME TypeOK, SignInv, RemembersInv, [Next]_vars, NEW t \in Sessions
             PROVE  Remembers(t)'
  BY DEF RemembersInv
<1> USE DEF RemembersInv
<1>1. CASE UNCHANGED vars
  BY <1>1 DEF vars, sessionVars, historyVars, Remembers
<1>2. CASE PowerCut
  BY <1>2 DEF PowerCut, Remembers, InLock
<1>3. ASSUME NEW s \in Sessions, Act(s), s # t PROVE Remembers(t)'
  BY <1>3, OthersStay, OthersRemember DEF Remembers
<1>4. CASE Begin(t)
  BY <1>4, BeginRemembers
<1>5. CASE Progress(t)
  BY <1>5, ProgressRemembers
<1>6. CASE Crash(t)
  BY <1>6 DEF Crash, End, Remembers, InLock, TypeOK
<1> QED BY <1>1, <1>2, <1>3, <1>4, <1>5, <1>6 DEF Next, Act

\* A session does not sign an index twice in its own life, with whatever copies of
\* the key and whether the record is on or off, for any sessions and keys.
THEOREM NeverRepeats == Spec => []SessionNeverRepeats
<1>1. Init => RemembersInv
  BY DEF Init, RemembersInv, Remembers, InLock
<1>2. RemembersInv => SessionNeverRepeats
  BY DEF RemembersInv, Remembers, SessionNeverRepeats
<1> QED BY <1>1, <1>2, TypeInit, TypeNext, SignNext, RemembersNext, PTL DEF Spec

-----------------------------------------------------------------------------
(* RecordNeverLowered.                                                     *)

\* Nothing is known of a key that does not exist: only the call that generates it
\* names it.
Unknown(k) ==
    /\ LegacyIndex[k] < 0
    /\ \A r \in recMay : r.id[k] < 0 /\ r.legacy[k] < 0
    /\ \A s \in Sessions :
          /\ buf[s].id[k] < 0 /\ buf[s].legacy[k] < 0 /\ mem[s][k] < 0
          /\ pc[s] # "idle" /\ op[s].key = k => op[s].kind = "fresh"

UnknownInv == \A k \in Keys : copies[k] = {} => Unknown(k)

\* The record about to be written is no lower than the file.
NoLower(s) ==
    pc[s] \in {"write", "tmp"} =>
        \A k \in Keys \ exempt : rec.id[k] >= 0 => buf[s].id[k] >= rec.id[k]

NoLowerInv == \A s \in Sessions : NoLower(s)

\* Reading the record of a key that is not known finds nothing of it.
LEMMA NothingRead ==
    ASSUME TypeOK, VisibleInv, NEW k \in Keys, Unknown(k)
    PROVE  /\ rec.id[k] < 0 /\ RecordRead.id[k] < 0 /\ RecordRead.legacy[k] < 0
           /\ \A s \in Sessions : Highest(s, k, RecordRead) = -1
<1>1. rec.id[k] < 0 /\ rec.legacy[k] < 0 /\ LegacyIndex[k] < 0
  BY DEF VisibleInv, Unknown
<1>2. rec.id[k] \in Entry /\ rec.legacy[k] \in Entry /\ LegacyIndex[k] \in Entry
  BY DEF TypeOK, Record
<1>3. RecordRead.id[k] = rec.id[k] /\ RecordRead.legacy[k] < 0
      /\ RecordRead.legacy[k] \in Entry
  BY <1>1, <1>2 DEF RecordRead, Larger, Entry, Absent
<1>4. ASSUME NEW s \in Sessions PROVE Highest(s, k, RecordRead) = -1
  <2>1. mem[s][k] < 0 /\ mem[s][k] \in Entry
    BY DEF Unknown, TypeOK
  <2> QED BY <1>1, <1>2, <1>3, <2>1 DEF Highest, Larger, Entry, Absent
<1> QED BY <1>1, <1>3, <1>4

\* What a session writes of a key it does not work on says no more of it than the
\* record it read.
LEMMA StaysUnknown ==
    ASSUME TypeOK, SignInv, CallInv, VisibleInv, UnknownInv, [Next]_vars,
           NEW k \in Keys, copies'[k] = {}
    PROVE  Unknown(k)'
<1> USE DEF TypeOK
<1>1. copies[k] = {} /\ Unknown(k)
  <2>1. copies[k] \subseteq copies'[k]
    BY HistoryGrows
  <2> QED BY <2>1 DEF UnknownInv
<1>2. EmptyRecord.id[k] < 0 /\ EmptyRecord.legacy[k] < 0
  BY DEF EmptyRecord, Absent
<1>3. /\ rec \in recMay
      /\ rec.id[k] < 0 /\ RecordRead.id[k] < 0 /\ RecordRead.legacy[k] < 0
      /\ \A s \in Sessions : Highest(s, k, RecordRead) = -1
  BY <1>1, NothingRead DEF VisibleInv
<1>4. CASE UNCHANGED vars
  BY <1>1, <1>4 DEF vars, recordVars, sessionVars, Unknown
<1>5. CASE PowerCut
  BY <1>1, <1>2, <1>5 DEF PowerCut, Unknown, Absent
<1>6. ASSUME NEW s \in Sessions, Act(s) PROVE Unknown(k)'
  <2> DEFINE Own == /\ buf'[s].id[k] < 0 /\ buf'[s].legacy[k] < 0 /\ mem'[s][k] < 0
                    /\ pc'[s] # "idle" /\ op'[s].key = k => op'[s].kind = "fresh"
             Files == \A r \in recMay' : r.id[k] < 0 /\ r.legacy[k] < 0
  <2>1. /\ buf[s].id[k] < 0 /\ buf[s].legacy[k] < 0 /\ mem[s][k] < 0
        /\ pc[s] # "idle" /\ op[s].key = k => op[s].kind = "fresh"
        /\ \A r \in recMay : r.id[k] < 0 /\ r.legacy[k] < 0
    BY <1>1 DEF Unknown
  <2>2. ASSUME Begin(s) PROVE Own /\ Files
    <3>1. CASE ForgetAll(s)
      <4>1. /\ mem'[s] = [q \in Keys |-> Absent]
            /\ UNCHANGED <<pc, op, buf>>
            /\ recMay' = recMay \/ recMay' = recMay \cup {EmptyRecord}
        BY <3>1 DEF ForgetAll
      <4>2. mem'[s][k] < 0
        BY <4>1 DEF Absent
      <4>3. Files
        BY <1>2, <2>1, <4>1
      <4> QED BY <2>1, <4>1, <4>2, <4>3
    <3>2. ASSUME NEW kk \in Keys, BeginWith(s, kk) PROVE Own /\ Files
      <4>1. CASE \E i \in 0 .. Capacity : BeginSign(s, kk, i) \/ SignOff(s, kk, i)
        BY <1>1, <2>1, <4>1 DEF BeginSign, SignOff, Start, Goto, recordVars
      <4>2. CASE BeginFresh(s, kk)
        BY <2>1, <4>2 DEF BeginFresh, Start, Goto, recordVars
      <4>3. CASE BeginRegister(s, kk) \/ BeginForget(s, kk)
        BY <1>1, <2>1, <4>3 DEF BeginRegister, BeginForget, Start, Goto, recordVars
      <4>4. CASE RegisterOff(s, kk) \/ ForgetOff(s, kk)
        BY <2>1, <4>4 DEF RegisterOff, ForgetOff, recordVars
      <4>5. CASE \/ Regenerate(s, kk)
                 \/ \E i \in Index, next \in 0 .. Capacity : Advance(s, kk, i, next)
        BY <2>1, <4>5 DEF Regenerate, Advance, recordVars, sessionVars
      <4> QED BY <3>2, <4>1, <4>2, <4>3, <4>4, <4>5 DEF BeginWith
    <3> QED BY <2>2, <3>1, <3>2 DEF Begin
  <2>3. ASSUME Progress(s) PROVE Own /\ Files
    <3>1. CASE GiveUp(s) \/ Fail(s) \/ SignFails(s) \/ MakeSignature(s)
      BY <1>2, <2>1, <3>1 DEF GiveUp, Fail, SignFails, MakeSignature, End, recordVars
    <3>2. CASE Acquire(s) \/ WriteTmp(s) \/ Migrate(s)
      BY <2>1, <3>2 DEF Acquire, WriteTmp, Migrate, Goto, recordVars
    <3>3. CASE Rename(s)
      BY <1>2, <2>1, <3>3 DEF Rename, Goto
    <3>4. CASE SyncDir(s)
      BY <1>3, <2>1, <3>4 DEF SyncDir, Goto
    <3>5. CASE Reserve(s) \/ Forget(s)
      <4>1. pc[s] = "held" /\ op[s].kind \in {"sign", "forget"} /\ op[s].key \in Keys
        BY <3>5 DEF Reserve, Forget, Goto, Call
      <4>2. op[s].key # k
        BY <2>1, <4>1
      <4>3. buf'[s].id[k] < 0 /\ buf'[s].legacy[k] < 0
        <5>1. CASE Reserve(s)
          BY <1>3, <4>1, <4>2, <5>1 DEF Reserve, WithIndex, Record
        <5>2. CASE Forget(s)
          BY <1>3, <4>1, <4>2, <5>2, RecordReadIs DEF Forget, Record
        <5> QED BY <3>5, <5>1, <5>2
      <4>4. UNCHANGED <<recordVars, mem, op>>
        BY <3>5 DEF Reserve, Forget
      <4> QED BY <2>1, <4>2, <4>3, <4>4 DEF recordVars
    <3>6. CASE Register(s)
      <4> DEFINE hi == Highest(s, op[s].key, RecordRead)
      <4>1. /\ pc[s] = "held" /\ op[s].key \in Keys
            /\ op'[s].key = op[s].key /\ op'[s].kind = op[s].kind
            /\ UNCHANGED <<recordVars, mem>>
        BY <3>6 DEF Register, Goto, Call
      <4>2. buf' = buf \/ buf'[s] = WithIndex(RecordRead, op[s].key, hi)
        BY <3>6 DEF Register
      <4>3. op[s].key = k => hi = -1
        BY <1>3
      <4> HIDE DEF hi
      <4>4. buf'[s].id[k] < 0 /\ buf'[s].legacy[k] < 0
        BY <1>3, <2>1, <4>1, <4>2, <4>3, RecordReadIs DEF WithIndex, Record
      <4> QED BY <2>1, <4>1, <4>4 DEF recordVars
    <3>7. CASE Return(s)
      <4>1. pc[s] = "done" /\ op[s].key \in Keys
        BY <3>7 DEF Return, Call
      <4>2. op[s].key # k
        <5>1. op[s].key = k => op[s].kind = "fresh"
          BY <2>1, <4>1
        <5>2. op[s].kind = "fresh" => copies'[op[s].key] # {}
          BY <3>7, <4>1 DEF Return
        <5> QED BY <5>1, <5>2
      <4>3. mem'[s][k] = mem[s][k]
        BY <3>7, <4>1, <4>2 DEF Return
      <4>4. /\ buf'[s] = buf[s] \/ buf'[s] = EmptyRecord
            /\ pc'[s] = "idle" \/ op' = op
            /\ UNCHANGED recordVars
        BY <3>7 DEF Return, End
      <4> QED BY <1>2, <2>1, <4>2, <4>3, <4>4 DEF recordVars
    <3> QED
      BY <2>3, <3>1, <3>2, <3>3, <3>4, <3>5, <3>6, <3>7 DEF Progress
  <2>4. ASSUME Crash(s) PROVE Own /\ Files
    BY <1>2, <2>1, <2>4 DEF Crash, End, recordVars, Absent
  <2>5. Own /\ Files
    BY <1>6, <2>2, <2>3, <2>4 DEF Act
  <2>6. ASSUME NEW t \in Sessions \ {s}
        PROVE  /\ pc'[t] = pc[t] /\ op'[t] = op[t] /\ buf'[t] = buf[t]
               /\ mem'[t] = mem[t]
    BY <1>6, OthersStay, OthersRemember
  <2> QED BY <1>1, <2>5, <2>6 DEF Unknown
<1> QED BY <1>4, <1>5, <1>6 DEF Next, Act

\* Inside the lock nobody else changes the file, so what is about to be written
\* stays no lower than it.
LEMMA NoLowerNext ==
    ASSUME TypeOK, SignInv, CallInv, LockInv, NoLowerInv, [Next]_vars,
           NEW t \in Sessions
    PROVE  NoLower(t)'
<1> USE DEF TypeOK
<1>1. NoLower(t) /\ exempt \subseteq exempt'
  BY HistoryGrows DEF NoLowerInv
<1>2. CASE UNCHANGED vars
  BY <1>1, <1>2 DEF vars, recordVars, sessionVars, historyVars, NoLower
<1>3. CASE PowerCut
  BY <1>3 DEF PowerCut, NoLower
<1>4. ASSUME NEW s \in Sessions, Act(s) PROVE NoLower(t)'
  <2>1. CASE Wipes(s)
    <3>1. rec' = EmptyRecord
      BY <2>1 DEF Wipes, ForgetAll, On
    <3>2. \A q \in Keys : ~(rec'.id[q] >= 0)
      BY <3>1 DEF EmptyRecord, Absent
    <3> QED BY <3>2 DEF NoLower
  <2>2. CASE s # t /\ ~Wipes(s)
    <3>1. pc'[t] = pc[t] /\ buf'[t] = buf[t]
      BY <1>4, <2>2, OthersStay
    <3>2. pc[t] \in {"write", "tmp"} => rec' = rec
      <4>1. pc[t] \in {"write", "tmp"} => pc[s] \notin InLock
        BY <2>2, Alone DEF InLock
      <4>2. pc[s] \notin InLock => UNCHANGED recordVars
        BY <1>4, <2>2, FilesStay
      <4> QED BY <4>1, <4>2 DEF recordVars
    <3> QED BY <1>1, <3>1, <3>2 DEF NoLower
  <2>3. CASE s = t /\ ~Wipes(s)
    <3>1. CASE Begin(s)
      BY <2>3, <3>1, BeginIdle DEF NoLower
    <3>2. CASE Reserve(s) \/ Register(s)
      <4> DEFINE k == op[s].key
                 e == IF Reserve(s) THEN op[s].idx ELSE Highest(s, k, RecordRead)
      <4>1. k \in Keys /\ op[s].idx \in Entry /\ UNCHANGED recordVars
        BY <3>2 DEF Reserve, Register, Call
      <4>2. e >= rec.id[k]
        <5>1. /\ Highest(s, k, RecordRead) \in Entry /\ RecordRead.id = rec.id
              /\ Highest(s, k, RecordRead) >= rec.id[k] /\ rec.id[k] \in Entry
          BY <4>1, HighestIs, RecordReadIs DEF Record
        <5>2. Reserve(s) => op[s].idx > Highest(s, k, RecordRead)
          BY DEF Reserve, MayReserve
        <5> QED BY <4>1, <5>1, <5>2 DEF Entry, Absent
      <4>3. pc'[s] = "write" => buf'[s] = WithIndex(RecordRead, k, e)
        BY <3>2 DEF Reserve, Register, Goto
      <4>4. pc'[s] # "tmp"
        BY <3>2 DEF Reserve, Register, Goto
      <4> HIDE DEF e
      <4>5. \A q \in Keys : pc'[s] = "write" => buf'[s].id[q] = IF q = k THEN e ELSE rec.id[q]
        BY <4>1, <4>3, RecordReadIs DEF WithIndex, Record
      <4>6. \A q \in Keys : rec.id[q] \in Int
        BY DEF Record, Entry, Absent
      <4> QED BY <2>3, <4>1, <4>2, <4>4, <4>5, <4>6 DEF NoLower, recordVars
    <3>3. CASE Forget(s)
      <4>1. op[s].key \in Keys /\ op[s].key \in exempt /\ UNCHANGED recordVars
        BY <3>3 DEF Forget, Call, CallInv, CallFine
      <4>2. \A q \in Keys : q # op[s].key => buf'[s].id[q] = rec.id[q]
        BY <3>3, <4>1 DEF Forget, Record
      <4>3. \A q \in Keys : rec.id[q] \in Int
        BY DEF Record, Entry, Absent
      <4> QED BY <1>1, <2>3, <4>1, <4>2, <4>3 DEF NoLower, recordVars
    <3>4. CASE WriteTmp(s)
      BY <1>1, <2>3, <3>4 DEF WriteTmp, Goto, NoLower, historyVars
    <3>5. CASE \/ Acquire(s) \/ GiveUp(s) \/ Fail(s) \/ Rename(s) \/ SyncDir(s)
               \/ Migrate(s) \/ Return(s) \/ MakeSignature(s) \/ SignFails(s) \/ Crash(s)
      <4>1. pc'[s] \notin {"write", "tmp"}
        BY <3>5 DEF Acquire, GiveUp, Fail, Rename, SyncDir, Migrate, Return,
           MakeSignature, SignFails, Crash, End, Goto
      <4> QED BY <2>3, <4>1 DEF NoLower
    <3> QED
      BY <1>4, <3>1, <3>2, <3>3, <3>4, <3>5 DEF Act, Progress
  <2> QED BY <2>1, <2>2, <2>3
<1> QED BY <1>2, <1>3, <1>4 DEF Next, Act

\* What the theorem rests on.
WriterInv ==
    /\ TypeOK /\ SignInv /\ CallInv /\ LockInv /\ VisibleInv
    /\ UnknownInv /\ NoLowerInv

LEMMA WriterInit == Init => WriterInv
<1> SUFFICES ASSUME Init PROVE WriterInv
  OBVIOUS
<1>1. TypeOK /\ SignInv
  BY TypeInit
<1>2. CallInv /\ LockInv /\ VisibleInv
  BY InvInit DEF IInv
<1>3. UnknownInv
  <2> SUFFICES ASSUME NEW k \in Keys, copies[k] = {} PROVE Unknown(k)
    BY DEF UnknownInv
  <2>1. LegacyIndex[k] < 0
    <3>1. LegacyIndex[k] \in Entry
      OBVIOUS
    <3>2. LegacyIndex[k] # Absent => 0 \in 0 .. (LegacyIndex[k] + 1)
      BY <3>1 DEF Entry, Absent
    <3>3. copies[k] = IF LegacyIndex[k] = Absent THEN {} ELSE 0 .. (LegacyIndex[k] + 1)
      BY DEF Init
    <3>4. CASE LegacyIndex[k] = Absent
      BY <3>4 DEF Absent
    <3>5. CASE LegacyIndex[k] # Absent
      <4>1. copies[k] = 0 .. (LegacyIndex[k] + 1)
        BY <3>3, <3>5
      <4> QED BY <3>2, <3>5, <4>1
    <3> QED BY <3>4, <3>5
  <2> QED BY <2>1 DEF Init, Unknown, EmptyRecord, Absent
<1>4. NoLowerInv
  BY DEF Init, NoLowerInv, NoLower
<1> QED BY <1>1, <1>2, <1>3, <1>4 DEF WriterInv

LEMMA WriterNext == WriterInv /\ [Next]_vars => WriterInv'
<1> SUFFICES ASSUME WriterInv, [Next]_vars PROVE WriterInv'
  OBVIOUS
<1> USE DEF WriterInv
<1>1. (TypeOK /\ SignInv /\ CallInv /\ LockInv /\ VisibleInv)'
  BY TypeNext, SignNext, CallNext, LockNext, VisibleNext
<1>2. UnknownInv'
  BY StaysUnknown DEF UnknownInv
<1>3. NoLowerInv'
  BY NoLowerNext DEF NoLowerInv
<1> QED BY <1>1, <1>2, <1>3

\* The steps that change the file: the rename, and xmssfgt() with no key.
LEMMA RecordRises ==
    ASSUME WriterInv, [Next]_vars, ~PowerCut,
           NEW k \in Keys \ exempt', rec.id[k] >= 0
    PROVE  rec'.id[k] >= rec.id[k]
<1> USE DEF WriterInv, TypeOK
<1>1. rec.id[k] \in Int /\ k \notin exempt
  BY HistoryGrows DEF Record, Entry, Absent
<1>2. CASE rec' = rec
  BY <1>1, <1>2
<1>3. ASSUME NEW s \in Sessions, Rename(s) PROVE rec'.id[k] >= rec.id[k]
  <2>1. rec' = buf[s] /\ pc[s] = "tmp"
    BY <1>3 DEF Rename, Goto
  <2> QED BY <1>1, <2>1 DEF NoLowerInv, NoLower
<1>4. ASSUME NEW s \in Sessions, Wipes(s) PROVE FALSE
  <2>1. copies[k] = {}
    BY <1>4 DEF Wipes, ForgetAll, On
  <2>2. rec.id[k] < 0
    BY <2>1 DEF UnknownInv, Unknown, VisibleInv
  <2> QED BY <1>1, <2>2
<1>5. rec' = rec \/ \E s \in Sessions : Rename(s) \/ Wipes(s)
  <2>1. CASE UNCHANGED vars
    BY <2>1 DEF vars, recordVars
  <2>2. ASSUME NEW s \in Sessions, Begin(s) PROVE rec' = rec \/ Wipes(s)
    BY <2>2, BeginIdle DEF recordVars
  <2>3. ASSUME NEW s \in Sessions, Progress(s) PROVE rec' = rec \/ Rename(s)
    BY <2>3 DEF Progress, Acquire, GiveUp, Fail, Reserve, Register, Forget, WriteTmp,
       SyncDir, Migrate, Return, MakeSignature, SignFails, recordVars
  <2>4. ASSUME NEW s \in Sessions, Crash(s) PROVE rec' = rec
    BY <2>4 DEF Crash, recordVars
  <2> QED BY <2>1, <2>2, <2>3, <2>4 DEF Next
<1> QED BY <1>2, <1>3, <1>4, <1>5

\* No write of the record takes back an index that another session entered as used,
\* for any number of keys in the file: only a reset and a power cut do.
THEOREM NeverLowered == Spec => RecordNeverLowered
<1>1. WriterInv /\ [Next]_vars =>
        [\/ PowerCut
         \/ \A k \in Keys \ exempt' :
               rec.id[k] >= 0 => rec'.id[k] >= rec.id[k]]_vars
  BY RecordRises
<1> QED BY <1>1, WriterInit, WriterNext, PTL DEF Spec, RecordNeverLowered

-----------------------------------------------------------------------------
(* The used-index record implements OneTime, for any sessions, keys and    *)
(* capacity.  Retiring an index and returning from the lock takes it, the  *)
(* signature spends it; whatever ends a call in between drops it; a reset  *)
(* and a signature with the record off give it up.                         *)

\* What is in a session's hand is an index of a key.
LEMMA HandIs ==
    ASSUME TypeOK, SignInv, NEW s \in Sessions
    PROVE  Hand(s) \subseteq Keys \X Index
<1>1. op[s].key \in Keys
  BY DEF TypeOK, Call
<1> QED BY <1>1 DEF Hand, SignInv

\* A step after which the sessions hold what they held, save the keys that
\* become exempt, gives these up.
LEMMA GivesUp ==
    ASSUME TypeOK, SignInv, TypeOK', exempt \subseteq exempt',
           \A p \in Keys \X Index :
               p[1] \notin exempt' => (p \in signed' <=> p \in signed),
           \A t \in Sessions :
               op[t].key \notin exempt' /\ pc[t] = "sign" =>
                   pc'[t] = "sign" /\ op'[t] = op[t],
           \A t \in Sessions :
               op'[t].key \notin exempt' /\ pc'[t] = "sign" =>
                   pc[t] = "sign" /\ op'[t] = op[t]
    PROVE  OneTimeKeys!GiveUp
<1> DEFINE loose == {p \in Keys \X Index : p[1] \in exempt}
<1>1. loose \subseteq loose' /\ loose' \subseteq Keys \X Index
  OBVIOUS
<1>2. ASSUME NEW t \in Sessions PROVE Hand(t)' = Hand(t) \ loose'
  <2>1. op[t].key \in Keys /\ Hand(t) \subseteq Keys \X Index
    BY HandIs DEF TypeOK, Call
  <2>2. CASE pc[t] = "sign" /\ op[t].key \notin exempt'
    BY <2>1, <2>2 DEF Hand
  <2>3. CASE pc[t] = "sign" /\ op[t].key \in exempt'
    <3>1. Hand(t)' = {}
      BY <2>3 DEF Hand
    <3>2. Hand(t) \subseteq loose'
      BY <2>1, <2>3 DEF Hand
    <3> QED BY <3>1, <3>2
  <2>4. CASE pc[t] # "sign"
    <3>1. Hand(t) = {} /\ Hand(t)' = {}
      BY <2>4 DEF Hand
    <3> QED BY <3>1
  <2> QED BY <2>2, <2>3, <2>4
<1>3. {p \in signed : p[1] \notin exempt}' = {p \in signed : p[1] \notin exempt} \ loose'
  BY DEF TypeOK
<1> QED
  BY <1>1, <1>2, <1>3 DEF OneTimeKeys!GiveUp

\* A step after which some sessions hold nothing drops what they held.
LEMMA Drops ==
    ASSUME TypeOK, exempt' = exempt, signed' = signed, NEW gone \in SUBSET Sessions,
           \A t \in gone : pc'[t] # "sign",
           \A t \in Sessions \ gone : pc'[t] = pc[t] /\ op'[t] = op[t]
    PROVE  OneTimeKeys!Drop(gone)
<1>1. \A t \in Sessions : Hand(t)' = IF t \in gone THEN {} ELSE Hand(t)
  BY DEF Hand
<1> QED BY <1>1 DEF OneTimeKeys!Drop

\* Returning from the lock takes the index that was retired.
LEMMA Takes ==
    ASSUME TypeOK, SignInv, PendingInv, NEW s \in Sessions, Return(s),
           op[s].kind = "sign", op[s].key \notin exempt
    PROVE  OneTimeKeys!Take(s, Hand(s)') /\ Hand(s)' \in {{p} : p \in Keys \X Index}
<1> DEFINE p == <<op[s].key, op[s].idx>>
<1>1. /\ pc[s] = "done" /\ pc' = [pc EXCEPT ![s] = "sign"] /\ op' = op
      /\ signed' = signed /\ exempt' = exempt
  BY DEF Return, Goto, historyVars
<1>2. p \in Keys \X Index
  BY DEF TypeOK, Call, SignInv
<1>3. Hand(s) = {} /\ Hand(s)' = {p} /\ \A t \in Sessions \ {s} : Hand(t)' = Hand(t)
  BY <1>1 DEF Hand, TypeOK
<1>4. ~Retired(op[s].key, op[s].idx)
  BY <1>1 DEF PendingInv, InLock
<1>5. p \notin signed /\ \A t \in Sessions : p \notin Hand(t)
  BY <1>4 DEF Retired, Hand
<1>6. p \notin UNION {[t \in Sessions |-> Hand(t)][u] : u \in Sessions}
  BY <1>5
<1>7. p \notin signed /\ p[1] \notin exempt
  BY <1>5
<1>8. [t \in Sessions |-> Hand(t)'] =
          [[t \in Sessions |-> Hand(t)] EXCEPT ![s] = @ \cup {p}]
  BY <1>3
<1>9. {p} \in {{q} : q \in Keys \X Index}
  BY <1>2
<1> HIDE DEF p
<1>10. {p} \cap (OneTimeKeys!Held \cup {q \in signed : q[1] \notin exempt}
                  \cup {q \in Keys \X Index : q[1] \in exempt}) = {}
  BY <1>6, <1>7 DEF OneTimeKeys!Held
<1>11. UNCHANGED <<{q \in signed : q[1] \notin exempt},
                   {q \in Keys \X Index : q[1] \in exempt}>>
  BY <1>1
<1>12. OneTimeKeys!Take(s, {p})
  BY <1>8, <1>10, <1>11 DEF OneTimeKeys!Take
<1> QED BY <1>3, <1>9, <1>12

\* A signature spends the index in hand.
LEMMA Spends ==
    ASSUME TypeOK, SignInv, NEW s \in Sessions, MakeSignature(s),
           op[s].key \notin exempt
    PROVE  \E x \in Keys \X Index : OneTimeKeys!Spend(s, x)
<1> DEFINE p == <<op[s].key, op[s].idx>>
<1>1. /\ pc[s] = "sign" /\ pc' = [pc EXCEPT ![s] = "idle"]
      /\ op' = [op EXCEPT ![s] = NoCall]
      /\ signed' = signed \cup {p} /\ exempt' = exempt
  BY DEF MakeSignature, End
<1>2. Hand(s) = {p} /\ Hand(s)' = {} /\ \A t \in Sessions \ {s} : Hand(t)' = Hand(t)
  BY <1>1 DEF Hand, TypeOK
<1>3. [t \in Sessions |-> Hand(t)'] =
          [[t \in Sessions |-> Hand(t)] EXCEPT ![s] = @ \ {p}]
  BY <1>2
<1>4. {q \in signed' : q[1] \notin exempt'} = {q \in signed : q[1] \notin exempt} \cup {p}
  BY <1>1
<1>5. p \in Keys \X Index
  BY <1>1 DEF TypeOK, Call, SignInv
<1> HIDE DEF p
<1>6. PICK x \in Keys \X Index : x = p
  BY <1>5
<1>7. OneTimeKeys!Spend(s, x)
  BY <1>1, <1>2, <1>3, <1>4, <1>6 DEF OneTimeKeys!Spend
<1> QED BY <1>7

-----------------------------------------------------------------------------
\* Every step of the record is a step of the promise.
LEMMA StepRefines ==
    ASSUME IInv, TypeOK', [Next]_vars
    PROVE  OneTimeKeys!Next \/ UNCHANGED <<[s \in Sessions |-> Hand(s)],
               {p \in signed : p[1] \notin exempt},
               {p \in Keys \X Index : p[1] \in exempt}>>
<1> USE DEF IInv
<1>0. exempt \subseteq exempt'
  BY HistoryGrows
<1>1. CASE UNCHANGED vars
  <2>1. \A t \in Sessions : Hand(t)' = Hand(t)
    BY <1>1 DEF vars, sessionVars, historyVars, Hand
  <2> QED BY <1>1, <2>1 DEF vars, historyVars
<1>2. CASE PowerCut
  <2>1. OneTimeKeys!Drop(Sessions)
    BY <1>2, Drops DEF PowerCut
  <2> QED BY <2>1 DEF OneTimeKeys!Next
<1>3. ASSUME NEW s \in Sessions, Act(s) PROVE OneTimeKeys!Next
  <2>1. CASE Return(s) /\ op[s].kind = "sign" /\ op[s].key \notin exempt
    BY <2>1, Takes DEF OneTimeKeys!Next
  <2>2. CASE MakeSignature(s) /\ op[s].key \notin exempt
    BY <2>2, Spends DEF OneTimeKeys!Next
  <2>3. CASE SignFails(s) \/ Crash(s)
    <3>1. /\ pc' = [pc EXCEPT ![s] = "idle"] /\ op' = [op EXCEPT ![s] = NoCall]
          /\ exempt' = exempt /\ signed' = signed
      BY <2>3 DEF SignFails, Crash, End, historyVars
    <3>2. OneTimeKeys!Drop({s})
      <4>1. pc'[s] # "sign" /\ \A t \in Sessions \ {s} : pc'[t] = pc[t] /\ op'[t] = op[t]
        BY <3>1 DEF TypeOK
      <4> QED BY <3>1, <4>1, Drops
    <3> QED BY <3>2 DEF OneTimeKeys!Next
  <2>4. ASSUME /\ op[s].key \notin exempt' => pc[s] # "sign"
               /\ op'[s].key \notin exempt' => pc'[s] # "sign"
               /\ \A p \in Keys \X Index :
                     p[1] \notin exempt' => (p \in signed' <=> p \in signed)
        PROVE  OneTimeKeys!Next
    <3>1. \A t \in Sessions \ {s} : pc'[t] = pc[t] /\ op'[t] = op[t]
      BY <1>3, OthersStay
    <3>2. OneTimeKeys!GiveUp
      BY <1>0, <2>4, <3>1, GivesUp
    <3> QED BY <3>2 DEF OneTimeKeys!Next
  <2>5. CASE Begin(s)
    <3>1. CASE \E k \in Keys, i \in 0 .. Capacity : SignOff(s, k, i)
      <4>1. PICK k \in Keys, i \in 0 .. Capacity : SignOff(s, k, i)
        BY <3>1
      <4>2. pc[s] = "idle" /\ signed' = signed /\ op'[s].key \in exempt'
        BY <4>1 DEF SignOff, Goto, TypeOK
      <4> QED BY <2>4, <4>2
    <3>2. CASE ~\E k \in Keys, i \in 0 .. Capacity : SignOff(s, k, i)
      <4>1. signed' = signed
        BY <2>5, <3>2 DEF Begin, BeginWith, BeginSign, BeginFresh, Regenerate,
           BeginRegister, RegisterOff, BeginForget, ForgetOff, Advance, ForgetAll,
           historyVars
      <4>2. pc[s] # "sign" /\ pc'[s] # "sign"
        BY <2>5, <3>2 DEF Begin, BeginWith, BeginSign, BeginFresh, Regenerate,
           BeginRegister, RegisterOff, BeginForget, ForgetOff, Advance, ForgetAll,
           Start, Goto, sessionVars, TypeOK
      <4> QED BY <2>4, <4>1, <4>2
    <3> QED BY <3>1, <3>2
  <2>6. CASE MakeSignature(s) /\ op[s].key \in exempt
    <3>1. /\ pc' = [pc EXCEPT ![s] = "idle"]
          /\ signed' = signed \cup {<<op[s].key, op[s].idx>>} /\ exempt' = exempt
      BY <2>6 DEF MakeSignature, End
    <3>2. pc'[s] # "sign"
      BY <3>1 DEF TypeOK
    <3> QED BY <2>4, <2>6, <3>1, <3>2
  <2>7. CASE \/ Acquire(s) \/ GiveUp(s) \/ Fail(s) \/ Reserve(s) \/ Register(s)
             \/ Forget(s) \/ WriteTmp(s) \/ Rename(s) \/ SyncDir(s) \/ Migrate(s)
    <3>1. signed' = signed
      BY <2>7 DEF Acquire, GiveUp, Fail, Reserve, Register, Forget, WriteTmp,
         Rename, SyncDir, Migrate, historyVars
    <3>2. pc[s] # "sign" /\ pc'[s] # "sign"
      BY <2>7 DEF Acquire, GiveUp, Fail, Reserve, Register, Forget, WriteTmp,
         Rename, SyncDir, Migrate, Goto, End, InLock, TypeOK
    <3> QED BY <2>4, <3>1, <3>2
  <2>8. CASE Return(s) /\ ~(op[s].kind = "sign" /\ op[s].key \notin exempt)
    <3>1. signed' = signed /\ pc[s] # "sign"
      BY <2>8 DEF Return, historyVars
    <3>2. pc'[s] = "sign" => op'[s].key \in exempt'
      BY <1>0, <2>8 DEF Return, Goto, End, TypeOK
    <3> QED BY <2>4, <3>1, <3>2
  <2> QED
    BY <1>3, <2>1, <2>2, <2>3, <2>5, <2>6, <2>7, <2>8 DEF Act, Progress
<1> QED BY <1>1, <1>2, <1>3 DEF Next, Act

\* Where a directory can be flushed, the record implements the promise of OneTime:
\* an index is in one session's hands at most, and once it has signed in none.
THEOREM RecordImplementsOneTime == ASSUME DirFlush PROVE Spec => ImplementsOneTime
<1>1. Init => OneTimeKeys!Init
  <2> SUFFICES ASSUME Init PROVE OneTimeKeys!Init
    OBVIOUS
  <2>1. \A s \in Sessions : Hand(s) = {}
    BY DEF Init, Hand
  <2>2. signed \subseteq Keys \X Index /\ exempt = {}
    BY DEF Init
  <2> QED BY <2>1, <2>2 DEF OneTimeKeys!Init
<1>2. IInv /\ IInv' /\ [Next]_vars => [OneTimeKeys!Next]_OneTimeKeys!vars
  BY StepRefines DEF IInv, OneTimeKeys!vars
<1> QED
  BY <1>1, <1>2, InvInit, InvNext, PTL DEF Spec, ImplementsOneTime, OneTimeKeys!Spec
=============================================================================
