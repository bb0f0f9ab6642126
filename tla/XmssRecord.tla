----------------------------- MODULE XmssRecord -----------------------------
(***************************************************************************)
(* The XMSS used-index record: how the R sessions of one machine share     *)
(* the one-time indices of their signing keys (R/sign.R, src/rmbl_flock.c).*)
(*                                                                         *)
(* A signing key is a copied R value that carries the index it will sign   *)
(* with next, so stale copies exist by design.  A session retires an index *)
(* in a record on disk, under an operating-system lock, before it makes    *)
(* the signature.  The record is replaced by a temporary file, a rename    *)
(* and a flush of the directory, so that neither a killed process nor a    *)
(* power cut brings an older record back once a signature exists.          *)
(*                                                                         *)
(* A session runs one call at a time; every step of a call that another    *)
(* session, a crash or a power cut can come between is an action.          *)
(***************************************************************************)
EXTENDS Integers, FiniteSets

CONSTANTS
    Sessions,     \* R processes (an identity lives on after a restart)
    OffSessions,  \* the sessions whose record is turned off
    Keys,         \* XMSS keys, each known by the fingerprint of its seed
    Capacity,     \* one-time indices of a key (2^height)
    LegacyIndex,  \* xmss_index.json of the releases before 0.5.12
    DirFlush,     \* the file system can flush a directory
    NoSession     \* nobody holds the lock

Absent == -2
Index  == 0 .. Capacity - 1
Entry  == Absent .. Capacity - 1   \* -1: registered, nothing used

ASSUME ConstantsAssumption ==
    /\ Capacity \in Nat \ {0}
    /\ OffSessions \subseteq Sessions
    /\ NoSession \notin Sessions
    /\ DirFlush \in BOOLEAN
    /\ Keys # {}
    /\ LegacyIndex \in [Keys -> Entry]

VARIABLES
    rec,       \* the record file as processes see it
    recMay,    \* the records a power cut now may leave behind
    json,      \* the old xmss_index.json is still there, to be merged
    jsonMay,   \* ... the values a power cut may leave behind
    tmp,       \* sessions with a temporary file of the record on disk
    holder,    \* the process that holds <record>.flock
    mem,       \* .rmbl_xmss_used: what each session remembers
    copies,    \* next_index of the key objects and key files that exist
    pc, op,    \* each session's place in its call, and the call
    buf,       \* the record it is about to write
    \* history
    signed,    \* <<key, index>> pairs that have signed
    reused,    \* ... more than once
    made,      \* ... in each session's own lifetime, since a reset
    exempt     \* keys whose user reset the record, or signed without it

recordVars  == <<rec, recMay, json, jsonMay, tmp>>
sessionVars == <<holder, mem, pc, op, buf>>
historyVars == <<signed, reused, made, exempt>>
vars == <<recordVars, sessionVars, copies, historyVars>>

Record == [id : [Keys -> Entry], legacy : [Keys -> Entry]]
EmptyRecord == [id     |-> [k \in Keys |-> Absent],
                legacy |-> [k \in Keys |-> Absent]]

Kinds == {"none", "sign", "fresh", "register", "forget"}
Call  == [kind : Kinds, key : Keys, idx : Entry]
NoCall == [kind |-> "none", key |-> CHOOSE k \in Keys : TRUE, idx |-> 0]
InLock == {"held", "write", "tmp", "renamed", "written", "done"}
Phases == InLock \cup {"idle", "lock", "sign"}

On == Sessions \ OffSessions

Larger(a, b) == IF a >= b THEN a ELSE b

-----------------------------------------------------------------------------
(* What a session learns from the record.                                  *)

\* .rmbl_xmss_record_read: the record's lines merged with xmss_index.json
RecordRead ==
    [id     |-> rec.id,
     legacy |-> [k \in Keys |-> IF json THEN Larger(rec.legacy[k], LegacyIndex[k])
                                        ELSE rec.legacy[k]]]

\* rec[ids$id] <- i
WithIndex(r, k, i) == [id |-> [r.id EXCEPT ![k] = i], legacy |-> r.legacy]

Highest(s, k, r) ==
    Larger(Larger(-1, mem[s][k]), Larger(r.id[k], r.legacy[k]))

Known(s, k, r) ==
    \/ r.id[k] # Absent
    \/ r.legacy[k] # Absent
    \/ mem[s][k] # Absent

\* mutant: off by one, the highest used index may be taken again
MayReserveAgain(s, k, i, r) ==
    /\ i >= Highest(s, k, r)
    /\ Known(s, k, r) \/ i # 0

\* The two refusals of .rmbl_xmss_reserve_locked, as the condition to go on
MayReserve(s, k, i, r) ==
    /\ i > Highest(s, k, r)
    /\ Known(s, k, r) \/ i # 0

-----------------------------------------------------------------------------
Init ==
    /\ rec = EmptyRecord
    /\ recMay = {EmptyRecord}
    /\ json = TRUE
    /\ jsonMay = {TRUE}
    /\ tmp = {}
    /\ holder = NoSession
    /\ mem = [s \in Sessions |-> [k \in Keys |-> Absent]]
    /\ copies \in [Keys -> SUBSET (0 .. Capacity)]
    /\ \A k \in Keys : IF LegacyIndex[k] = Absent
                          THEN copies[k] = {}
                          ELSE copies[k] # {} /\ copies[k] \subseteq 0 .. (LegacyIndex[k] + 1)
    /\ pc = [s \in Sessions |-> "idle"]
    /\ op = [s \in Sessions |-> NoCall]
    /\ buf = [s \in Sessions |-> EmptyRecord]
    /\ signed = {p \in Keys \X Index : p[2] <= LegacyIndex[p[1]]}
    /\ reused = {}
    /\ made = [s \in Sessions |-> {}]
    /\ exempt = {}

(* The session's call takes a step from one phase to the next.             *)
Goto(s, from, to) == pc[s] = from /\ pc' = [pc EXCEPT ![s] = to]

\* ... or ends, with its result or with an error
End(s) ==
    /\ pc' = [pc EXCEPT ![s] = "idle"]
    /\ op' = [op EXCEPT ![s] = NoCall]
    /\ buf' = [buf EXCEPT ![s] = EmptyRecord]

Start(s, k, kind, i) ==
    /\ s \in On
    /\ Goto(s, "idle", "lock")
    /\ op' = [op EXCEPT ![s] = [kind |-> kind, key |-> k, idx |-> i]]

-----------------------------------------------------------------------------
(* The calls a session may begin.                                          *)

\* mutant: an exhausted key is not refused
BeginSignExhausted(s, k, i) ==
    /\ i \in copies[k]
    /\ Start(s, k, "sign", i)
    /\ UNCHANGED <<recordVars, holder, mem, buf, copies, historyVars>>

\* cpssign(scheme = "xmss") with some copy of the key that is not exhausted
BeginSign(s, k, i) ==
    /\ i \in copies[k] \cap Index
    /\ Start(s, k, "sign", i)
    /\ UNCHANGED <<recordVars, holder, mem, buf, copies, historyVars>>

\* mutant: with the record off the session's memory is not consulted
SignOffUnchecked(s, k, i) ==
    /\ s \in OffSessions
    /\ i \in copies[k] \cap Index
    /\ Goto(s, "idle", "sign")
    /\ op' = [op EXCEPT ![s] = [kind |-> "sign", key |-> k, idx |-> i]]
    /\ mem' = [mem EXCEPT ![s][k] = i]
    /\ exempt' = exempt \cup {k}
    /\ UNCHANGED <<recordVars, holder, buf, copies, signed, reused, made>>

\* the same with the record off: only this session remembers
SignOff(s, k, i) ==
    /\ s \in OffSessions
    /\ i \in copies[k] \cap Index
    /\ i > Highest(s, k, EmptyRecord)
    /\ Goto(s, "idle", "sign")
    /\ op' = [op EXCEPT ![s] = [kind |-> "sign", key |-> k, idx |-> i]]
    /\ mem' = [mem EXCEPT ![s][k] = i]
    /\ exempt' = exempt \cup {k}
    /\ UNCHANGED <<recordVars, holder, buf, copies, signed, reused, made>>

\* pqckg(): a key of fresh randomness is registered at birth
BeginFresh(s, k) ==
    /\ copies[k] = {}
    /\ Start(s, k, "fresh", 0)
    /\ UNCHANGED <<recordVars, holder, mem, buf, copies, historyVars>>

\* pqckg(skseed = ...): a key built again from its seeds is not registered
Regenerate(s, k) ==
    /\ pc[s] = "idle"
    /\ 0 \notin copies[k]
    /\ copies' = [copies EXCEPT ![k] = @ \cup {0}]
    /\ UNCHANGED <<recordVars, sessionVars, historyVars>>

\* xmssregkey(): the caller vouches for a key the record does not know
BeginRegister(s, k) ==
    /\ copies[k] # {}
    /\ Start(s, k, "register", 0)
    /\ UNCHANGED <<recordVars, holder, mem, buf, copies, historyVars>>

\* .rmbl_xmss_register with the record off, for pqckg() and xmssregkey()
RegisterOff(s, k) ==
    /\ s \in OffSessions
    /\ pc[s] = "idle"
    /\ mem[s][k] = Absent
    /\ mem' = [mem EXCEPT ![s][k] = -1]
    /\ copies' = [copies EXCEPT ![k] = IF @ = {} THEN {0} ELSE @]
    /\ UNCHANGED <<recordVars, holder, pc, op, buf, historyVars>>

\* xmssfgt(key): the session forgets first, then the record does
BeginForget(s, k) ==
    /\ copies[k] # {}
    /\ Start(s, k, "forget", 0)
    /\ mem' = [mem EXCEPT ![s][k] = -1]
    /\ made' = [made EXCEPT ![s] = {p \in @ : p[1] # k}]
    /\ exempt' = exempt \cup {k}
    /\ UNCHANGED <<recordVars, holder, buf, copies, signed, reused>>

ForgetOff(s, k) ==
    /\ s \in OffSessions
    /\ pc[s] = "idle"
    /\ copies[k] # {}
    /\ mem' = [mem EXCEPT ![s][k] = -1]
    /\ made' = [made EXCEPT ![s] = {p \in @ : p[1] # k}]
    /\ UNCHANGED <<recordVars, holder, pc, op, buf, copies, signed, reused, exempt>>

\* xmssfgt(): the session's memory goes, and the files (if the record is on)
\* are unlinked without the lock
ForgetAll(s) ==
    /\ pc[s] = "idle"
    /\ mem' = [mem EXCEPT ![s] = [k \in Keys |-> Absent]]
    /\ made' = [made EXCEPT ![s] = {}]
    /\ \/ /\ s \in On
          /\ rec' = EmptyRecord
          /\ recMay' = recMay \cup {EmptyRecord}
          /\ json' = FALSE
          /\ jsonMay' = jsonMay \cup {FALSE}
          /\ exempt' = exempt \cup {k \in Keys : copies[k] # {}}
       \/ /\ s \in OffSessions
          /\ UNCHANGED <<rec, recMay, json, jsonMay, exempt>>
    /\ UNCHANGED <<tmp, holder, pc, op, buf, copies, signed, reused>>

\* mutant: the record is not asked, only the signature's index counts
AdvanceBySignature(s, k, i, next) ==
    /\ pc[s] = "idle"
    /\ <<k, i>> \in signed
    /\ next \in copies[k]
    /\ copies' = [copies EXCEPT ![k] = @ \cup {Larger(next, i + 1)}]
    /\ UNCHANGED <<recordVars, sessionVars, historyVars>>

\* xmssadv(key, sig, msg): the record is read without the lock.  With the
\* message the signature is verified; without it its index may have been
\* edited, and one above the record is refused.
Advance(s, k, i, next) ==
    LET r  == IF s \in On THEN RecordRead ELSE EmptyRecord
        hi == Highest(s, k, r)
    IN  /\ pc[s] = "idle"
        /\ <<k, i>> \in signed \/ i <= hi
        /\ next \in copies[k]
        /\ copies' = [copies EXCEPT ![k] =
               @ \cup {Larger(next, Larger(i + 1, hi + 1))}]
        /\ UNCHANGED <<recordVars, sessionVars, historyVars>>

-----------------------------------------------------------------------------
(* Under the lock: .rmbl_xmss_with_lock, C_rmbl_flock_with.                *)

\* mutant: a busy lock is taken for a held one
AcquireBusy(s) ==
    /\ Goto(s, "lock", "held")
    /\ holder' = s
    /\ UNCHANGED <<recordVars, mem, op, buf, copies, historyVars>>

Acquire(s) ==
    /\ Goto(s, "lock", "held")
    /\ holder = NoSession
    /\ holder' = s
    /\ UNCHANGED <<recordVars, mem, op, buf, copies, historyVars>>

\* mutant: the wait for the lock has no bound
GiveUpNever(s) ==
    /\ pc[s] = "lock"
    /\ FALSE

\* 10 s of attempts, or Ctrl-C while waiting: the call ends with an error
GiveUp(s) ==
    /\ pc[s] = "lock"
    /\ End(s)
    /\ UNCHANGED <<recordVars, holder, mem, copies, historyVars>>

\* mutant: an error inside the locked function leaves the descriptor open
FailHolding(s) ==
    /\ pc[s] \in InLock
    /\ End(s)
    /\ tmp' = IF pc[s] = "tmp" THEN tmp \ {s} ELSE tmp
    /\ UNCHANGED <<rec, recMay, json, jsonMay, holder, mem, copies, historyVars>>

\* An error (the refusals of Reserve and Register among them) or Ctrl-C inside
\* the locked function: the C frame's cleanup closes the descriptor, and a
\* failed write removes its temporary file (after the rename there is none
\* left to remove).
Fail(s) ==
    /\ pc[s] \in InLock
    /\ End(s)
    /\ holder' = NoSession
    /\ tmp' = IF pc[s] = "tmp" THEN tmp \ {s} ELSE tmp
    /\ UNCHANGED <<rec, recMay, json, jsonMay, mem, copies, historyVars>>

\* .rmbl_xmss_reserve_locked: read, check, and the record to write
Reserve(s) ==
    LET k == op[s].key
        r == RecordRead
    IN  /\ op[s].kind = "sign"
        /\ MayReserve(s, k, op[s].idx, r)
        /\ Goto(s, "held", "write")
        /\ buf' = [buf EXCEPT ![s] = WithIndex(r, k, op[s].idx)]
        /\ UNCHANGED <<recordVars, holder, mem, op, copies, historyVars>>

\* mutant: registering writes "nothing used" over what the record says
RegisterLowers(s) ==
    LET k  == op[s].key
        hi == Highest(s, k, RecordRead)
    IN  /\ op[s].kind \in {"fresh", "register"}
        /\ Goto(s, "held", "write")
        /\ buf' = [buf EXCEPT ![s] = WithIndex(RecordRead, k, -1)]
        /\ op' = [op EXCEPT ![s] = [kind |-> @.kind, key |-> k, idx |-> hi]]
        /\ UNCHANGED <<recordVars, holder, mem, copies, historyVars>>

\* .rmbl_xmss_register: never lowers an entry; a key that has signed here is
\* refused unless it was just generated
Register(s) ==
    LET k  == op[s].key
        r  == RecordRead
        hi == Highest(s, k, r)
    IN  /\ op[s].kind \in {"fresh", "register"}
        /\ op[s].kind = "fresh" \/ hi < 0
        /\ \/ /\ r.id[k] = Absent
              /\ Goto(s, "held", "write")
              /\ buf' = [buf EXCEPT ![s] = WithIndex(r, k, hi)]
           \/ /\ r.id[k] # Absent
              /\ Goto(s, "held", "done")
              /\ UNCHANGED buf
        /\ op' = [op EXCEPT ![s] = [kind |-> @.kind, key |-> k, idx |-> hi]]
        /\ UNCHANGED <<recordVars, holder, mem, copies, historyVars>>

\* xmssfgt(key): both of the key's entries go, "nothing used" takes their place
Forget(s) ==
    LET k == op[s].key
    IN  /\ op[s].kind = "forget"
        /\ Goto(s, "held", "write")
        /\ buf' = [buf EXCEPT ![s] =
               [id     |-> [rec.id EXCEPT ![k] = -1],
                legacy |-> [RecordRead.legacy EXCEPT ![k] = Absent]]]
        /\ UNCHANGED <<recordVars, holder, mem, op, copies, historyVars>>

\* Leftovers of dead writers are removed, then the temporary file is created
\* (O_EXCL), written, size-checked and flushed.
WriteTmp(s) ==
    /\ Goto(s, "write", "tmp")
    /\ tmp' = {s}
    /\ UNCHANGED <<rec, recMay, json, jsonMay, holder, mem, op, buf, copies, historyVars>>

\* The rename is visible at once; until the directory is flushed a power cut
\* may undo it.
Rename(s) ==
    /\ Goto(s, "tmp", "renamed")
    /\ s \in tmp
    /\ tmp' = tmp \ {s}
    /\ rec' = buf[s]
    /\ recMay' = recMay \cup {buf[s]}
    /\ buf' = [buf EXCEPT ![s] = EmptyRecord]
    /\ UNCHANGED <<json, jsonMay, holder, mem, op, copies, historyVars>>

\* mutant: the directory entry is never flushed
SyncDirSkipped(s) ==
    /\ Goto(s, "renamed", "written")
    /\ UNCHANGED <<recordVars, holder, mem, op, buf, copies, historyVars>>

\* A directory that cannot be flushed (EINVAL, or not opened) is let be.
SyncDir(s) ==
    /\ Goto(s, "renamed", "written")
    /\ IF DirFlush
          THEN recMay' = {rec} /\ jsonMay' = {json}
          ELSE UNCHANGED <<recMay, jsonMay>>
    /\ UNCHANGED <<rec, json, tmp, holder, mem, op, buf, copies, historyVars>>

\* xmss_index.json, merged into what was just written, is renamed away
Migrate(s) ==
    /\ Goto(s, "written", "done")
    /\ json' = FALSE
    /\ jsonMay' = jsonMay \cup {FALSE}
    /\ UNCHANGED <<rec, recMay, tmp, holder, mem, op, buf, copies, historyVars>>

\* The session remembers, and the lock is released.  Registering does not
\* lower what it remembers; pqckg() returns its key only now.
Return(s) ==
    LET k == op[s].key
        keep == op[s].kind # "sign" /\ mem[s][k] # Absent
    IN  /\ pc[s] = "done"
        /\ IF op[s].kind = "sign"
              THEN Goto(s, "done", "sign") /\ UNCHANGED <<op, buf>>
              ELSE End(s)
        /\ holder' = NoSession
        /\ mem' = IF keep THEN mem ELSE [mem EXCEPT ![s][k] = op[s].idx]
        /\ copies' = IF op[s].kind = "fresh"
                        THEN [copies EXCEPT ![k] = @ \cup {0}]
                        ELSE copies
        /\ UNCHANGED <<recordVars, historyVars>>

-----------------------------------------------------------------------------
(* The signature itself, after the index is retired.                       *)

MakeSignature(s) ==
    LET p == <<op[s].key, op[s].idx>>
    IN  /\ pc[s] = "sign"
        /\ End(s)
        /\ signed' = signed \cup {p}
        /\ reused' = IF p \in signed THEN reused \cup {p} ELSE reused
        /\ made' = [made EXCEPT ![s] = @ \cup {p}]
        /\ UNCHANGED <<recordVars, holder, mem, copies, exempt>>

\* The key's root does not match its seeds, or Ctrl-C: no signature, and the
\* index stays retired.
SignFails(s) ==
    /\ pc[s] = "sign"
    /\ End(s)
    /\ UNCHANGED <<recordVars, holder, mem, copies, historyVars>>

-----------------------------------------------------------------------------
(* The environment: a killed process, a power cut.                         *)

\* A process quits or is killed and starts again: the kernel releases its
\* lock, what it remembered is gone, a temporary file in the making stays.
Crash(s) ==
    /\ End(s)
    /\ holder' = IF holder = s THEN NoSession ELSE holder
    /\ mem' = [mem EXCEPT ![s] = [k \in Keys |-> Absent]]
    /\ made' = [made EXCEPT ![s] = {}]
    /\ UNCHANGED <<recordVars, copies, signed, reused, exempt>>

\* Every process dies, and the directory is as it last reached the disk, with
\* or without the changes made since.
PowerCut ==
    /\ rec' \in recMay
    /\ recMay' = {rec'}
    /\ json' \in jsonMay
    /\ jsonMay' = {json'}
    /\ tmp' \in SUBSET tmp
    /\ pc' = [s \in Sessions |-> "idle"]
    /\ op' = [s \in Sessions |-> NoCall]
    /\ buf' = [s \in Sessions |-> EmptyRecord]
    /\ holder' = NoSession
    /\ mem' = [s \in Sessions |-> [k \in Keys |-> Absent]]
    /\ made' = [s \in Sessions |-> {}]
    /\ UNCHANGED <<copies, signed, reused, exempt>>

BeginWith(s, k) ==
    \/ \E i \in 0 .. Capacity : BeginSign(s, k, i) \/ SignOff(s, k, i)
    \/ BeginFresh(s, k)
    \/ Regenerate(s, k)
    \/ BeginRegister(s, k)
    \/ RegisterOff(s, k)
    \/ BeginForget(s, k)
    \/ ForgetOff(s, k)
    \/ \E i \in Index, next \in 0 .. Capacity :
          Advance(s, k, i, next)

Begin(s) == ForgetAll(s) \/ \E k \in Keys : BeginWith(s, k)

Progress(s) ==
    \/ Acquire(s) \/ GiveUp(s) \/ Fail(s)
    \/ Reserve(s) \/ Register(s) \/ Forget(s)
    \/ WriteTmp(s) \/ Rename(s) \/ SyncDir(s) \/ Migrate(s) \/ Return(s)
    \/ MakeSignature(s) \/ SignFails(s)

Next ==
    \/ \E s \in Sessions : Begin(s) \/ Progress(s) \/ Crash(s)
    \/ PowerCut

Spec == Init /\ [][Next]_vars

\* A process that runs goes on with its call: R evaluates the next
\* expression, the lock attempts end after 10 s.
FairSpec == Spec /\ \A s \in Sessions : WF_vars(Progress(s))

-----------------------------------------------------------------------------
(* Properties.                                                             *)

\* Every variable has its type.
TypeOK ==
    /\ rec \in Record /\ recMay \subseteq Record
    /\ json \in BOOLEAN /\ jsonMay \subseteq BOOLEAN
    /\ tmp \subseteq Sessions
    /\ holder \in Sessions \cup {NoSession}
    /\ mem \in [Sessions -> [Keys -> Entry]]
    /\ copies \in [Keys -> SUBSET (0 .. Capacity)]
    /\ pc \in [Sessions -> Phases]
    /\ op \in [Sessions -> Call]
    /\ buf \in [Sessions -> Record]
    /\ signed \subseteq Keys \X Index
    /\ reused \subseteq Keys \X Index
    /\ made \in [Sessions -> SUBSET (Keys \X Index)]
    /\ exempt \subseteq Keys

\* One index signs at most once (RFC 8391), however many stale copies of the
\* key there are and whoever crashes when: unless the user reset the key with
\* xmssfgt() or signed it with the record off.
NoIndexReuse == \A p \in reused : p[1] \in exempt

\* An index that has signed, or that a session is about to sign with
Retired(k, i) ==
    \/ <<k, i>> \in signed
    \/ \E s \in Sessions : pc[s] = "sign" /\ op[s].key = k /\ op[s].idx = i

\* A record shows an index as used; so does the old xmss_index.json
Shows(r, k, i) == i <= r.id[k] \/ i <= r.legacy[k]
JsonShows(j, k, i) == j /\ i <= LegacyIndex[k]

\* What any power cut would leave, record and xmss_index.json together, still
\* shows a retired index as used.
RetiredOnDisk ==
    \A k \in Keys \ exempt, i \in Index :
        Retired(k, i) =>
            \A r \in recMay, j \in jsonMay : Shows(r, k, i) \/ JsonShows(j, k, i)

\* The clean-up of dead writers' leftovers never takes the temporary file of a
\* live writer away before its rename.
TmpIntact == \A s \in Sessions : pc[s] = "tmp" => s \in tmp

\* A session does not sign an index twice in its own life, even with the
\* record off and whatever copies of the key it is given.
SessionNeverRepeats ==
    \A s \in Sessions :
        pc[s] = "sign" => <<op[s].key, op[s].idx>> \notin made[s]

\* No write of the record, for whichever key, loses what another session
\* entered as used: only a reset and a power cut take it back.
RecordNeverLowered ==
    [][\/ PowerCut
       \/ \A k \in Keys \ exempt' :
             rec.id[k] >= 0 => rec'.id[k] >= rec.id[k]]_vars

\* A key that xmssadv() hands out is past every index that has signed, though
\* the record is read without its lock.
AdvancePastUsed ==
    [][\A k \in Keys \ exempt :
          \A c \in copies'[k] \ (copies[k] \cup {0}), i \in Index :
              <<k, i>> \in signed => i < c]_vars

\* A lock that is taken is given back, whatever goes wrong inside.
LockReleased == \A s \in Sessions : holder = s ~> holder # s

\* A call that began ends: with its result, a refusal or a time-out.
CallReturns == \A s \in Sessions : pc[s] # "idle" ~> pc[s] = "idle"

\* The sessions, seen as signers of one-time slots: a session holds the index it
\* is about to sign with; the keys whose protection is given up do not count.
Hand(s) == IF pc[s] = "sign" /\ op[s].key \notin exempt
              THEN {<<op[s].key, op[s].idx>>} ELSE {}

OneTimeKeys ==
    INSTANCE OneTime WITH
        Slots   <- Keys \X Index,
        Signers <- Sessions,
        Blocks  <- {{p} : p \in Keys \X Index},
        hand    <- [s \in Sessions |-> Hand(s)],
        spent   <- {p \in signed : p[1] \notin exempt},
        loose   <- {p \in Keys \X Index : p[1] \in exempt}

\* The record implements the promise: an index is in the hands of one session at
\* most, and an index that has signed in none, across crashes, power cuts and
\* resets of other keys.
ImplementsOneTime == OneTimeKeys!Spec
=============================================================================
