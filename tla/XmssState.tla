------------------------------ MODULE XmssState ------------------------------
(***************************************************************************)
(* `rmbl sign --scheme xmss-sha256`: runs of the command line that reserve *)
(* blocks of one XMSS key's indices in the key's durable state before they *)
(* sign (R/xmss_state.R, R/capsule_cli.R).                                 *)
(*                                                                         *)
(* The state lives in the key file, or in a state file beside a key file   *)
(* that is only read.  Files are copied and restored by their users, which *)
(* splits of the indices into sectors, and the signatures a run can see,   *)
(* are there to survive.  A run can be killed between any two steps.  The  *)
(* lock and the atomic write of the state are those of XmssRecord, and so  *)
(* is the reading and writing of the used-index record: one step each      *)
(* here.  Generation and writer of a state are reports only.               *)
(***************************************************************************)
EXTENDS Integers, FiniteSets

CONSTANTS
    Runs,        \* processes that run `rmbl sign`
    KeyFiles,    \* files that hold the key, and its state under `used`
    StateFiles,  \* files given as --state-file
    KeyOf,       \* the key file read beside each state file
    Capacity,    \* one-time indices of the key (2^height)
    MaxBlock,    \* bound on --reserve and on the capsules of one run
    FirstIndex,  \* next_index the key was saved with
    NoRun, NoPlace

Places == KeyFiles \cup StateFiles
Index  == 0 .. Capacity - 1
Mark   == -1 .. Capacity - 1     \* a highest used index; -1: none

NoSplit  == 0                    \* --sectors not given
NoSector == -1                   \* neither --sector nor --sector-index given

\* .rmbl_xmss_sector_count: powers of two from 2 to half the indices
Counts  == {c \in 2 .. Capacity \div 2 : \E e \in 1 .. Capacity : c = 2 ^ e}
Sectors == 0 .. Capacity \div 2 - 1

ASSUME ConstantsAssumption ==
    /\ \E h \in 1 .. 16 : Capacity = 2 ^ h
    /\ MaxBlock \in 1 .. Capacity
    /\ FirstIndex \in 0 .. Capacity
    /\ KeyFiles \cap StateFiles = {}
    /\ KeyOf \in [StateFiles -> KeyFiles]
    /\ NoRun \notin Runs /\ NoPlace \notin Places

VARIABLES
    file,     \* each place: next_index (key files) and the key's state
    lock,     \* the run inside the state's lock, per place
    rec,      \* the key's entry in the used-index record, -1 if none
    pc, run,  \* each run's place in its course, and what it knows
    \* history
    signed,   \* indices that have signed
    reused    \* ... more than once

vars == <<file, lock, rec, pc, run, signed, reused>>

Larger(a, b)  == IF a >= b THEN a ELSE b
Smaller(a, b) == IF a <= b THEN a ELSE b

State == [highest : Mark, count : Counts \cup {1}, base : Mark,
          tops : [Sectors -> Mark]]

\* No `used` in the key file, or a state file that is missing or empty
Fresh == [highest |-> -1, count |-> 1, base |-> -1,
          tops |-> [i \in Sectors |-> -1]]

Phases == {"idle", "asked", "held", "record", "sign"}

Course == [at : Places \cup {NoPlace}, split : Nat, sector : Int,
           need : 1 .. MaxBlock, seen : SUBSET Index, listed : BOOLEAN,
           recHi : Mark, keyNext : 0 .. Capacity, st : State,
           next : 0 .. Capacity, last : Mark]

NoCourse == [at |-> NoPlace, split |-> NoSplit, sector |-> NoSector, need |-> 1,
             seen |-> {}, listed |-> FALSE, recHi |-> -1, keyNext |-> 0,
             st |-> Fresh, next |-> 0, last |-> -1]

-----------------------------------------------------------------------------
(* What a run reads and computes inside the lock.                          *)

KeyAt(p) == IF p \in StateFiles THEN KeyOf[p] ELSE p

\* .rmbl_xmss_read_state: a state file that is not there yet starts from what
\* the key file carries
StateAt(p) ==
    IF p \in StateFiles /\ file[p].st = Fresh THEN file[KeyOf[p]].st
                                              ELSE file[p].st

NextAt(p) == file[KeyAt(p)].next

\* The highest index used outside the state, as far as the run knows
Outside(r) == Larger(run[r].keyNext - 1, run[r].recHi)

\* .rmbl_xmss_sectors: the first --sectors K splits the state; what was used so
\* far is used in every sector
Split(st, count, outside) ==
    IF st.count = 1 /\ count # NoSplit
       THEN [highest |-> st.highest, count |-> count,
             base |-> Larger(st.highest, outside), tops |-> [i \in Sectors |-> -1]]
       ELSE st

\* The key signed outside rmbl sign after its state was split
SignedOutside(st, next) == st.count > 1 /\ next - 1 > st.highest

\* The refusals of .rmbl_xmss_sectors, .rmbl_xmss_sector_checks and
\* .rmbl_xmss_sector_index, as the condition to go on; st is split already
SectorFits(st, count, sector, next) ==
    /\ count \in Counts \cup {NoSplit}
    /\ ~SignedOutside(st, next)
    /\ IF st.count = 1
          THEN sector = NoSector
          ELSE count \in {NoSplit, st.count} /\ sector \in 0 .. st.count - 1

\* A sector's first and last index; an undivided key is one sector
Size(st)  == Capacity \div st.count
Lo(st, i) == IF st.count = 1 THEN 0 ELSE i * Size(st)

\* mutant: off by one, into the next sector
EndPast(st, i) == Lo(st, i) + Size(st)

End(st, i) == Lo(st, i) + Size(st) - 1

\* .rmbl_xmss_range: the highest index used in the sector
Top(st, i, outside) ==
    IF st.count = 1
       THEN Larger(st.highest, outside)
       ELSE Larger(Smaller(Larger(st.base, Lo(st, i) - 1), End(st, i)), st.tops[i])

\* mutant: a signature at the index to be used next is let pass
StaleLate(st, i, top, seen) ==
    \E j \in seen : j \in Lo(st, i) .. End(st, i) /\ j > top + 1

\* .rmbl_xmss_stale: a signature of this range is above what the state says
Stale(st, i, top, seen) ==
    \E j \in seen : j \in Lo(st, i) .. End(st, i) /\ j > top

-----------------------------------------------------------------------------
Init ==
    /\ file = [p \in Places |->
                  [next |-> IF p \in KeyFiles THEN FirstIndex ELSE 0, st |-> Fresh]]
    /\ lock = [p \in Places |-> NoRun]
    /\ rec \in {-1, FirstIndex - 1}
    /\ pc = [r \in Runs |-> "idle"]
    /\ run = [r \in Runs |-> NoCourse]
    /\ signed = 0 .. FirstIndex - 1
    /\ reused = {}

Goto(r, from, to) == pc[r] = from /\ pc' = [pc EXCEPT ![r] = to]

\* .bl_cli_xmss_reserve before the lock: the capsules are counted, the
\* signatures under the path and in the seen-log are read, and so is the
\* used-index record if RMBL_XMSS_INDEX_FILE lists one.  --sectors needs a sector.
Ask(r, p, count, sector, need, seen, listed) ==
    /\ count # NoSplit => sector # NoSector
    /\ Goto(r, "idle", "asked")
    /\ run' = [run EXCEPT ![r] =
           [at |-> p, split |-> count, sector |-> sector, need |-> need,
            seen |-> seen, listed |-> listed, recHi |-> IF listed THEN rec ELSE -1,
            keyNext |-> 0, st |-> Fresh, next |-> 0, last |-> -1]]
    /\ UNCHANGED <<file, lock, rec, signed, reused>>

\* mutant: the state is read and written without its lock
LockTaken(r) ==
    LET p == run[r].at
    IN  /\ Goto(r, "asked", "held")
        /\ lock' = [lock EXCEPT ![p] = r]
        /\ run' = [run EXCEPT ![r].keyNext = NextAt(p), ![r].st = StateAt(p)]
        /\ UNCHANGED <<file, rec, signed, reused>>

\* .rmbl_xmss_state_commit takes the lock of the file that holds the state, and
\* reads the key and the state
Lock(r) ==
    LET p == run[r].at
    IN  /\ Goto(r, "asked", "held")
        /\ lock[p] = NoRun
        /\ lock' = [lock EXCEPT ![p] = r]
        /\ run' = [run EXCEPT ![r].keyNext = NextAt(p), ![r].st = StateAt(p)]
        /\ UNCHANGED <<file, rec, signed, reused>>

Unlocked(r) == [p \in Places |-> IF lock[p] = r THEN NoRun ELSE lock[p]]

\* mutant: the sector's own highest index is not written
AdvancedOverall(st, i, outside, to) ==
    [st EXCEPT !.highest = Larger(Larger(@, outside), to)]

\* The state with the indices up to `to` used
Advanced(st, i, outside, to) ==
    [st EXCEPT !.highest = Larger(Larger(@, outside), to),
               !.tops = IF st.count > 1 THEN [@ EXCEPT ![i] = to] ELSE @]

\* .rmbl_xmss_state_commit: the refusals, then the block is written as used,
\* and next_index with it when the key file holds the state
Commit(r) ==
    LET p   == run[r].at
        i   == run[r].sector
        out == Outside(r)
        st  == Split(run[r].st, run[r].split, out)
        top == Top(st, i, out)
        to  == top + run[r].need
        new == Advanced(st, i, out, to)
    IN  /\ SectorFits(st, run[r].split, i, run[r].keyNext)
        /\ ~Stale(st, i, top, run[r].seen)
        /\ to <= End(st, i)
        /\ Goto(r, "held", IF run[r].listed THEN "record" ELSE "sign")
        /\ file' = [file EXCEPT ![p] =
               [next |-> IF p \in KeyFiles THEN new.highest + 1 ELSE 0, st |-> new]]
        /\ lock' = Unlocked(r)
        /\ run' = [run EXCEPT ![r] = [NoCourse EXCEPT !.at = p, !.next = top + 1,
                                                  !.last = to]]
        /\ UNCHANGED <<rec, signed, reused>>

\* The block is entered in the used-index record, under the record's lock
UpdateRecord(r) ==
    /\ Goto(r, "record", "sign")
    /\ rec' = Larger(rec, run[r].last)
    /\ UNCHANGED <<file, lock, run, signed, reused>>

\* .rmbl_xmss_take_block: the run signs in order from its own block only
MayTake(r) == run[r].next <= run[r].last

\* cpsseal() signs the next capsule
Sign(r) ==
    LET i == run[r].next
    IN  /\ pc[r] = "sign"
        /\ MayTake(r)
        /\ run' = [run EXCEPT ![r].next = @ + 1]
        /\ signed' = signed \cup {i}
        /\ reused' = IF i \in signed THEN reused \cup {i} ELSE reused
        /\ UNCHANGED <<file, lock, rec, pc>>

\* The run is over: refused, failed, killed, or done.  What is left of its block
\* is lost.
Quit(r) ==
    /\ pc[r] # "idle"
    /\ pc' = [pc EXCEPT ![r] = "idle"]
    /\ run' = [run EXCEPT ![r] = NoCourse]
    /\ lock' = Unlocked(r)
    /\ UNCHANGED <<file, rec, signed, reused>>

\* A user copies a key file or a state file over another one: to a second
\* machine, or back from a backup.
Copy(p, q) ==
    /\ {p, q} \subseteq KeyFiles \/ {p, q} \subseteq StateFiles
    /\ file[p] # file[q]
    /\ file' = [file EXCEPT ![q] = file[p]]
    /\ UNCHANGED <<lock, rec, pc, run, signed, reused>>

\* What a run may see of the signatures: of them only the highest in its range
\* matters
Sightings == {{}, signed} \cup {{j} : j \in signed}

\* What a run does once it was asked to sign
Proceed(r) == Lock(r) \/ Commit(r) \/ UpdateRecord(r) \/ Sign(r) \/ Quit(r)

SectorArgs == 0 .. Capacity \div 2 \cup {NoSector}

Next ==
    \/ \E r \in Runs :
          \/ \E p \in Places, count \in Counts \cup {NoSplit}, sector \in SectorArgs,
                need \in 1 .. MaxBlock, seen \in Sightings, listed \in BOOLEAN :
                   Ask(r, p, count, sector, need, seen, listed)
          \/ Proceed(r)
    \/ \E p, q \in Places : Copy(p, q)

Spec == Init /\ [][Next]_vars

-----------------------------------------------------------------------------
(* Properties.                                                             *)

\* Every variable has its type.
TypeOK ==
    /\ file \in [Places -> [next : 0 .. Capacity, st : State]]
    /\ lock \in [Places -> Runs \cup {NoRun}]
    /\ rec \in Mark
    /\ pc \in [Runs -> Phases]
    /\ run \in [Runs -> Course]
    /\ signed \subseteq Index /\ reused \subseteq Index

\* A place would not give index j out any more, in whichever sector
Shows(p, j) ==
    LET st == StateAt(p)
    IN  \A i \in 0 .. st.count - 1 :
           j \in Lo(st, i) .. End(st, i) => j <= Top(st, i, NextAt(p) - 1)

\* A place gives out only what it still has, and what it has given out it never
\* offers again, in whichever sector: across runs that overlap, fail or are
\* killed, a first split, and files copied or saved over it before.
PlaceNeverGoesBack ==
    [][/\ \A r \in Runs, j \in Index :
             /\ pc[r] = "held" /\ pc'[r] \in {"record", "sign"}
             /\ j \in run'[r].next .. run'[r].last
             => ~Shows(run[r].at, j) /\ Shows(run[r].at, j)'
       /\ file' # file /\ pc' # pc =>
             \A p \in Places, j \in Index : Shows(p, j) => Shows(p, j)']_vars

\* One index signs at most once (RFC 10033), as long as the copies of the key are
\* used as the documentation says.
NoIndexReuse == reused = {}

\* A run does not go back to an index that has signed and that the used-index
\* record, as the run read it, says was used.
NeverBackFromRecord ==
    [][\A r \in Runs :
          pc[r] = "held" /\ pc'[r] = "record" =>
              \A j \in run'[r].next .. run'[r].last :
                  j \in signed => j > run[r].recHi]_vars

\* The first --sectors K is not refused as a signature made outside rmbl sign after
\* the state was split: what the key signed before counts as used in every sector.
FirstSplitTaken ==
    \A r \in Runs :
        LET st == Split(run[r].st, run[r].split, Outside(r))
        IN  /\ pc[r] = "held" /\ run[r].st.count = 1 /\ run[r].split \in Counts
            => ~SignedOutside(st, run[r].keyNext)
=============================================================================
