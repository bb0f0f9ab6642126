------------------------------ MODULE XmssUses ------------------------------
(***************************************************************************)
(* The uses of a key and of its copies that the documentation of `rmbl     *)
(* sign` allows, one of them in each behaviour.  Files are copied, and a   *)
(* session saves its key, while no run is under way.                       *)
(*                                                                         *)
(* An R session may have the key too and share its used-index record.  The *)
(* session retires an index in the record and then signs with it, as       *)
(* XmssRecord shows in detail; a run of the command line reads the record  *)
(* before it takes its state's lock and writes it after the block is       *)
(* reserved.                                                               *)
(***************************************************************************)
EXTENDS XmssState

VARIABLE taken    \* the index the session has retired, to sign with; or none

NoIndex == -1

sharedVars == <<vars, taken>>

\* The next_index of the key objects the session may have: the key as generated,
\* as read from a key file, or advanced past the record by xmssadv()
SessionCopies == {0, rec + 1} \cup {file[p].next : p \in KeyFiles}

\* cpssign() in the session retires its index in the record
SessionTake(i) ==
    /\ taken = NoIndex
    /\ i \in SessionCopies \cap Index
    /\ i > rec
    /\ rec' = i
    /\ taken' = i
    /\ UNCHANGED <<file, lock, pc, run, signed, reused>>

\* ... and signs
SessionSign ==
    /\ taken # NoIndex
    /\ taken' = NoIndex
    /\ signed' = signed \cup {taken}
    /\ reused' = IF taken \in signed THEN reused \cup {taken} ELSE reused
    /\ UNCHANGED <<file, lock, rec, pc, run>>

\* ... or fails, or is killed
SessionFails ==
    /\ taken # NoIndex
    /\ taken' = NoIndex
    /\ UNCHANGED vars

\* The session saves a key over a key file: as it was generated, or with the state
\* it read there, and with whatever next_index its copy has
SaveKey(p) ==
    /\ p \in KeyFiles
    /\ \E next \in SessionCopies \cap (0 .. Capacity), st \in {file[p].st, Fresh} :
          file' = [file EXCEPT ![p] = [next |-> next, st |-> st]]
    /\ UNCHANGED <<lock, rec, pc, run, signed, reused, taken>>

SessionStep ==
    \/ \E i \in Index : SessionTake(i)
    \/ SessionSign \/ SessionFails
    \/ \E p \in Places : SaveKey(p)

-----------------------------------------------------------------------------
(* The rules a user may go by.                                             *)

Uses == {"sectors", "move", "sight", "record", "turns"}

CONSTANTS
    Original,    \* the key file the key was first saved in
    MovedTo,     \* a state file beside it
    Parts,       \* the number of sectors its owners agree on
    OwnSector,   \* the sector of each copy of the key file
    NeedsOf      \* bound on what a run reserves, by use

ASSUME UsesAssumption ==
    /\ Original \in KeyFiles
    /\ MovedTo \in StateFiles /\ KeyOf[MovedTo] = Original
    /\ Parts \in Counts
    /\ OwnSector \in [KeyFiles -> 0 .. Parts - 1]
    /\ \A p, q \in KeyFiles : p # q => OwnSector[p] # OwnSector[q]
    /\ NeedsOf \in [Uses -> SUBSET (1 .. MaxBlock)]

VARIABLES
    use,       \* the rule the user goes by
    passed     \* the key has been passed on

usesVars == <<sharedVars, use, passed>>

Calm == \A r \in Runs : pc[r] = "idle"

\* Where the key signs now
Homes == IF ~passed THEN {Original} ELSE IF use = "sectors" THEN KeyFiles ELSE {MovedTo}

Splits    == {NoSplit, Parts}
SectorsOf == (0 .. Parts - 1) \cup {NoSector}

\* One owner, then copies that each sign in a sector of their own
InSectors(r) ==
    /\ use = "sectors"
    /\ \E p \in Homes, count \in Splits, sector \in SectorsOf, need \in NeedsOf[use] :
          /\ passed => sector = OwnSector[p]
          /\ Ask(r, p, count, sector, need, {}, FALSE)

\* A key file, then a state file beside it
Moved(r) ==
    /\ use = "move"
    /\ \E p \in Homes, count \in Splits, sector \in SectorsOf, need \in NeedsOf[use] :
          Ask(r, p, count, sector, need, {}, FALSE)

\* A key file that is put back from backups; every signature is shown
WithSight(r) ==
    /\ use = "sight"
    /\ \E count \in Splits, sector \in SectorsOf, need \in NeedsOf[use] :
          Ask(r, Original, count, sector, need, signed, FALSE)

\* Runs with the used-index record on and an undivided key: its file may be put back
\* from backups, or a session has the same record
Listed(r) ==
    /\ use \in {"record", "turns"}
    /\ \E need \in NeedsOf[use] : Ask(r, Original, NoSplit, NoSector, need, {}, TRUE)

Asks(r) == InSectors(r) \/ Moved(r) \/ WithSight(r) \/ Listed(r)

\* The copies get the key file as it is, or the state file takes over from it
PassOn ==
    /\ ~passed /\ passed' = TRUE /\ Calm
    /\ \/ /\ use = "sectors"
          /\ file' = [p \in Places |-> IF p \in KeyFiles THEN file[Original] ELSE file[p]]
          /\ UNCHANGED <<lock, rec, pc, run, signed, reused>>
       \/ use = "move" /\ UNCHANGED vars
    /\ UNCHANGED <<taken, use>>

RunsGo ==
    /\ \E r \in Runs : Asks(r) \/ Proceed(r)
    /\ UNCHANGED <<taken, use, passed>>

PutBack ==
    /\ use \in {"sight", "record"} /\ Calm
    /\ \E p, q \in Places : Copy(p, q)
    /\ UNCHANGED <<taken, use, passed>>

\* The session signs and saves in between the runs
Session == use = "turns" /\ Calm /\ SessionStep /\ UNCHANGED <<use, passed>>

\* A session that shares the key has had the record on from the start
UsesInit ==
    /\ Init /\ taken = NoIndex /\ passed = FALSE
    /\ use \in Uses
    /\ use = "turns" => rec = FirstIndex - 1

UsesNext == PassOn \/ RunsGo \/ PutBack \/ Session

UsesSpec == UsesInit /\ [][UsesNext]_usesVars

\* The session at any time, also while a run is under way
RaceSpec ==
    /\ UsesInit /\ use = "turns"
    /\ [][RunsGo \/ (SessionStep /\ UNCHANGED <<use, passed>>)]_usesVars

-----------------------------------------------------------------------------
(* Properties.                                                             *)

\* A block that a run reserves is past all that the used-index record says was
\* used when it is reserved.
BlockPastRecord ==
    [][\A r \in Runs :
          pc[r] = "held" /\ pc'[r] = "record" => run'[r].next > rec]_sharedVars

\* The runs and the session, seen as signers of one-time slots: a run holds what is
\* left of the block it reserved, the session the index it has retired.
OneTimeIndices ==
    INSTANCE OneTime WITH
        Slots   <- Index,
        Signers <- Runs \cup {NoRun},
        Blocks  <- {b .. b + n - 1 : b \in Index, n \in 1 .. MaxBlock},
        hand    <- [r \in Runs \cup {NoRun} |->
                       IF r = NoRun THEN {taken} \cap Index
                       ELSE IF pc[r] \in {"record", "sign"}
                               THEN run[r].next .. run[r].last ELSE {}],
        spent   <- signed,
        loose   <- {}

\* Used as documented, the key's files implement the promise: an index is reserved
\* by one run or session at most, and never after it signed.
ImplementsOneTime == OneTimeIndices!Spec
=============================================================================
