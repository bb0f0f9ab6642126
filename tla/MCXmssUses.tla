----------------------------- MODULE MCXmssUses -----------------------------
(* Small instances of XmssUses: a key file, a copy of it and a state file. *)
EXTENDS XmssUses, TLC

CONSTANTS r1, r2, ka, kb, sf

StateOverKey == (sf :> ka)
OwnHalf      == [p \in KeyFiles |-> IF p = ka THEN 0 ELSE 1]
Needs        == [u \in Uses |-> IF u \in {"sectors", "record"} THEN 1 .. MaxBlock ELSE {1}]
Symmetric    == Permutations(Runs)

\* The runs alone, whatever rule their user goes by
RunsAlone   == UNCHANGED <<taken, use, passed>>
UnruledSpec == UsesInit /\ use = "move" /\ [][Next /\ RunsAlone]_usesVars

\* kb is a backup of ka, put back while nothing runs.  There are no signatures to
\* see: the used-index record is what is left to tell that the backup is old.
RecordedNext ==
    /\ RunsAlone
    /\ \/ \E r \in Runs :
             \/ \E count \in Counts \cup {NoSplit}, sector \in SectorArgs, need \in 1 .. MaxBlock :
                   Ask(r, ka, count, sector, need, {}, TRUE)
             \/ Proceed(r)
       \/ Calm /\ \E p, q \in Places : Copy(p, q)
RecordedSpec == UsesInit /\ use = "record" /\ [][RecordedNext]_usesVars
=============================================================================
