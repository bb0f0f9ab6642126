---------------------------- MODULE MCXmssRecord ----------------------------
(***************************************************************************)
(* Small instances of XmssRecord: one key, new, or carried over from a     *)
(* release before 0.5.12 that had signed twice with it and listed it in    *)
(* xmss_index.json.                                                        *)
(***************************************************************************)
EXTENDS XmssRecord, TLC

CONSTANTS s1, s2, k1

OneLegacy == (k1 :> 1)
NoLegacy  == (k1 :> Absent)

\* At most one record beside the visible one has not reached the disk
OnePending == Cardinality(recMay) <= 2 /\ Cardinality(jsonMay) <= 2

\* Progress of the calls, in the histories in which no user gives up the record's protection
LiveSpec ==
    /\ Init /\ [][Next /\ exempt' = {}]_vars
    /\ \A s \in Sessions : WF_vars(Progress(s))
=============================================================================
