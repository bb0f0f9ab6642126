----------------------------- MODULE WaybackRun -----------------------------
(***************************************************************************)
(* wbsave() and wbrtry(): archiving many pages in the Wayback Machine with *)
(* a results file that the next run continues (R/wayback_save.R).          *)
(*                                                                         *)
(* archive.org is outside: it may give any answer to any request, and it   *)
(* may start a capture whose answer never arrives.  A run can be stopped   *)
(* by Ctrl-C or by an error, when its exit handler still records the       *)
(* captures in flight, or killed, when nothing does.                       *)
(*                                                                         *)
(* Time is left out: a hold, a spacing or a due time only says when the    *)
(* next step comes, so requests and status checks come in any order.       *)
(***************************************************************************)
EXTENDS Integers, FiniteSets

CONSTANTS
    Urls,
    Jobs,           \* captures in flight at once
    MaxCap,         \* the most captures a run takes from its URLs
    Tries,          \* failed requests before a URL is given up (6)
    MaxThrottles,   \* slow-down replies in a row that stop a run (8)
    RequeueFloor,   \* resubmissions a run has at least (20)
    Patience,       \* status checks of a capture within maxwait
    NoUrl

ASSUME ConstantsAssumption ==
    /\ IsFiniteSet(Urls) /\ NoUrl \notin Urls
    /\ {Jobs, MaxCap, Tries, MaxThrottles} \subseteq Nat \ {0}
    /\ {RequeueFloor, Patience} \subseteq Nat

VARIABLES
    file,       \* the last line of the results file for each URL
    pc, hand,   \* where the run is, and the URL it is dealing with
    urls,       \* the URLs of the run
    queue, rest,        \* to be sent; left for the next run (maxcap)
    inflight,   \* status checks made of each capture in flight
    results,    \* the URLs with a row in the result
    attempts, throttles, requeues, cap, stopped,
    \* history
    known,      \* started captures whose end no run has been told of
    done,       \* URLs that were once saved, or found in the archive
    asked       \* requests of this run since a capture got through

places  == <<urls, queue, rest, inflight, results>>
caps    == <<attempts, throttles, requeues, cap, stopped>>
history == <<known, done, asked>>
vars    == <<file, pc, hand, places, caps, history>>

Finished == {"saved", "existing"}
Failures == {"failed", "gone", "daily"}   \* by what the message says
Lines    == {"none", "submitted"} \cup Finished \cup Failures

Landed == -1
Flying == {u \in Urls : inflight[u] # Landed}
Larger(a, b) == IF a >= b THEN a ELSE b

-----------------------------------------------------------------------------
(* A run begins: .bl_wb_split_prior, .bl_wb_state, .bl_wb_resume.          *)

\* mutant: only new captures count, not those found in the archive
KeptSaved(U) == {u \in U : file[u] = "saved"}

Kept(U) == {u \in U : file[u] \in Finished}

\* mutant: a capture the last run left behind is sent again
ResumedNone(U) == {}

Resumed(U) == {u \in U : file[u] = "submitted"}

NoRun ==
    /\ pc' = "off" /\ hand' = NoUrl
    /\ urls' = {} /\ queue' = {} /\ rest' = {} /\ results' = {}
    /\ inflight' = [u \in Urls |-> Landed]
    /\ attempts' = [u \in Urls |-> 0]
    /\ throttles' = 0 /\ requeues' = 0 /\ cap' = 0 /\ stopped' = FALSE
    /\ asked' = 0

Init ==
    /\ file = [u \in Urls |-> "none"]
    /\ pc = "off" /\ hand = NoUrl
    /\ urls = {} /\ queue = {} /\ rest = {} /\ results = {}
    /\ inflight = [u \in Urls |-> Landed]
    /\ attempts = [u \in Urls |-> 0]
    /\ throttles = 0 /\ requeues = 0 /\ cap = 0 /\ stopped = FALSE
    /\ known = {} /\ done = {} /\ asked = 0

\* wbsave(U): what is finished is kept, what was started is polled, of the rest
\* at most MaxCap are sent
Start(U) ==
    /\ pc = "off" /\ U # {}
    /\ pc' = "round"
    /\ urls' = U
    /\ \E first \in SUBSET (U \ (Kept(U) \cup Resumed(U))) :
          /\ queue' = first
          /\ rest' = U \ (Kept(U) \cup Resumed(U) \cup first)
          /\ Cardinality(first) <= MaxCap
          /\ rest' # {} => Cardinality(first) = MaxCap
          /\ cap' = Larger(RequeueFloor, Cardinality(first))
    /\ results' = Kept(U)
    /\ inflight' = [u \in Urls |-> IF u \in Resumed(U) THEN 0 ELSE Landed]
    /\ UNCHANGED <<file, hand, attempts, throttles, requeues, stopped, history>>

\* wbrtry(): a failed URL is found in the archive before any run begins
RetryFinds(u) ==
    /\ pc = "off" /\ file[u] \in Failures
    /\ file' = [file EXCEPT ![u] = "existing"]
    /\ done' = done \cup {u}
    /\ UNCHANGED <<pc, hand, places, caps, known, asked>>

\* ... and the others are sent again, but those whose page is gone (unless
\* incgone) and those that met a daily limit today
Retry(incgone, today) ==
    Start({u \in Urls : \/ file[u] \in {"failed", "submitted"}
                        \/ file[u] = "gone" /\ incgone
                        \/ file[u] = "daily" /\ ~today})

-----------------------------------------------------------------------------
(* Requests: .bl_wb_submit.                                                *)

\* .bl_wb_finish: a row in the result and a line in the file
Finish(u, line) ==
    /\ results' = results \cup {u}
    /\ file' = [file EXCEPT ![u] = line]
    /\ done' = IF line \in Finished THEN done \cup {u} ELSE done

\* A capture request is on its way; until its answer is dealt with, the URL is
\* neither queued nor in flight.
Post(u) ==
    /\ pc = "round" /\ u \in queue
    /\ ~stopped
    /\ Cardinality(Flying) < Jobs
    /\ pc' = "sent" /\ hand' = u
    /\ queue' = queue \ {u}
    /\ asked' = asked + 1
    /\ UNCHANGED <<file, urls, rest, inflight, results, caps, known, done>>

Answered == pc = "sent" /\ pc' = "round" /\ hand' = NoUrl

\* archive.org has started the capture
PostStarts ==
    /\ Answered
    /\ inflight' = [inflight EXCEPT ![hand] = 0]
    /\ known' = known \cup {hand}
    /\ UNCHANGED <<file, urls, queue, rest, results, caps, done, asked>>

\* mutant: the URL that met the cap is not put back
PostCappedDrops ==
    /\ Answered
    /\ stopped' = TRUE
    /\ UNCHANGED <<file, places, attempts, throttles, requeues, cap, history>>

\* The account's daily cap is reached
PostCapped ==
    /\ Answered
    /\ queue' = queue \cup {hand}
    /\ stopped' = TRUE
    /\ UNCHANGED <<file, urls, rest, inflight, results, attempts, throttles,
                   requeues, cap, history>>

\* mutant: resubmissions are not limited
RequeueAlways(u) ==
    /\ requeues' = requeues + 1
    /\ queue' = queue \cup {u}
    /\ UNCHANGED stopped

\* .bl_wb_requeue: back in the queue, and the run stops if that was once too often
Requeue(u) ==
    /\ requeues' = requeues + 1
    /\ queue' = queue \cup {u}
    /\ stopped' = (stopped \/ requeues + 1 > cap)

\* .bl_wb_slow_down
SlowDown(u) ==
    /\ throttles' = throttles + 1
    /\ IF throttles + 1 >= MaxThrottles
          THEN stopped' = TRUE /\ queue' = queue \cup {u} /\ UNCHANGED requeues
          ELSE Requeue(u)
    /\ UNCHANGED <<attempts, cap>>

PostThrottled ==
    /\ Answered
    /\ SlowDown(hand)
    /\ UNCHANGED <<file, urls, rest, inflight, results, history>>

\* mutant: off by one, one try too many
PostFailsOnceMore ==
    /\ Answered
    /\ attempts' = [attempts EXCEPT ![hand] = @ + 1]
    /\ IF attempts[hand] + 1 > Tries
          THEN /\ Finish(hand, "failed")
               /\ requeues' = requeues + 1
               /\ UNCHANGED <<queue, stopped>>
          ELSE Requeue(hand) /\ UNCHANGED <<file, results, done>>
    /\ UNCHANGED <<urls, rest, inflight, throttles, cap, known, asked>>

\* .bl_wb_submit_transient: a server error, a lost connection or a reply that
\* says nothing; the URL is given up after `Tries` of them
PostFails ==
    /\ Answered
    /\ attempts' = [attempts EXCEPT ![hand] = @ + 1]
    /\ IF attempts[hand] + 1 >= Tries
          THEN /\ Finish(hand, "failed")
               /\ requeues' = requeues + 1
               /\ UNCHANGED <<queue, stopped>>
          ELSE Requeue(hand) /\ UNCHANGED <<file, results, done>>
    /\ UNCHANGED <<urls, rest, inflight, throttles, cap, known, asked>>

\* .bl_wb_submit_answer: a capture that is recent enough is there already
PostFinds ==
    /\ Answered
    /\ Finish(hand, "existing")
    /\ throttles' = 0 /\ requeues' = 0 /\ asked' = 0
    /\ UNCHANGED <<urls, queue, rest, inflight, attempts, cap, stopped, known>>

\* ... or archive.org will not capture the page
PostRefused ==
    /\ Answered
    /\ \E line \in {"failed", "gone"} : Finish(hand, line)
    /\ UNCHANGED <<urls, queue, rest, inflight, caps, known, asked>>

\* ... or has captured it today often enough: .bl_wb_existing_or_failed
PostDaily ==
    /\ pc = "sent" /\ pc' = "lookup"
    /\ throttles' = 0
    /\ UNCHANGED <<file, hand, places, attempts, requeues, cap, stopped, history>>

-----------------------------------------------------------------------------
(* Status checks: .bl_wb_check_job.                                        *)

Checked(u) == pc = "round" /\ u \in Flying

\* mutant: the wait for a capture starts anew
PollPendingAnew(u) ==
    /\ Checked(u)
    /\ inflight' = [inflight EXCEPT ![u] = IF @ < Patience THEN @ + 1 ELSE 0]
    /\ UNCHANGED <<file, pc, hand, urls, queue, rest, results, caps, history>>

\* Not ended yet, or the status cannot be had just now
PollPending(u) ==
    /\ Checked(u)
    /\ inflight[u] < Patience
    /\ inflight' = [inflight EXCEPT ![u] = @ + 1]
    /\ UNCHANGED <<file, pc, hand, urls, queue, rest, results, caps, history>>

\* The line of a capture that has ended is written before the capture is taken
\* out of those in flight.
Ends(u, line) ==
    /\ Checked(u)
    /\ pc' = "clear" /\ hand' = u
    /\ Finish(u, line)
    /\ known' = known \ {u}
    /\ UNCHANGED <<urls, queue, rest, inflight>>

\* .bl_wb_job_saved
PollSaved(u) ==
    /\ Ends(u, "saved")
    /\ throttles' = 0 /\ requeues' = 0 /\ asked' = 0
    /\ UNCHANGED <<attempts, cap, stopped>>

\* archive.org no longer knows the capture, or .bl_wb_job_timeout
PollGivenUp(u) == Ends(u, "failed") /\ UNCHANGED <<caps, asked>>

\* w$inflight[[u]] <- NULL
Clear ==
    /\ pc = "clear"
    /\ pc' = "round" /\ hand' = NoUrl
    /\ inflight' = [inflight EXCEPT ![hand] = Landed]
    /\ UNCHANGED <<file, urls, queue, rest, results, caps, history>>

\* .bl_wb_job_error takes the capture out first
Lands(u) ==
    /\ Checked(u)
    /\ inflight' = [inflight EXCEPT ![u] = Landed]
    /\ known' = known \ {u}
    /\ UNCHANGED <<file, urls, rest, results, done, asked>>

PollThrottled(u) == Lands(u) /\ SlowDown(u) /\ UNCHANGED <<pc, hand>>

PollDaily(u) ==
    /\ Lands(u)
    /\ pc' = "lookup" /\ hand' = u
    /\ throttles' = 0
    /\ UNCHANGED <<queue, attempts, requeues, cap, stopped>>

PollError(u) ==
    /\ Lands(u)
    /\ pc' = "error" /\ hand' = u
    /\ UNCHANGED <<queue, caps>>

\* The lookup of a page that met a daily limit, or archive.org's reason
Report ==
    /\ \/ pc = "lookup" /\ \E line \in {"existing", "daily"} : Finish(hand, line)
       \/ pc = "error" /\ \E line \in {"failed", "gone"} : Finish(hand, line)
    /\ pc' = "round" /\ hand' = NoUrl
    /\ UNCHANGED <<urls, queue, rest, inflight, caps, known, asked>>

-----------------------------------------------------------------------------
(* The run ends.                                                           *)

\* wbsave() returns: a row or an entry of not_sent for every URL
Return ==
    /\ pc = "round" /\ Flying = {}
    /\ queue = {} \/ stopped
    /\ NoRun
    /\ UNCHANGED <<file, known, done>>

Running == {"round", "sent", "lookup", "error", "clear"}

\* Refused keys (401, 403), Ctrl-C, an error of the disk
Stop ==
    /\ pc \in Running
    /\ pc' = "exit" /\ hand' = NoUrl
    /\ UNCHANGED <<file, places, caps, history>>

\* .bl_wb_record_inflight, on exit
ExitRecord(u) ==
    /\ pc = "exit" /\ u \in Flying
    /\ inflight' = [inflight EXCEPT ![u] = Landed]
    /\ file' = [file EXCEPT ![u] = "submitted"]
    /\ UNCHANGED <<pc, hand, urls, queue, rest, results, caps, history>>

ExitDone ==
    /\ pc = "exit" /\ Flying = {}
    /\ NoRun
    /\ UNCHANGED <<file, known, done>>

\* The process is killed, or a second Ctrl-C ends the exit handler
Kill ==
    /\ pc # "off"
    /\ NoRun
    /\ known' = {u \in known : file[u] = "submitted"}
    /\ UNCHANGED <<file, done>>

Begin ==
    \/ \E U \in SUBSET Urls : Start(U)
    \/ \E u \in Urls : RetryFinds(u)
    \/ \E incgone, today \in BOOLEAN : Retry(incgone, today)

Step ==
    \/ \E u \in Urls :
          \/ Post(u)
          \/ PollPending(u) \/ PollSaved(u) \/ PollGivenUp(u)
          \/ PollThrottled(u) \/ PollDaily(u) \/ PollError(u)
          \/ ExitRecord(u)
    \/ PostStarts \/ PostCapped \/ PostThrottled \/ PostFails
    \/ PostFinds \/ PostRefused \/ PostDaily
    \/ Clear \/ Report \/ Return \/ ExitDone

Next == Begin \/ Step \/ Stop \/ Kill

Spec == Init /\ [][Next]_vars /\ WF_vars(Step)

\* Ctrl-C and errors come while the run waits, asks or exits, not between the line
\* of a capture that has ended and its removal from those in flight.
WaitingNext == Begin \/ Step \/ (pc # "clear" /\ Stop) \/ Kill

WaitingSpec == Init /\ [][WaitingNext]_vars /\ WF_vars(Step)

-----------------------------------------------------------------------------
(* Properties.                                                             *)

\* Every variable has its type.
TypeOK ==
    /\ file \in [Urls -> Lines]
    /\ pc \in Running \cup {"off", "exit"}
    /\ hand \in Urls \cup {NoUrl}
    /\ urls \subseteq Urls /\ queue \subseteq Urls /\ rest \subseteq Urls
    /\ results \subseteq Urls
    /\ inflight \in [Urls -> Landed .. Patience]
    /\ attempts \in [Urls -> 0 .. Tries]
    /\ {throttles, requeues, cap, asked} \subseteq Nat
    /\ stopped \in BOOLEAN
    /\ known \subseteq Urls /\ done \subseteq Urls

\* While a run goes on each of its URLs is in one place: it has a result, or is
\* queued, in flight, left for the next run, or being dealt with.  So wbsave()
\* returns with a row or an entry of not_sent, not both, for every URL.
Dealt == IF pc \in {"sent", "lookup", "error"} THEN {hand} ELSE {}
Aloft == IF pc = "clear" THEN Flying \ {hand} ELSE Flying

EachUrlInOnePlace ==
    pc \in Running =>
        /\ urls = results \cup queue \cup Aloft \cup rest \cup Dealt
        /\ results \cap (queue \cup Aloft \cup rest \cup Dealt) = {}
        /\ queue \cap (Aloft \cup rest \cup Dealt) = {}
        /\ Aloft \cap (rest \cup Dealt) = {}
        /\ rest \cap Dealt = {}

\* A capture that was started is not asked for again before its end is known: the
\* next run polls it, whatever stopped the last one but a kill before its line
\* was written.
StartedIsPolled ==
    [][pc = "round" /\ pc' = "sent" => hand' \notin known]_vars

\* A URL that was saved or found is never sent again by a run that continues the
\* results file.
FinishedIsNotSent ==
    [][pc = "round" /\ pc' = "sent" => hand' \notin done]_vars

\* While no capture gets through, a run sends at most as many requests as it may
\* resubmit plus one for each URL.
AsksWithinCaps == asked <= cap + Cardinality(urls)

\* A run ends, whatever archive.org answers.
RunEnds == pc # "off" ~> pc = "off"
=============================================================================
