------------------------------ MODULE Transfer ------------------------------
(***************************************************************************)
(* The native transport (src/rmbl_fetch.cpp) as the body of a call through *)
(* the barrier: a request with its redirects, a download into a scratch    *)
(* file that replaces the destination, and the fallback to an archived     *)
(* snapshot, with a Ctrl-C, an event or a failure between any two steps.   *)
(*                                                                         *)
(* Addresses are told apart by what the policy asks of them: home (where   *)
(* the request starts, https), other (another origin, https), plain (http) *)
(* and private (a local address).                                          *)
(***************************************************************************)
EXTENDS Barrier

CONSTANTS
    MaxHops,    \* redirects that are followed (5)
    MaxPolls    \* progress callbacks before the total timeout ends a transfer

ASSUME TransferAssumption == MaxHops \in Nat /\ MaxPolls \in Nat

VARIABLES
    job,        \* the transfer of the call at the bottom of the stack
    dest        \* the destination file

transferVars == <<barrierVars, job, dest>>

Addresses == {"home", "other", "plain", "private"}
Starts    == Addresses \ {"other"}
Ops       == {"download", "fallback", "get", "post"}
Legs      == {"live", "lookup", "again", "snapshot"}
Steps     == {"none", "check", "send", "xfer", "over"}
\* what a transfer came to: a 2xx, an error status, another status, a transport
\* failure or refusal, a stream that could not be reopened, an abort
Answers   == {"none", "ok", "error", "odd", "fail", "lost", "abort"}
\* the scratch file, or the reply in memory: its bytes so far belong to a reply that
\* is complete (whole) or not (part), or to a redirect's (foreign)
Sinks     == {"none", "empty", "part", "whole", "foreign"}
Replies   == {"none", "live", "snapshot", "failed", "local"}
Request   == [at : Addresses, key : BOOLEAN, method : {"GET", "POST"}]

\* trail is history: the requests of this leg.  was: the destination at the start.
Job == [op : Ops \cup {"none"}, key : BOOLEAN, leg : Legs, step : Steps, at : Addresses,
        hop : 0 .. MaxHops, away : BOOLEAN, method : {"GET", "POST"}, sink : Sinks,
        answer : Answers, polls : 0 .. MaxPolls, trail : Seq(Request),
        reply : Replies, was : {"old", "live", "snapshot", "bad"}]

IsFile(op) == op \in {"download", "fallback"}
IsApi(op)  == op \in {"get", "post"}

\* A leg begins: http_get_file() with its scratch file, or a reply in memory
Leg(j, leg, at) ==
    [j EXCEPT !.leg = leg, !.at = at, !.hop = 0, !.away = FALSE, !.polls = 0,
              !.step = "check", !.answer = "none", !.trail = <<>>, !.sink = "empty"]

NoJob == [op |-> "none", key |-> FALSE, leg |-> "live", step |-> "none", at |-> "home",
          hop |-> 0, away |-> FALSE, method |-> "GET", sink |-> "none", answer |-> "none",
          polls |-> 0, trail |-> <<>>, reply |-> "none", was |-> "old"]

TransferInit == BarrierInit /\ job = NoJob /\ dest = "old"

\* The bottom frame runs (nothing runs on top of it)
Running(step) == Len(frames) = 1 /\ job.step = step /\ ~Top.stopped /\ ~Top.failed

-----------------------------------------------------------------------------
(* One request and its redirects: secure_perform().                        *)

\* A call of the transport begins, through its entry point or, for the fallback,
\* from another package
Begin(op, key, at) ==
    /\ AtTop
    /\ Enter \/ (op = "fallback" /\ EnterKernel)
    /\ op = "fallback" => ~key
    /\ job' = Leg([NoJob EXCEPT !.op = op, !.key = key, !.was = dest,
                       !.method = IF op = "post" THEN "POST" ELSE "GET"], "live", at)
    /\ UNCHANGED dest

\* Another entry point, in whose body nothing of this module happens
BeginOther ==
    /\ Enter \/ EnterKernel
    /\ job' = IF AtTop THEN NoJob ELSE job
    /\ UNCHANGED dest

\* mutant: the headers come back once the redirects are back home
PolicyForgets(j) ==
    IF j.at \in {"plain", "private"} \/ (j.hop > 0 /\ IsApi(j.op) /\ (j.at # "home" \/ j.key))
    THEN [j EXCEPT !.step = "over", !.answer = "fail"]
    ELSE [j EXCEPT !.step = "send", !.away = j.at # "home"]

\* mutant: an API's reply is taken from wherever the redirects lead
PolicyAnyHost(j) ==
    IF j.at \in {"plain", "private"} \/ (j.hop > 0 /\ IsApi(j.op) /\ j.key)
    THEN [j EXCEPT !.step = "over", !.answer = "fail"]
    ELSE [j EXCEPT !.step = "send", !.away = @ \/ (j.hop > 0 /\ j.at # "home")]

\* url_check() of the first address, redirect_policy() and the rules for API calls
\* of the others: another origin is left without the caller's headers, for good; an
\* API's answer is taken from the origin that was asked, and its key is sent once
Policy(j) ==
    IF j.at \in {"plain", "private"} \/ (j.hop > 0 /\ IsApi(j.op) /\ (j.at # "home" \/ j.key))
    THEN [j EXCEPT !.step = "over", !.answer = "fail"]
    ELSE [j EXCEPT !.step = "send", !.away = @ \/ (j.hop > 0 /\ j.at # "home")]

CheckHop ==
    /\ Running("check")
    /\ job' = Policy(job)
    /\ UNCHANGED <<barrierVars, dest>>

Send ==
    /\ Running("send")
    /\ job' = [job EXCEPT !.step = "xfer",
                   !.trail = Append(@, [at |-> job.at, key |-> job.key /\ ~job.away,
                                        method |-> job.method])]
    /\ UNCHANGED <<barrierVars, dest>>

\* Some bytes of a reply: write_to_file(), write_to_string()
Receive ==
    /\ Running("xfer") /\ job.sink = "empty"
    /\ job' = [job EXCEPT !.sink = "part"]
    /\ UNCHANGED <<barrierVars, dest>>

\* The reset callback: a redirect's bytes are dropped, the scratch file reopened; if
\* that fails the file stays as it is and the stream is gone
Cleared(sink) == IF IsFile(job.op) THEN {"empty", "foreign"} ELSE {"empty"}

\* mutant: one redirect more
RedirectMore(to, repeat) ==
    /\ Running("xfer") /\ job.sink # "foreign"
    /\ IF job.hop > MaxHops
       THEN job' = [job EXCEPT !.step = "over", !.answer = "fail"]
       ELSE \E sink \in Cleared(job.sink) :
               job' = [job EXCEPT !.step = "check", !.at = to, !.hop = @ + 1, !.sink = sink,
                           !.method = IF repeat THEN @ ELSE "GET"]
    /\ UNCHANGED <<barrierVars, dest>>

\* 301, 302, 303 make a GET; 307 and 308 repeat the request as it was
Redirect(to, repeat) ==
    /\ Running("xfer") /\ job.sink # "foreign"
    /\ IF job.hop = MaxHops
       THEN job' = [job EXCEPT !.step = "over", !.answer = "fail"]
       ELSE \E sink \in Cleared(job.sink) :
               job' = [job EXCEPT !.step = "check", !.at = to, !.hop = @ + 1, !.sink = sink,
                           !.method = IF repeat THEN @ ELSE "GET"]
    /\ UNCHANGED <<barrierVars, dest>>

\* The reply is complete.  Without a stream its bytes have nowhere to go and the
\* transfer fails: replies have a body here.
Answered(status) ==
    /\ Running("xfer")
    /\ job' = [job EXCEPT !.step = "over",
                   !.answer = IF job.sink = "foreign" THEN "lost" ELSE status,
                   !.sink = IF job.sink = "foreign" THEN @ ELSE "whole"]
    /\ UNCHANGED <<barrierVars, dest>>

\* No connection, a refused certificate, a body past its limit, the timeout
TransportFails ==
    /\ Running("xfer")
    /\ job' = [job EXCEPT !.step = "over", !.answer = IF job.sink = "foreign" THEN "lost" ELSE "fail"]
    /\ UNCHANGED <<barrierVars, dest>>

\* libcurl calls the progress callback: it polls (xferinfo(), get_xferinfo(),
\* wait_xferinfo()), and a download's runs the closure it was given
Progress ==
    /\ Running("xfer") /\ job.polls < MaxPolls
    /\ job' = [job EXCEPT !.polls = @ + 1]
    /\ \/ Poll
       \/ RunR("event")
       \/ job.op = "download" /\ RunR("closure")
    /\ UNCHANGED dest

\* The callback answered 1 and libcurl ends the transfer
Aborted ==
    /\ Len(frames) = 1 /\ job.step = "xfer"
    /\ Top.stopped \/ Top.failed
    /\ job' = [job EXCEPT !.step = "over", !.answer = "abort"]
    /\ UNCHANGED <<barrierVars, dest>>

-----------------------------------------------------------------------------
(* A leg is over.                                                          *)

Replaced == IF job.sink = "whole" THEN job.leg ELSE "bad"

\* mutant: an error page replaces the file too
StoredAny(moved) ==
    IF job.answer \in {"ok", "error"} /\ moved THEN Replaced ELSE dest

\* http_get_file() from the end of the transfer on: a 2xx moves the scratch file over
\* the destination, anything else removes it
Stored(moved) == IF job.answer = "ok" /\ moved THEN Replaced ELSE dest

Over(reply) == [job EXCEPT !.step = "none", !.sink = "none", !.reply = reply]

\* The entry point hands its result to the barrier, which raises if a poll had
\* stopped it
HandBack == Return \/ KernelReturn

EndFile ==
    /\ Len(frames) = 1 /\ job.step = "over" /\ job.leg \in {"live", "snapshot"}
    /\ IsFile(job.op)
    /\ \E moved \in BOOLEAN :
          LET local == job.answer = "lost" \/ (job.answer = "ok" /\ ~moved)
          IN  /\ dest' = Stored(moved)
              /\ IF local THEN job' = Over("local") /\ HandBack
                 ELSE IF job.answer = "ok" THEN job' = Over(job.leg) /\ HandBack
                 ELSE IF job.op = "download" \/ Top.stopped \/ job.leg = "snapshot"
                      THEN job' = Over("failed") /\ HandBack
                 ELSE \* fetch_with_fallback(): the caller's snapshot, or ask for one
                      /\ \/ job' = Leg(job, "lookup", "home")
                         \/ \E at \in Starts : job' = Leg(job, "snapshot", at)
                      /\ UNCHANGED barrierVars

\* The scratch file cannot be created: no request is made
NoScratch ==
    /\ Running("check") /\ job.hop = 0 /\ job.at # "plain"
    /\ IsFile(job.op) /\ job.leg \in {"live", "snapshot"}
    /\ job' = Over("local") /\ HandBack
    /\ UNCHANGED dest

\* mutant: the archive is asked again after a Ctrl-C
EndLookupAgain ==
    /\ Len(frames) = 1 /\ job.step = "over" /\ job.leg \in {"lookup", "again"}
    /\ IF job.answer = "ok"
       THEN \/ \E at \in Starts : job' = Leg(job, "snapshot", at) /\ UNCHANGED barrierVars
            \/ job' = Over("failed") /\ HandBack
       ELSE IF job.leg = "again"
            THEN job' = Over("failed") /\ HandBack
            ELSE /\ job' = Leg(job, "again", "home")
                 /\ frames' = [frames EXCEPT ![1].stopped = FALSE]
                 /\ UNCHANGED <<depth, flag, kept, ctrlC, limit, ended>>
    /\ UNCHANGED dest

\* mutant: asked until it answers
EndLookupForever ==
    /\ Len(frames) = 1 /\ job.step = "over" /\ job.leg \in {"lookup", "again"}
    /\ IF job.answer = "ok"
       THEN \/ \E at \in Starts : job' = Leg(job, "snapshot", at) /\ UNCHANGED barrierVars
            \/ job' = Over("failed") /\ HandBack
       ELSE IF Top.stopped
            THEN job' = Over("failed") /\ HandBack
            ELSE job' = Leg(job, "again", "home") /\ UNCHANGED barrierVars
    /\ UNCHANGED dest

\* wayback_snapshot(): asked twice at most, and not again after a Ctrl-C; the answer
\* names a snapshot or none
EndLookup ==
    /\ Len(frames) = 1 /\ job.step = "over" /\ job.leg \in {"lookup", "again"}
    /\ IF job.answer = "ok"
       THEN \/ \E at \in Starts : job' = Leg(job, "snapshot", at) /\ UNCHANGED barrierVars
            \/ job' = Over("failed") /\ HandBack
       ELSE IF Top.stopped \/ job.leg = "again"
            THEN job' = Over("failed") /\ HandBack
            ELSE job' = Leg(job, "again", "home") /\ UNCHANGED barrierVars
    /\ UNCHANGED dest

\* An API call hands its reply back
EndApi ==
    /\ Len(frames) = 1 /\ job.step = "over" /\ IsApi(job.op)
    /\ job' = Over(IF job.answer = "ok" THEN "live" ELSE "failed") /\ HandBack
    /\ UNCHANGED dest

\* The rest of the stack moves: R code on top of the transfer, the calls it makes,
\* calls of other entry points
NativeEnds == Return \/ Throw \/ KernelReturn \/ KernelFail

OnTop ==
    /\ \/ ReturnR \/ FailClosure \/ FailEvent
       \/ (Len(frames) > 1 \/ job.op = "none") /\ (Poll \/ RunR("event") \/ NativeEnds)
    /\ UNCHANGED <<job, dest>>

FromOutside == (PressCtrlC \/ LimitReached \/ RTakes) /\ UNCHANGED <<job, dest>>

\* A Ctrl-C inside the progress closure
CtrlCInClosure == InterruptClosure /\ UNCHANGED <<job, dest>>

Own ==
    \/ CheckHop \/ Send \/ Receive \/ Progress \/ Aborted
    \/ \E to \in Addresses, repeat \in BOOLEAN : Redirect(to, repeat)
    \/ \E status \in {"ok", "error", "odd"} : Answered(status)
    \/ TransportFails
    \/ EndFile \/ NoScratch \/ EndLookup \/ EndApi

Calls == BeginOther \/ \E op \in Ops, key \in BOOLEAN, at \in Starts : Begin(op, key, at)

Next == Own \/ OnTop \/ Calls \/ FromOutside

Spec == TransferInit /\ [][Next]_transferVars

\* Any Ctrl-C, the progress closure's too
AnySpec == TransferInit /\ [][Next \/ CtrlCInClosure]_transferVars

\* libcurl's timeouts end a request, and R code that runs on top of a call, and the
\* calls it makes, end: at each height of the stack
PopAt(height) ==
    /\ Len(frames) = height
    /\ ReturnR \/ NativeEnds
    /\ UNCHANGED <<job, dest>>

FairSpec ==
    /\ Spec
    /\ WF_transferVars(Own)
    /\ \A height \in 2 .. MaxFrames : SF_transferVars(PopAt(height))

-----------------------------------------------------------------------------
(* Properties.                                                             *)

TypeOK == BarrierTypeOK /\ job \in Job /\ dest \in {"old", "live", "snapshot", "bad"}

\* Once a request has gone to another origin the caller's key is not sent again, not
\* even to the origin it came from.
KeyStaysHome ==
    \A i, j \in DOMAIN job.trail :
        i <= j /\ job.trail[i].at # "home" => ~job.trail[j].key

\* An API's answer comes from the origin that was asked, and a key was sent at most once.
AnsweredByAsked ==
    IsApi(job.op) /\ job.reply = "live" =>
        /\ \A i \in DOMAIN job.trail : job.trail[i].at = "home"
        /\ job.key => Len(job.trail) <= 1

\* The destination is what it was before or one complete reply, and the call says
\* which: also when it ends by a Ctrl-C.
DestIsAsTold ==
    /\ dest # "bad"
    /\ IsFile(job.op) /\ job.reply # "none" =>
           dest = IF job.reply \in {"live", "snapshot"} THEN job.reply ELSE job.was

\* A call that has taken a Ctrl-C or a time limit sends no further request: not to the
\* archive, and not again.
NoRequestOnceTaken ==
    [][~AtTop /\ frames[1].owes => Len(job'.trail) <= Len(job.trail)]_transferVars

\* "a pending Ctrl-C is raised by the barrier" (comment of C_rmbl_http_download_impl,
\* src/rmbl_fetch.cpp): a call that took one does not end in another way.  It is not so
\* in AnySpec.
CtrlCRaised == ended.owes => ended.how \in {"interrupt", "kept"}

\* Every transfer ends, whatever the server does and whatever runs on top of it.
CallEnds == job.step # "none" ~> job.step = "none"
=============================================================================
