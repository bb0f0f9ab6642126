--------------------------- MODULE TransferProofs ---------------------------
(***************************************************************************)
(* Proofs about Transfer, for every number of redirects and of polls: a    *)
(* transfer moves the barrier as Barrier says, the caller's key stays with *)
(* the origin it was given for, the destination is as the call tells, and  *)
(* no request follows a Ctrl-C that was taken.                             *)
(***************************************************************************)
EXTENDS Transfer, BarrierProofs

Files == {"old", "live", "snapshot"}

\* Where the requests of a leg have gone, and where the next one goes
Path(j) ==
    /\ j.step = "check" /\ j.hop = 0 => j.at \in Starts /\ j.trail = <<>>
    /\ j.step = "send" =>
          /\ j.at = "home" \/ j.away
          /\ IsApi(j.op) => j.at = "home" /\ (j.key => j.trail = <<>>)
    /\ \A i \in DOMAIN j.trail : j.trail[i].at # "home" => j.away
    /\ \A i, k \in DOMAIN j.trail : i <= k /\ j.trail[i].at # "home" => ~j.trail[k].key
    /\ IsApi(j.op) => /\ \A i \in DOMAIN j.trail : j.trail[i].at = "home"
                      /\ j.key => Len(j.trail) <= 1

\* What the scratch file holds, and the destination
File(j, d) ==
    /\ d \in Files /\ j.was \in Files
    /\ j.step = "over" /\ j.answer = "ok" => j.sink = "whole"
    /\ j.step # "none" => j.reply = "none"
    /\ IsFile(j.op) => d = IF j.reply \in {"live", "snapshot"} THEN j.reply ELSE j.was

JInv == job \in Job /\ Path(job) /\ File(job, dest)

-----------------------------------------------------------------------------

\* A transfer's steps are the barrier's, or leave the barrier alone
LEMMA StepIsBarrierStep == [Next]_transferVars => [BarrierNext]_barrierVars
<1> SUFFICES ASSUME [Next]_transferVars
             PROVE  [BarrierNext]_barrierVars
  OBVIOUS
<1> USE DEF BarrierNext
<1>1. CASE Own
  <2>1. CASE CheckHop \/ Send \/ Receive \/ Aborted \/ TransportFails
    BY <2>1 DEF CheckHop, Send, Receive, Aborted, TransportFails
  <2>2. CASE Progress
    BY <2>2 DEF Progress, RKinds
  <2>3. ASSUME NEW to, NEW repeat, Redirect(to, repeat)
        PROVE  [BarrierNext]_barrierVars
    BY <2>3 DEF Redirect
  <2>4. ASSUME NEW status, Answered(status)
        PROVE  [BarrierNext]_barrierVars
    BY <2>4 DEF Answered
  <2>5. HandBack => BarrierNext
    BY DEF HandBack
  <2>6. CASE EndFile
    BY <2>5, <2>6 DEF EndFile
  <2>7. CASE EndLookup
    BY <2>5, <2>7 DEF EndLookup
  <2>8. CASE NoScratch \/ EndApi
    BY <2>5, <2>8 DEF NoScratch, EndApi
  <2> QED
    BY <1>1, <2>1, <2>2, <2>3, <2>4, <2>6, <2>7, <2>8 DEF Own
<1>2. CASE OnTop
  BY <1>2 DEF OnTop, NativeEnds, RKinds
<1>3. CASE Calls
  BY <1>3 DEF Calls, Begin, BeginOther
<1>4. CASE FromOutside
  BY <1>4 DEF FromOutside
<1>5. CASE UNCHANGED transferVars
  BY <1>5 DEF transferVars
<1> QED
  BY <1>1, <1>2, <1>3, <1>4, <1>5 DEF Next

\* The transport implements the barrier it runs under
THEOREM TransferIsBarrier == Spec => BarrierSpec
<1>1. TransferInit => BarrierInit
  BY DEF TransferInit
<1> QED
  BY <1>1, StepIsBarrierStep, PTL DEF Spec, BarrierSpec

\* So the depth counts the barriers whatever a transfer comes to
THEOREM TransferDepth == Spec => []DepthIsBarriers
BY TransferIsBarrier, DepthCounts, PTL

\* and a transfer's call is raised exactly when it took a Ctrl-C or a kept error
THEOREM TransferRaised == Spec => []RaisedIffTaken
BY TransferIsBarrier, RaisedExactly, PTL

-----------------------------------------------------------------------------
(* The path of the key, and the destination.                               *)

USE DEF Files

\* A leg begins with no request made
LEMMA LegOK ==
    ASSUME NEW j \in Job, NEW leg \in Legs, NEW at \in Starts,
           NEW d, File(j, d), j.reply = "none"
    PROVE  Leg(j, leg, at) \in Job /\ Path(Leg(j, leg, at)) /\ File(Leg(j, leg, at), d)
<1>1. <<>> \in Seq(Request) /\ Len(<<>>) = 0 /\ DOMAIN <<>> = {}
  OBVIOUS
<1>2. Leg(j, leg, at) \in Job
  <2>1. at \in Addresses /\ 0 \in 0 .. MaxHops /\ 0 \in 0 .. MaxPolls /\ "check" \in Steps
        /\ "none" \in Answers /\ "empty" \in Sinks
    BY TransferAssumption DEF Starts, Steps, Answers, Sinks
  <2> QED
    BY <1>1, <2>1 DEF Leg, Job
<1>3. /\ Leg(j, leg, at).trail = <<>> /\ Leg(j, leg, at).at = at /\ Leg(j, leg, at).step = "check"
      /\ Leg(j, leg, at).was = j.was /\ Leg(j, leg, at).op = j.op /\ Leg(j, leg, at).reply = j.reply
  BY DEF Leg, Job
<1>4. Path(Leg(j, leg, at))
  BY <1>1, <1>3 DEF Path
<1>5. File(Leg(j, leg, at), d)
  BY <1>3 DEF File
<1> QED
  BY <1>2, <1>4, <1>5

\* The policy lets a request through with what it may carry
LEMMA PolicyOK ==
    ASSUME NEW j \in Job, Path(j), NEW d, File(j, d), j.step = "check"
    PROVE  Policy(j) \in Job /\ Path(Policy(j)) /\ File(Policy(j), d)
<1> DEFINE refused == j.at \in {"plain", "private"} \/ (j.hop > 0 /\ IsApi(j.op) /\ (j.at # "home" \/ j.key))
           leaves  == j.away \/ (j.hop > 0 /\ j.at # "home")
<1>1. CASE refused
  <2>1. Policy(j) = [j EXCEPT !.step = "over", !.answer = "fail"]
    BY <1>1 DEF Policy
  <2>2. /\ Policy(j) \in Job /\ Policy(j).trail = j.trail /\ Policy(j).step = "over" /\ Policy(j).answer = "fail"
        /\ Policy(j).away = j.away /\ Policy(j).op = j.op /\ Policy(j).key = j.key
        /\ Policy(j).reply = j.reply /\ Policy(j).was = j.was
    BY <2>1 DEF Job, Steps, Answers
  <2> QED
    BY <2>2 DEF Path, File
<1>2. CASE ~refused
  <2>1. Policy(j) = [j EXCEPT !.step = "send", !.away = leaves]
    BY <1>2 DEF Policy
  <2>2. leaves \in BOOLEAN
    BY DEF Job
  <2>3. /\ Policy(j) \in Job /\ Policy(j).trail = j.trail /\ Policy(j).step = "send" /\ Policy(j).at = j.at
        /\ Policy(j).away = leaves /\ Policy(j).op = j.op /\ Policy(j).key = j.key
        /\ Policy(j).reply = j.reply /\ Policy(j).was = j.was
    BY <2>1, <2>2 DEF Job, Steps
  <2>4. j.hop \in Nat /\ j.at \in {"home", "other"}
    BY <1>2, TransferAssumption DEF Job, Addresses
  <2>5. CASE j.hop = 0
    <3>1. j.at = "home" /\ j.trail = <<>> /\ leaves = j.away
      BY <2>4, <2>5 DEF Path, Starts, Job
    <3> QED
      BY <2>3, <3>1 DEF Path, File
  <2>6. CASE j.hop > 0
    <3>1. (j.at = "home" \/ leaves) /\ (IsApi(j.op) => j.at = "home" /\ ~j.key) /\ (j.away => leaves)
      BY <1>2, <2>4, <2>6
    <3> QED
      BY <2>3, <3>1 DEF Path, File
  <2> QED
    BY <2>4, <2>5, <2>6
<1> QED
  BY <1>1, <1>2

\* A request is sent with the key only where the leg has never left home
LEMMA SendOK ==
    ASSUME JInv, Send
    PROVE  JInv'
<1> DEFINE request == [at |-> job.at, key |-> job.key /\ ~job.away, method |-> job.method]
<1>1. /\ job.step = "send" /\ job' = [job EXCEPT !.step = "xfer", !.trail = Append(@, request)]
      /\ UNCHANGED dest /\ job \in Job /\ Path(job) /\ File(job, dest)
  BY DEF Send, Running, JInv
<1>2. request \in Request /\ job.trail \in Seq(Request)
  BY <1>1 DEF Request, Job
<1> DEFINE n == Len(job.trail)
<1>3. /\ Append(job.trail, request) \in Seq(Request) /\ n \in Nat
      /\ DOMAIN Append(job.trail, request) = 1 .. n + 1 /\ DOMAIN job.trail = 1 .. n
      /\ Append(job.trail, request)[n + 1] = request
      /\ \A i \in 1 .. n : Append(job.trail, request)[i] = job.trail[i]
      /\ Len(Append(job.trail, request)) = n + 1
      /\ job.trail = <<>> => n = 0
  BY <1>2
<1>4. /\ job' \in Job /\ job'.trail = Append(job.trail, request) /\ job'.step = "xfer"
      /\ job'.away = job.away /\ job'.op = job.op /\ job'.key = job.key
      /\ job'.reply = job.reply /\ job'.was = job.was
  BY <1>1, <1>3 DEF Job, Steps
<1>5. request.at = job.at /\ (request.key => job.key /\ ~job.away)
  OBVIOUS
<1> HIDE DEF request, n
<1>6. Path(job')
  <2>1. \A i \in DOMAIN job'.trail : job'.trail[i].at # "home" => job'.away
    BY <1>1, <1>3, <1>4, <1>5 DEF Path
  <2>2. \A i, k \in DOMAIN job'.trail : i <= k /\ job'.trail[i].at # "home" => ~job'.trail[k].key
    <3> SUFFICES ASSUME NEW i \in 1 .. n + 1, NEW k \in 1 .. n + 1, i <= k, job'.trail[i].at # "home"
                 PROVE  ~job'.trail[k].key
      BY <1>3, <1>4
    <3>1. CASE k = n + 1
      BY <1>3, <1>4, <1>5, <2>1, <3>1
    <3>2. CASE k # n + 1
      BY <1>1, <1>3, <1>4, <3>2 DEF Path
    <3> QED
      BY <3>1, <3>2
  <2>3. ASSUME IsApi(job.op)
        PROVE  /\ \A i \in DOMAIN job'.trail : job'.trail[i].at = "home"
               /\ job'.key => Len(job'.trail) <= 1
    BY <1>1, <1>3, <1>4, <1>5, <2>3 DEF Path
  <2> QED
    BY <1>4, <2>1, <2>2, <2>3 DEF Path
<1>7. File(job', dest')
  BY <1>1, <1>4 DEF File
<1> QED
  BY <1>4, <1>6, <1>7 DEF JInv

\* A step inside a leg that leaves its path and what is told alone
LEMMA InsideLeg ==
    ASSUME JInv, UNCHANGED dest, job' \in Job,
           job'.trail = job.trail, job'.away = job.away, job'.op = job.op, job'.key = job.key,
           job'.reply = job.reply, job'.was = job.was, job.step # "none",
           job'.step = "check" => job'.hop > 0 \/ (job.step = "check" /\ job'.hop = job.hop /\ job'.at = job.at),
           job'.step # "send",
           job'.step = "over" /\ job'.answer = "ok" => job'.sink = "whole"
    PROVE  JInv'
<1>1. job'.hop \in Nat
  BY TransferAssumption DEF Job
<1>2. Path(job')
  BY <1>1 DEF JInv, Path
<1>3. File(job', dest')
  BY DEF JInv, File
<1> QED
  BY <1>2, <1>3 DEF JInv

\* With no transfer there is nothing to tell
LEMMA NoJobOK == NoJob \in Job /\ Path(NoJob) /\ \A d \in Files : File(NoJob, d)
<1>1. NoJob \in Job
  <2>1. <<>> \in Seq(Request) /\ 0 \in 0 .. MaxHops /\ 0 \in 0 .. MaxPolls
    BY TransferAssumption
  <2> QED
    BY <2>1 DEF NoJob, Job, Legs, Steps, Addresses, Sinks, Answers, Replies
<1>2. Path(NoJob) /\ \A d \in Files : File(NoJob, d)
  BY DEF NoJob, Path, File, IsApi, IsFile
<1> QED
  BY <1>1, <1>2

\* The end of a call: the destination is as the reply says
LEMMA OverOK ==
    ASSUME JInv, NEW reply \in Replies, job' = Over(reply), dest' \in Files,
           IsFile(job.op) => dest' = IF reply \in {"live", "snapshot"} THEN reply ELSE job.was
    PROVE  JInv'
<1>1. /\ job' \in Job /\ job'.step = "none" /\ job'.trail = job.trail /\ job'.away = job.away
      /\ job'.op = job.op /\ job'.key = job.key /\ job'.reply = reply /\ job'.was = job.was
  BY DEF JInv, Over, Job, Steps, Sinks
<1>2. Path(job')
  BY <1>1 DEF JInv, Path
<1>3. File(job', dest')
  BY <1>1 DEF JInv, File
<1> QED
  BY <1>1, <1>2, <1>3 DEF JInv

\* Another leg of the same call
LEMMA NextLegOK ==
    ASSUME JInv, job.step = "over", NEW leg \in Legs, NEW at \in Starts,
           job' = Leg(job, leg, at), UNCHANGED dest
    PROVE  JInv'
BY LegOK DEF JInv, File

\* Every step of a transfer keeps the path and the file
LEMMA JInvStep == JInv /\ [Next]_transferVars => JInv'
<1> SUFFICES ASSUME JInv, [Next]_transferVars
             PROVE  JInv'
  OBVIOUS
<1>a. job \in Job /\ Path(job) /\ File(job, dest)
  BY DEF JInv
<1>1. CASE CheckHop
  BY <1>1, <1>a, PolicyOK DEF CheckHop, Running, JInv
<1>2. CASE Send
  BY <1>2, SendOK
<1>3. CASE Receive
  <2>1. job.step = "xfer" /\ job' = [job EXCEPT !.sink = "part"] /\ UNCHANGED dest
    BY <1>3 DEF Receive, Running
  <2> QED
    BY <1>a, <2>1, InsideLeg DEF Job, Sinks
<1>4. CASE Progress
  <2>1. job.step = "xfer" /\ job.polls < MaxPolls /\ job' = [job EXCEPT !.polls = @ + 1] /\ UNCHANGED dest
    BY <1>4 DEF Progress, Running
  <2>2. job.polls + 1 \in 0 .. MaxPolls
    BY <1>a, <2>1, TransferAssumption DEF Job
  <2> QED
    BY <1>a, <2>1, <2>2, InsideLeg DEF Job
<1>5. CASE Aborted
  <2>1. job.step = "xfer" /\ job' = [job EXCEPT !.step = "over", !.answer = "abort"] /\ UNCHANGED dest
    BY <1>5 DEF Aborted
  <2> QED
    BY <1>a, <2>1, InsideLeg DEF Job, Steps, Answers
<1>6. ASSUME NEW to \in Addresses, NEW repeat \in BOOLEAN, Redirect(to, repeat)
      PROVE  JInv'
  <2>1. job.step = "xfer" /\ UNCHANGED dest
    BY <1>6 DEF Redirect, Running
  <2>2. CASE job.hop = MaxHops
    <3>1. job' = [job EXCEPT !.step = "over", !.answer = "fail"]
      BY <1>6, <2>2 DEF Redirect
    <3> QED
      BY <1>a, <2>1, <3>1, InsideLeg DEF Job, Steps, Answers
  <2>3. CASE job.hop # MaxHops
    <3>1. PICK sink \in Cleared(job.sink) :
             job' = [job EXCEPT !.step = "check", !.at = to, !.hop = @ + 1, !.sink = sink,
                         !.method = IF repeat THEN @ ELSE "GET"]
      BY <1>6, <2>3 DEF Redirect
    <3>2. sink \in Sinks /\ job.hop + 1 \in 0 .. MaxHops /\ job.hop + 1 > 0
      BY <1>a, <2>3, TransferAssumption DEF Job, Cleared, Sinks
    <3>3. (IF repeat THEN job.method ELSE "GET") \in {"GET", "POST"}
      BY <1>a DEF Job
    <3> QED
      BY <1>a, <2>1, <3>1, <3>2, <3>3, InsideLeg DEF Job, Steps
  <2> QED
    BY <2>2, <2>3
<1>7. ASSUME NEW status \in {"ok", "error", "odd"}, Answered(status)
      PROVE  JInv'
  <2>1. /\ job.step = "xfer" /\ UNCHANGED dest
        /\ job' = [job EXCEPT !.step = "over", !.answer = IF job.sink = "foreign" THEN "lost" ELSE status,
                       !.sink = IF job.sink = "foreign" THEN @ ELSE "whole"]
    BY <1>7 DEF Answered, Running
  <2>2. CASE job.sink = "foreign"
    <3>1. job' = [job EXCEPT !.step = "over", !.answer = "lost", !.sink = job.sink]
      BY <2>1, <2>2
    <3> QED
      BY <1>a, <2>1, <3>1, InsideLeg DEF Job, Steps, Answers
  <2>3. CASE job.sink # "foreign"
    <3>1. job' = [job EXCEPT !.step = "over", !.answer = status, !.sink = "whole"]
      BY <2>1, <2>3
    <3> QED
      BY <1>a, <2>1, <3>1, InsideLeg DEF Job, Steps, Answers, Sinks
  <2> QED
    BY <2>2, <2>3
<1>8. CASE TransportFails
  <2>1. PICK answer \in {"lost", "fail"} :
           job.step = "xfer" /\ job' = [job EXCEPT !.step = "over", !.answer = answer] /\ UNCHANGED dest
    BY <1>8 DEF TransportFails, Running
  <2> QED
    BY <1>a, <2>1, InsideLeg DEF Job, Steps, Answers
<1>b. /\ {"live", "snapshot", "failed", "local"} \subseteq Replies /\ "home" \in Starts
      /\ {"lookup", "again", "snapshot"} \subseteq Legs
  BY DEF Replies, Starts, Addresses, Legs
<1>c. job.step # "none" => (IsFile(job.op) => dest = job.was) /\ dest \in Files
  BY <1>a DEF File
<1>9. CASE EndFile
  <2>1. /\ job.step = "over" /\ job.leg \in {"live", "snapshot"} /\ IsFile(job.op)
    BY <1>9 DEF EndFile
  <2>2. PICK moved \in BOOLEAN :
          /\ dest' = Stored(moved)
          /\ \/ (job.answer = "lost" \/ (job.answer = "ok" /\ ~moved)) /\ job' = Over("local")
             \/ job.answer = "ok" /\ moved /\ job' = Over(job.leg)
             \/ job.answer # "ok" /\ job' = Over("failed")
             \/ job.answer # "ok" /\ job' = Leg(job, "lookup", "home")
             \/ job.answer # "ok" /\ \E at \in Starts : job' = Leg(job, "snapshot", at)
    BY <1>9 DEF EndFile
  <2>3. CASE job.answer = "ok" /\ moved
    <3>1. job.sink = "whole" /\ dest' = job.leg /\ job' = Over(job.leg)
      BY <1>a, <2>1, <2>2, <2>3 DEF File, Stored, Replaced
    <3> QED
      BY <1>b, <2>1, <3>1, OverOK
  <2>4. CASE ~(job.answer = "ok" /\ moved)
    <3>1. dest' = dest
      BY <2>2, <2>4 DEF Stored
    <3>2. CASE job' = Over("local") \/ job' = Over("failed")
      BY <1>b, <1>c, <2>1, <3>1, <3>2, OverOK
    <3>3. CASE job' = Leg(job, "lookup", "home") \/ \E at \in Starts : job' = Leg(job, "snapshot", at)
      BY <1>b, <2>1, <3>1, <3>3, NextLegOK
    <3> QED
      BY <2>2, <2>4, <3>2, <3>3
  <2> QED
    BY <2>3, <2>4
<1>10. CASE NoScratch
  <2>1. job.step = "check" /\ job' = Over("local") /\ UNCHANGED dest
    BY <1>10 DEF NoScratch, Running
  <2> QED
    BY <1>b, <1>c, <2>1, OverOK
<1>11. CASE EndLookup
  <2>1. /\ job.step = "over" /\ UNCHANGED dest
        /\ \/ \E at \in Starts : job' = Leg(job, "snapshot", at)
           \/ job' = Over("failed")
           \/ job' = Leg(job, "again", "home")
    BY <1>11 DEF EndLookup
  <2>2. CASE job' = Over("failed")
    BY <1>b, <1>c, <2>1, <2>2, OverOK
  <2>3. CASE job' = Leg(job, "again", "home") \/ \E at \in Starts : job' = Leg(job, "snapshot", at)
    BY <1>b, <2>1, <2>3, NextLegOK
  <2> QED
    BY <2>1, <2>2, <2>3
<1>12. CASE EndApi
  <2>1. /\ job.step = "over" /\ IsApi(job.op) /\ UNCHANGED dest
        /\ job' = Over("live") \/ job' = Over("failed")
    BY <1>12 DEF EndApi
  <2>2. ~IsFile(job.op)
    BY <2>1 DEF IsApi, IsFile
  <2> QED
    BY <1>b, <1>c, <2>1, <2>2, OverOK
<1>13. CASE OnTop \/ FromOutside \/ UNCHANGED transferVars
  <2>1. UNCHANGED <<job, dest>>
    BY <1>13 DEF OnTop, FromOutside, transferVars
  <2> QED
    BY <1>a, <2>1 DEF JInv
<1>14. CASE BeginOther
  <2>1. job' = job \/ job' = NoJob
    BY <1>14 DEF BeginOther
  <2>2. dest' = dest /\ dest \in Files
    BY <1>14, <1>a DEF BeginOther, File
  <2> QED
    BY <1>a, <2>1, <2>2, NoJobOK DEF JInv
<1>15. ASSUME NEW op \in Ops, NEW key \in BOOLEAN, NEW at \in Starts, Begin(op, key, at)
       PROVE  JInv'
  <2> DEFINE method == IF op = "post" THEN "POST" ELSE "GET"
             j == [NoJob EXCEPT !.op = op, !.key = key, !.was = dest, !.method = method]
  <2>1. job' = Leg(j, "live", at) /\ dest' = dest /\ dest \in Files
    BY <1>15, <1>a DEF Begin, File
  <2>2. NoJob \in Job /\ NoJob.reply = "none" /\ NoJob.step = "none"
    BY NoJobOK DEF NoJob
  <2>3. method \in {"GET", "POST"} /\ dest \in {"old", "live", "snapshot", "bad"}
    BY <2>1
  <2> HIDE DEF method
  <2>4. j \in Job /\ j.reply = "none" /\ j.step = "none" /\ j.was = dest
    BY <2>2, <2>3 DEF Job
  <2>5. File(j, dest)
    BY <2>1, <2>4 DEF File
  <2> QED
    BY <2>1, <2>4, <2>5, LegOK DEF JInv, Legs
<1> QED
  BY <1>1, <1>2, <1>3, <1>4, <1>5, <1>6, <1>7, <1>8, <1>9, <1>10, <1>11, <1>12, <1>13, <1>14, <1>15
  DEF Next, Own, Calls

\* The path and the file are in order through every run
THEOREM TransferInvariant == Spec => []JInv
<1>1. TransferInit => JInv
  BY NoJobOK DEF TransferInit, JInv
<1> QED
  BY <1>1, JInvStep, PTL DEF Spec

\* The types are right
THEOREM TransferTypes == Spec => []TypeOK
<1>1. JInv /\ BarrierTypeOK => TypeOK
  BY DEF JInv, File, TypeOK
<1> QED
  BY <1>1, TransferInvariant, TransferIsBarrier, BarrierTypes, PTL

\* A caller's key never follows a redirect to another origin, nor comes back with one,
\* however many redirects are followed
THEOREM KeyStays == Spec => []KeyStaysHome
<1>1. JInv => KeyStaysHome
  BY DEF JInv, Path, KeyStaysHome
<1> QED
  BY <1>1, TransferInvariant, PTL

\* An API's answer is the asked origin's, and its key went out once
THEOREM AnswerIsAsked == Spec => []AnsweredByAsked
<1>1. JInv => AnsweredByAsked
  BY DEF JInv, Path, AnsweredByAsked
<1> QED
  BY <1>1, TransferInvariant, PTL

\* The destination is whole, and what the call says it is
THEOREM DestIsTold == Spec => []DestIsAsTold
<1>1. JInv => DestIsAsTold
  BY DEF JInv, File, DestIsAsTold
<1> QED
  BY <1>1, TransferInvariant, PTL

-----------------------------------------------------------------------------
(* Requests.                                                               *)

\* Only Send makes a request: any other step of a transfer under way keeps the
\* requests of its leg, or begins a leg
LEMMA OnlySendAsks ==
    ASSUME JInv, Next, ~AtTop, ~Send
    PROVE  job'.trail = job.trail \/ job'.trail = <<>>
<1>1. job \in Job
  BY DEF JInv
<1>2. ASSUME NEW leg, NEW at, job' = Leg(job, leg, at) PROVE job'.trail = <<>>
  BY <1>1, <1>2 DEF Leg, Job
<1>3. ASSUME NEW reply, job' = Over(reply) PROVE job'.trail = job.trail
  BY <1>1, <1>3 DEF Over, Job
<1>4. CASE CheckHop
  BY <1>1, <1>4 DEF CheckHop, Policy, Job
<1>5. CASE Receive \/ Progress \/ Aborted \/ TransportFails
  BY <1>1, <1>5 DEF Receive, Progress, Aborted, TransportFails, Job
<1>6. ASSUME NEW to \in Addresses, NEW repeat \in BOOLEAN, Redirect(to, repeat)
      PROVE  job'.trail = job.trail
  <2>1. CASE job.hop = MaxHops
    BY <1>1, <1>6, <2>1 DEF Redirect, Job
  <2>2. CASE job.hop # MaxHops
    <3>1. PICK sink \in Cleared(job.sink) :
            job' = [job EXCEPT !.step = "check", !.at = to, !.hop = @ + 1, !.sink = sink,
                        !.method = IF repeat THEN @ ELSE "GET"]
      BY <1>6, <2>2 DEF Redirect
    <3> QED
      BY <1>1, <3>1 DEF Job
  <2> QED
    BY <2>1, <2>2
<1>7. ASSUME NEW status \in {"ok", "error", "odd"}, Answered(status)
      PROVE  job'.trail = job.trail
  BY <1>1, <1>7 DEF Answered, Job
<1>8. CASE EndFile
  BY <1>2, <1>3, <1>8 DEF EndFile
<1>9. CASE NoScratch \/ EndApi
  BY <1>3, <1>9 DEF NoScratch, EndApi
<1>10. CASE EndLookup
  BY <1>2, <1>3, <1>10 DEF EndLookup
<1>11. CASE OnTop \/ FromOutside \/ BeginOther
  BY <1>11 DEF OnTop, FromOutside, BeginOther
<1>12. ASSUME NEW op \in Ops, NEW key \in BOOLEAN, NEW at \in Starts
       PROVE  ~Begin(op, key, at)
  BY DEF Begin
<1> QED
  BY <1>4, <1>5, <1>6, <1>7, <1>8, <1>9, <1>10, <1>11, <1>12 DEF Next, Own, Calls

\* A call that has taken a Ctrl-C or a time limit makes no further request, whatever
\* leg of the transfer it was taken in and whatever runs on top of it
THEOREM NothingSentOnceTaken == Spec => NoRequestOnceTaken
<1>1. IInv /\ JInv /\ [Next]_transferVars =>
        [~AtTop /\ frames[1].owes => Len(job'.trail) <= Len(job.trail)]_transferVars
  <2> SUFFICES ASSUME IInv, JInv, Next, ~AtTop, frames[1].owes
               PROVE  Len(job'.trail) <= Len(job.trail)
    OBVIOUS
  <2>1. job.trail \in Seq(Request)
    BY DEF JInv, Job
  <2>2. Len(job.trail) \in Nat /\ 0 <= Len(job.trail) /\ Len(<<>>) = 0
    BY <2>1
  <2>3. ~Send
    <3>1. Send => Len(frames) = 1 /\ ~frames[1].stopped
      BY DEF Send, Running, Top
    <3> QED
      BY <3>1 DEF IInv, StackOK
  <2> QED
    BY <2>2, <2>3, OnlySendAsks
<1> QED
  BY <1>1, TransferIsBarrier, BarrierInvariant, TransferInvariant, PTL DEF Spec, NoRequestOnceTaken
=============================================================================
