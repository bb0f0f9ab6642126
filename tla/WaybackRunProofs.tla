-------------------------- MODULE WaybackRunProofs --------------------------
(***************************************************************************)
(* Proofs about WaybackRun, for any URLs and limits: no URL of a run is    *)
(* lost or counted twice, a capture that was started is polled by the next *)
(* run and not asked for again, what is finished is not sent again, and a  *)
(* run sends no more requests than its limits allow.                       *)
(***************************************************************************)
EXTENDS WaybackRun, FiniteSetTheorems, TLAPS

\* The variables that the proofs need have their types.
Shape ==
    /\ file \in [Urls -> Lines]
    /\ inflight \in [Urls -> Landed .. Patience]
    /\ urls \subseteq Urls
    /\ pc \in Running \cup {"off", "exit"}
    /\ pc = "off" => Flying = {}

\* The URL that is dealt with is one of the run; that of a capture that has ended
\* has its result already.
HandInv ==
    /\ pc \in {"sent", "lookup", "error", "clear"} => hand \in Urls
    /\ pc = "clear" => hand \in Flying /\ hand \in results

\* What was started is in flight in the run, or the file says so.
KnownInv ==
    \A u \in known :
        /\ u \in Urls
        /\ pc = "off" => file[u] = "submitted"
        /\ pc = "exit" => u \in Flying \/ file[u] = "submitted"
        /\ pc \in Running => u \in Aloft \/ (u \notin urls /\ file[u] = "submitted")

IInv == Shape /\ HandInv /\ EachUrlInOnePlace /\ KnownInv

USE ConstantsAssumption

-----------------------------------------------------------------------------
LEMMA InvInit == Init => IInv
BY DEF Init, IInv, Shape, HandInv, EachUrlInOnePlace, KnownInv, Flying, Landed, Lines,
   Running

\* When no run goes on, only what the file says counts.
LEMMA OverInv ==
    ASSUME IInv, NoRun, file' = file,
           \A u \in known' : u \in Urls /\ file[u] = "submitted"
    PROVE  IInv'
BY DEF IInv, NoRun, Shape, HandInv, EachUrlInOnePlace, KnownInv, Flying, Landed,
   Running

LEMMA StartInv == ASSUME IInv, NEW U \in SUBSET Urls, Start(U) PROVE IInv'
<1> DEFINE taken == Kept(U) \cup Resumed(U)
<1>1. PICK first \in SUBSET (U \ taken) :
        queue' = first /\ rest' = U \ (taken \cup first)
  BY DEF Start
<1>2. /\ pc = "off" /\ pc' = "round" /\ urls' = U /\ results' = Kept(U)
      /\ inflight' = [u \in Urls |-> IF u \in Resumed(U) THEN 0 ELSE Landed]
      /\ file' = file /\ known' = known /\ hand' = hand
  BY DEF Start, history
<1>3. Flying' = Resumed(U) /\ Aloft' = Resumed(U) /\ Dealt' = {}
  BY <1>2 DEF Flying, Aloft, Dealt, Resumed, Landed
<1>4. Kept(U) \cap Resumed(U) = {} /\ taken \subseteq U
  BY DEF Kept, Resumed, Finished
<1>5. EachUrlInOnePlace'
  BY <1>1, <1>2, <1>3, <1>4 DEF EachUrlInOnePlace
<1>6. Shape' /\ HandInv'
  BY <1>2 DEF IInv, Shape, HandInv, Running, Landed
<1>7. KnownInv'
  BY <1>2, <1>3 DEF IInv, KnownInv, Resumed, Running
<1> QED BY <1>5, <1>6, <1>7 DEF IInv

LEMMA BeginInv == ASSUME IInv, Begin PROVE IInv'
<1>1. CASE \E U \in SUBSET Urls : Start(U)
  BY <1>1, StartInv
<1>2. CASE \E incgone, today \in BOOLEAN : Retry(incgone, today)
  BY <1>2, StartInv DEF Retry
<1>3. ASSUME NEW u \in Urls, RetryFinds(u) PROVE IInv'
  <2>1. /\ pc = "off" /\ file[u] # "submitted" /\ file' = [file EXCEPT ![u] = "existing"]
        /\ UNCHANGED <<pc, hand, places, known>>
    BY <1>3 DEF RetryFinds, Failures
  <2>2. Shape' /\ HandInv' /\ EachUrlInOnePlace'
    BY <2>1 DEF IInv, Shape, HandInv, EachUrlInOnePlace, places, Flying, Lines, Finished,
       Running
  <2>3. KnownInv'
    BY <2>1 DEF IInv, Shape, KnownInv, Running
  <2> QED BY <2>2, <2>3 DEF IInv
<1> QED BY <1>1, <1>2, <1>3 DEF Begin

-----------------------------------------------------------------------------
(* The steps of a run.                                                     *)

LEMMA PostInv == ASSUME IInv, NEW u \in Urls, Post(u) PROVE IInv'
BY DEF IInv, Shape, HandInv, EachUrlInOnePlace, KnownInv, Post, Flying, Aloft, Dealt,
   Running

\* A request whose answer leaves the URL in the queue or with a result
LEMMA AnswerInv ==
    ASSUME IInv, Answered, UNCHANGED <<urls, rest, inflight, known>>,
           \/ queue' = queue \cup {hand} /\ UNCHANGED <<file, results>>
           \/ /\ queue' = queue
              /\ \E line \in Lines : Finish(hand, line)
    PROVE  IInv'
<1> USE DEF IInv
<1>1. /\ pc = "sent" /\ pc' = "round" /\ hand \in Urls
      /\ Flying' = Flying /\ Aloft = Flying /\ Aloft' = Flying
      /\ Dealt = {hand} /\ Dealt' = {}
  BY DEF Answered, HandInv, Flying, Aloft, Dealt
<1>2. hand \in urls /\ hand \notin Aloft
  BY <1>1 DEF EachUrlInOnePlace, Running
<1>3. EachUrlInOnePlace'
  BY <1>1 DEF EachUrlInOnePlace, Running, Finish
<1>4. Shape' /\ HandInv'
  BY <1>1 DEF Shape, HandInv, Finish, Running
<1>5. KnownInv'
  <2>1. \A u \in Urls \ {hand} : file'[u] = file[u]
    BY DEF Finish, Shape
  <2> QED BY <1>1, <1>2, <2>1 DEF KnownInv, Running
<1> QED BY <1>3, <1>4, <1>5

LEMMA PostStartsInv == ASSUME IInv, PostStarts PROVE IInv'
<1> USE DEF IInv
<1>1. /\ pc = "sent" /\ pc' = "round" /\ hand \in Urls
      /\ Dealt = {hand} /\ Dealt' = {} /\ known' = known \cup {hand}
      /\ UNCHANGED <<file, urls, queue, rest, results>>
  BY DEF PostStarts, Answered, HandInv, Dealt
<1>2. inflight' = [inflight EXCEPT ![hand] = 0]
  BY DEF PostStarts
<1>3. Flying' = Flying \cup {hand} /\ Aloft = Flying /\ Aloft' = Flying'
  BY <1>1, <1>2 DEF Shape, Flying, Aloft, Landed
<1>4. EachUrlInOnePlace'
  BY <1>1, <1>3 DEF EachUrlInOnePlace, Running
<1>5. Shape' /\ HandInv'
  BY <1>1, <1>2 DEF Shape, HandInv, Running, Landed
<1>6. KnownInv'
  BY <1>1, <1>3 DEF KnownInv, Running
<1> QED BY <1>4, <1>5, <1>6

\* The answers to a request
LEMMA AnswersInv ==
    ASSUME IInv, \/ PostStarts \/ PostCapped \/ PostThrottled \/ PostFails
                 \/ PostFinds \/ PostRefused \/ PostDaily
    PROVE  IInv'
<1>1. CASE PostStarts
  BY <1>1, PostStartsInv
<1>2. CASE PostCapped
  BY <1>2, AnswerInv DEF PostCapped, history
<1>3. CASE PostThrottled
  BY <1>3, AnswerInv DEF PostThrottled, SlowDown, Requeue, history
<1>4. CASE PostFails
  BY <1>4, AnswerInv DEF PostFails, Requeue, Lines, Failures
<1>5. CASE PostFinds \/ PostRefused
  BY <1>5, AnswerInv DEF PostFinds, PostRefused, Lines, Failures, Finished
<1>6. CASE PostDaily
  BY <1>6 DEF PostDaily, IInv, Shape, HandInv, EachUrlInOnePlace, KnownInv, places,
     history, Flying, Aloft, Dealt, Running
<1> QED BY <1>1, <1>2, <1>3, <1>4, <1>5, <1>6

\* A capture that has ended: its line is written, it is still among those in flight
LEMMA EndsInv ==
    ASSUME IInv, NEW u \in Urls, NEW line \in Lines, Ends(u, line)
    PROVE  IInv'
<1> USE DEF IInv
<1>1. /\ pc = "round" /\ pc' = "clear" /\ hand' = u /\ u \in Flying
      /\ results' = results \cup {u} /\ file' = [file EXCEPT ![u] = line]
      /\ known' = known \ {u} /\ UNCHANGED <<urls, queue, rest, inflight>>
  BY DEF Ends, Checked, Finish
<1>2. /\ Aloft = Flying /\ Aloft' = Flying \ {u} /\ Flying' = Flying
      /\ Dealt = {} /\ Dealt' = {}
  BY <1>1 DEF Aloft, Flying, Dealt
<1>3. EachUrlInOnePlace'
  BY <1>1, <1>2 DEF EachUrlInOnePlace, Running
<1>4. Shape' /\ HandInv'
  BY <1>1, <1>2 DEF Shape, HandInv, Running
<1>5. KnownInv'
  BY <1>1, <1>2 DEF Shape, KnownInv, Running
<1> QED BY <1>3, <1>4, <1>5

LEMMA ClearInv == ASSUME IInv, Clear PROVE IInv'
<1> USE DEF IInv
<1>1. /\ pc = "clear" /\ pc' = "round" /\ hand \in Urls /\ hand \in Flying
      /\ inflight' = [inflight EXCEPT ![hand] = Landed]
      /\ UNCHANGED <<file, urls, queue, rest, results, known>>
  BY DEF Clear, HandInv, history
<1>2. Flying' = Flying \ {hand} /\ Aloft' = Aloft /\ Dealt = {} /\ Dealt' = {}
  BY <1>1 DEF Shape, Flying, Aloft, Dealt
<1>3. EachUrlInOnePlace'
  BY <1>1, <1>2 DEF EachUrlInOnePlace, Running
<1>4. Shape' /\ HandInv'
  BY <1>1 DEF Shape, HandInv, Running, Landed
<1>5. KnownInv'
  BY <1>1, <1>2 DEF KnownInv, Running
<1> QED BY <1>3, <1>4, <1>5

\* A capture that ended with an error is out of those in flight
LEMMA LandsInv ==
    ASSUME IInv, NEW u \in Urls, Lands(u),
           \/ /\ queue' = queue \cup {u} /\ UNCHANGED <<pc, hand>>
           \/ /\ queue' = queue /\ pc' \in {"lookup", "error"} /\ hand' = u
    PROVE  IInv'
<1> USE DEF IInv
<1>1. /\ pc = "round" /\ u \in Flying /\ known' = known \ {u}
      /\ inflight' = [inflight EXCEPT ![u] = Landed]
      /\ UNCHANGED <<file, urls, rest, results>>
  BY DEF Lands, Checked
<1>2. /\ Flying' = Flying \ {u} /\ Aloft = Flying /\ Aloft' = Flying' /\ Dealt = {}
      /\ Dealt' = IF pc' = "round" THEN {} ELSE {u}
  BY <1>1 DEF Shape, Flying, Aloft, Dealt
<1>3. EachUrlInOnePlace'
  BY <1>1, <1>2 DEF EachUrlInOnePlace, Running
<1>4. Shape' /\ HandInv'
  BY <1>1 DEF Shape, HandInv, Running, Landed
<1>5. KnownInv'
  BY <1>1, <1>2 DEF KnownInv, Running
<1> QED BY <1>3, <1>4, <1>5

\* The status checks
LEMMA PollInv ==
    ASSUME IInv, NEW u \in Urls,
           \/ PollPending(u) \/ PollSaved(u) \/ PollGivenUp(u)
           \/ PollThrottled(u) \/ PollDaily(u) \/ PollError(u)
    PROVE  IInv'
<1>1. CASE PollPending(u)
  <2>1. /\ Flying' = Flying /\ inflight' \in [Urls -> Landed .. Patience]
        /\ UNCHANGED <<file, pc, hand, urls, queue, rest, results, known>>
    BY <1>1 DEF PollPending, Checked, IInv, Shape, Flying, Landed, history
  <2> QED BY <2>1 DEF IInv, Shape, HandInv, EachUrlInOnePlace, KnownInv, Aloft, Dealt
<1>2. CASE PollSaved(u) \/ PollGivenUp(u)
  BY <1>2, EndsInv DEF PollSaved, PollGivenUp, Lines, Finished, Failures
<1>3. CASE PollThrottled(u)
  BY <1>3, LandsInv DEF PollThrottled, SlowDown, Requeue
<1>4. CASE PollDaily(u) \/ PollError(u)
  BY <1>4, LandsInv DEF PollDaily, PollError
<1> QED BY <1>1, <1>2, <1>3, <1>4

LEMMA ReportInv == ASSUME IInv, Report PROVE IInv'
<1> USE DEF IInv
<1>1. /\ pc \in {"lookup", "error"} /\ pc' = "round" /\ hand \in Urls
      /\ \E line \in Lines : Finish(hand, line)
      /\ UNCHANGED <<urls, queue, rest, inflight, known>>
  BY DEF Report, HandInv, Lines, Finished, Failures
<1>2. /\ Flying' = Flying /\ Aloft = Flying /\ Aloft' = Flying
      /\ Dealt = {hand} /\ Dealt' = {}
  BY <1>1 DEF Flying, Aloft, Dealt
<1>3. hand \in urls /\ hand \notin Aloft
  BY <1>1, <1>2 DEF EachUrlInOnePlace, Running
<1>4. EachUrlInOnePlace'
  BY <1>1, <1>2 DEF EachUrlInOnePlace, Running, Finish
<1>5. Shape' /\ HandInv'
  BY <1>1 DEF Shape, HandInv, Finish, Running
<1>6. KnownInv'
  <2>1. \A u \in Urls \ {hand} : file'[u] = file[u]
    BY <1>1 DEF Finish, Shape
  <2> QED BY <1>1, <1>2, <1>3, <2>1 DEF KnownInv, Running
<1> QED BY <1>4, <1>5, <1>6

\* The end of a run
LEMMA EndInv ==
    ASSUME IInv, Return \/ Stop \/ (\E u \in Urls : ExitRecord(u)) \/ ExitDone \/ Kill
    PROVE  IInv'
<1> USE DEF IInv
<1>1. CASE Return
  <2>1. \A u \in known : u \in Urls /\ file[u] = "submitted"
    BY <1>1 DEF Return, KnownInv, Running, Aloft
  <2> QED BY <1>1, <2>1, OverInv DEF Return
<1>2. CASE ExitDone
  <2>1. \A u \in known : u \in Urls /\ file[u] = "submitted"
    BY <1>2 DEF ExitDone, KnownInv
  <2> QED BY <1>2, <2>1, OverInv DEF ExitDone
<1>3. CASE Kill
  BY <1>3, OverInv DEF Kill, KnownInv
<1>4. CASE Stop
  BY <1>4 DEF Stop, places, history, Shape, HandInv, EachUrlInOnePlace, KnownInv,
     Flying, Aloft, Running
<1>5. ASSUME NEW u \in Urls, ExitRecord(u) PROVE IInv'
  <2>1. /\ pc = "exit" /\ pc' = "exit" /\ u \in Flying
        /\ inflight' = [inflight EXCEPT ![u] = Landed]
        /\ file' = [file EXCEPT ![u] = "submitted"]
        /\ UNCHANGED <<urls, known>>
    BY <1>5 DEF ExitRecord, history
  <2>2. Flying' = Flying \ {u}
    BY <2>1 DEF Shape, Flying
  <2> QED BY <2>1, <2>2 DEF Shape, HandInv, EachUrlInOnePlace, KnownInv, Running, Lines,
       Landed
<1> QED BY <1>1, <1>2, <1>3, <1>4, <1>5

LEMMA InvNext == IInv /\ [Next]_vars => IInv'
<1> SUFFICES ASSUME IInv, [Next]_vars PROVE IInv'
  OBVIOUS
<1>1. CASE UNCHANGED vars
  BY <1>1 DEF vars, places, history, IInv, Shape, HandInv, EachUrlInOnePlace, KnownInv,
     Flying, Aloft, Dealt
<1>2. CASE Begin
  BY <1>2, BeginInv
<1>3. CASE Step
  BY <1>3, PostInv, PollInv, AnswersInv, ClearInv, ReportInv, EndInv DEF Step
<1>4. CASE Stop \/ Kill
  BY <1>4, EndInv
<1> QED BY <1>1, <1>2, <1>3, <1>4 DEF Next

-----------------------------------------------------------------------------
(* The limits of a run: tries, resubmissions, requests.                    *)

Sets ==
    /\ hand \in Urls \cup {NoUrl}
    /\ queue \subseteq Urls /\ rest \subseteq Urls /\ results \subseteq Urls
    /\ done \subseteq Urls
    /\ stopped \in BOOLEAN

Numbers == throttles \in Nat /\ requeues \in Nat /\ cap \in Nat /\ asked \in Nat

\* A URL that has used up its tries has its result, and is not tried again.
TriesInv ==
    /\ attempts \in [Urls -> 0 .. Tries]
    /\ \A u \in Urls : attempts[u] = Tries => u \in results
    /\ pc = "off" => attempts = [u \in Urls |-> 0]

\* The URLs of the run that were asked for and are not to be asked for again
Out == Cardinality(urls \ (queue \cup rest))

\* Until the run is stopped, a request was for a URL that is still out or for one
\* that was put back and counted as such.  A URL that is given up counts as put
\* back but does not stop the run: hence the second bound beside the first.
AsksInv ==
    /\ asked <= cap + Cardinality(urls)
    /\ pc \in Running /\ ~stopped => asked <= requeues + Out /\ asked <= cap + Out
    /\ pc = "off" => asked = 0 /\ requeues = 0 /\ ~stopped

LimitsInv == Sets /\ Numbers /\ TriesInv /\ AsksInv

LEMMA LimitsInit == Init => LimitsInv
<1> SUFFICES ASSUME Init PROVE LimitsInv
  OBVIOUS
<1>1. Cardinality(urls) = 0
  BY FS_EmptySet DEF Init
<1>2. ~stopped /\ stopped \in BOOLEAN
  BY DEF Init
<1>3. AsksInv /\ Numbers
  BY <1>1, <1>2 DEF Init, AsksInv, Numbers, Running
<1>4. Sets /\ TriesInv
  BY <1>2 DEF Init, Sets, TriesInv
<1> QED BY <1>3, <1>4 DEF LimitsInv

\* The counts are numbers, and no more is out than the run has
LEMMA OutIsCount ==
    ASSUME NEW U \in SUBSET Urls, NEW T
    PROVE  /\ IsFiniteSet(U) /\ Cardinality(U) \in Nat
           /\ IsFiniteSet(U \ T) /\ Cardinality(U \ T) \in Nat
           /\ Cardinality(U \ T) <= Cardinality(U)
<1>1. IsFiniteSet(U) /\ U \ T \in SUBSET U
  BY FS_Subset
<1>2. IsFiniteSet(U \ T) /\ Cardinality(U \ T) <= Cardinality(U)
  BY <1>1, FS_Subset
<1> QED BY <1>1, <1>2, FS_CardinalityType

\* A URL that leaves the queue is out, one that is put back is not
LEMMA OutMoves ==
    ASSUME NEW U \in SUBSET Urls, NEW Q, NEW R, NEW u \in U, u \notin R
    PROVE  Cardinality(U \ (Q \cup R)) =
               IF u \in Q THEN Cardinality(U \ ((Q \ {u}) \cup R)) - 1
                          ELSE Cardinality(U \ ((Q \cup {u}) \cup R)) + 1
<1> DEFINE out == U \ (Q \cup R)
<1>1. IsFiniteSet(out)
  BY OutIsCount
<1>2. CASE u \in Q
  <2>1. U \ ((Q \ {u}) \cup R) = out \cup {u} /\ u \notin out
    BY <1>2
  <2>2. Cardinality(out \cup {u}) = Cardinality(out) + 1 /\ Cardinality(out) \in Nat
    BY <1>1, <2>1, FS_AddElement, FS_CardinalityType
  <2> QED BY <1>2, <2>1, <2>2
<1>3. CASE u \notin Q
  <2>1. U \ ((Q \cup {u}) \cup R) = out \ {u} /\ u \in out
    BY <1>3
  <2>2. Cardinality(out \ {u}) = Cardinality(out) - 1 /\ Cardinality(out) \in Nat
    BY <1>1, <2>1, FS_RemoveElement, FS_CardinalityType
  <2> QED BY <1>3, <2>1, <2>2
<1> QED BY <1>2, <1>3

-----------------------------------------------------------------------------
(* Requests are counted.                                                   *)

\* What a step may do to the counts while the run goes on, or as it stops
LEMMA CountKept ==
    ASSUME IInv, LimitsInv, pc # "off", pc' # "off",
           UNCHANGED <<urls, rest, cap>>, pc \notin Running => pc' \notin Running,
           \/ UNCHANGED <<queue, requeues, stopped, asked>>
           \/ stopped' = TRUE /\ asked' = asked
           \/ queue' = queue /\ requeues' = requeues + 1 /\ UNCHANGED <<stopped, asked>>
           \/ queue' = queue /\ requeues' = 0 /\ asked' = 0
    PROVE  AsksInv'
<1>1. urls \in SUBSET Urls
  BY DEF IInv, Shape
<1>2. Cardinality(urls) \in Nat /\ Out \in Nat
  BY <1>1, OutIsCount DEF Out
<1>3. queue' = queue => Out' = Out
  BY DEF Out
<1> QED BY <1>2, <1>3 DEF LimitsInv, AsksInv, Numbers

LEMMA CountPost == ASSUME IInv, LimitsInv, NEW u \in Urls, Post(u) PROVE AsksInv'
<1>1. urls \in SUBSET Urls /\ pc = "round" /\ u \in queue /\ u \in urls /\ u \notin rest
  BY DEF Post, IInv, Shape, EachUrlInOnePlace, Running
<1>2. /\ ~stopped /\ queue' = queue \ {u} /\ asked' = asked + 1 /\ pc' = "sent"
      /\ UNCHANGED <<urls, rest, cap, requeues>>
  BY DEF Post, caps
<1>3. Out = Out' - 1
  BY <1>1, <1>2, OutMoves DEF Out
<1>4. Out' \in Nat /\ Out' <= Cardinality(urls) /\ Cardinality(urls) \in Nat
  BY <1>1, <1>2, OutIsCount DEF Out
<1>5. asked <= requeues + Out /\ asked <= cap + Out
  BY <1>1, <1>2 DEF LimitsInv, AsksInv, Running
<1>6. /\ asked' <= cap' + Cardinality(urls')
      /\ asked' <= requeues' + Out' /\ asked' <= cap' + Out'
  BY <1>2, <1>3, <1>4, <1>5 DEF LimitsInv, Numbers
<1> QED BY <1>2, <1>6 DEF AsksInv

LEMMA CountRequeue ==
    ASSUME IInv, LimitsInv, NEW u \in Urls, Requeue(u),
           u \in urls, u \notin queue, u \notin rest,
           pc \in Running, pc' \in Running, UNCHANGED <<urls, rest, cap, asked>>
    PROVE  AsksInv'
<1>1. urls \in SUBSET Urls
  BY DEF IInv, Shape
<1>2. queue' = queue \cup {u} /\ requeues' = requeues + 1
  BY DEF Requeue
<1>a. ~stopped' => ~stopped /\ ~(requeues + 1 > cap)
  BY DEF Requeue
<1>3. Out = Out' + 1
  BY <1>1, <1>2, OutMoves DEF Out
<1>4. Out' \in Nat /\ Cardinality(urls) \in Nat
  BY <1>1, <1>2, OutIsCount DEF Out
<1>5. ~stopped => asked <= requeues + Out
  BY DEF LimitsInv, AsksInv
<1>6. asked <= cap + Cardinality(urls)
  BY DEF LimitsInv, AsksInv
<1>7. asked' <= cap' + Cardinality(urls')
  BY <1>6
<1>8. ASSUME ~stopped' PROVE asked' <= requeues' + Out' /\ asked' <= cap' + Out'
  <2>1. asked <= requeues + Out /\ ~(requeues + 1 > cap)
    BY <1>5, <1>8, <1>a
  <2> QED BY <1>2, <1>3, <1>4, <2>1 DEF LimitsInv, Numbers
<1> QED BY <1>7, <1>8 DEF AsksInv, Running

LEMMA CountSlowDown ==
    ASSUME IInv, LimitsInv, NEW u \in Urls, SlowDown(u),
           u \in urls, u \notin queue, u \notin rest,
           pc \in Running, pc' \in Running, UNCHANGED <<urls, rest, asked>>
    PROVE  AsksInv'
BY CountRequeue, CountKept DEF SlowDown, Running

\* The URL that is dealt with is one of the run, neither queued nor left over
LEMMA DealtIsOut ==
    ASSUME IInv, pc \in {"sent", "lookup", "error"}
    PROVE  /\ hand \in Urls /\ hand \in urls /\ hand \notin queue /\ hand \notin rest
           /\ hand \notin results
BY DEF IInv, HandInv, EachUrlInOnePlace, Dealt, Running

LEMMA FlyingIsOut ==
    ASSUME IInv, pc = "round", NEW u \in Flying
    PROVE  u \in urls /\ u \notin queue /\ u \notin rest /\ u \notin results
BY DEF IInv, EachUrlInOnePlace, Aloft, Running

LEMMA CountStep == ASSUME IInv, LimitsInv, Step PROVE AsksInv'
<1> USE DEF places, caps, history
<1>1. ASSUME NEW u \in Urls, Post(u) PROVE AsksInv'
  BY <1>1, CountPost
<1>2. CASE PostThrottled \/ PostFails
  <2>1. /\ pc = "sent" /\ pc' = "round" /\ UNCHANGED <<urls, rest, cap, asked>>
        /\ \/ SlowDown(hand) \/ Requeue(hand)
           \/ queue' = queue /\ requeues' = requeues + 1 /\ UNCHANGED stopped
    BY <1>2 DEF PostThrottled, PostFails, Answered, SlowDown
  <2> QED BY <2>1, DealtIsOut, CountSlowDown, CountRequeue, CountKept DEF Running
<1>3. ASSUME NEW u \in Urls, PollThrottled(u) PROVE AsksInv'
  <2>1. /\ pc = "round" /\ pc' = "round" /\ u \in Flying /\ SlowDown(u)
        /\ UNCHANGED <<urls, rest, asked>>
    BY <1>3 DEF PollThrottled, Lands, Checked
  <2> QED BY <2>1, FlyingIsOut, CountSlowDown DEF Running
<1>4. CASE PostStarts \/ PostCapped \/ PostFinds \/ PostRefused \/ PostDaily \/ Clear \/ Report
  <2>1. /\ pc \in Running /\ pc' \in Running /\ UNCHANGED <<urls, rest, cap>>
        /\ \/ UNCHANGED <<queue, requeues, stopped, asked>>
           \/ stopped' = TRUE /\ asked' = asked
           \/ queue' = queue /\ requeues' = 0 /\ asked' = 0
    BY <1>4 DEF PostStarts, PostCapped, PostFinds, PostRefused, PostDaily, Clear, Report,
       Answered, Finish, Running
  <2> QED BY <2>1, CountKept DEF Running
<1>5. ASSUME NEW u \in Urls, \/ PollPending(u) \/ PollSaved(u) \/ PollGivenUp(u)
                             \/ PollDaily(u) \/ PollError(u)
      PROVE  AsksInv'
  <2>1. /\ pc \in Running /\ pc' \in Running /\ UNCHANGED <<urls, rest, cap>>
        /\ \/ UNCHANGED <<queue, requeues, stopped, asked>>
           \/ queue' = queue /\ requeues' = 0 /\ asked' = 0
    BY <1>5 DEF PollPending, PollSaved, PollGivenUp, PollDaily, PollError, Checked, Ends,
       Lands, Finish, Running
  <2> QED BY <2>1, CountKept DEF Running
<1>6. ASSUME NEW u \in Urls, ExitRecord(u) PROVE AsksInv'
  BY <1>6, CountKept DEF ExitRecord, Running
<1>7. CASE Return \/ ExitDone
  BY <1>7, FS_EmptySet DEF Return, ExitDone, NoRun, AsksInv, Running
<1> QED BY <1>1, <1>2, <1>3, <1>4, <1>5, <1>6, <1>7 DEF Step

LEMMA CountStart ==
    ASSUME IInv, LimitsInv, NEW U \in SUBSET Urls, Start(U)
    PROVE  AsksInv' /\ Numbers' /\ Sets' /\ TriesInv'
<1>1. PICK first \in SUBSET (U \ (Kept(U) \cup Resumed(U))) :
        /\ queue' = first /\ rest' = U \ (Kept(U) \cup Resumed(U) \cup first)
        /\ cap' = Larger(RequeueFloor, Cardinality(first))
  BY DEF Start
<1>2. /\ pc = "off" /\ pc' = "round" /\ urls' = U /\ results' = Kept(U)
      /\ UNCHANGED <<hand, attempts, throttles, requeues, asked, done>>
  BY DEF Start, history
<1>b. stopped' \in BOOLEAN
  BY DEF Start, LimitsInv, Sets
<1>3. Cardinality(first) \in Nat
  BY OutIsCount, FS_Subset, FS_CardinalityType
<1>4. cap' \in Nat
  BY <1>1, <1>3 DEF Larger
<1>5. Cardinality(urls') \in Nat /\ Out' \in Nat
  BY <1>2, OutIsCount DEF Out
<1>c. asked' = 0 /\ requeues' = 0
  BY <1>2 DEF LimitsInv, AsksInv
<1>d. \A c, n, m \in Nat : 0 <= c + n /\ 0 <= c + m /\ 0 <= 0 + m
  OBVIOUS
<1>e. /\ asked' <= cap' + Cardinality(urls')
      /\ asked' <= requeues' + Out' /\ asked' <= cap' + Out'
  BY <1>4, <1>5, <1>c, <1>d, Zenon
<1>6. AsksInv'
  BY <1>2, <1>e DEF AsksInv
<1>7. Sets' /\ Numbers'
  BY <1>1, <1>2, <1>b, <1>4 DEF LimitsInv, Sets, Numbers, Kept
<1>8. TriesInv'
  BY <1>2 DEF LimitsInv, TriesInv
<1> QED BY <1>6, <1>7, <1>8

-----------------------------------------------------------------------------
(* Tries are counted.                                                      *)

LEMMA NoRunLimits ==
    ASSUME IInv, LimitsInv, NoRun, done' = done
    PROVE  LimitsInv'
<1>1. AsksInv'
  BY FS_EmptySet DEF NoRun, AsksInv, Running
<1>2. Numbers' /\ TriesInv'
  BY DEF NoRun, Numbers, TriesInv
<1>3. Sets'
  BY DEF NoRun, LimitsInv, Sets
<1> QED BY <1>1, <1>2, <1>3 DEF LimitsInv

\* A step that tries no URL takes no result away
LEMMA TriesKept ==
    ASSUME LimitsInv, attempts' = attempts, results \subseteq results', pc' # "off"
    PROVE  TriesInv'
BY DEF LimitsInv, TriesInv

LEMMA TriesPostFails == ASSUME IInv, LimitsInv, PostFails PROVE TriesInv'
<1>1. pc = "sent" /\ pc' = "round" /\ attempts' = [attempts EXCEPT ![hand] = @ + 1]
  BY DEF PostFails, Answered
<1>2. hand \in Urls /\ hand \notin results
  BY <1>1, DealtIsOut
<1>3. attempts[hand] \in 0 .. Tries - 1 /\ attempts'[hand] = attempts[hand] + 1
  BY <1>1, <1>2 DEF LimitsInv, TriesInv
<1>4. results \subseteq results' /\ (attempts[hand] + 1 >= Tries => hand \in results')
  BY DEF PostFails, Finish
<1> QED BY <1>1, <1>2, <1>3, <1>4 DEF LimitsInv, TriesInv

LEMMA TriesStep ==
    ASSUME IInv, LimitsInv, Step, ~Return, ~ExitDone
    PROVE  TriesInv'
<1> USE DEF places, caps, history
<1>1. CASE PostFails
  BY <1>1, TriesPostFails
<1>2. CASE ~PostFails
  <2>1. attempts' = attempts /\ results \subseteq results' /\ pc' # "off"
    <3>1. ASSUME NEW u \in Urls,
                 \/ Post(u) \/ PollPending(u) \/ PollSaved(u) \/ PollGivenUp(u)
                 \/ PollThrottled(u) \/ PollDaily(u) \/ PollError(u) \/ ExitRecord(u)
          PROVE  attempts' = attempts /\ results \subseteq results' /\ pc' # "off"
      BY <3>1 DEF Post, PollPending, PollSaved, PollGivenUp, PollThrottled, PollDaily,
         PollError, ExitRecord, Checked, Ends, Lands, Finish, SlowDown
    <3>2. CASE \/ PostStarts \/ PostCapped \/ PostThrottled \/ PostFinds \/ PostRefused
               \/ PostDaily \/ Clear \/ Report
      BY <3>2 DEF PostStarts, PostCapped, PostThrottled, PostFinds, PostRefused,
         PostDaily, Clear, Report, Answered, Finish, SlowDown
    <3> QED BY <1>2, <3>1, <3>2 DEF Step
  <2> QED BY <2>1, TriesKept
<1> QED BY <1>1, <1>2

-----------------------------------------------------------------------------
(* The other types.                                                        *)

\* What a step may do to the sets of URLs
LEMMA SetsKept ==
    ASSUME LimitsInv, NEW u \in Urls, hand' \in {hand, u, NoUrl}, rest' = rest,
           queue' \subseteq queue \cup {u}, results' \subseteq results \cup {u},
           done' \subseteq done \cup {u}, stopped' \in BOOLEAN
    PROVE  Sets'
BY DEF LimitsInv, Sets

LEMMA NumbersKept ==
    ASSUME LimitsInv, cap' = cap, throttles' \in {0, throttles, throttles + 1},
           requeues' \in {0, requeues, requeues + 1}, asked' \in {0, asked, asked + 1}
    PROVE  Numbers'
BY DEF LimitsInv, Numbers

LEMMA StoppedIsFlag == ASSUME LimitsInv, Step, ~Return, ~ExitDone PROVE stopped' \in BOOLEAN
<1>1. stopped \in BOOLEAN
  BY DEF LimitsInv, Sets
<1>2. \/ stopped' = stopped \/ stopped' = TRUE
      \/ stopped' = (stopped \/ requeues + 1 > cap)
  BY DEF Step, Post, PollPending, PollSaved, PollGivenUp, PollThrottled, PollDaily,
     PollError, ExitRecord, PostStarts, PostCapped, PostThrottled, PostFails, PostFinds,
     PostRefused, PostDaily, Clear, Report, SlowDown, Requeue, caps
<1> QED BY <1>1, <1>2

LEMMA TypesStep ==
    ASSUME IInv, LimitsInv, Step, ~Return, ~ExitDone
    PROVE  Sets' /\ Numbers'
<1> USE DEF places, caps, history
<1>1. ASSUME NEW u \in Urls,
             \/ Post(u) \/ PollPending(u) \/ PollDaily(u) \/ PollError(u) \/ ExitRecord(u)
             \/ PollSaved(u) \/ PollGivenUp(u)
      PROVE  Sets' /\ Numbers'
  <2>1. Sets'
    BY <1>1, StoppedIsFlag, SetsKept DEF Post, PollPending, PollDaily, PollError, ExitRecord, PollSaved,
       PollGivenUp, Checked, Ends, Lands, Finish
  <2>2. Numbers'
    BY <1>1, NumbersKept DEF Post, PollPending, PollDaily, PollError, ExitRecord,
       PollSaved, PollGivenUp, Checked, Ends, Lands, Finish
  <2> QED BY <2>1, <2>2
<1>2. ASSUME NEW u \in Urls, PollThrottled(u) PROVE Sets' /\ Numbers'
  <2>1. Sets'
    BY <1>2, StoppedIsFlag, SetsKept DEF PollThrottled, Lands, SlowDown, Requeue
  <2>2. Numbers'
    BY <1>2, NumbersKept DEF PollThrottled, Lands, SlowDown, Requeue
  <2> QED BY <2>1, <2>2
<1>3. CASE \/ PostStarts \/ PostCapped \/ PostThrottled \/ PostFails \/ PostFinds
           \/ PostRefused \/ PostDaily \/ Clear \/ Report
  <2>1. hand \in Urls
    BY <1>3 DEF IInv, HandInv, PostStarts, PostCapped, PostThrottled, PostFails,
       PostFinds, PostRefused, PostDaily, Clear, Report, Answered
  <2>2. Sets'
    <3>1. /\ hand' \in {hand, NoUrl} /\ rest' = rest /\ queue' \subseteq queue \cup {hand}
          /\ results' \subseteq results \cup {hand} /\ done' \subseteq done \cup {hand}
      BY <1>3 DEF PostStarts, PostCapped, PostThrottled, PostFails, PostFinds,
         PostRefused, PostDaily, Clear, Report, Answered, SlowDown, Requeue, Finish
    <3> QED BY <2>1, <3>1, StoppedIsFlag, SetsKept
  <2>3. Numbers'
    BY <1>3, NumbersKept DEF PostStarts, PostCapped, PostThrottled, PostFails, PostFinds,
       PostRefused, PostDaily, Clear, Report, Answered, SlowDown, Requeue, Finish
  <2> QED BY <2>2, <2>3
<1> QED BY <1>1, <1>2, <1>3 DEF Step

LEMMA LimitsNext == IInv /\ LimitsInv /\ [Next]_vars => LimitsInv'
<1> SUFFICES ASSUME IInv, LimitsInv, [Next]_vars PROVE LimitsInv'
  OBVIOUS
<1>1. CASE UNCHANGED vars
  BY <1>1 DEF vars, places, caps, history, LimitsInv, Sets, Numbers, TriesInv, AsksInv, Out
<1>2. CASE Begin
  <2>1. ASSUME NEW u \in Urls, RetryFinds(u) PROVE LimitsInv'
    <3>1. /\ done' = done \cup {u} /\ UNCHANGED <<pc, hand, places, caps, asked>>
      BY <2>1 DEF RetryFinds
    <3> QED BY <3>1 DEF places, caps, LimitsInv, Sets, Numbers, TriesInv, AsksInv, Out
  <2>2. (\E incgone, today \in BOOLEAN : Retry(incgone, today)) => \E U \in SUBSET Urls : Start(U)
    BY DEF Retry
  <2> QED BY <1>2, <2>1, <2>2, CountStart DEF Begin, LimitsInv
<1>3. CASE Step /\ ~Return /\ ~ExitDone
  BY <1>3, CountStep, TriesStep, TypesStep DEF LimitsInv
<1>4. CASE Return \/ ExitDone \/ Kill
  BY <1>4, NoRunLimits DEF Return, ExitDone, Kill
<1>5. CASE Stop
  <2>1. pc' = "exit" /\ hand' = NoUrl /\ UNCHANGED <<places, caps, history>>
    BY <1>5 DEF Stop
  <2> QED BY <2>1 DEF places, caps, history, LimitsInv, Sets, Numbers, TriesInv, AsksInv,
       Out, Running
<1> QED BY <1>1, <1>2, <1>3, <1>4, <1>5 DEF Next

-----------------------------------------------------------------------------
(* What is finished.                                                       *)

\* What was once saved or found is finished in the file, and the run that goes on
\* has a result for it or is not about it.
DoneInv ==
    \A u \in done :
        /\ u \in Urls /\ file[u] \in Finished
        /\ pc \in Running => u \in results \/ u \notin urls
        /\ pc = "exit" => u \notin Flying

\* A URL is finished by a line of its own or was not finished before: no step
\* writes a line for one that is done.
LEMMA DoneKept ==
    ASSUME IInv, DoneInv, NEW u \in Urls, NEW line \in Lines,
           u \notin done, file' = [file EXCEPT ![u] = line],
           done' = IF line \in Finished THEN done \cup {u} ELSE done,
           pc \in Running, pc' \in Running, results' = results \cup {u}, urls' = urls
    PROVE  DoneInv'
BY DEF IInv, Shape, DoneInv, Running

\* What is queued, in flight or dealt with is not done
LEMMA NotDone ==
    ASSUME IInv, DoneInv, pc \in Running, NEW u \in queue \cup Aloft \cup Dealt
    PROVE  u \notin done /\ u \in urls
BY DEF IInv, EachUrlInOnePlace, DoneInv

LEMMA DoneBegin == ASSUME IInv, DoneInv, Begin PROVE DoneInv'
<1>1. ASSUME NEW U \in SUBSET Urls, Start(U) PROVE DoneInv'
  BY <1>1 DEF Start, Kept, DoneInv, Running, history
<1>2. ASSUME NEW u \in Urls, RetryFinds(u) PROVE DoneInv'
  BY <1>2 DEF RetryFinds, IInv, Shape, DoneInv, Running, Finished, places
<1> QED BY <1>1, <1>2 DEF Begin, Retry

LEMMA DoneStep == ASSUME IInv, DoneInv, Step PROVE DoneInv'
<1> USE DEF places, history
<1>1. ASSUME NEW u \in Urls, Post(u) \/ PollPending(u) \/ PollThrottled(u)
                             \/ PollDaily(u) \/ PollError(u)
      PROVE  DoneInv'
  BY <1>1 DEF Post, PollPending, PollThrottled, PollDaily, PollError, Checked, Lands,
     DoneInv, Running
<1>2. ASSUME NEW u \in Urls, PollSaved(u) \/ PollGivenUp(u) PROVE DoneInv'
  <2>1. /\ pc = "round" /\ pc' = "clear" /\ u \in Flying /\ urls' = urls
        /\ \E line \in Lines : Finish(u, line)
    BY <1>2 DEF PollSaved, PollGivenUp, Ends, Checked, Lines, Finished, Failures
  <2>2. u \notin done
    BY <2>1, NotDone DEF Aloft, Running
  <2> QED BY <2>1, <2>2, DoneKept DEF Finish, Running
<1>3. CASE PostStarts \/ PostCapped \/ PostThrottled \/ PostDaily \/ Clear
  BY <1>3 DEF PostStarts, PostCapped, PostThrottled, PostDaily, Clear, Answered, DoneInv,
     Running
<1>4. CASE PostFails \/ PostFinds \/ PostRefused \/ Report
  <2>1. /\ pc \in {"sent", "lookup", "error"} /\ pc' = "round" /\ urls' = urls
        /\ \/ \E line \in Lines : Finish(hand, line)
           \/ UNCHANGED <<file, results, done>>
    BY <1>4 DEF PostFails, PostFinds, PostRefused, Report, Answered, Lines, Finished,
       Failures
  <2>2. hand \in Urls /\ hand \notin done
    BY <2>1, DealtIsOut, NotDone DEF Dealt, Running
  <2>3. CASE \E line \in Lines : Finish(hand, line)
    BY <2>1, <2>2, <2>3, DoneKept DEF Finish, Running
  <2>4. CASE UNCHANGED <<file, results, done>>
    BY <2>1, <2>4 DEF DoneInv, Running
  <2> QED BY <2>1, <2>3, <2>4
<1>5. ASSUME NEW u \in Urls, ExitRecord(u) PROVE DoneInv'
  <2>1. /\ pc = "exit" /\ pc' = "exit" /\ u \in Flying /\ done' = done
        /\ file' = [file EXCEPT ![u] = "submitted"]
        /\ inflight' = [inflight EXCEPT ![u] = Landed]
    BY <1>5 DEF ExitRecord
  <2>2. Flying' \subseteq Flying
    BY <2>1 DEF IInv, Shape, Flying
  <2> QED BY <2>1, <2>2 DEF IInv, Shape, DoneInv, Running
<1>6. CASE Return \/ ExitDone
  BY <1>6 DEF Return, ExitDone, NoRun, DoneInv, Running
<1> QED BY <1>1, <1>2, <1>3, <1>4, <1>5, <1>6 DEF Step

LEMMA DoneNext == IInv /\ DoneInv /\ [WaitingNext]_vars => DoneInv'
<1> SUFFICES ASSUME IInv, DoneInv, [WaitingNext]_vars PROVE DoneInv'
  OBVIOUS
<1>1. CASE UNCHANGED vars
  BY <1>1 DEF vars, places, history, DoneInv, Flying
<1>2. CASE pc # "clear" /\ Stop
  <2>1. /\ pc \in Running /\ pc' = "exit" /\ Flying' = Flying /\ Aloft = Flying
        /\ UNCHANGED <<file, done>>
    BY <1>2 DEF Stop, places, history, Flying, Aloft
  <2>2. \A u \in Flying : u \notin done
    BY <2>1, NotDone
  <2> QED BY <2>1, <2>2 DEF DoneInv, Running
<1>3. CASE Kill
  BY <1>3 DEF Kill, NoRun, DoneInv, Running
<1> QED BY <1>1, <1>2, <1>3, DoneBegin, DoneStep DEF WaitingNext

-----------------------------------------------------------------------------
(* The theorems.                                                           *)

\* Only a request takes a run from "round" to "sent"
LEMMA OnlyPostSends ==
    ASSUME Next, pc = "round", pc' = "sent"
    PROVE  \E u \in Urls : Post(u)
BY DEF Next, Begin, Start, RetryFinds, Retry, Step, PollPending, PollSaved, PollGivenUp,
   PollThrottled, PollDaily, PollError, Ends, ExitRecord, PostStarts, PostCapped,
   PostThrottled, PostFails, PostFinds, PostRefused, PostDaily, Answered, Clear, Report,
   Return, ExitDone, Stop, Kill, NoRun

\* No URL of a run is lost or counted twice on its way through queue, flight and
\* result, for any URLs, limits, answers, interrupts and kills.
THEOREM UrlsStayInPlace == Spec => []EachUrlInOnePlace
<1>1. IInv => EachUrlInOnePlace
  BY DEF IInv
<1> QED BY <1>1, InvInit, InvNext, PTL DEF Spec

\* A capture whose end is not known is never asked for again: no request of any
\* run is for a URL that is in flight or that the file says was submitted.
THEOREM StartedArePolled == Spec => StartedIsPolled
<1>1. IInv /\ [Next]_vars =>
        [pc = "round" /\ pc' = "sent" => hand' \notin known]_vars
  <2> SUFFICES ASSUME IInv, Next, pc = "round", pc' = "sent" PROVE hand' \notin known
    OBVIOUS
  <2>1. PICK u \in Urls : Post(u)
    BY OnlyPostSends
  <2>2. u \in urls /\ u \notin Aloft /\ hand' = u
    BY <2>1 DEF Post, IInv, EachUrlInOnePlace, Running
  <2> QED BY <2>2 DEF IInv, KnownInv, Running
<1> QED BY <1>1, InvInit, InvNext, PTL DEF Spec, StartedIsPolled

\* Every variable has its type: no URL is tried more often than it may be, whatever
\* the answers are and wherever the run is stopped.
THEOREM RunTypes == Spec => []TypeOK
<1>1. IInv /\ LimitsInv => TypeOK
  BY DEF IInv, Shape, KnownInv, LimitsInv, Sets, Numbers, TriesInv, TypeOK
<1> QED BY <1>1, InvInit, InvNext, LimitsInit, LimitsNext, PTL DEF Spec

\* A run that gets no capture through sends at most one request for each of its
\* URLs and one for each resubmission it may make, for any limits.
THEOREM AsksAreCapped == Spec => []AsksWithinCaps
<1>1. LimitsInv => AsksWithinCaps
  BY DEF LimitsInv, AsksInv, AsksWithinCaps
<1> QED BY <1>1, InvInit, InvNext, LimitsInit, LimitsNext, PTL DEF Spec

\* No URL that was saved or found is sent again, in whichever later run, when
\* Ctrl-C does not fall between a line and the removal of its capture.
THEOREM FinishedStayFinished == WaitingSpec => FinishedIsNotSent
<1>1. Init => DoneInv
  BY DEF Init, DoneInv
<1>2. [WaitingNext]_vars => [Next]_vars
  BY DEF WaitingNext, Next
<1>3. IInv /\ DoneInv /\ [WaitingNext]_vars =>
        [pc = "round" /\ pc' = "sent" => hand' \notin done]_vars
  <2> SUFFICES ASSUME IInv, DoneInv, WaitingNext, pc = "round", pc' = "sent"
               PROVE  hand' \notin done
    OBVIOUS
  <2>1. Next
    BY DEF WaitingNext, Next
  <2>2. PICK u \in Urls : Post(u)
    BY <2>1, OnlyPostSends
  <2> QED BY <2>2, NotDone DEF Post, Running
<1> QED BY <1>1, <1>2, <1>3, InvInit, InvNext, DoneNext, PTL
     DEF WaitingSpec, FinishedIsNotSent
=============================================================================
