--------------------------- MODULE BarrierProofs ---------------------------
(***************************************************************************)
(* Proofs about Barrier: for every bound on the stack, and so for every    *)
(* way calls, event handlers, errors and interrupts can nest.              *)
(***************************************************************************)
EXTENDS Barrier, FiniteSetTheorems, SequenceTheorems, TLAPS

Barriers(stack) == {i \in 1 .. Len(stack) : stack[i].kind = "guard"}

\* Only the top frame may have been stopped, exactly a stopped frame owes, native code
\* and R code alternate, and a kernel of the C API is at the bottom
StackOK(stack) ==
    /\ stack \in Seq(Frame)
    /\ \A i \in 1 .. Len(stack) - 1 :
          ~stack[i].stopped /\ (stack[i].kind \in NativeKinds <=> stack[i + 1].kind \in RKinds)
    /\ \A i \in 1 .. Len(stack) :
          /\ stack[i].owes <=> stack[i].stopped
          /\ stack[i].stopped => stack[i].kind \in NativeKinds
          /\ stack[i].kind = "kernel" => i = 1
          /\ i = 1 => stack[i].kind \in NativeKinds

IInv ==
    /\ StackOK(frames) /\ Len(frames) <= MaxFrames
    /\ depth = Cardinality(Barriers(frames))
    /\ {flag, kept, ctrlC, limit} \subseteq BOOLEAN
    /\ ended \in [owes : BOOLEAN, how : HowEnded]
    /\ KeptIsOwed
    /\ RaisedIffTaken
    /\ flag => Barriers(frames) = {}

-----------------------------------------------------------------------------
(* Stacks.                                                                 *)

\* A number that is neither 0 nor 1
LEMMA AboveOne == \A n \in Nat : n # 0 /\ n # 1 => n > 1
OBVIOUS

\* A stack has finitely many barriers
LEMMA BarriersFinite ==
    ASSUME NEW stack \in Seq(Frame)
    PROVE  IsFiniteSet(Barriers(stack)) /\ Cardinality(Barriers(stack)) \in Nat
<1>1. IsFiniteSet(1 .. Len(stack))
  BY FS_Interval
<1>2. IsFiniteSet(Barriers(stack))
  BY <1>1, FS_Subset DEF Barriers
<1> QED
  BY <1>2, FS_CardinalityType

\* A frame is put on top: one barrier more, or none
LEMMA PushStack ==
    ASSUME NEW stack, StackOK(stack), NEW kind \in NativeKinds \cup RKinds,
           stack # <<>> => ~stack[Len(stack)].stopped,
           kind = "kernel" => stack = <<>>,
           stack = <<>> => kind \in NativeKinds,
           stack # <<>> => (stack[Len(stack)].kind \in NativeKinds <=> kind \in RKinds)
    PROVE  /\ StackOK(Append(stack, New(kind)))
           /\ Len(Append(stack, New(kind))) = Len(stack) + 1
           /\ Append(stack, New(kind))[Len(stack) + 1] = New(kind)
           /\ Cardinality(Barriers(Append(stack, New(kind)))) =
                 Cardinality(Barriers(stack)) + (IF kind = "guard" THEN 1 ELSE 0)
           /\ kind # "guard" => Barriers(Append(stack, New(kind))) = Barriers(stack)
<1> DEFINE new == Append(stack, New(kind))
<1>1. stack \in Seq(Frame) /\ New(kind) \in Frame
  BY DEF StackOK, New, Frame
<1>2. /\ new \in Seq(Frame) /\ Len(new) = Len(stack) + 1
      /\ \A i \in 1 .. Len(stack) : new[i] = stack[i]
      /\ new[Len(stack) + 1] = New(kind)
  BY <1>1
<1>3. StackOK(new)
  <2>1. ASSUME NEW i \in 1 .. Len(new) - 1
        PROVE  ~new[i].stopped /\ (new[i].kind \in NativeKinds <=> new[i + 1].kind \in RKinds)
    <3>1. CASE i = Len(stack)
      <4>1. stack # <<>> /\ i \in 1 .. Len(stack)
        BY <1>1, <1>2, <3>1
      <4> QED
        BY <1>1, <1>2, <3>1, <4>1 DEF New
    <3>2. CASE i # Len(stack)
      <4>1. i \in 1 .. Len(stack) - 1 /\ i + 1 \in 1 .. Len(stack)
        BY <1>1, <1>2, <3>2
      <4> QED
        BY <1>2, <4>1 DEF StackOK
    <3> QED
      BY <3>1, <3>2
  <2>2. ASSUME NEW i \in 1 .. Len(new)
        PROVE  /\ new[i].owes <=> new[i].stopped
               /\ new[i].stopped => new[i].kind \in NativeKinds
               /\ new[i].kind = "kernel" => i = 1
               /\ i = 1 => new[i].kind \in NativeKinds
    <3>1. CASE i \in 1 .. Len(stack)
      BY <1>2, <3>1 DEF StackOK
    <3>2. CASE i = Len(stack) + 1
      <4>1. stack = <<>> <=> Len(stack) = 0
        BY <1>1
      <4> QED
        BY <1>1, <1>2, <3>2, <4>1 DEF New
    <3> QED
      BY <1>1, <1>2, <3>1, <3>2
  <2> QED
    BY <1>2, <2>1, <2>2 DEF StackOK
<1>4. CASE kind = "guard"
  <2>1. Barriers(new) = Barriers(stack) \cup {Len(stack) + 1}
    BY <1>1, <1>2, <1>4 DEF Barriers, New
  <2>2. Len(stack) + 1 \notin Barriers(stack)
    BY <1>1 DEF Barriers
  <2>3. Cardinality(Barriers(new)) = Cardinality(Barriers(stack)) + 1
    BY <1>1, <2>1, <2>2, BarriersFinite, FS_AddElement
  <2> QED
    BY <1>2, <1>3, <1>4, <2>3
<1>5. CASE kind # "guard"
  <2>1. Barriers(new) = Barriers(stack)
    BY <1>1, <1>2, <1>5 DEF Barriers, New
  <2> QED
    BY <1>1, <1>2, <1>3, <1>5, <2>1, BarriersFinite
<1> QED
  BY <1>4, <1>5

\* The top frame goes: none of the rest has been stopped
LEMMA PopStack ==
    ASSUME NEW stack, StackOK(stack), stack # <<>>
    PROVE  /\ StackOK(Pop(stack)) /\ Len(Pop(stack)) = Len(stack) - 1
           /\ \A i \in 1 .. Len(Pop(stack)) : Pop(stack)[i] = stack[i] /\ ~stack[i].stopped
           /\ Cardinality(Barriers(Pop(stack))) =
                 Cardinality(Barriers(stack)) - (IF stack[Len(stack)].kind = "guard" THEN 1 ELSE 0)
           /\ Barriers(Pop(stack)) \subseteq Barriers(stack)
           /\ stack[Len(stack)].kind \in NativeKinds /\ Pop(stack) # <<>> =>
                 Pop(stack)[Len(stack) - 1].kind \in RKinds
<1>1. stack \in Seq(Frame) /\ Len(stack) \in Nat /\ Len(stack) > 0
  BY DEF StackOK
<1>2. /\ Pop(stack) \in Seq(Frame) /\ Len(Pop(stack)) = Len(stack) - 1
      /\ \A i \in 1 .. Len(stack) - 1 : Pop(stack)[i] = stack[i]
  <2>1. /\ 1 \in Int /\ Len(stack) - 1 \in Int
        /\ \A i \in 1 .. Len(stack) - 1 : i \in 1 .. Len(stack) /\ stack[i] \in Frame
    BY <1>1
  <2>2. /\ Pop(stack) \in Seq(Frame)
        /\ 1 <= Len(stack) - 1 => Len(Pop(stack)) = Len(stack) - 1 - 1 + 1
        /\ ~(1 <= Len(stack) - 1) => Len(Pop(stack)) = 0
        /\ \A i \in 1 .. (Len(stack) - 1 - 1 + 1) : Pop(stack)[i] = stack[1 + i - 1]
    <3>1. /\ SubSeq(stack, 1, Len(stack) - 1) \in Seq(Frame)
          /\ Len(SubSeq(stack, 1, Len(stack) - 1)) = (IF 1 <= Len(stack) - 1 THEN Len(stack) - 1 - 1 + 1 ELSE 0)
          /\ \A i \in 1 .. (Len(stack) - 1 - 1 + 1) : SubSeq(stack, 1, Len(stack) - 1)[i] = stack[1 + i - 1]
      BY <2>1, SubSeqProperties
    <3> QED
      BY <3>1, Zenon DEF Pop
  <2>3. \A i \in 1 .. Len(stack) - 1 : i \in 1 .. (Len(stack) - 1 - 1 + 1) /\ 1 + i - 1 = i
    BY <1>1
  <2> QED
    BY <1>1, <2>2, <2>3
<1>3. StackOK(Pop(stack)) /\ \A i \in 1 .. Len(Pop(stack)) : ~stack[i].stopped
  <2>1. \A i \in 1 .. Len(Pop(stack)) - 1 :
           /\ i \in 1 .. Len(stack) - 1 /\ i + 1 \in 1 .. Len(stack) - 1
           /\ Pop(stack)[i] = stack[i] /\ Pop(stack)[i + 1] = stack[i + 1]
    BY <1>1, <1>2
  <2>2. \A i \in 1 .. Len(Pop(stack)) : i \in 1 .. Len(stack) - 1 /\ i \in 1 .. Len(stack)
    BY <1>1, <1>2
  <2> QED
    BY <1>1, <1>2, <2>1, <2>2 DEF StackOK
<1>6. ASSUME stack[Len(stack)].kind \in NativeKinds, Pop(stack) # <<>>
      PROVE  Pop(stack)[Len(stack) - 1].kind \in RKinds
  <2>1. Len(stack) - 1 \in 1 .. Len(stack) - 1 /\ Len(stack) - 1 + 1 = Len(stack)
    BY <1>1, <1>2, <1>6
  <2>2. stack[Len(stack) - 1] \in Frame
    BY <1>1, <2>1
  <2> QED
    BY <1>1, <1>2, <1>6, <2>1, <2>2 DEF StackOK, Frame, NativeKinds, RKinds
<1>4. CASE stack[Len(stack)].kind = "guard"
  <2>1. Barriers(stack) = Barriers(Pop(stack)) \cup {Len(stack)}
    BY <1>1, <1>2, <1>4 DEF Barriers
  <2>2. Len(stack) \notin Barriers(Pop(stack))
    BY <1>1, <1>2 DEF Barriers
  <2>3. Cardinality(Barriers(stack)) = Cardinality(Barriers(Pop(stack))) + 1
    BY <1>2, <2>1, <2>2, BarriersFinite, FS_AddElement
  <2>4. Cardinality(Barriers(Pop(stack))) = Cardinality(Barriers(stack)) - 1
    BY <1>2, <2>3, BarriersFinite
  <2> QED
    BY <1>2, <1>3, <1>4, <1>6, <2>1, <2>4
<1>5. CASE stack[Len(stack)].kind # "guard"
  <2>1. Barriers(Pop(stack)) = Barriers(stack)
    BY <1>1, <1>2, <1>5 DEF Barriers
  <2> QED
    BY <1>1, <1>2, <1>3, <1>5, <1>6, <2>1, BarriersFinite
<1> QED
  BY <1>4, <1>5, <1>6

\* The top frame is stopped, or told that its closure failed
LEMMA MarkStack ==
    ASSUME NEW stack, StackOK(stack), stack # <<>>
    PROVE  /\ stack[Len(stack)].kind \in NativeKinds => StackOK(Stop(stack))
           /\ StackOK(Fail(stack))
           /\ Len(Stop(stack)) = Len(stack) /\ Len(Fail(stack)) = Len(stack)
           /\ Stop(stack)[Len(stack)].stopped
           /\ Fail(stack)[Len(stack)].stopped = stack[Len(stack)].stopped
           /\ Barriers(Stop(stack)) = Barriers(stack) /\ Barriers(Fail(stack)) = Barriers(stack)
<1>1. stack \in Seq(Frame) /\ Len(stack) \in Nat /\ Len(stack) > 0
  BY DEF StackOK
<1>2. stack[Len(stack)] \in Frame
  BY <1>1
<1> DEFINE stopped == [stack[Len(stack)] EXCEPT !.stopped = TRUE, !.owes = TRUE]
           failed  == [stack[Len(stack)] EXCEPT !.failed = TRUE]
<1>a. /\ stopped \in Frame /\ stopped.stopped /\ stopped.owes
      /\ stopped.kind = stack[Len(stack)].kind
  BY <1>2 DEF Frame
<1>b. /\ failed \in Frame /\ failed.kind = stack[Len(stack)].kind
      /\ failed.stopped = stack[Len(stack)].stopped /\ failed.owes = stack[Len(stack)].owes
  BY <1>2 DEF Frame
<1>3. /\ Stop(stack) \in Seq(Frame) /\ Len(Stop(stack)) = Len(stack)
      /\ \A i \in 1 .. Len(stack) - 1 : Stop(stack)[i] = stack[i]
      /\ Stop(stack)[Len(stack)] = stopped
  <2>1. Stop(stack) = [stack EXCEPT ![Len(stack)] = stopped]
    BY <1>1 DEF Stop
  <2> HIDE DEF stopped
  <2> QED
    BY <1>1, <1>a, <2>1, ExceptSeq
<1>4. /\ Fail(stack) \in Seq(Frame) /\ Len(Fail(stack)) = Len(stack)
      /\ \A i \in 1 .. Len(stack) - 1 : Fail(stack)[i] = stack[i]
      /\ Fail(stack)[Len(stack)] = failed
  <2>1. Fail(stack) = [stack EXCEPT ![Len(stack)] = failed]
    BY <1>1 DEF Fail
  <2> HIDE DEF failed
  <2> QED
    BY <1>1, <1>b, <2>1, ExceptSeq
<1> HIDE DEF stopped, failed
<1>c. stack[Len(stack)].kind \in NativeKinds \cup RKinds
  BY <1>2 DEF Frame
<1>5. /\ stack[Len(stack)].kind \in NativeKinds => StackOK(Stop(stack))
      /\ Barriers(Stop(stack)) = Barriers(stack)
      /\ Stop(stack)[Len(stack)].stopped
  <2>1. \A i \in 1 .. Len(stack) : Stop(stack)[i].kind = stack[i].kind
    BY <1>1, <1>3, <1>a
  <2>2. \A i \in 1 .. Len(stack) - 1 : i \in 1 .. Len(stack) /\ i + 1 \in 1 .. Len(stack)
    BY <1>1
  <2>3. \A i \in 1 .. Len(stack) :
           /\ Stop(stack)[i].owes <=> Stop(stack)[i].stopped
           /\ i # Len(stack) => ~Stop(stack)[i].stopped
    BY <1>1, <1>3, <1>a DEF StackOK
  <2>4. Barriers(Stop(stack)) = Barriers(stack)
    BY <1>3, <2>1 DEF Barriers
  <2>5. ASSUME stack[Len(stack)].kind \in NativeKinds
        PROVE  StackOK(Stop(stack))
    <3>1. \A i \in 1 .. Len(stack) - 1 :
             ~Stop(stack)[i].stopped /\ (Stop(stack)[i].kind \in NativeKinds <=> Stop(stack)[i + 1].kind \in RKinds)
      <4> TAKE i \in 1 .. Len(stack) - 1
      <4>1. i \in 1 .. Len(stack) /\ i + 1 \in 1 .. Len(stack) /\ i # Len(stack)
        BY <1>1
      <4>2. Stop(stack)[i].kind = stack[i].kind /\ Stop(stack)[i + 1].kind = stack[i + 1].kind
        BY <2>1, <4>1
      <4>3. stack[i].kind \in NativeKinds <=> stack[i + 1].kind \in RKinds
        BY DEF StackOK
      <4> QED
        BY <2>3, <4>1, <4>2, <4>3
    <3>2. \A i \in 1 .. Len(stack) :
             /\ Stop(stack)[i].stopped => Stop(stack)[i].kind \in NativeKinds
             /\ Stop(stack)[i].kind = "kernel" => i = 1
             /\ i = 1 => Stop(stack)[i].kind \in NativeKinds
      BY <2>1, <2>3, <2>5 DEF StackOK
    <3> QED
      BY <1>3, <2>3, <3>1, <3>2 DEF StackOK
  <2> QED
    BY <1>3, <1>a, <2>4, <2>5
<1>6. /\ StackOK(Fail(stack)) /\ Barriers(Fail(stack)) = Barriers(stack)
      /\ Fail(stack)[Len(stack)].stopped = stack[Len(stack)].stopped
  <2>1. \A i \in 1 .. Len(stack) : Fail(stack)[i].kind = stack[i].kind
    BY <1>1, <1>4, <1>b
  <2>2. \A i \in 1 .. Len(stack) - 1 : i \in 1 .. Len(stack) /\ i + 1 \in 1 .. Len(stack)
    BY <1>1
  <2>3. \A i \in 1 .. Len(stack) :
           /\ Fail(stack)[i].owes <=> Fail(stack)[i].stopped
           /\ Fail(stack)[i].stopped <=> stack[i].stopped
    BY <1>1, <1>4, <1>b DEF StackOK
  <2> QED
    BY <1>4, <1>b, <2>1, <2>2, <2>3 DEF StackOK, Barriers
<1> QED
  BY <1>3, <1>4, <1>5, <1>6

-----------------------------------------------------------------------------
(* The invariant.                                                          *)

\* A jump leaves a stack in order, with at most the barriers of the one it lands on
LEMMA JumpStack ==
    ASSUME NEW stack, StackOK(stack), Len(stack) <= MaxFrames,
           stack # <<>> => stack[Len(stack)].kind \in RKinds,
           NEW isError \in BOOLEAN, Jump(stack, isError, FALSE)
    PROVE  /\ StackOK(frames') /\ Len(frames') <= MaxFrames
           /\ Barriers(frames') = Barriers(stack)
           /\ kept' \in BOOLEAN
           /\ kept' => frames' # <<>> /\ frames'[Len(frames')].stopped
<1>1. CASE frames' = stack /\ kept' = FALSE
  BY <1>1
<1>2. CASE stack # <<>> /\ frames' = Stop(Pop(stack)) /\ kept' = isError
  <2>1. /\ stack \in Seq(Frame) /\ Len(stack) \in Nat /\ Len(stack) > 1
    BY <1>2 DEF StackOK, NativeKinds, RKinds
  <2>2. /\ StackOK(Pop(stack)) /\ Len(Pop(stack)) = Len(stack) - 1 /\ Pop(stack) # <<>>
        /\ Barriers(Pop(stack)) \subseteq Barriers(stack)
        /\ Pop(stack)[Len(stack) - 1].kind \in NativeKinds
    <3>1. /\ StackOK(Pop(stack)) /\ Len(Pop(stack)) = Len(stack) - 1
          /\ Barriers(Pop(stack)) \subseteq Barriers(stack)
          /\ \A i \in 1 .. Len(Pop(stack)) : Pop(stack)[i] = stack[i]
      BY <1>2, PopStack
    <3>2. Pop(stack) # <<>>
      BY <2>1, <3>1
    <3>3. Len(stack) - 1 \in 1 .. Len(stack) - 1 /\ Len(stack) - 1 + 1 = Len(stack)
      BY <2>1
    <3>4. stack[Len(stack) - 1].kind \in NativeKinds
      BY <1>2, <3>3 DEF StackOK
    <3> QED
      BY <3>1, <3>2, <3>3, <3>4
  <2>3. /\ StackOK(frames') /\ Len(frames') = Len(stack) - 1
        /\ frames'[Len(frames')].stopped /\ Barriers(frames') = Barriers(Pop(stack))
    BY <1>2, <2>2, MarkStack
  <2>4. Barriers(Pop(stack)) = Barriers(stack)
    <3>1. stack[Len(stack)].kind # "guard"
      BY <1>2 DEF RKinds
    <3>2. \A i \in 1 .. Len(Pop(stack)) : Pop(stack)[i] = stack[i]
      BY <1>2, PopStack
    <3> QED
      BY <2>1, <2>2, <3>1, <3>2 DEF Barriers
  <2>5. frames' # <<>>
    BY <2>1, <2>3
  <2> QED
    BY <1>2, <2>1, <2>3, <2>4, <2>5, MaxFramesAssumption
<1> QED
  BY <1>1, <1>2 DEF Jump

\* Without a frame, no barrier
LEMMA EmptyStack == StackOK(<<>>) /\ Barriers(<<>>) = {} /\ Cardinality({}) = 0
BY FS_EmptySet DEF StackOK, Barriers

\* The invariant holds at first
LEMMA IInvInit == BarrierInit => IInv
<1> SUFFICES ASSUME BarrierInit
             PROVE  IInv
  OBVIOUS
<1>1. StackOK(frames) /\ Len(frames) <= MaxFrames /\ Barriers(frames) = {} /\ depth = Cardinality(Barriers(frames))
  <2>1. frames = <<>> /\ depth = 0 /\ Len(<<>>) = 0
    BY DEF BarrierInit
  <2> QED
    BY <2>1, EmptyStack, MaxFramesAssumption
<1>2. KeptIsOwed /\ RaisedIffTaken /\ ended \in [owes : BOOLEAN, how : HowEnded]
  BY DEF BarrierInit, KeptIsOwed, RaisedIffTaken, HowEnded
<1> QED
  BY <1>1, <1>2 DEF BarrierInit, IInv

\* Every step keeps it
LEMMA IInvStep == IInv /\ [BarrierNext]_barrierVars => IInv'
<1> SUFFICES ASSUME IInv, [BarrierNext]_barrierVars
             PROVE  IInv'
  OBVIOUS
<1> USE MaxFramesAssumption
<1>a. StackOK(frames) /\ frames \in Seq(Frame) /\ Len(frames) \in Nat /\ (AtTop <=> Len(frames) = 0)
  BY DEF IInv, StackOK, AtTop
<1>b. ASSUME ~AtTop
      PROVE  /\ Top \in Frame /\ Top = frames[Len(frames)] /\ frames # <<>>
             /\ Top.owes <=> Top.stopped
             /\ Top.kind = "kernel" => Len(frames) = 1
             /\ Top.kind \in NativeKinds <=> Top.kind \notin RKinds
             /\ Top.kind \in RKinds => Len(frames) > 1 /\ ~Top.stopped
  <2>1. frames # <<>> /\ Len(frames) \in 1 .. Len(frames)
    BY <1>a, <1>b DEF AtTop
  <2>2. frames[Len(frames)] \in Frame
    BY <1>a, <2>1
  <2>3. Top = frames[Len(frames)] /\ Top.kind \in NativeKinds \cup RKinds
    BY <2>2 DEF Top, Frame
  <2>4. Top.kind \in NativeKinds <=> Top.kind \notin RKinds
    BY <2>3 DEF NativeKinds, RKinds
  <2>5. /\ Top.owes <=> Top.stopped
        /\ Top.stopped => Top.kind \in NativeKinds
        /\ Top.kind = "kernel" => Len(frames) = 1
        /\ Len(frames) = 1 => Top.kind \in NativeKinds
    BY <1>a, <2>1, <2>3 DEF StackOK
  <2>6. Top.kind \in RKinds => Len(frames) > 1 /\ ~Top.stopped
    <3> SUFFICES ASSUME Top.kind \in RKinds
                 PROVE  Len(frames) > 1 /\ ~Top.stopped
      OBVIOUS
    <3>1. ~Top.stopped
      BY <2>4, <2>5, Zenon
    <3>2. Len(frames) # 1
      BY <2>4, <2>5, Zenon
    <3>3. Len(frames) \in Nat
      BY <1>a, Zenon
    <3>4. Len(frames) # 0
      BY <1>a, <1>b, Zenon
    <3>5. Len(frames) > 1
      BY <3>2, <3>3, <3>4, AboveOne
    <3> QED
      BY <3>1, <3>5
  <2>7. Top \in Frame /\ Top = frames[Len(frames)]
    BY <2>2 DEF Top
  <2> QED
    BY <2>1, <2>4, <2>5, <2>6, <2>7, Zenon
<1>c. /\ kept => ~AtTop /\ Top.stopped
      /\ Len(frames) <= MaxFrames /\ depth = Cardinality(Barriers(frames)) /\ depth \in Nat
      /\ flag \in BOOLEAN /\ kept \in BOOLEAN /\ ctrlC \in BOOLEAN /\ limit \in BOOLEAN
      /\ ended \in [owes : BOOLEAN, how : HowEnded] /\ RaisedIffTaken
      /\ flag => Barriers(frames) = {}
  BY <1>a, BarriersFinite DEF IInv, KeptIsOwed
<1>d. ~AtTop => /\ StackOK(Below) /\ Len(Below) = Len(frames) - 1
                /\ Below # <<>> => ~Below[Len(Below)].stopped
                /\ Barriers(Below) \subseteq Barriers(frames)
                /\ Cardinality(Barriers(Below)) =
                     Cardinality(Barriers(frames)) - (IF Top.kind = "guard" THEN 1 ELSE 0)
                /\ Top.kind \in NativeKinds /\ Below # <<>> => Below[Len(Below)].kind \in RKinds
                /\ Below = <<>> <=> Len(frames) = 1
  <2> SUFFICES ASSUME ~AtTop
               PROVE  /\ StackOK(Below) /\ Len(Below) = Len(frames) - 1
                      /\ Below # <<>> => ~Below[Len(Below)].stopped
                      /\ Barriers(Below) \subseteq Barriers(frames)
                      /\ Cardinality(Barriers(Below)) =
                           Cardinality(Barriers(frames)) - (IF Top.kind = "guard" THEN 1 ELSE 0)
                      /\ Top.kind \in NativeKinds /\ Below # <<>> => Below[Len(Below)].kind \in RKinds
                      /\ Below = <<>> <=> Len(frames) = 1
    OBVIOUS
  <2>1. /\ StackOK(Below) /\ Len(Below) = Len(frames) - 1
        /\ \A i \in 1 .. Len(Below) : Below[i] = frames[i] /\ ~frames[i].stopped
        /\ Cardinality(Barriers(Below)) =
             Cardinality(Barriers(frames)) - (IF Top.kind = "guard" THEN 1 ELSE 0)
        /\ Barriers(Below) \subseteq Barriers(frames)
        /\ Top.kind \in NativeKinds /\ Below # <<>> => Below[Len(frames) - 1].kind \in RKinds
    BY <1>a, <1>b, PopStack DEF Below
  <2>2. Below \in Seq(Frame) /\ (Below = <<>> <=> Len(Below) = 0)
    BY <2>1 DEF StackOK
  <2> QED
    BY <1>a, <2>1, <2>2 DEF AtTop
<1>q. ASSUME StackOK(frames'), Len(frames') <= MaxFrames, depth' = Cardinality(Barriers(frames')),
             flag' \in BOOLEAN, kept' \in BOOLEAN, ctrlC' \in BOOLEAN, limit' \in BOOLEAN,
             ended' \in [owes : BOOLEAN, how : HowEnded], RaisedIffTaken',
             kept' => frames' # <<>> /\ frames'[Len(frames')].stopped,
             flag' => Barriers(frames') = {}
      PROVE  IInv'
  BY <1>q DEF IInv, KeptIsOwed, AtTop, Top
<1>r. ASSUME UNCHANGED ended
      PROVE  ended' \in [owes : BOOLEAN, how : HowEnded] /\ RaisedIffTaken'
  BY <1>c, <1>r DEF RaisedIffTaken
<1>1. CASE Enter
  <2>1. /\ ~(On(NativeKinds \cup {"closure"})) /\ Len(frames) < MaxFrames
        /\ frames' = Append(frames, New("guard")) /\ depth' = depth + 1 /\ flag' = FALSE
        /\ UNCHANGED <<kept, ctrlC, limit, ended>>
    BY <1>1 DEF Enter, MayEnter
  <2>2. ~AtTop => Top.kind = "event"
    BY <1>b, <2>1 DEF On, NativeKinds, RKinds
  <2>3. ~kept
    BY <1>b, <1>c, <2>2 DEF RKinds
  <2>4. /\ frames # <<>> => ~frames[Len(frames)].stopped
        /\ frames # <<>> => (frames[Len(frames)].kind \in NativeKinds <=> "guard" \in RKinds)
    BY <1>b, <2>2 DEF AtTop, RKinds, NativeKinds
  <2>5. "guard" \in NativeKinds /\ "guard" # "kernel"
    BY DEF NativeKinds
  <2>6. /\ StackOK(frames') /\ Len(frames') = Len(frames) + 1
        /\ Cardinality(Barriers(frames')) = Cardinality(Barriers(frames)) + 1
    BY <1>a, <2>1, <2>4, <2>5, PushStack
  <2> QED
    <3>1. depth' = Cardinality(Barriers(frames')) /\ Len(frames') <= MaxFrames
      BY <1>a, <1>c, <2>1, <2>6
    <3>2. kept' = FALSE /\ flag' = FALSE
      BY <1>c, <2>1, <2>3
    <3> QED
      BY <1>c, <1>q, <1>r, <2>1, <2>6, <3>1, <3>2
<1>2. CASE EnterKernel
  <2>1. /\ AtTop /\ frames = <<>> /\ MaxFrames > 0 /\ frames' = Append(frames, New("kernel"))
        /\ UNCHANGED <<depth, flag, kept, ctrlC, limit, ended>>
    <3>1. frames' = <<New("kernel")>> /\ frames = <<>>
      BY <1>2 DEF EnterKernel, AtTop
    <3>2. frames' = Append(frames, New("kernel"))
      BY <3>1
    <3> QED
      BY <1>2, <3>1, <3>2 DEF EnterKernel
  <2>2. "kernel" \in NativeKinds /\ "kernel" # "guard"
    BY DEF NativeKinds
  <2>4. StackOK(frames') /\ Len(frames') = Len(frames) + 1 /\ Barriers(frames') = Barriers(frames)
    BY <1>a, <2>1, <2>2, PushStack
  <2> QED
    BY <1>a, <1>c, <1>q, <1>r, <2>1, <2>4
<1>3. ASSUME NEW kind \in RKinds, RunR(kind)
      PROVE  IInv'
  <2>1. /\ ~AtTop /\ Top.kind \in NativeKinds /\ ~Top.stopped /\ Len(frames) < MaxFrames
        /\ frames' = Append(frames, New(kind)) /\ UNCHANGED <<depth, flag, kept, ctrlC, limit, ended>>
    BY <1>3 DEF RunR, On
  <2>2. kind # "guard" /\ kind # "kernel"
    BY DEF RKinds
  <2>3. StackOK(frames') /\ Len(frames') = Len(frames) + 1 /\ Barriers(frames') = Barriers(frames)
    BY <1>a, <1>b, <2>1, <2>2, PushStack
  <2> QED
    BY <1>a, <1>c, <1>q, <1>r, <2>1, <2>3
<1>e. ASSUME ~AtTop, Top.kind \in RKinds
      PROVE  /\ ~kept /\ Barriers(Below) = Barriers(frames) /\ Below # <<>>
             /\ StackOK(Fail(Below)) /\ Len(Fail(Below)) = Len(Below)
             /\ Barriers(Fail(Below)) = Barriers(frames)
  <2>1. ~kept /\ Below # <<>> /\ Len(frames) > 1
    BY <1>a, <1>b, <1>c, <1>d, <1>e
  <2>2. /\ \A i \in 1 .. Len(Below) : Below[i] = frames[i]
        /\ Len(Below) = Len(frames) - 1 /\ frames[Len(frames)].kind # "guard"
    BY <1>a, <1>b, <1>e, PopStack DEF Below, RKinds
  <2>3. Barriers(Below) = Barriers(frames)
    BY <1>a, <2>2 DEF Barriers
  <2> QED
    BY <1>d, <1>e, <2>1, <2>3, MarkStack
<1>4. CASE ReturnR
  <2>1. /\ ~AtTop /\ Top.kind \in RKinds /\ frames' = Below
        /\ UNCHANGED <<depth, flag, kept, ctrlC, limit, ended>>
    BY <1>4 DEF ReturnR, On
  <2> QED
    BY <1>a, <1>c, <1>d, <1>e, <1>q, <1>r, <2>1
<1>5. CASE FailClosure
  <2>1. /\ ~AtTop /\ Top.kind \in RKinds /\ frames' = Fail(Below)
        /\ UNCHANGED <<depth, flag, kept, ctrlC, limit, ended>>
    BY <1>5 DEF FailClosure, On, RKinds
  <2> QED
    BY <1>a, <1>c, <1>d, <1>e, <1>q, <1>r, <2>1
<1>6. CASE FailEvent
  <2>1. /\ ~AtTop /\ Top.kind \in RKinds /\ Jump(frames, TRUE, FALSE)
        /\ UNCHANGED <<depth, flag, ctrlC, limit, ended>>
    BY <1>6, <1>c, <1>e DEF FailEvent, On, RKinds
  <2>2. /\ StackOK(frames') /\ Len(frames') <= MaxFrames /\ Barriers(frames') = Barriers(frames)
        /\ kept' \in BOOLEAN /\ (kept' => frames' # <<>> /\ frames'[Len(frames')].stopped)
    BY <1>a, <1>b, <1>c, <2>1, JumpStack
  <2> QED
    BY <1>c, <1>q, <1>r, <2>1, <2>2
<1>7. CASE Poll
  <2>1. /\ ~AtTop /\ Top.kind \in NativeKinds /\ frames' = Stop(frames)
        /\ kept' \in BOOLEAN /\ limit' \in BOOLEAN /\ ctrlC' \in BOOLEAN
        /\ UNCHANGED <<depth, flag, ended>>
    BY <1>7 DEF Poll, On
  <2>2. /\ StackOK(frames') /\ Len(frames') = Len(frames) /\ Barriers(frames') = Barriers(frames)
        /\ frames' # <<>> /\ frames'[Len(frames')].stopped
    <3>1. /\ StackOK(frames') /\ Len(frames') = Len(frames) /\ Barriers(frames') = Barriers(frames)
          /\ frames'[Len(frames)].stopped
      BY <1>a, <1>b, <2>1, MarkStack
    <3>2. Len(frames) # 0
      BY <1>a, <2>1
    <3> QED
      BY <3>1, <3>2
  <2> QED
    BY <1>c, <1>q, <1>r, <2>1, <2>2
<1>8. CASE RTakes
  <2>1. /\ ~AtTop => Top.kind \in RKinds
        /\ limit' \in BOOLEAN /\ ctrlC' \in BOOLEAN /\ Jump(frames, limit, kept)
        /\ UNCHANGED <<depth, flag, ended>>
    BY <1>8, <1>b DEF RTakes, On, NativeKinds, RKinds
  <2>2. kept = FALSE
    BY <1>b, <1>c, <2>1
  <2>3. /\ StackOK(frames') /\ Len(frames') <= MaxFrames /\ Barriers(frames') = Barriers(frames)
        /\ kept' \in BOOLEAN /\ (kept' => frames' # <<>> /\ frames'[Len(frames')].stopped)
    BY <1>a, <1>b, <1>c, <2>1, <2>2, JumpStack DEF AtTop
  <2> QED
    BY <1>c, <1>q, <1>r, <2>1, <2>3
\* How a call ends: its frame goes, or a jump also ends the poll of the frame that
\* ran the event handler
<1>f. ASSUME ~AtTop, Top.kind \in NativeKinds, flag' \in BOOLEAN, UNCHANGED <<ctrlC, limit>>,
             NEW how \in HowEnded, Ends(how), Top.owes <=> how \in {"interrupt", "kept"},
             (frames' = Below /\ kept' = FALSE) \/ (\E isError \in BOOLEAN : Jump(Below, isError, FALSE)),
             depth' = Cardinality(Barriers(Below)), flag' => Barriers(Below) = {}
      PROVE  IInv'
  <2>1. /\ StackOK(frames') /\ Len(frames') <= MaxFrames /\ Barriers(frames') = Barriers(Below)
        /\ kept' \in BOOLEAN /\ (kept' => frames' # <<>> /\ frames'[Len(frames')].stopped)
    <3>1. StackOK(Below) /\ Len(Below) <= MaxFrames /\ (Below # <<>> => Below[Len(Below)].kind \in RKinds)
      BY <1>a, <1>c, <1>d, <1>f
    <3>2. CASE frames' = Below /\ kept' = FALSE
      BY <3>1, <3>2
    <3>3. ASSUME NEW isError \in BOOLEAN, Jump(Below, isError, FALSE)
          PROVE  /\ StackOK(frames') /\ Len(frames') <= MaxFrames /\ Barriers(frames') = Barriers(Below)
                 /\ kept' \in BOOLEAN /\ (kept' => frames' # <<>> /\ frames'[Len(frames')].stopped)
      BY <3>1, <3>3, JumpStack
    <3> QED
      BY <1>f, <3>2, <3>3
  <2>2. ended' \in [owes : BOOLEAN, how : HowEnded] /\ RaisedIffTaken'
    <3>1. Top.owes \in BOOLEAN
      BY <1>b, <1>f DEF Frame
    <3> QED
      BY <1>f, <3>1 DEF Ends, RaisedIffTaken
  <2> QED
    BY <1>c, <1>f, <1>q, <2>1, <2>2
<1>g. ASSUME ~AtTop, Top.kind = "guard"
      PROVE  /\ ~flag /\ depth - 1 = Cardinality(Barriers(Below)) /\ Top.kind \in NativeKinds
  <2>1. Len(frames) \in Barriers(frames)
    BY <1>a, <1>b, <1>g DEF Barriers
  <2> QED
    BY <1>c, <1>d, <1>g, <2>1 DEF NativeKinds
<1>h. ASSUME ~AtTop, Top.kind = "kernel"
      PROVE  /\ depth = 0 /\ Below = <<>> /\ Barriers(Below) = {} /\ Cardinality(Barriers(Below)) = 0
             /\ Top.kind \in NativeKinds
  <2>1. Len(frames) = 1 /\ Below = <<>>
    BY <1>b, <1>d, <1>h
  <2>2. Barriers(Below) = {} /\ Cardinality(Barriers(Below)) = 0
    BY <2>1, EmptyStack
  <2>3. Cardinality(Barriers(Below)) = Cardinality(Barriers(frames))
    BY <1>c, <1>d, <1>h
  <2> QED
    BY <1>c, <1>h, <2>1, <2>2, <2>3 DEF NativeKinds
<1>i. /\ "value" \in HowEnded /\ "error" \in HowEnded
      /\ (IF kept THEN "kept" ELSE "interrupt") \in HowEnded \cap {"interrupt", "kept"}
      /\ "value" \notin {"interrupt", "kept"} /\ "error" \notin {"interrupt", "kept"}
  BY DEF HowEnded
<1>9. CASE Return
  <2>1. ~AtTop /\ Top.kind = "guard" /\ Leave
    BY <1>9 DEF Return, On
  <2>2. /\ flag' = FALSE /\ UNCHANGED <<ctrlC, limit>> /\ depth' = Cardinality(Barriers(Below))
        /\ Top.kind \in NativeKinds /\ ~flag
    BY <1>g, <2>1 DEF Leave
  <2>3. CASE Top.stopped
    <3>1. Raise
      BY <1>9, <2>3 DEF Return
    <3> QED
      BY <1>b, <1>c, <1>f, <1>i, <2>1, <2>2, <2>3, <3>1 DEF Raise
  <2>4. CASE ~Top.stopped
    <3>1. frames' = Below /\ Ends("value") /\ kept' = FALSE
      BY <1>9, <1>c, <2>2, <2>4 DEF Return, Value
    <3> QED
      BY <1>b, <1>f, <1>i, <2>1, <2>2, <2>4, <3>1
  <2> QED
    BY <2>3, <2>4
<1>10. CASE Throw
  <2>1. ~AtTop /\ Top.kind = "guard" /\ ~Top.stopped /\ Jump(Below, TRUE, FALSE) /\ Ends("error") /\ Leave
    BY <1>10, <1>c DEF Throw, On, Error
  <2>2. /\ flag' = FALSE /\ UNCHANGED <<ctrlC, limit>> /\ depth' = Cardinality(Barriers(Below))
        /\ Top.kind \in NativeKinds
    BY <1>g, <2>1 DEF Leave
  <2> QED
    BY <1>b, <1>f, <1>i, <2>1, <2>2
<1>11. CASE KernelReturn
  <2>1. ~AtTop /\ Top.kind = "kernel" /\ flag' \in BOOLEAN /\ UNCHANGED <<depth, ctrlC, limit>>
    BY <1>11, <1>b, <1>c DEF KernelReturn, On, Frame
  <2>2. /\ depth' = Cardinality(Barriers(Below)) /\ Barriers(Below) = {} /\ depth = 0
        /\ Top.kind \in NativeKinds
    BY <1>h, <2>1
  <2>3. CASE Top.stopped
    <3>1. Raise
      BY <1>11, <2>2, <2>3 DEF KernelReturn
    <3> QED
      BY <1>b, <1>c, <1>f, <1>i, <2>1, <2>2, <2>3, <3>1 DEF Raise
  <2>4. CASE ~Top.stopped
    <3>1. frames' = Below /\ Ends("value") /\ kept' = FALSE
      BY <1>11, <1>c, <2>4 DEF KernelReturn, Value
    <3> QED
      BY <1>b, <1>f, <1>i, <2>1, <2>2, <2>4, <3>1
  <2> QED
    BY <2>3, <2>4
<1>12. CASE KernelFail
  <2>1. /\ ~AtTop /\ Top.kind = "kernel" /\ ~Top.stopped /\ Jump(Below, TRUE, FALSE) /\ Ends("error")
        /\ UNCHANGED <<depth, flag, ctrlC, limit>>
    BY <1>12, <1>c DEF KernelFail, On, Error
  <2>2. /\ depth' = Cardinality(Barriers(Below)) /\ Barriers(Below) = {} /\ Top.kind \in NativeKinds
        /\ flag' \in BOOLEAN
    BY <1>c, <1>h, <2>1
  <2> QED
    BY <1>b, <1>f, <1>i, <2>1, <2>2
<1>13. CASE PressCtrlC \/ LimitReached
  <2>1. /\ UNCHANGED <<frames, depth, flag, kept, ended>>
        /\ ctrlC' \in BOOLEAN /\ limit' \in BOOLEAN
    BY <1>13, <1>c DEF PressCtrlC, LimitReached
  <2> QED
    BY <1>a, <1>b, <1>c, <1>q, <1>r, <2>1
<1>14. CASE UNCHANGED barrierVars
  BY <1>a, <1>b, <1>c, <1>q, <1>r, <1>14 DEF barrierVars
<1> QED
  BY <1>1, <1>2, <1>3, <1>4, <1>5, <1>6, <1>7, <1>8, <1>9, <1>10, <1>11, <1>12, <1>13, <1>14
  DEF BarrierNext

-----------------------------------------------------------------------------
(* Theorems.                                                               *)

\* The invariant, through every run
THEOREM BarrierInvariant == BarrierSpec => []IInv
BY IInvInit, IInvStep, PTL DEF BarrierSpec

\* The types are right
THEOREM BarrierTypes == BarrierSpec => []BarrierTypeOK
<1>1. IInv => BarrierTypeOK
  BY BarriersFinite DEF IInv, StackOK, BarrierTypeOK
<1> QED
  BY <1>1, BarrierInvariant, PTL

\* The depth counts the barriers on the stack, through every way a call can end
THEOREM DepthCounts == BarrierSpec => []DepthIsBarriers
<1>1. IInv => DepthIsBarriers
  BY DEF IInv, DepthIsBarriers, Barriers
<1> QED
  BY <1>1, BarrierInvariant, PTL

\* A kept message is raised by the call that took it
THEOREM KeptIsRaised == BarrierSpec => []KeptIsOwed
<1>1. IInv => KeptIsOwed
  BY DEF IInv
<1> QED
  BY <1>1, BarrierInvariant, PTL

\* A call is raised exactly when it took something
THEOREM RaisedExactly == BarrierSpec => []RaisedIffTaken
<1>1. IInv => RaisedIffTaken
  BY DEF IInv
<1> QED
  BY <1>1, BarrierInvariant, PTL
=============================================================================
