--------------------------- MODULE XmssUsesProofs ---------------------------
(***************************************************************************)
(* Proofs about XmssState and XmssUses, for any number of runs, copies,    *)
(* sectors and indices: every state has its types, a place never offers an *)
(* index again, and used as documented no index signs twice.               *)
(***************************************************************************)
EXTENDS XmssUses, TLAPS

-----------------------------------------------------------------------------
(* Sectors.                                                                *)

\* A sector's first and last index, by the number of sectors
First(c, i) == IF c = 1 THEN 0 ELSE i * (Capacity \div c)
Final(c, i) == First(c, i) + Capacity \div c - 1
Span(c, i)  == First(c, i) .. Final(c, i)

\* i is a sector of a state in c sectors; an undivided state has but one
Fits(c, i) == c = 1 \/ i \in 0 .. c - 1

LEMMA CapacityIsNat == Capacity \in Nat /\ Capacity >= 2
<1>1. /\ 2 ^ 1 = 2 /\ 2 ^ 2 = 4 /\ 2 ^ 3 = 8 /\ 2 ^ 4 = 16 /\ 2 ^ 5 = 32 /\ 2 ^ 6 = 64
      /\ 2 ^ 7 = 128 /\ 2 ^ 8 = 256 /\ 2 ^ 9 = 512 /\ 2 ^ 10 = 1024 /\ 2 ^ 11 = 2048
      /\ 2 ^ 12 = 4096 /\ 2 ^ 13 = 8192 /\ 2 ^ 14 = 16384 /\ 2 ^ 15 = 32768
      /\ 2 ^ 16 = 65536
  OBVIOUS
<1>2. \A h \in 1 .. 16 :
        \/ h = 1 \/ h = 2 \/ h = 3 \/ h = 4 \/ h = 5 \/ h = 6 \/ h = 7 \/ h = 8 \/ h = 9
        \/ h = 10 \/ h = 11 \/ h = 12 \/ h = 13 \/ h = 14 \/ h = 15 \/ h = 16
  OBVIOUS
<1>3. PICK h \in 1 .. 16 : Capacity = 2 ^ h
  BY ConstantsAssumption
<1>4. \/ Capacity = 2 ^ 1 \/ Capacity = 2 ^ 2 \/ Capacity = 2 ^ 3 \/ Capacity = 2 ^ 4
      \/ Capacity = 2 ^ 5 \/ Capacity = 2 ^ 6 \/ Capacity = 2 ^ 7 \/ Capacity = 2 ^ 8
      \/ Capacity = 2 ^ 9 \/ Capacity = 2 ^ 10 \/ Capacity = 2 ^ 11 \/ Capacity = 2 ^ 12
      \/ Capacity = 2 ^ 13 \/ Capacity = 2 ^ 14 \/ Capacity = 2 ^ 15 \/ Capacity = 2 ^ 16
  BY <1>2, <1>3, Zenon
<1> QED BY <1>1, <1>4

LEMMA CountIsNat ==
    ASSUME NEW c \in Counts \cup {1}
    PROVE  /\ c \in Nat /\ c >= 1 /\ c <= Capacity
           /\ c # 1 => c - 1 \in Sectors
           /\ Capacity \div c \in Nat /\ Capacity \div c >= 1
           /\ c * (Capacity \div c) <= Capacity
           /\ c = 1 => Capacity \div c = Capacity
<1>1. c \in Nat /\ c >= 1 /\ (c = 1 \/ c <= Capacity \div 2)
  BY CapacityIsNat DEF Counts
<1>2. c <= Capacity /\ (c # 1 => c - 1 \in Sectors)
  BY <1>1, CapacityIsNat DEF Sectors
<1>3. Capacity \div c \in Nat /\ Capacity \div c >= 1 /\ c * (Capacity \div c) <= Capacity
  BY <1>1, <1>2, CapacityIsNat
<1>4. Capacity \div 1 = Capacity
  BY CapacityIsNat
<1> QED BY <1>1, <1>2, <1>3, <1>4

\* Sectors come one after the other
LEMMA Multiples ==
    ASSUME NEW a \in Nat, NEW b \in Nat, NEW s \in Nat, a < b
    PROVE  a * s \in Nat /\ a * s + s <= b * s
<1>1. b * s = a * s + (b - a) * s /\ a * s \in Nat
  BY Z3
<1>2. (b - a) * s >= s
  BY Z3
<1> QED BY <1>1, <1>2

LEMMA SpanType ==
    ASSUME NEW c \in Counts \cup {1}, NEW i, Fits(c, i)
    PROVE  /\ First(c, i) \in Index /\ Final(c, i) \in Index
           /\ c = 1 => First(c, i) = 0 /\ Final(c, i) = Capacity - 1
<1> DEFINE s == Capacity \div c
<1>1. s \in Nat /\ s >= 1 /\ c * s <= Capacity /\ c \in Nat /\ (c = 1 => s = Capacity)
  BY CountIsNat
<1>2. CASE c = 1
  BY <1>1, <1>2, CapacityIsNat DEF First, Final, Index
<1>3. CASE c # 1
  <2>1. i \in Nat /\ i < c
    BY <1>1, <1>3 DEF Fits
  <2>2. i * s \in Nat /\ i * s + s <= c * s
    BY <1>1, <2>1, Multiples
  <2>3. First(c, i) = i * s /\ Final(c, i) = i * s + s - 1
    BY <1>3 DEF First, Final
  <2> HIDE DEF s
  <2> QED BY <1>1, <1>3, <2>2, <2>3, CapacityIsNat DEF Index
<1> QED BY <1>2, <1>3

LEMMA SpansApart ==
    ASSUME NEW c \in Counts \cup {1}, NEW i \in 0 .. c - 1, NEW k \in 0 .. c - 1, i # k
    PROVE  Span(c, i) \cap Span(c, k) = {}
<1> DEFINE s == Capacity \div c
<1>1. s \in Nat /\ c \in Nat /\ c # 1 /\ i \in Nat /\ k \in Nat
  BY CountIsNat
<1>2. /\ First(c, i) = i * s /\ Final(c, i) = i * s + s - 1
      /\ First(c, k) = k * s /\ Final(c, k) = k * s + s - 1
  BY <1>1 DEF First, Final
<1>3. /\ i * s \in Nat /\ k * s \in Nat
      /\ i < k => i * s + s <= k * s
      /\ k < i => k * s + s <= i * s
  BY <1>1, Multiples
<1> HIDE DEF s
<1> QED BY <1>1, <1>2, <1>3 DEF Span

LEMMA SpanOfState ==
    ASSUME NEW st, NEW i
    PROVE  Lo(st, i) = First(st.count, i) /\ End(st, i) = Final(st.count, i)
BY DEF Lo, End, Size, First, Final

-----------------------------------------------------------------------------
(* The state a run reads and the state it writes.                          *)

LEMMA Choices ==
    ASSUME NEW a \in Int, NEW b \in Int
    PROVE  /\ Larger(a, b) >= a /\ Larger(a, b) >= b /\ Larger(a, b) \in {a, b}
           /\ Smaller(a, b) <= a /\ Smaller(a, b) <= b /\ Smaller(a, b) \in {a, b}
           /\ Larger(a, b) \in Int /\ Smaller(a, b) \in Int
BY DEF Larger, Smaller

LEMMA MarkType == Mark \subseteq Int /\ Index \subseteq Mark /\ -1 \in Mark
BY CapacityIsNat DEF Mark, Index

LEMMA StateType ==
    ASSUME NEW st \in State
    PROVE  /\ st.highest \in Mark /\ st.base \in Mark /\ st.count \in Counts \cup {1}
           /\ st.tops \in [Sectors -> Mark] /\ st.count \in Nat
BY CountIsNat DEF State

LEMMA FreshIsState == Fresh \in State /\ Fresh.count = 1
BY MarkType DEF Fresh, State

\* What splitting a state keeps
LEMMA SplitOK ==
    ASSUME NEW st \in State, NEW count \in Counts \cup {NoSplit}, NEW out \in Mark
    PROVE  LET new == Split(st, count, out)
           IN  /\ new \in State
               /\ new.highest = st.highest
               /\ new = st \/ (/\ st.count = 1 /\ new.count = count /\ new.count # 1
                               /\ new.base >= st.highest /\ new.base >= out
                               /\ \A i \in Sectors : new.tops[i] = -1)
               /\ count = NoSplit => new = st
<1> DEFINE new == Split(st, count, out)
<1>1. CASE ~(st.count = 1 /\ count # NoSplit)
  BY <1>1 DEF Split
<1>2. CASE st.count = 1 /\ count # NoSplit
  <2>1. new = [highest |-> st.highest, count |-> count,
               base |-> Larger(st.highest, out), tops |-> [i \in Sectors |-> -1]]
    BY <1>2 DEF Split
  <2>2. /\ Larger(st.highest, out) \in Mark /\ Larger(st.highest, out) >= st.highest
        /\ Larger(st.highest, out) >= out
    BY Choices, MarkType, StateType
  <2>3. count \in Counts /\ count # 1
    BY <1>2, CapacityIsNat DEF Counts
  <2> QED BY <1>2, <2>1, <2>2, <2>3, MarkType, StateType DEF State
<1> QED BY <1>1, <1>2

\* The highest index used in a sector is one
LEMMA TopType ==
    ASSUME NEW st \in State, NEW i, Fits(st.count, i), NEW out \in Mark
    PROVE  /\ Top(st, i, out) \in Mark
           /\ st.count = 1 => Top(st, i, out) >= st.highest /\ Top(st, i, out) >= out
           /\ st.count # 1 => /\ Top(st, i, out) >= st.tops[i]
                              /\ Top(st, i, out) >= st.base \/ Top(st, i, out) >= End(st, i)
                              /\ Top(st, i, out) >= Lo(st, i) - 1
<1>1. Lo(st, i) \in Index /\ End(st, i) \in Index /\ Lo(st, i) <= End(st, i)
  BY StateType, SpanType, SpanOfState, CountIsNat DEF Final, First, Index
<1>2. CASE st.count = 1
  BY <1>2, StateType, MarkType, Choices DEF Top
<1>3. CASE st.count # 1
  <2>1. st.tops[i] \in Mark /\ st.base \in Mark
    BY <1>3, StateType, CountIsNat, CapacityIsNat DEF Fits, Sectors
  <2>2. Lo(st, i) - 1 \in Mark /\ Lo(st, i) - 1 \in Int
    BY <1>1, CapacityIsNat DEF Index, Mark
  <2> DEFINE b == Larger(st.base, Lo(st, i) - 1)
             m == Smaller(b, End(st, i))
  <2>3. b \in Mark /\ b >= st.base /\ b >= Lo(st, i) - 1
    BY <2>1, <2>2, MarkType, Choices
  <2>4. m \in Mark /\ (m = b \/ m = End(st, i))
    BY <1>1, <2>3, MarkType, Choices
  <2>5. Top(st, i, out) = Larger(m, st.tops[i])
    BY <1>3 DEF Top
  <2> HIDE DEF m
  <2>6. Top(st, i, out) \in Mark /\ Top(st, i, out) >= m /\ Top(st, i, out) >= st.tops[i]
    <3>1. m \in Int /\ st.tops[i] \in Int
      BY <2>1, <2>4, MarkType
    <3>2. /\ Larger(m, st.tops[i]) >= m /\ Larger(m, st.tops[i]) >= st.tops[i]
          /\ Larger(m, st.tops[i]) = m \/ Larger(m, st.tops[i]) = st.tops[i]
      BY <3>1, Choices, Zenon
    <3> QED BY <2>1, <2>4, <2>5, <3>2, Zenon
  <2>7. m >= Lo(st, i) - 1 /\ (m >= st.base \/ m >= End(st, i))
    BY <1>1, <2>1, <2>3, <2>4, MarkType DEF Index
  <2> HIDE DEF b
  <2> QED BY <1>1, <1>3, <2>1, <2>2, <2>4, <2>6, <2>7, MarkType DEF Index
<1> QED BY <1>2, <1>3

-----------------------------------------------------------------------------
(* What a state shows as used.                                             *)

ShownBy(st, next, j) ==
    \A i \in 0 .. st.count - 1 : j \in Span(st.count, i) => j <= Top(st, i, next - 1)

LEMMA ShowsIsShownBy ==
    ASSUME NEW p, NEW j
    PROVE  Shows(p, j) <=> ShownBy(StateAt(p), NextAt(p), j)
BY SpanOfState DEF Shows, ShownBy, Span

LEMMA ShowsIsShownByNext ==
    ASSUME NEW p, NEW j
    PROVE  Shows(p, j)' <=> ShownBy(StateAt(p)', NextAt(p)', j)
BY SpanOfState DEF Shows, ShownBy, Span

LEMMA NextMark == ASSUME NEW next \in 0 .. Capacity PROVE next - 1 \in Mark /\ next \in Int
BY CapacityIsNat DEF Mark

\* An undivided key shows what is up to its highest index or before next_index
LEMMA ShownUndivided ==
    ASSUME NEW st \in State, st.count = 1, NEW next \in 0 .. Capacity, NEW j \in Index
    PROVE  ShownBy(st, next, j) <=> j <= st.highest \/ j <= next - 1
<1>1. /\ 0 .. st.count - 1 = {0} /\ j \in Span(st.count, 0)
  BY SpanType, CapacityIsNat DEF Span, Index, Fits
<1>2. Top(st, 0, next - 1) = Larger(st.highest, next - 1)
  BY DEF Top
<1>3. st.highest \in Int /\ next - 1 \in Int /\ j \in Int
  BY StateType, NextMark, MarkType
<1>4. ShownBy(st, next, j) <=> j <= Larger(st.highest, next - 1)
  BY <1>1, <1>2 DEF ShownBy
<1> QED BY <1>3, <1>4 DEF Larger

\* In sectors, next_index does not matter
LEMMA ShownDivided ==
    ASSUME NEW st \in State, st.count # 1, NEW next, NEW other, NEW j
    PROVE  ShownBy(st, next, j) <=> ShownBy(st, other, j)
BY DEF ShownBy, Top

\* A larger next_index shows more
LEMMA ShownMore ==
    ASSUME NEW st \in State, NEW next \in 0 .. Capacity, NEW more \in 0 .. Capacity,
           next <= more, NEW j \in Index, ShownBy(st, next, j)
    PROVE  ShownBy(st, more, j)
<1>1. CASE st.count = 1
  BY <1>1, ShownUndivided, StateType, MarkType, CapacityIsNat DEF Index
<1>2. CASE st.count # 1
  BY <1>2, ShownDivided
<1> QED BY <1>1, <1>2

\* Splitting a state hides nothing that it, or the key, has used
LEMMA SplitShows ==
    ASSUME NEW st \in State, NEW count \in Counts \cup {NoSplit}, NEW out \in Mark,
           NEW next \in 0 .. Capacity, out >= next - 1, NEW j \in Index,
           ShownBy(st, next, j)
    PROVE  ShownBy(Split(st, count, out), next, j)
<1> DEFINE new == Split(st, count, out)
<1>1. CASE new = st
  BY <1>1
<1>2. CASE new # st
  <2>1. /\ new \in State /\ st.count = 1 /\ new.count # 1 /\ new.base >= st.highest
        /\ new.base >= out
    BY <1>2, SplitOK
  <2>2. st.highest \in Int /\ new.base \in Int /\ out \in Int /\ next - 1 \in Int /\ j \in Int
    BY <2>1, StateType, MarkType, NextMark
  <2>3. j <= new.base
    BY <2>1, <2>2, ShownUndivided
  <2>4. ASSUME NEW i \in 0 .. new.count - 1, j \in Span(new.count, i)
        PROVE  j <= Top(new, i, next - 1)
    <3>1. Fits(new.count, i)
      BY DEF Fits
    <3>2. /\ Top(new, i, next - 1) \in Mark
          /\ Top(new, i, next - 1) >= new.base \/ Top(new, i, next - 1) >= End(new, i)
      BY <2>1, <3>1, TopType, NextMark
    <3>3. j <= End(new, i) /\ End(new, i) \in Int
      BY <2>1, <2>4, <3>1, SpanType, SpanOfState, StateType DEF Span, Index
    <3>4. Top(new, i, next - 1) \in Int
      BY <3>2, MarkType
    <3>5. \A a, b, c, d \in Int : a <= b /\ (d >= b \/ d >= c) /\ a <= c => a <= d
      OBVIOUS
    <3> QED BY <2>2, <2>3, <3>2, <3>3, <3>4, <3>5, Zenon
  <2> QED BY <2>4 DEF ShownBy
<1> QED BY <1>1, <1>2

-----------------------------------------------------------------------------
(* A block is reserved.                                                    *)

\* What .rmbl_xmss_state_commit() asks of a block before it writes the state
Room(st, i, out, need) ==
    /\ st \in State /\ Fits(st.count, i) /\ out \in Mark /\ need \in 1 .. MaxBlock
    /\ Top(st, i, out) + need <= End(st, i)

LEMMA BlockType ==
    ASSUME NEW st, NEW i, NEW out, NEW need, Room(st, i, out, need)
    PROVE  LET top == Top(st, i, out)
               to  == top + need
           IN  /\ top \in Mark /\ top + 1 \in Index /\ to \in Index /\ top + 1 <= to
               /\ top + 1 .. to \subseteq Span(st.count, i)
               /\ to .. to \subseteq Span(st.count, i)
<1> DEFINE top == Top(st, i, out)
           to  == top + need
<1>1. need \in Nat /\ need >= 1
  BY ConstantsAssumption, CapacityIsNat DEF Room
<1>2. /\ top \in Mark
      /\ st.count # 1 => top >= Lo(st, i) - 1
  BY TopType DEF Room
<1>3. /\ First(st.count, i) \in Index /\ Final(st.count, i) \in Index
      /\ st.count = 1 => First(st.count, i) = 0
      /\ Lo(st, i) = First(st.count, i) /\ End(st, i) = Final(st.count, i)
  BY SpanType, SpanOfState, StateType DEF Room
<1>4. to <= Final(st.count, i)
  BY <1>3 DEF Room
<1>5. top \in Int /\ top >= -1 /\ top >= First(st.count, i) - 1
  BY <1>2, <1>3, CapacityIsNat DEF Mark
<1> HIDE DEF top
<1>6. /\ to \in Int /\ top + 1 <= to /\ to >= First(st.count, i)
      /\ top + 1 \in Index /\ to \in Index
  BY <1>1, <1>3, <1>4, <1>5, CapacityIsNat DEF Index
<1>7. /\ top + 1 .. to \subseteq First(st.count, i) .. Final(st.count, i)
      /\ to .. to \subseteq First(st.count, i) .. Final(st.count, i)
  BY <1>3, <1>4, <1>5, <1>6 DEF Index
<1> QED BY <1>2, <1>6, <1>7 DEF Span, top

LEMMA AdvancedType ==
    ASSUME NEW st, NEW i, NEW out, NEW need, Room(st, i, out, need)
    PROVE  LET to  == Top(st, i, out) + need
               new == Advanced(st, i, out, to)
           IN  /\ new \in State /\ new.count = st.count /\ new.base = st.base
               /\ new.highest >= to /\ new.highest >= out /\ new.highest >= st.highest
               /\ new.highest \in Index /\ new # Fresh
               /\ st.count # 1 => \A k \in Sectors :
                                     new.tops[k] = IF k = i THEN to ELSE st.tops[k]
<1> DEFINE to  == Top(st, i, out) + need
           new == Advanced(st, i, out, to)
           hi  == Larger(Larger(st.highest, out), to)
<1>1. to \in Index /\ st \in State /\ out \in Mark
  BY BlockType DEF Room
<1> HIDE DEF to
<1>2. to \in Int /\ to >= 0 /\ st.highest \in Int /\ out \in Int /\ to \in Mark
  <2>1. st.highest \in Mark
    BY <1>1, StateType
  <2> QED BY <1>1, <2>1, CapacityIsNat DEF Index, Mark
<1>3. /\ hi \in Int /\ hi >= to /\ hi >= out /\ hi >= st.highest
      /\ hi \in {st.highest, out, to}
  BY <1>2 DEF Larger
<1>4. hi \in Mark
  BY <1>1, <1>2, <1>3, StateType
<1> HIDE DEF hi
<1>5. hi \in Index
  BY <1>2, <1>3, <1>4 DEF Mark, Index
<1>6. st.count # 1 => st.count > 1 /\ i \in Sectors
  BY <1>1, StateType, CountIsNat, CapacityIsNat DEF Room, Fits, Sectors
<1>7. CASE st.count = 1
  <2>1. ~(st.count > 1)
    BY <1>7
  <2>2. new = [st EXCEPT !.highest = hi, !.tops = @]
    BY <2>1 DEF Advanced, hi
  <2>3. new \in State /\ new.highest = hi /\ new.count = st.count /\ new.base = st.base
    BY <1>1, <1>4, <2>2 DEF State
  <2>4. new # Fresh
    BY <1>2, <1>3, <2>3 DEF Fresh
  <2> QED BY <1>3, <1>5, <1>7, <2>3, <2>4 DEF to
<1>8. CASE st.count # 1
  <2>1. new = [st EXCEPT !.highest = hi, !.tops = [@ EXCEPT ![i] = to]]
    BY <1>6, <1>8 DEF Advanced, hi
  <2>2. [st.tops EXCEPT ![i] = to] \in [Sectors -> Mark]
    BY <1>1, <1>2, StateType
  <2>3. /\ new \in State /\ new.highest = hi /\ new.count = st.count /\ new.base = st.base
        /\ new.tops = [st.tops EXCEPT ![i] = to]
    BY <1>1, <1>4, <2>1, <2>2 DEF State
  <2>a. \A k \in Sectors : new.tops[k] = IF k = i THEN to ELSE st.tops[k]
    BY <1>1, <2>3, StateType
  <2>4. new # Fresh
    BY <1>2, <1>3, <2>3 DEF Fresh
  <2> QED BY <1>3, <1>5, <2>3, <2>a, <2>4 DEF to
<1> QED BY <1>7, <1>8

\* The block was not shown as used, and is from now on
LEMMA BlockShown ==
    ASSUME NEW st, NEW i, NEW out, NEW need, Room(st, i, out, need),
           NEW j \in Top(st, i, out) + 1 .. Top(st, i, out) + need,
           NEW next \in 0 .. Capacity, NEW later \in 0 .. Capacity
    PROVE  /\ next - 1 <= out => ~ShownBy(st, next, j)
           /\ ShownBy(Advanced(st, i, out, Top(st, i, out) + need), later, j)
<1> DEFINE top == Top(st, i, out)
           to  == top + need
           new == Advanced(st, i, out, to)
<1>1. /\ st \in State /\ st.count \in Counts \cup {1} /\ Fits(st.count, i) /\ out \in Mark
      /\ out \in Int /\ next - 1 \in Mark /\ later - 1 \in Mark /\ next - 1 \in Int
  BY NextMark, StateType, MarkType DEF Room
<1>2. /\ top \in Int /\ top + 1 \in Index /\ to \in Index /\ j \in Span(st.count, i)
  BY BlockType, MarkType
<1>3. /\ new \in State /\ new.count = st.count /\ new.highest \in Index /\ new.highest >= to
      /\ st.count # 1 => \A k \in Sectors :
                            new.tops[k] = IF k = i THEN to ELSE st.tops[k]
  BY AdvancedType
<1>4. j \in top + 1 .. to
  OBVIOUS
<1> HIDE DEF new, to, top
<1>5. j \in Int /\ j > top /\ j <= to /\ j \in Index
  BY <1>2, <1>4, CapacityIsNat DEF Index
<1>6. CASE st.count = 1
  <2>1. ASSUME next - 1 <= out PROVE ~ShownBy(st, next, j)
    <3>1. top >= st.highest /\ top >= out /\ st.highest \in Int
      BY <1>1, <1>6, TopType, StateType, MarkType DEF top
    <3> QED BY <1>1, <1>2, <1>5, <1>6, <2>1, <3>1, ShownUndivided
  <2>2. j <= new.highest
    BY <1>2, <1>3, <1>5, MarkType DEF Index
  <2>3. ShownBy(new, later, j)
    BY <1>3, <1>5, <1>6, <2>2, ShownUndivided
  <2> QED BY <2>1, <2>3 DEF new, to, top
<1>7. CASE st.count # 1
  <2>1. i \in 0 .. st.count - 1
    BY <1>1, <1>7 DEF Fits
  <2>2. ~ShownBy(st, next, j)
    <3>1. Top(st, i, next - 1) = top
      BY <1>7 DEF Top, top
    <3> QED BY <1>2, <1>5, <2>1, <3>1 DEF ShownBy
  <2>3. ASSUME NEW k \in 0 .. new.count - 1, j \in Span(new.count, k)
        PROVE  j <= Top(new, k, later - 1)
    <3>1. k = i
      BY <1>1, <1>2, <1>3, <2>1, <2>3, SpansApart
    <3>2. i \in Sectors
      BY <1>1, <1>7, <2>1, CountIsNat, CapacityIsNat DEF Sectors
    <3>3. new.tops[i] = to
      BY <1>3, <1>7, <3>2
    <3>4. Top(new, k, later - 1) \in Mark /\ Top(new, k, later - 1) >= to
      BY <1>1, <1>3, <1>7, <3>1, <3>3, TopType
    <3>5. Top(new, k, later - 1) \in Int /\ to \in Int
      BY <1>2, <3>4, MarkType
    <3> QED BY <1>5, <3>4, <3>5
  <2> QED BY <2>2, <2>3 DEF ShownBy, new, to, top
<1> QED BY <1>6, <1>7

\* What was shown as used still is
LEMMA BlockKeeps ==
    ASSUME NEW st, NEW i, NEW out, NEW need, Room(st, i, out, need),
           NEW next \in 0 .. Capacity, next - 1 <= out, NEW later \in 0 .. Capacity,
           NEW j \in Index, ShownBy(st, next, j)
    PROVE  ShownBy(Advanced(st, i, out, Top(st, i, out) + need), later, j)
<1> DEFINE top == Top(st, i, out)
           to  == top + need
           new == Advanced(st, i, out, to)
<1>1. /\ st \in State /\ st.count \in Counts \cup {1} /\ Fits(st.count, i) /\ out \in Mark
      /\ out \in Int /\ next - 1 \in Mark /\ later - 1 \in Mark /\ next - 1 \in Int
      /\ j \in Int
  BY NextMark, StateType, MarkType DEF Room
<1>2. top \in Int /\ to \in Int /\ top + 1 <= to
  BY BlockType, MarkType
<1>3. /\ new \in State /\ new.count = st.count /\ new.base = st.base
      /\ new.highest \in Index /\ new.highest >= out /\ new.highest >= st.highest
      /\ st.count # 1 => \A k \in Sectors :
                            new.tops[k] = IF k = i THEN to ELSE st.tops[k]
  BY AdvancedType
<1> HIDE DEF new, to
<1>4. CASE st.count = 1
  <2>1. j <= st.highest \/ j <= next - 1
    BY <1>1, <1>4, ShownUndivided
  <2>2. st.highest \in Int
    BY <1>1, StateType, MarkType
  <2>3. j <= new.highest
    BY <1>1, <1>3, <2>1, <2>2, CapacityIsNat DEF Index
  <2> QED BY <1>3, <1>4, <2>3, ShownUndivided DEF new, to
<1>5. CASE st.count # 1
  <2>1. ASSUME NEW k \in 0 .. new.count - 1, j \in Span(new.count, k)
        PROVE  j <= Top(new, k, later - 1)
    <3>1. j <= Top(st, k, next - 1)
      BY <1>3, <2>1 DEF ShownBy
    <3>2. CASE k = i
      <4>1. i \in Sectors
        BY <1>1, <1>3, <1>5, <2>1, <3>2, CountIsNat, CapacityIsNat DEF Sectors
      <4>2. new.tops[i] = to
        BY <1>3, <1>5, <4>1
      <4>3. Top(new, k, later - 1) \in Mark /\ Top(new, k, later - 1) >= to
        BY <1>1, <1>3, <1>5, <3>2, <4>2, TopType
      <4>4. Top(new, k, later - 1) \in Int
        BY <4>3, MarkType
      <4>5. Top(st, k, next - 1) = top
        BY <1>5, <3>2 DEF Top
      <4> HIDE DEF top
      <4> QED BY <1>1, <1>2, <3>1, <4>3, <4>4, <4>5
    <3>3. CASE k # i
      <4>0. k \in Sectors
        BY <1>1, <1>3, <1>5, <2>1, CountIsNat, CapacityIsNat DEF Sectors
      <4>1. st.tops[k] = new.tops[k]
        BY <1>3, <1>5, <3>3, <4>0
      <4>2. Top(new, k, later - 1) = Top(st, k, next - 1)
        BY <1>3, <1>5, <4>1 DEF Top, Lo, End, Size
      <4> QED BY <3>1, <4>2
    <3> QED BY <3>2, <3>3
  <2> QED BY <2>1 DEF ShownBy, new, to
<1> QED BY <1>4, <1>5

-----------------------------------------------------------------------------
(* Types.                                                                  *)

\* A run that was asked to sign knows where.
AtInv == \A r \in Runs : pc[r] \in {"asked", "held"} => run[r].at \in Places

TInv == TypeOK /\ AtInv

LEMMA NoCourseType == NoCourse \in Course
<1>1. 0 \in 0 .. Capacity /\ 1 \in 1 .. MaxBlock /\ -1 \in Mark /\ Fresh \in State
  BY CapacityIsNat, ConstantsAssumption, MarkType, FreshIsState
<1> QED BY <1>1 DEF NoCourse, Course, NoSplit, NoSector

LEMMA CourseType ==
    ASSUME NEW c \in Course
    PROVE  /\ c.at \in Places \cup {NoPlace} /\ c.split \in Nat /\ c.sector \in Int
           /\ c.need \in 1 .. MaxBlock /\ c.seen \subseteq Index /\ c.listed \in BOOLEAN
           /\ c.recHi \in Mark /\ c.keyNext \in 0 .. Capacity /\ c.st \in State
           /\ c.next \in 0 .. Capacity /\ c.last \in Mark
BY DEF Course

\* What a run reads
LEMMA ReadType ==
    ASSUME TypeOK, NEW p \in Places
    PROVE  StateAt(p) \in State /\ NextAt(p) \in 0 .. Capacity /\ KeyAt(p) \in Places
<1>1. KeyAt(p) \in Places
  BY ConstantsAssumption DEF KeyAt, Places
<1>2. /\ file[p].st \in State /\ file[KeyAt(p)].next \in 0 .. Capacity
      /\ file[KeyAt(p)].st \in State
  BY <1>1 DEF TypeOK
<1> QED BY <1>1, <1>2 DEF StateAt, NextAt, KeyAt

LEMMA TypesInit == Init => TInv
<1> SUFFICES ASSUME Init PROVE TInv
  OBVIOUS
<1>1. /\ FirstIndex \in 0 .. Capacity /\ 0 \in 0 .. Capacity /\ -1 \in Mark
      /\ FirstIndex - 1 \in Mark /\ 0 .. FirstIndex - 1 \subseteq Index
  BY ConstantsAssumption, CapacityIsNat DEF Mark, Index
<1>2. file \in [Places -> [next : 0 .. Capacity, st : State]]
  BY <1>1, FreshIsState DEF Init
<1>3. run \in [Runs -> Course] /\ pc \in [Runs -> Phases] /\ lock \in [Places -> Runs \cup {NoRun}]
  BY NoCourseType DEF Init, Phases
<1>4. rec \in Mark /\ signed \subseteq Index /\ reused \subseteq Index
  BY <1>1 DEF Init
<1>5. AtInv
  BY DEF Init, AtInv
<1> QED BY <1>2, <1>3, <1>4, <1>5 DEF TypeOK, TInv

LEMMA AskTypes ==
    ASSUME TInv, NEW r \in Runs, NEW p \in Places, NEW count \in Nat, NEW sector \in Int,
           NEW need \in 1 .. MaxBlock, NEW seen \in SUBSET Index, NEW listed \in BOOLEAN,
           Ask(r, p, count, sector, need, seen, listed)
    PROVE  TInv'
<1> DEFINE c == [at |-> p, split |-> count, sector |-> sector, need |-> need,
                 seen |-> seen, listed |-> listed, recHi |-> IF listed THEN rec ELSE -1,
                 keyNext |-> 0, st |-> Fresh, next |-> 0, last |-> -1]
<1>1. /\ run' = [run EXCEPT ![r] = c] /\ pc' = [pc EXCEPT ![r] = "asked"]
      /\ UNCHANGED <<file, lock, rec, signed, reused>>
  BY DEF Ask, Goto
<1>2. (IF listed THEN rec ELSE -1) \in Mark
  BY MarkType DEF TInv, TypeOK
<1>3. c \in Course
  BY <1>2, FreshIsState, MarkType, CapacityIsNat DEF Course
<1> HIDE DEF c
<1>4. TypeOK'
  BY <1>1, <1>3 DEF TInv, TypeOK, Phases
<1>5. c.at = p
  BY DEF c
<1>6. AtInv'
  BY <1>1, <1>5 DEF TInv, AtInv, TypeOK
<1> QED BY <1>4, <1>6 DEF TInv

LEMMA LockTypes == ASSUME TInv, NEW r \in Runs, Lock(r) PROVE TInv'
<1> DEFINE p == run[r].at
<1>1. /\ pc[r] = "asked" /\ pc' = [pc EXCEPT ![r] = "held"]
      /\ lock' = [lock EXCEPT ![p] = r]
      /\ run' = [run EXCEPT ![r].keyNext = NextAt(p), ![r].st = StateAt(p)]
      /\ UNCHANGED <<file, rec, signed, reused>>
  BY DEF Lock, Goto
<1>2. p \in Places
  BY <1>1 DEF TInv, AtInv
<1>3. StateAt(p) \in State /\ NextAt(p) \in 0 .. Capacity
  BY <1>2, ReadType DEF TInv
<1> DEFINE c == [run[r] EXCEPT !.keyNext = NextAt(p), !.st = StateAt(p)]
<1>a. run[r] \in Course /\ run \in [Runs -> Course]
  BY DEF TInv, TypeOK
<1>b. c \in Course /\ c.at = p
  BY <1>a, <1>3 DEF Course
<1>c. run' = [run EXCEPT ![r] = c]
  BY <1>1
<1> HIDE DEF c
<1>4. run' \in [Runs -> Course] /\ \A s \in Runs : run'[s].at = run[s].at
  BY <1>a, <1>b, <1>c
<1>5. TypeOK'
  BY <1>1, <1>4 DEF TInv, TypeOK, Phases
<1>6. AtInv'
  BY <1>1, <1>4 DEF TInv, AtInv, TypeOK
<1> QED BY <1>5, <1>6 DEF TInv

\* The state as split, the highest index used in the sector, the last index of the
\* block, and the state that is written
Opened(r)  == Split(run[r].st, run[r].split, Outside(r))
Used(r)    == Top(Opened(r), run[r].sector, Outside(r))
UpTo(r)    == Used(r) + run[r].need
Written(r) == Advanced(Opened(r), run[r].sector, Outside(r), UpTo(r))

LEMMA CommitSteps ==
    ASSUME NEW r, Commit(r)
    PROVE  /\ SectorFits(Opened(r), run[r].split, run[r].sector, run[r].keyNext)
           /\ ~Stale(Opened(r), run[r].sector, Used(r), run[r].seen)
           /\ UpTo(r) <= End(Opened(r), run[r].sector)
           /\ pc[r] = "held"
           /\ pc' = [pc EXCEPT ![r] = IF run[r].listed THEN "record" ELSE "sign"]
           /\ file' = [file EXCEPT ![run[r].at] =
                 [next |-> IF run[r].at \in KeyFiles THEN Written(r).highest + 1 ELSE 0,
                  st |-> Written(r)]]
           /\ lock' = Unlocked(r)
           /\ run' = [run EXCEPT ![r] = [NoCourse EXCEPT !.at = run[r].at,
                                             !.next = Used(r) + 1, !.last = UpTo(r)]]
           /\ UNCHANGED <<rec, signed, reused>>
BY DEF Commit, Goto, Opened, Used, UpTo, Written

LEMMA OutsideType ==
    ASSUME TypeOK, NEW r \in Runs
    PROVE  /\ Outside(r) \in Mark /\ Outside(r) >= run[r].keyNext - 1
           /\ Outside(r) >= run[r].recHi /\ Outside(r) \in Int
<1>1. run[r].keyNext \in 0 .. Capacity /\ run[r].recHi \in Mark
  BY CourseType DEF TypeOK
<1>2. run[r].keyNext - 1 \in Mark
  BY <1>1, NextMark
<1>3. run[r].keyNext - 1 \in Int /\ run[r].recHi \in Int
  BY <1>1, <1>2, MarkType
<1> QED BY <1>1, <1>2, <1>3, Choices, MarkType DEF Outside

LEMMA CommitRoom ==
    ASSUME TypeOK, NEW r \in Runs, Commit(r)
    PROVE  /\ Room(Opened(r), run[r].sector, Outside(r), run[r].need)
           /\ run[r].split \in Counts \cup {NoSplit} /\ run[r].st \in State
<1>1. SectorFits(Opened(r), run[r].split, run[r].sector, run[r].keyNext)
  BY CommitSteps
<1>2. run[r].split \in Counts \cup {NoSplit}
  BY <1>1 DEF SectorFits
<1>3. run[r].st \in State /\ run[r].need \in 1 .. MaxBlock
  BY CourseType DEF TypeOK
<1>4. Opened(r) \in State
  BY <1>2, <1>3, OutsideType, SplitOK DEF Opened
<1>5. Fits(Opened(r).count, run[r].sector)
  BY <1>1 DEF SectorFits, Fits
<1>6. Used(r) + run[r].need <= End(Opened(r), run[r].sector)
  BY CommitSteps DEF UpTo
<1> QED BY <1>2, <1>3, <1>4, <1>5, <1>6, OutsideType DEF Room, Used

LEMMA CommitTypes == ASSUME TInv, NEW r \in Runs, Commit(r) PROVE TInv'
<1> DEFINE p == run[r].at
           c == [NoCourse EXCEPT !.at = p, !.next = Used(r) + 1, !.last = UpTo(r)]
           f == [next |-> IF p \in KeyFiles THEN Written(r).highest + 1 ELSE 0,
                 st |-> Written(r)]
<1>1. /\ pc[r] = "held"
      /\ pc' = [pc EXCEPT ![r] = IF run[r].listed THEN "record" ELSE "sign"]
      /\ file' = [file EXCEPT ![p] = f] /\ lock' = Unlocked(r)
      /\ run' = [run EXCEPT ![r] = c] /\ UNCHANGED <<rec, signed, reused>>
  BY CommitSteps
<1>2. p \in Places /\ Room(Opened(r), run[r].sector, Outside(r), run[r].need)
  BY <1>1, CommitRoom DEF TInv, AtInv
<1>3. Used(r) + 1 \in Index /\ UpTo(r) \in Index
  BY <1>2, BlockType DEF Used, UpTo
<1>4. Written(r) \in State /\ Written(r).highest \in Index
  BY <1>2, AdvancedType DEF Written, UpTo, Used
<1>5. f \in [next : 0 .. Capacity, st : State]
  BY <1>4, CapacityIsNat DEF Index
<1>6. Used(r) + 1 \in 0 .. Capacity /\ UpTo(r) \in Mark
  BY <1>3, MarkType, CapacityIsNat DEF Index
<1>7. c \in Course
  BY <1>2, <1>6, NoCourseType DEF Course
<1>8. Unlocked(r) \in [Places -> Runs \cup {NoRun}]
  BY DEF Unlocked, TInv, TypeOK
<1> HIDE DEF c, f
<1>9. TypeOK'
  BY <1>1, <1>5, <1>7, <1>8 DEF TInv, TypeOK, Phases
<1>10. AtInv'
  BY <1>1 DEF TInv, AtInv, TypeOK
<1> QED BY <1>9, <1>10 DEF TInv

LEMMA GoOnTypes ==
    ASSUME TInv, NEW r \in Runs, UpdateRecord(r) \/ Sign(r) \/ Quit(r)
    PROVE  TInv'
<1>0. run[r] \in Course
  BY DEF TInv, TypeOK
<1>1. CASE UpdateRecord(r)
  <2>1. Larger(rec, run[r].last) \in Mark
    BY <1>0, CourseType, Choices, MarkType DEF TInv, TypeOK
  <2> QED BY <1>1, <2>1 DEF UpdateRecord, Goto, TInv, TypeOK, AtInv, Phases
<1>2. CASE Sign(r)
  <2>1. /\ run[r].next <= run[r].last /\ pc[r] = "sign"
        /\ run' = [run EXCEPT ![r].next = @ + 1] /\ signed' = signed \cup {run[r].next}
        /\ reused' \subseteq reused \cup {run[r].next}
        /\ UNCHANGED <<file, lock, rec, pc>>
    BY <1>2 DEF Sign, MayTake
  <2>2. run[r].next \in Index /\ run[r].next + 1 \in 0 .. Capacity
    BY <1>0, <2>1, CourseType, CapacityIsNat DEF Index, Mark
  <2>3. run' \in [Runs -> Course]
    BY <2>1, <2>2 DEF TInv, TypeOK, Course
  <2>4. TypeOK'
    BY <2>1, <2>2, <2>3 DEF TInv, TypeOK
  <2>5. AtInv'
    BY <2>1 DEF TInv, AtInv, TypeOK
  <2> QED BY <2>4, <2>5 DEF TInv
<1>3. CASE Quit(r)
  <2>1. Unlocked(r) \in [Places -> Runs \cup {NoRun}]
    BY DEF Unlocked, TInv, TypeOK
  <2>2. /\ pc' = [pc EXCEPT ![r] = "idle"] /\ run' = [run EXCEPT ![r] = NoCourse]
        /\ lock' = Unlocked(r) /\ UNCHANGED <<file, rec, signed, reused>>
    BY <1>3 DEF Quit
  <2> QED BY <2>1, <2>2, NoCourseType DEF TInv, TypeOK, AtInv, Phases
<1> QED BY <1>1, <1>2, <1>3

LEMMA ProceedTypes == ASSUME TInv, NEW r \in Runs, Proceed(r) PROVE TInv'
BY LockTypes, CommitTypes, GoOnTypes DEF Proceed

LEMMA CopyTypes == ASSUME TInv, NEW p \in Places, NEW q \in Places, Copy(p, q) PROVE TInv'
BY DEF Copy, TInv, TypeOK, AtInv

LEMMA TypesNext == TInv /\ [Next]_vars => TInv'
<1> SUFFICES ASSUME TInv, [Next]_vars PROVE TInv'
  OBVIOUS
<1>1. CASE UNCHANGED vars
  BY <1>1 DEF vars, TInv, TypeOK, AtInv, Unlocked
<1>2. ASSUME NEW r \in Runs, NEW p \in Places, NEW count \in Counts \cup {NoSplit},
             NEW sector \in SectorArgs, NEW need \in 1 .. MaxBlock, NEW seen \in Sightings,
             NEW listed \in BOOLEAN, Ask(r, p, count, sector, need, seen, listed)
      PROVE  TInv'
  <2>1. seen \in SUBSET Index
    BY DEF Sightings, TInv, TypeOK
  <2>2. count \in Nat /\ sector \in Int
    BY CountIsNat, CapacityIsNat DEF NoSplit, NoSector, SectorArgs
  <2> QED BY <1>2, <2>1, <2>2, AskTypes
<1> QED BY <1>1, <1>2, ProceedTypes, CopyTypes DEF Next

\* Every variable has its type: the indices, marks and sectors of every state that is
\* written stay within the key, whatever is copied and whatever --sectors is given.
THEOREM StateTypes == Spec => []TypeOK
<1>1. TInv => TypeOK
  BY DEF TInv
<1> QED BY <1>1, TypesInit, TypesNext, PTL DEF Spec

-----------------------------------------------------------------------------
(* A place never goes back.                                                *)

\* A run inside the lock of its place holds it alone, and has read what is there.
HasRead(r) ==
    /\ lock[run[r].at] = r
    /\ run[r].st = StateAt(run[r].at)
    /\ run[r].keyNext = NextAt(run[r].at)

LEMMA ReadTypeNext ==
    ASSUME TypeOK', NEW p \in Places
    PROVE  StateAt(p)' \in State /\ NextAt(p)' \in 0 .. Capacity
<1>1. KeyAt(p) \in Places /\ KeyAt(p)' = KeyAt(p)
  BY ConstantsAssumption DEF KeyAt, Places
<1>2. /\ file'[p].st \in State /\ file'[KeyAt(p)].next \in 0 .. Capacity
      /\ file'[KeyAt(p)].st \in State
  BY <1>1 DEF TypeOK
<1> QED BY <1>1, <1>2 DEF StateAt, NextAt, KeyAt

\* What the places show depends on the files only
LEMMA SameFiles ==
    ASSUME file' = file, NEW p, NEW j
    PROVE  /\ StateAt(p)' = StateAt(p) /\ NextAt(p)' = NextAt(p)
           /\ Shows(p, j)' <=> Shows(p, j)
BY DEF Shows, StateAt, NextAt, KeyAt

\* What a run that reserves a block has to go by, and what it leaves
LEMMA CommitKnown ==
    ASSUME TInv, NEW r \in Runs, Commit(r), HasRead(r), NEW p, p = run[r].at
    PROVE  /\ p \in Places /\ run[r].st \in State /\ run[r].keyNext \in 0 .. Capacity
           /\ run[r].split \in Counts \cup {NoSplit}
           /\ Room(Opened(r), run[r].sector, Outside(r), run[r].need)
           /\ run[r].keyNext - 1 <= Outside(r) /\ Outside(r) \in Mark
           /\ Opened(r) \in State /\ Written(r) \in State
           /\ Written(r).highest \in Index /\ Written(r).highest >= Outside(r)
           /\ Written(r).count = Opened(r).count
           /\ StateAt(p)' = Written(r)
           /\ \A q \in Places : q # p => file'[q] = file[q]
           /\ p \in KeyFiles => file'[p].next = Written(r).highest + 1
           /\ file'[p].st = Written(r)
           /\ TypeOK' /\ run'[r].at = p
<1> DEFINE f == [next |-> IF p \in KeyFiles THEN Written(r).highest + 1 ELSE 0,
                 st |-> Written(r)]
<1>1. /\ p \in Places /\ file' = [file EXCEPT ![p] = f]
  BY CommitSteps DEF TInv, AtInv
<1>2. /\ Room(Opened(r), run[r].sector, Outside(r), run[r].need)
      /\ run[r].split \in Counts \cup {NoSplit}
  BY CommitRoom DEF TInv
<1>3. /\ Written(r) \in State /\ Written(r).highest \in Index /\ Written(r) # Fresh
      /\ Written(r).highest >= Outside(r) /\ Written(r).count = Opened(r).count
  BY <1>2, AdvancedType DEF Written, UpTo, Used
<1>4. /\ run[r].keyNext \in 0 .. Capacity /\ run[r].st \in State
      /\ run[r].keyNext - 1 <= Outside(r) /\ Outside(r) \in Mark
  <2>1. run[r].keyNext \in 0 .. Capacity /\ run[r].st \in State
    BY CourseType DEF TInv, TypeOK
  <2>2. Outside(r) >= run[r].keyNext - 1 /\ Outside(r) \in Mark /\ Outside(r) \in Int
    BY OutsideType DEF TInv
  <2> QED BY <2>1, <2>2
<1>9. run'[r].at = p
  <2> DEFINE c == [NoCourse EXCEPT !.at = run[r].at, !.next = Used(r) + 1, !.last = UpTo(r)]
  <2>1. c.at = run[r].at
    BY DEF NoCourse
  <2>2. run' = [run EXCEPT ![r] = c]
    BY CommitSteps
  <2> HIDE DEF c
  <2> QED BY <2>1, <2>2 DEF TInv, TypeOK
<1>5. /\ file'[p] = f /\ \A q \in Places : q # p => file'[q] = file[q]
      /\ file'[p].st = Written(r)
      /\ p \in KeyFiles => file'[p].next = Written(r).highest + 1
  BY <1>1 DEF TInv, TypeOK
<1>6. StateAt(p)' = Written(r)
  BY <1>3, <1>5 DEF StateAt
<1>7. TypeOK'
  BY CommitTypes DEF TInv
<1>8. Opened(r) \in State
  BY <1>2 DEF Room
<1> QED BY <1>1, <1>2, <1>3, <1>4, <1>5, <1>6, <1>7, <1>8, <1>9

\* What any place showed as used before a block is reserved somewhere, it still shows
LEMMA CommitKeeps ==
    ASSUME TInv, NEW r \in Runs, Commit(r), HasRead(r), NEW p \in Places, NEW j \in Index,
           Shows(p, j)
    PROVE  Shows(p, j)'
<1>0. PICK at : at = run[r].at
  OBVIOUS
<1>1. /\ at \in Places /\ StateAt(at)' = Written(r)
      /\ \A q \in Places : q # at => file'[q] = file[q]
      /\ Written(r) = Advanced(Opened(r), run[r].sector, Outside(r),
                               Top(Opened(r), run[r].sector, Outside(r)) + run[r].need)
  BY <1>0, CommitKnown DEF Written, UpTo, Used
<1>2. NextAt(p)' \in 0 .. Capacity /\ NextAt(p) \in 0 .. Capacity /\ StateAt(p) \in State
  BY CommitKnown, ReadTypeNext, ReadType DEF TInv
<1>3. ASSUME ShownBy(run[r].st, run[r].keyNext, j) PROVE ShownBy(Written(r), NextAt(p)', j)
  <2>1. /\ run[r].st \in State /\ run[r].split \in Counts \cup {NoSplit}
        /\ run[r].keyNext \in 0 .. Capacity /\ run[r].keyNext - 1 <= Outside(r)
        /\ Outside(r) \in Mark
    BY CommitKnown
  <2>2. Outside(r) >= run[r].keyNext - 1
    BY <2>1, MarkType
  <2>3. ShownBy(Opened(r), run[r].keyNext, j)
    BY <1>3, <2>1, <2>2, SplitShows DEF Opened
  <2>4. Room(Opened(r), run[r].sector, Outside(r), run[r].need)
    BY CommitKnown
  <2> QED BY <1>1, <1>2, <2>1, <2>3, <2>4, BlockKeeps
<1>4. CASE p = at
  <2>1. ShownBy(run[r].st, run[r].keyNext, j)
    BY <1>0, <1>4, ShowsIsShownBy DEF HasRead
  <2> QED BY <1>1, <1>3, <1>4, <2>1, ShowsIsShownByNext
<1>5. CASE p # at /\ KeyAt(p) = at
  <2>1. /\ p \in StateFiles /\ KeyOf[p] = at /\ at \in KeyFiles /\ at \notin StateFiles
        /\ file'[p] = file[p]
    <3>1. p \in StateFiles /\ KeyOf[p] = at
      BY <1>5 DEF KeyAt
    <3> QED BY <1>1, <1>5, <3>1, ConstantsAssumption DEF Places
  <2>2. NextAt(p) = file[at].next /\ NextAt(p)' = file'[at].next /\ NextAt(at) = file[at].next
    BY <2>1 DEF NextAt, KeyAt
  <2>3. StateAt(at) = file[at].st /\ StateAt(at)' = file'[at].st
    BY <2>1 DEF StateAt
  <2>4. CASE file[p].st = Fresh
    <3>1. StateAt(p) = StateAt(at) /\ StateAt(p)' = Written(r)
      BY <1>1, <2>1, <2>3, <2>4 DEF StateAt
    <3>2. ShownBy(run[r].st, run[r].keyNext, j)
      BY <1>0, <2>2, <3>1, ShowsIsShownBy DEF HasRead
    <3> QED BY <1>3, <3>1, <3>2, ShowsIsShownByNext
  <2>5. CASE file[p].st # Fresh
    <3>1. StateAt(p)' = StateAt(p)
      BY <2>1, <2>5 DEF StateAt
    <3>2. NextAt(p) <= NextAt(p)'
      <4>1. /\ NextAt(p)' = Written(r).highest + 1 /\ NextAt(p) = run[r].keyNext
        BY <1>0, <2>1, <2>2, CommitKnown DEF HasRead
      <4>2. /\ Written(r).highest \in Index /\ Written(r).highest >= Outside(r)
            /\ run[r].keyNext - 1 <= Outside(r) /\ Outside(r) \in Mark
            /\ run[r].keyNext \in 0 .. Capacity
        BY CommitKnown
      <4> QED BY <4>1, <4>2, CapacityIsNat DEF Index, Mark
    <3>3. ShownBy(StateAt(p), NextAt(p), j)
      BY ShowsIsShownBy
    <3> QED BY <1>2, <3>1, <3>2, <3>3, ShownMore, ShowsIsShownByNext
  <2> QED BY <2>4, <2>5
<1>6. CASE p # at /\ KeyAt(p) # at
  <2>1. KeyAt(p) \in Places
    BY ReadType DEF TInv
  <2>2. file'[p] = file[p] /\ file'[KeyAt(p)] = file[KeyAt(p)]
    BY <1>1, <1>6, <2>1
  <2>3. StateAt(p)' = StateAt(p) /\ NextAt(p)' = NextAt(p)
    BY <2>2 DEF StateAt, NextAt, KeyAt
  <2> QED BY <2>3, ShowsIsShownBy, ShowsIsShownByNext
<1> QED BY <1>4, <1>5, <1>6

\* A place does not give out what it shows as used, and shows what it has given out
LEMMA CommitOffers ==
    ASSUME TInv, NEW r \in Runs, Commit(r), HasRead(r), NEW j \in Used(r) + 1 .. UpTo(r),
           NEW at, at = run[r].at
    PROVE  /\ j \in Index /\ ~Shows(at, j) /\ Shows(at, j)'
           /\ j \in Span(Opened(r).count, run[r].sector)
           /\ j \notin run[r].seen
           /\ Opened(r).count = 1 => j > Outside(r)
<1> DEFINE i == run[r].sector
           out == Outside(r)
           need == run[r].need
<1>1. /\ at \in Places /\ run[r].st \in State /\ run[r].keyNext \in 0 .. Capacity
      /\ run[r].split \in Counts \cup {NoSplit} /\ out \in Mark
      /\ Room(Opened(r), i, out, need) /\ run[r].keyNext - 1 <= out
      /\ StateAt(at)' = Written(r) /\ TypeOK'
      /\ Opened(r) \in State
  BY CommitKnown
<1>2. /\ Used(r) = Top(Opened(r), i, out) /\ UpTo(r) = Top(Opened(r), i, out) + need
      /\ Written(r) = Advanced(Opened(r), i, out, Top(Opened(r), i, out) + need)
  BY DEF Used, UpTo, Written
<1>3. NextAt(at)' \in 0 .. Capacity
  BY <1>1, ReadTypeNext
<1>4. ~ShownBy(Opened(r), run[r].keyNext, j) /\ ShownBy(Written(r), NextAt(at)', j)
  BY <1>1, <1>2, <1>3, BlockShown
<1>5. /\ Used(r) \in Mark /\ Used(r) + 1 \in Index /\ UpTo(r) \in Index
      /\ Used(r) + 1 .. UpTo(r) \subseteq Span(Opened(r).count, i)
  BY <1>1, <1>2, BlockType
<1>6. j \in Index /\ j > Used(r) /\ Used(r) \in Int /\ j \in Int
  <2>1. Used(r) \in Int /\ UpTo(r) \in Int /\ Used(r) + 1 >= 0 /\ UpTo(r) <= Capacity - 1
    <3>1. Used(r) \in Int
      BY <1>5, MarkType
    <3>2. UpTo(r) \in Int /\ UpTo(r) <= Capacity - 1
      BY <1>5, CapacityIsNat DEF Index
    <3>3. Used(r) + 1 >= 0
      BY <1>5, CapacityIsNat DEF Index
    <3> QED BY <3>1, <3>2, <3>3
  <2> QED BY <2>1, CapacityIsNat DEF Index
<1>7. ~Shows(at, j)
  <2>1. out >= run[r].keyNext - 1
    BY <1>1, MarkType
  <2>2. ~ShownBy(run[r].st, run[r].keyNext, j)
    BY <1>1, <1>4, <1>6, <2>1, SplitShows DEF Opened
  <2> QED BY <2>2, ShowsIsShownBy DEF HasRead
<1>8. Shows(at, j)'
  BY <1>1, <1>4, ShowsIsShownByNext
<1>9. j \notin run[r].seen
  <2>1. j \in Lo(Opened(r), i) .. End(Opened(r), i)
    BY <1>5, SpanOfState DEF Span
  <2>2. ~Stale(Opened(r), i, Used(r), run[r].seen)
    BY CommitSteps
  <2> QED BY <1>6, <2>1, <2>2 DEF Stale
<1>10. Opened(r).count = 1 => j > out
  <2>1. Opened(r).count = 1 => Used(r) >= out
    BY <1>1, <1>2, TopType DEF Room
  <2>2. out \in Int
    BY <1>1, MarkType
  <2> QED BY <1>6, <2>1, <2>2
<1> QED BY <1>5, <1>6, <1>7, <1>8, <1>9, <1>10

-----------------------------------------------------------------------------
(* Used as documented.                                                     *)

\* What is left of the block a run has reserved
Reserved(r) == IF pc[r] \in {"record", "sign"} THEN run[r].next .. run[r].last ELSE {}

\* j has signed, or a run or the session holds it
Claimed(j) == j \in signed \/ j = taken \/ \E r \in Runs : j \in Reserved(r)

\* The used-index record is on for every run
Lists == use \in {"record", "turns"}

\* Index j is none of the copy's sector
Apart(p, j) == use = "sectors" /\ passed /\ j \notin Span(Parts, OwnSector[p])

UsesTypes ==
    /\ TInv
    /\ taken \in Mark /\ use \in Uses /\ passed \in BOOLEAN
    /\ passed => use \in {"sectors", "move"}
    /\ taken # NoIndex => use = "turns"

\* A run keeps to the use
Keeps(r) ==
    /\ run[r].at \in Homes
    /\ run[r].split \in Splits /\ run[r].sector \in SectorsOf
    /\ run[r].listed = Lists
    /\ Lists => run[r].split = NoSplit
    /\ use = "sectors" /\ passed => run[r].sector = OwnSector[run[r].at]

AskedInv == \A r \in Runs : pc[r] \in {"asked", "held"} => Keeps(r)

LockedInv == \A r \in Runs : pc[r] = "held" => HasRead(r)

FilesInv ==
    /\ \A p \in Places : file[p].st.count \in IF Lists THEN {1} ELSE {1, Parts}
    /\ use = "record" => \A p \in KeyFiles : file[p].next >= FirstIndex
    /\ use = "move" /\ ~passed => file[MovedTo].st = Fresh

HandsInv ==
    /\ \A r \in Runs : \A j \in Reserved(r) : j \notin signed /\ j # taken
    /\ \A r, s \in Runs : r # s => Reserved(r) \cap Reserved(s) = {}
    /\ taken \notin signed
    /\ reused = {}

\* What has signed is in the record, save what was used before it was switched on
RecordInv ==
    Lists => /\ \A j \in signed : j <= rec \/ (use = "record" /\ j < FirstIndex)
             /\ taken <= rec
             /\ \A r \in Runs : pc[r] = "sign" => run[r].last <= rec

\* Why a place where the key signs will not give out index j
HomeKnows(p, j) ==
    \/ Shows(p, j)
    \/ use = "sight" /\ j \in signed
    \/ Lists /\ (j \in signed \/ j = taken) /\ j <= rec
    \/ Apart(p, j)

\* ... and a run that is about to reserve a block there
RunKnows(r, j) ==
    \/ Shows(run[r].at, j)
    \/ use = "sight" /\ j \in run[r].seen
    \/ Lists /\ j <= run[r].recHi
    \/ Apart(run[r].at, j)

HomesInv == \A p \in Homes, j \in Index : Claimed(j) => HomeKnows(p, j)

RunsInv ==
    \A r \in Runs, j \in Index :
        pc[r] \in {"asked", "held"} /\ Claimed(j) => RunKnows(r, j)

UInv ==
    /\ UsesTypes /\ AskedInv /\ LockedInv /\ FilesInv
    /\ HandsInv /\ RecordInv /\ HomesInv /\ RunsInv

LEMMA PlacesOfUse ==
    /\ Original \in KeyFiles /\ Original \in Places /\ Original \notin StateFiles
    /\ MovedTo \in StateFiles /\ MovedTo \in Places /\ MovedTo # Original
    /\ KeyOf[MovedTo] = Original
    /\ Homes \subseteq Places
    /\ Parts \in Counts /\ Parts \in Nat /\ Parts > 1
    /\ \A p \in KeyFiles : OwnSector[p] \in 0 .. Parts - 1
<1>1. Parts \in Counts /\ Parts \in Nat /\ Parts > 1
  BY UsesAssumption, CapacityIsNat DEF Counts
<1> QED BY <1>1, ConstantsAssumption, UsesAssumption DEF Places, Homes

LEMMA UsesInitInv == UsesInit => UInv
<1> SUFFICES ASSUME UsesInit PROVE UInv
  OBVIOUS
<1>1. /\ Init /\ taken = -1 /\ passed = FALSE /\ use \in Uses /\ reused = {}
      /\ use = "turns" => rec = FirstIndex - 1
      /\ signed = 0 .. FirstIndex - 1 /\ \A r \in Runs : pc[r] = "idle"
      /\ FirstIndex \in 0 .. Capacity
  BY ConstantsAssumption DEF UsesInit, Init, NoIndex
<1>2. TInv
  BY <1>1, TypesInit
<1>3. UsesTypes
  BY <1>1, <1>2, MarkType DEF UsesTypes, NoIndex
<1>4. /\ \A p \in Places : file[p].st = Fresh
      /\ \A p \in KeyFiles : file[p].next = FirstIndex
  BY <1>1 DEF Init, Places
<1>5. FilesInv
  <2>1. \A p \in KeyFiles : file[p].next >= FirstIndex
    BY <1>1, <1>4
  <2> QED BY <1>4, <2>1, FreshIsState, PlacesOfUse DEF FilesInv
<1>6. HandsInv /\ AskedInv /\ LockedInv /\ RunsInv
  BY <1>1 DEF HandsInv, Reserved, AskedInv, LockedInv, RunsInv
<1>7. RecordInv
  <2>1. rec \in Mark /\ rec \in Int /\ rec >= -1 /\ FirstIndex \in Int
    BY <1>1, <1>2, CapacityIsNat DEF TInv, TypeOK, Mark
  <2>2. ASSUME NEW j \in signed, Lists PROVE j <= rec \/ (use = "record" /\ j < FirstIndex)
    BY <1>1, <2>1, <2>2 DEF Lists
  <2> QED BY <1>1, <2>1, <2>2 DEF RecordInv
<1>8. HomesInv
  <2> SUFFICES ASSUME NEW p \in Homes, NEW j \in Index, Claimed(j) PROVE Shows(p, j)
    BY DEF HomesInv, HomeKnows
  <2>1. p = Original /\ p \in KeyFiles /\ p \in Places /\ p \notin StateFiles
    BY <1>1, PlacesOfUse DEF Homes
  <2>2. j \in 0 .. FirstIndex - 1
    BY <1>1 DEF Claimed, Reserved, Index
  <2>3. StateAt(p) = Fresh /\ NextAt(p) = FirstIndex
    BY <1>4, <2>1 DEF StateAt, NextAt, KeyAt
  <2>4. j <= FirstIndex - 1
    BY <2>2
  <2>5. ShownBy(Fresh, FirstIndex, j)
    BY <1>1, <2>4, FreshIsState, ShownUndivided
  <2> QED BY <2>3, <2>5, ShowsIsShownBy
<1> QED BY <1>3, <1>5, <1>6, <1>7, <1>8 DEF UInv

\* While no run is under way there is little to know
LEMMA CalmHolds ==
    ASSUME Calm'
    PROVE  /\ AskedInv' /\ LockedInv' /\ RunsInv'
           /\ \A r \in Runs : Reserved(r)' = {} /\ pc'[r] # "sign"
BY DEF Calm, AskedInv, LockedInv, RunsInv, Reserved

LEMMA PassOnInv == ASSUME UInv, PassOn PROVE UInv'
<1>1. /\ ~passed /\ passed' = TRUE /\ Calm /\ taken' = taken /\ use' = use
      /\ UNCHANGED <<lock, rec, pc, run, signed, reused>>
      /\ use \in {"sectors", "move"}
  BY DEF PassOn, vars
<1>2. Calm'
  BY <1>1 DEF Calm
<1>3. \A q \in Places : file'[q] \in {file[q], file[Original]}
  BY <1>1, PlacesOfUse DEF PassOn, vars
<1>4. TypeOK'
  <2>1. file' \in [Places -> [next : 0 .. Capacity, st : State]]
    BY PlacesOfUse DEF PassOn, vars, UInv, UsesTypes, TInv, TypeOK
  <2> QED BY <1>1, <2>1 DEF UInv, UsesTypes, TInv, TypeOK
<1>5. UsesTypes'
  <2>1. AtInv'
    BY <1>2 DEF AtInv, Calm
  <2> QED BY <1>1, <1>4, <2>1 DEF UInv, UsesTypes, TInv
<1>6. FilesInv'
  BY <1>1, <1>3, PlacesOfUse DEF UInv, FilesInv, Lists
<1>7. HandsInv' /\ RecordInv'
  BY <1>1, <1>2, CalmHolds DEF UInv, HandsInv, RecordInv, Lists
<1>8. HomesInv'
  <2> SUFFICES ASSUME NEW p \in Homes', NEW j \in Index, Claimed(j)' PROVE Shows(p, j)'
    BY DEF HomesInv, HomeKnows
  <2>1. Claimed(j)
    BY <1>1 DEF Claimed, Reserved
  <2>2. Original \in Homes
    BY <1>1 DEF Homes
  <2>3. Shows(Original, j)
    BY <1>1, <2>1, <2>2 DEF UInv, HomesInv, HomeKnows, Lists, Apart
  <2>4. StateAt(Original) = file[Original].st /\ NextAt(Original) = file[Original].next
    BY PlacesOfUse DEF StateAt, NextAt, KeyAt
  <2>5. StateAt(p)' = file[Original].st /\ NextAt(p)' = file[Original].next
    <3>1. CASE use = "sectors"
      <4>1. p \in KeyFiles /\ p \in Places /\ p \notin StateFiles
        BY <1>1, <3>1, ConstantsAssumption DEF Homes, Places
      <4>2. file'[p] = file[Original]
        BY <1>1, <3>1, <4>1 DEF PassOn
      <4> QED BY <4>1, <4>2 DEF StateAt, NextAt, KeyAt
    <3>2. CASE use = "move"
      <4>1. p = MovedTo /\ file' = file
        BY <1>1, <3>2 DEF Homes, PassOn, vars
      <4>2. file[p].st = Fresh
        BY <1>1, <3>2, <4>1 DEF UInv, FilesInv
      <4> QED BY <4>1, <4>2, PlacesOfUse DEF StateAt, NextAt, KeyAt
    <3> QED BY <1>1, <3>1, <3>2
  <2> QED BY <2>3, <2>4, <2>5, ShowsIsShownBy, ShowsIsShownByNext
<1> QED BY <1>2, <1>5, <1>6, <1>7, <1>8, CalmHolds DEF UInv

\* What a run or a place knows it goes on knowing
LEMMA RunsGoOn ==
    ASSUME UNCHANGED <<use, passed>>, NEW s \in Runs, NEW p, p = run[s].at, run'[s].at = p,
           run'[s].seen = run[s].seen, run'[s].recHi = run[s].recHi,
           NEW j, Shows(p, j) => Shows(p, j)', RunKnows(s, j)
    PROVE  RunKnows(s, j)'
<1>1. Apart(p, j)' <=> Apart(p, j)
  BY DEF Apart
<1> QED BY <1>1 DEF RunKnows, Lists

LEMMA HomesGoOn ==
    ASSUME UNCHANGED <<use, passed, taken>>, signed \subseteq signed',
           rec \in Mark, rec' \in Mark, rec <= rec',
           NEW p, NEW j \in Index, Shows(p, j) => Shows(p, j)', HomeKnows(p, j)
    PROVE  HomeKnows(p, j)'
<1>1. Apart(p, j)' <=> Apart(p, j)
  BY DEF Apart
<1>2. j <= rec => j <= rec'
  BY MarkType
<1> QED BY <1>1, <1>2 DEF HomeKnows, Lists

\* A step of run r that touches no file and claims no index
Aside(r) ==
    /\ TInv' /\ UNCHANGED <<file, taken, use, passed>>
    /\ \A s \in Runs : s # r => /\ pc'[s] = pc[s] /\ run'[s] = run[s]
                                /\ pc[s] = "held" /\ lock[run[s].at] = s =>
                                      lock'[run[s].at] = s
    /\ signed \subseteq signed' /\ rec <= rec'
    /\ \A j \in Index : Claimed(j)' => Claimed(j)

LEMMA OthersKnow ==
    ASSUME UInv, NEW r \in Runs, Aside(r)
    PROVE  /\ UsesTypes' /\ FilesInv' /\ HomesInv'
           /\ \A s \in Runs : s # r =>
                 /\ pc'[s] \in {"asked", "held"} => Keeps(s)'
                 /\ pc'[s] = "held" => HasRead(s)'
                 /\ \A j \in Index :
                       pc'[s] \in {"asked", "held"} /\ Claimed(j)' => RunKnows(s, j)'
           /\ \A s \in Runs : s # r => Reserved(s)' = Reserved(s)
<1>1. UsesTypes'
  BY DEF UInv, UsesTypes, Aside
<1>2. FilesInv'
  BY DEF UInv, FilesInv, Lists, Aside
<1>3. HomesInv'
  <2> SUFFICES ASSUME NEW p \in Homes', NEW j \in Index, Claimed(j)' PROVE HomeKnows(p, j)'
    BY DEF HomesInv
  <2>1. p \in Homes /\ Claimed(j)
    BY DEF Homes, Aside
  <2>2. Shows(p, j) => Shows(p, j)'
    BY SameFiles DEF Aside
  <2>3. HomeKnows(p, j) /\ rec \in Mark /\ rec' \in Mark
    BY <1>1, <2>1 DEF UInv, HomesInv, UsesTypes, TInv, TypeOK
  <2> QED BY <2>2, <2>3, HomesGoOn DEF Aside
<1>4. ASSUME NEW s \in Runs, s # r
      PROVE  /\ pc'[s] \in {"asked", "held"} => Keeps(s)'
             /\ pc'[s] = "held" => HasRead(s)'
             /\ Reserved(s)' = Reserved(s)
  <2>1. /\ pc'[s] = pc[s] /\ run'[s] = run[s]
        /\ pc[s] = "held" /\ lock[run[s].at] = s => lock'[run[s].at] = s
    BY <1>4 DEF Aside
  <2>2. UNCHANGED <<file, use, passed>>
    BY DEF Aside
  <2>3. pc'[s] \in {"asked", "held"} => Keeps(s)'
    BY <2>1, <2>2 DEF UInv, AskedInv, Keeps, Homes, Lists
  <2>4. pc'[s] = "held" => HasRead(s)'
    BY <2>1, <2>2 DEF UInv, LockedInv, HasRead, StateAt, NextAt, KeyAt
  <2> QED BY <2>1, <2>3, <2>4 DEF Reserved
<1>5. ASSUME NEW s \in Runs, s # r, NEW j \in Index, pc'[s] \in {"asked", "held"}, Claimed(j)'
      PROVE  RunKnows(s, j)'
  <2>0. PICK p : p = run[s].at
    OBVIOUS
  <2>1. pc'[s] = pc[s] /\ run'[s] = run[s] /\ Claimed(j) /\ UNCHANGED <<use, passed>>
    BY <1>5 DEF Aside
  <2>2. RunKnows(s, j)
    BY <1>5, <2>1 DEF UInv, RunsInv
  <2>3. Shows(p, j) => Shows(p, j)'
    BY SameFiles DEF Aside
  <2> QED BY <2>0, <2>1, <2>2, <2>3, RunsGoOn
<1> QED BY <1>1, <1>2, <1>3, <1>4, <1>5

\* Run r itself, after such a step
LEMMA AsideInv ==
    ASSUME UInv, NEW r \in Runs, Aside(r), HandsInv', RecordInv',
           pc'[r] \in {"asked", "held"} => Keeps(r)',
           pc'[r] = "held" => HasRead(r)',
           \A j \in Index :
               pc'[r] \in {"asked", "held"} /\ Claimed(j)' => RunKnows(r, j)'
    PROVE  UInv'
<1>1. AskedInv' /\ LockedInv' /\ RunsInv'
  BY OthersKnow DEF AskedInv, LockedInv, RunsInv
<1> QED BY <1>1, OthersKnow DEF UInv

\* The hands hold no more, and nothing signs
LEMMA HandsStand ==
    ASSUME HandsInv, UNCHANGED <<taken, signed, reused>>,
           \A s \in Runs : Reserved(s)' \subseteq Reserved(s)
    PROVE  HandsInv' /\ \A j \in Index : Claimed(j)' => Claimed(j)
BY DEF HandsInv, Claimed

LEMMA AskInv ==
    ASSUME UInv, UNCHANGED <<taken, use, passed>>,
           NEW r \in Runs, NEW p \in Homes, NEW count \in Splits, NEW sector \in SectorsOf,
           NEW need \in NeedsOf[use], NEW seen \in SUBSET Index, NEW listed \in BOOLEAN,
           Ask(r, p, count, sector, need, seen, listed),
           listed = Lists, Lists => count = NoSplit, use = "sight" => seen = signed,
           use = "sectors" /\ passed => sector = OwnSector[p]
    PROVE  UInv'
<1> DEFINE c == [at |-> p, split |-> count, sector |-> sector, need |-> need,
                 seen |-> seen, listed |-> listed, recHi |-> IF listed THEN rec ELSE -1,
                 keyNext |-> 0, st |-> Fresh, next |-> 0, last |-> -1]
<1>1. /\ pc[r] = "idle" /\ run' = [run EXCEPT ![r] = c] /\ pc' = [pc EXCEPT ![r] = "asked"]
      /\ UNCHANGED <<file, lock, rec, signed, reused>>
  BY DEF Ask, Goto
<1>2. /\ c.at = p /\ c.split = count /\ c.sector = sector /\ c.seen = seen
      /\ c.listed = listed /\ c.recHi = IF listed THEN rec ELSE -1
  OBVIOUS
<1> HIDE DEF c
<1>3. TInv'
  <2>1. need \in 1 .. MaxBlock
    BY UsesAssumption DEF UInv, UsesTypes
  <2>2. count \in Nat /\ sector \in Int /\ p \in Places
    BY PlacesOfUse DEF Splits, SectorsOf, NoSplit, NoSector
  <2> QED BY <2>1, <2>2, AskTypes DEF UInv, UsesTypes
<1>4. /\ run'[r] = c /\ pc'[r] = "asked"
      /\ \A s \in Runs : s # r => pc'[s] = pc[s] /\ run'[s] = run[s]
  BY <1>1 DEF UInv, UsesTypes, TInv, TypeOK
<1>5. \A s \in Runs : Reserved(s)' \subseteq Reserved(s)
  BY <1>4 DEF Reserved
<1>6. HandsInv' /\ \A j \in Index : Claimed(j)' => Claimed(j)
  BY <1>1, <1>5, HandsStand DEF UInv
<1>7. RecordInv'
  BY <1>1, <1>4 DEF UInv, RecordInv, Lists
<1>8. Aside(r)
  <2>1. rec <= rec'
    BY <1>1, MarkType DEF UInv, UsesTypes, TInv, TypeOK
  <2> QED BY <1>1, <1>3, <1>4, <1>6, <2>1 DEF Aside
<1>9. Keeps(r)'
  BY <1>2, <1>4 DEF Keeps, Homes, Lists
<1>10. ASSUME NEW j \in Index, Claimed(j)' PROVE RunKnows(r, j)'
  <2>1. HomeKnows(p, j)
    BY <1>6, <1>10 DEF UInv, HomesInv
  <2>2. Shows(p, j)' <=> Shows(p, j)
    BY <1>1, SameFiles
  <2>3. Apart(p, j)' <=> Apart(p, j)
    BY DEF Apart
  <2>4. /\ run'[r].at = p /\ run'[r].seen = seen
        /\ Lists => run'[r].recHi = rec
    BY <1>2, <1>4
  <2>5. Lists' <=> Lists
    BY DEF Lists
  <2> QED BY <2>1, <2>2, <2>3, <2>4, <2>5 DEF HomeKnows, RunKnows
<1> QED BY <1>4, <1>6, <1>7, <1>8, <1>9, <1>10, AsideInv

LEMMA AsksInv ==
    ASSUME UInv, UNCHANGED <<taken, use, passed>>, NEW r \in Runs, Asks(r)
    PROVE  UInv'
<1>1. signed \subseteq Index
  BY DEF UInv, UsesTypes, TInv, TypeOK
<1>2. CASE InSectors(r)
  <2>1. PICK p \in Homes, count \in Splits, sector \in SectorsOf, need \in NeedsOf[use] :
           /\ passed => sector = OwnSector[p]
           /\ Ask(r, p, count, sector, need, {}, FALSE)
    BY <1>2 DEF InSectors
  <2>2. FALSE = Lists /\ use # "sight"
    BY <1>2 DEF InSectors, Lists
  <2>3. {} \in SUBSET Index /\ FALSE \in BOOLEAN
    OBVIOUS
  <2> QED BY <2>1, <2>2, <2>3, AskInv
<1>3. CASE Moved(r)
  <2>1. PICK p \in Homes, count \in Splits, sector \in SectorsOf, need \in NeedsOf[use] :
           Ask(r, p, count, sector, need, {}, FALSE)
    BY <1>3 DEF Moved
  <2>2. FALSE = Lists /\ use # "sight" /\ use # "sectors"
    BY <1>3 DEF Moved, Lists
  <2>3. {} \in SUBSET Index /\ FALSE \in BOOLEAN
    OBVIOUS
  <2> QED BY <2>1, <2>2, <2>3, AskInv
<1>4. CASE WithSight(r)
  <2>1. Original \in Homes
    BY <1>4 DEF WithSight, Homes, UInv, UsesTypes
  <2>2. PICK count \in Splits, sector \in SectorsOf, need \in NeedsOf[use] :
           Ask(r, Original, count, sector, need, signed, FALSE)
    BY <1>4 DEF WithSight
  <2>3. FALSE = Lists /\ use # "sectors" /\ FALSE \in BOOLEAN
    BY <1>4 DEF WithSight, Lists
  <2> QED BY <1>1, <2>1, <2>2, <2>3, AskInv
<1>5. CASE Listed(r)
  <2>1. Original \in Homes
    BY <1>5 DEF Listed, Homes, UInv, UsesTypes
  <2>2. NoSplit \in Splits /\ NoSector \in SectorsOf
    BY DEF Splits, SectorsOf
  <2> QED BY <1>5, <2>1, <2>2, AskInv DEF Listed, Lists
<1> QED BY <1>2, <1>3, <1>4, <1>5 DEF Asks

LEMMA TakeLockInv ==
    ASSUME UInv, UNCHANGED <<taken, use, passed>>, NEW r \in Runs, Lock(r)
    PROVE  UInv'
<1>0. PICK p : p = run[r].at
  OBVIOUS
<1> DEFINE c == [run[r] EXCEPT !.keyNext = NextAt(p), !.st = StateAt(p)]
<1>1. /\ pc[r] = "asked" /\ pc' = [pc EXCEPT ![r] = "held"]
      /\ lock[p] = NoRun /\ lock' = [lock EXCEPT ![p] = r]
      /\ run' = [run EXCEPT ![r] = c]
      /\ UNCHANGED <<file, rec, signed, reused>>
  BY <1>0 DEF Lock, Goto
<1>2. /\ c.at = p /\ c.split = run[r].split /\ c.sector = run[r].sector
      /\ c.seen = run[r].seen /\ c.listed = run[r].listed /\ c.recHi = run[r].recHi
      /\ c.keyNext = NextAt(p) /\ c.st = StateAt(p)
  <2>1. run[r] \in Course
    BY DEF UInv, UsesTypes, TInv, TypeOK
  <2> QED BY <1>0, <2>1 DEF Course
<1> HIDE DEF c
<1>3. TInv'
  BY LockTypes DEF UInv, UsesTypes
<1>4. /\ run'[r] = c /\ pc'[r] = "held" /\ p \in Places /\ lock'[p] = r
      /\ \A s \in Runs : s # r => pc'[s] = pc[s] /\ run'[s] = run[s]
  BY <1>0, <1>1 DEF UInv, UsesTypes, TInv, TypeOK, AtInv
<1>5. \A s \in Runs : Reserved(s)' \subseteq Reserved(s)
  BY <1>4 DEF Reserved
<1>6. HandsInv' /\ \A j \in Index : Claimed(j)' => Claimed(j)
  BY <1>1, <1>5, HandsStand DEF UInv
<1>7. RecordInv'
  BY <1>1, <1>4 DEF UInv, RecordInv, Lists
<1>8. Aside(r)
  <2>1. rec <= rec'
    BY <1>1, MarkType DEF UInv, UsesTypes, TInv, TypeOK
  <2>2. ASSUME NEW s \in Runs, lock[run[s].at] = s PROVE lock'[run[s].at] = s
    <3>1. run[s].at # p
      BY <1>1, <2>2, ConstantsAssumption
    <3> QED BY <1>1, <2>2, <3>1 DEF UInv, UsesTypes, TInv, TypeOK
  <2> QED BY <1>1, <1>3, <1>4, <1>6, <2>1, <2>2 DEF Aside
<1>9. Keeps(r)'
  <2>1. Keeps(r)
    BY <1>1 DEF UInv, AskedInv
  <2> QED BY <1>0, <1>2, <1>4, <2>1 DEF Keeps, Homes, Lists
<1>10. HasRead(r)'
  <2>1. StateAt(p)' = StateAt(p) /\ NextAt(p)' = NextAt(p)
    BY <1>1, SameFiles
  <2>2. run'[r].at = p
    BY <1>2, <1>4
  <2> QED BY <1>2, <1>4, <2>1, <2>2 DEF HasRead
<1>11. ASSUME NEW j \in Index, Claimed(j)' PROVE RunKnows(r, j)'
  <2>1. RunKnows(r, j)
    BY <1>1, <1>6, <1>11 DEF UInv, RunsInv
  <2>2. Shows(p, j)' <=> Shows(p, j)
    BY <1>1, SameFiles
  <2> QED BY <1>0, <1>2, <1>4, <2>1, <2>2, RunsGoOn
<1> QED BY <1>6, <1>7, <1>8, <1>9, <1>10, <1>11, AsideInv

\* The rest of a run's course touches no file either
LEMMA RecordStepInv ==
    ASSUME UInv, UNCHANGED <<taken, use, passed>>, NEW r \in Runs, UpdateRecord(r)
    PROVE  UInv'
<1>1. /\ pc[r] = "record" /\ pc' = [pc EXCEPT ![r] = "sign"]
      /\ rec' = Larger(rec, run[r].last) /\ UNCHANGED <<file, lock, run, signed, reused>>
  BY DEF UpdateRecord, Goto
<1>2. TInv'
  BY GoOnTypes DEF UInv, UsesTypes
<1>3. rec' >= rec /\ rec' >= run[r].last /\ rec \in Int /\ run[r].last \in Int /\ rec' \in Int
  <2>1. rec \in Mark /\ run[r].last \in Mark
    BY CourseType DEF UInv, UsesTypes, TInv, TypeOK
  <2>2. rec \in Int /\ run[r].last \in Int
    BY <2>1, MarkType
  <2> QED BY <1>1, <2>2, Choices
<1>4. /\ pc'[r] = "sign" /\ \A s \in Runs : s # r => pc'[s] = pc[s] /\ run'[s] = run[s]
  BY <1>1 DEF UInv, UsesTypes, TInv, TypeOK
<1>5. \A s \in Runs : Reserved(s)' \subseteq Reserved(s)
  BY <1>1, <1>4 DEF Reserved
<1>6. HandsInv' /\ \A j \in Index : Claimed(j)' => Claimed(j)
  BY <1>1, <1>5, HandsStand DEF UInv
<1>7. RecordInv'
  <2>1. ASSUME NEW j \in Int, j <= rec PROVE j <= rec'
    BY <1>3, <2>1
  <2>2. /\ \A j \in signed : j \in Int
        /\ taken \in Int /\ \A s \in Runs : run[s].last \in Int
    BY CourseType, MarkType DEF UInv, UsesTypes, TInv, TypeOK
  <2>3. Lists' <=> Lists
    BY DEF Lists
  <2> QED BY <1>1, <1>3, <1>4, <2>1, <2>2, <2>3 DEF UInv, RecordInv
<1>8. Aside(r)
  BY <1>1, <1>2, <1>3, <1>4, <1>6 DEF Aside
<1> QED BY <1>4, <1>6, <1>7, <1>8, AsideInv

LEMMA SignInv ==
    ASSUME UInv, UNCHANGED <<taken, use, passed>>, NEW r \in Runs, Sign(r)
    PROVE  UInv'
<1> DEFINE i == run[r].next
           c == [run[r] EXCEPT !.next = i + 1]
<1>1. /\ pc[r] = "sign" /\ i <= run[r].last /\ run' = [run EXCEPT ![r] = c]
      /\ signed' = signed \cup {i}
      /\ reused' = IF i \in signed THEN reused \cup {i} ELSE reused
      /\ UNCHANGED <<file, lock, rec, pc>>
  BY DEF Sign, MayTake
<1>2. c.next = i + 1 /\ c.last = run[r].last
  <2>1. run[r] \in Course
    BY DEF UInv, UsesTypes, TInv, TypeOK
  <2> QED BY <2>1 DEF Course
<1> HIDE DEF c
<1>3. TInv'
  BY GoOnTypes DEF UInv, UsesTypes
<1>4. /\ run'[r] = c /\ \A s \in Runs : s # r => run'[s] = run[s]
  BY <1>1 DEF UInv, UsesTypes, TInv, TypeOK
<1>5. i \in Nat /\ run[r].last \in Int
  <2>1. run[r].next \in 0 .. Capacity /\ run[r].last \in Mark
    BY CourseType DEF UInv, UsesTypes, TInv, TypeOK
  <2>2. i \in Nat
    BY <2>1
  <2>3. run[r].last \in Int
    BY <2>1, MarkType
  <2> QED BY <2>2, <2>3
<1>6. /\ i \in Reserved(r) /\ Reserved(r)' = Reserved(r) \ {i}
      /\ \A s \in Runs : s # r => Reserved(s)' = Reserved(s)
  <2>1. Reserved(r) = i .. run[r].last /\ Reserved(r)' = i + 1 .. run[r].last
    BY <1>1, <1>2, <1>4 DEF Reserved
  <2>2. \A s \in Runs : s # r => Reserved(s)' = Reserved(s)
    BY <1>1, <1>4 DEF Reserved
  <2> HIDE DEF i
  <2> QED BY <1>1, <1>5, <2>1, <2>2
<1>7. i \notin signed /\ i # taken /\ \A s \in Runs : s # r => i \notin Reserved(s)
  BY <1>6 DEF UInv, HandsInv
<1>8. HandsInv'
  BY <1>1, <1>6, <1>7 DEF UInv, HandsInv
<1>9. \A j \in Index : Claimed(j)' => Claimed(j)
  BY <1>1, <1>6 DEF Claimed
<1>10. RecordInv'
  <2>1. Lists => i <= rec
    <3>1. Lists => run[r].last <= rec
      BY <1>1 DEF UInv, RecordInv
    <3>2. rec \in Int
      BY MarkType DEF UInv, UsesTypes, TInv, TypeOK
    <3> HIDE DEF i
    <3> QED BY <1>1, <1>5, <3>1, <3>2
  <2>2. \A s \in Runs : run'[s].last = run[s].last
    BY <1>2, <1>4
  <2>3. Lists' <=> Lists
    BY DEF Lists
  <2> QED BY <1>1, <2>1, <2>2, <2>3 DEF UInv, RecordInv
<1>11. Aside(r)
  <2>1. rec <= rec'
    BY <1>1, MarkType DEF UInv, UsesTypes, TInv, TypeOK
  <2> QED BY <1>1, <1>3, <1>4, <1>9, <2>1 DEF Aside
<1> QED BY <1>1, <1>8, <1>10, <1>11, AsideInv

LEMMA QuitInv ==
    ASSUME UInv, UNCHANGED <<taken, use, passed>>, NEW r \in Runs, Quit(r)
    PROVE  UInv'
<1>1. /\ pc' = [pc EXCEPT ![r] = "idle"] /\ run' = [run EXCEPT ![r] = NoCourse]
      /\ lock' = Unlocked(r) /\ UNCHANGED <<file, rec, signed, reused>>
  BY DEF Quit
<1>2. TInv'
  BY GoOnTypes DEF UInv, UsesTypes
<1>3. /\ pc'[r] = "idle" /\ \A s \in Runs : s # r => pc'[s] = pc[s] /\ run'[s] = run[s]
  BY <1>1 DEF UInv, UsesTypes, TInv, TypeOK
<1>4. \A s \in Runs : Reserved(s)' \subseteq Reserved(s)
  BY <1>3 DEF Reserved
<1>5. HandsInv' /\ \A j \in Index : Claimed(j)' => Claimed(j)
  BY <1>1, <1>4, HandsStand DEF UInv
<1>6. RecordInv'
  BY <1>1, <1>3 DEF UInv, RecordInv, Lists
<1>7. Aside(r)
  <2>1. rec <= rec'
    BY <1>1, MarkType DEF UInv, UsesTypes, TInv, TypeOK
  <2>2. ASSUME NEW s \in Runs, s # r, pc[s] = "held", lock[run[s].at] = s
        PROVE  lock'[run[s].at] = s
    <3>1. run[s].at \in Places
      BY <2>2 DEF UInv, UsesTypes, TInv, AtInv
    <3> QED BY <1>1, <2>2, <3>1 DEF Unlocked
  <2> QED BY <1>1, <1>2, <1>3, <1>5, <2>1, <2>2 DEF Aside
<1> QED BY <1>3, <1>5, <1>6, <1>7, AsideInv

\* A block that is reserved
LEMMA BlockIsNew ==
    ASSUME UInv, NEW r \in Runs, Commit(r), NEW at, at = run[r].at,
           NEW j \in Used(r) + 1 .. UpTo(r)
    PROVE  /\ j \in Index /\ ~Claimed(j) /\ Shows(at, j)'
           /\ at \in Homes /\ Keeps(r) /\ HasRead(r)
           /\ \A p \in Homes : p # at => Apart(p, j)
<1>1. /\ pc[r] = "held" /\ at \in Homes /\ Keeps(r) /\ HasRead(r) /\ at \in Places
  BY CommitSteps, PlacesOfUse DEF UInv, AskedInv, LockedInv, Keeps
<1>2. /\ j \in Index /\ ~Shows(at, j) /\ Shows(at, j)'
      /\ j \in Span(Opened(r).count, run[r].sector) /\ j \notin run[r].seen
      /\ Opened(r).count = 1 => j > Outside(r)
  BY <1>1, CommitOffers DEF UInv, UsesTypes
<1>3. use = "sectors" /\ passed => j \in Span(Parts, OwnSector[at])
  <2> SUFFICES ASSUME use = "sectors", passed PROVE j \in Span(Parts, OwnSector[at])
    OBVIOUS
  <2>1. at \in KeyFiles /\ run[r].sector = OwnSector[at] /\ OwnSector[at] \in 0 .. Parts - 1
    BY <1>1, PlacesOfUse DEF Homes, Keeps
  <2>2. Opened(r).count = Parts
    <3>1. run[r].st.count \in {1, Parts} /\ run[r].split \in {NoSplit, Parts}
      <4>1. \A p \in Places : file[p].st.count \in {1, Parts}
        BY DEF UInv, FilesInv, Lists
      <4>2. KeyAt(at) \in Places /\ KeyAt(at) = at
        BY <1>1, <2>1, ConstantsAssumption DEF KeyAt, Places
      <4> QED BY <1>1, <2>1, <4>1, <4>2, ConstantsAssumption
            DEF HasRead, StateAt, Keeps, Splits, Places
    <3>2. run[r].sector # NoSector
      BY <2>1, PlacesOfUse DEF NoSector
    <3>3. Opened(r).count # 1
      BY <3>2, CommitSteps DEF SectorFits
    <3> QED BY <3>1, <3>3 DEF Opened, Split
  <2> QED BY <1>2, <2>1, <2>2
<1>4. ~Claimed(j)
  <2> SUFFICES ASSUME Claimed(j) PROVE FALSE
    OBVIOUS
  <2>1. RunKnows(r, j)
    BY <1>1, <1>2 DEF UInv, RunsInv
  <2>2. Lists /\ j <= run[r].recHi
    BY <1>2, <1>3, <2>1 DEF RunKnows, Apart
  <2>3. Opened(r).count = 1
    <3>1. run[r].split = NoSplit
      BY <1>1, <2>2 DEF Keeps
    <3>2. run[r].st.count = 1
      <4>1. \A p \in Places : file[p].st.count = 1
        BY <2>2 DEF UInv, FilesInv
      <4>2. at \in StateFiles => KeyOf[at] \in Places
        BY ConstantsAssumption DEF Places
      <4> QED BY <1>1, <4>1, <4>2 DEF HasRead, StateAt
    <3> QED BY <3>1, <3>2 DEF Opened, Split
  <2>4. Outside(r) >= run[r].recHi /\ Outside(r) \in Int /\ run[r].recHi \in Int /\ j \in Int
    BY <1>2, OutsideType, CourseType, MarkType DEF UInv, UsesTypes, TInv, TypeOK
  <2> QED BY <1>2, <2>2, <2>3, <2>4
<1>5. ASSUME NEW p \in Homes, p # at PROVE Apart(p, j)
  <2>1. use = "sectors" /\ passed /\ p \in KeyFiles /\ at \in KeyFiles
    BY <1>1, <1>5 DEF Homes
  <2>2. OwnSector[p] # OwnSector[at]
    BY <1>5, <2>1, UsesAssumption
  <2>3. j \in Span(Parts, OwnSector[at])
    BY <1>3, <2>1
  <2>4. Span(Parts, OwnSector[p]) \cap Span(Parts, OwnSector[at]) = {}
    BY <2>1, <2>2, PlacesOfUse, SpansApart
  <2> QED BY <2>1, <2>3, <2>4 DEF Apart
<1> QED BY <1>1, <1>2, <1>4, <1>5

\* Other runs inside a lock read another place, which does not change
LEMMA OthersStillRead ==
    ASSUME UInv, NEW r \in Runs, Commit(r), UNCHANGED <<use, passed>>,
           NEW s \in Runs, s # r, pc[s] = "held", run'[s] = run[s]
    PROVE  HasRead(s)'
<1>0. PICK q, at : q = run[s].at /\ at = run[r].at
  OBVIOUS
<1>1. /\ pc[r] = "held" /\ HasRead(r) /\ HasRead(s) /\ at \in Homes /\ q \in Homes
      /\ q \in Places
  BY <1>0, CommitSteps, PlacesOfUse DEF UInv, LockedInv, AskedInv, Keeps
<1>2. q # at
  BY <1>0, <1>1 DEF HasRead
<1>3. q \in KeyFiles /\ q \notin StateFiles
  BY <1>1, <1>2, ConstantsAssumption DEF Homes, Places
<1>4. file'[q] = file[q]
  BY <1>0, <1>1, <1>2, CommitKnown DEF UInv, UsesTypes
<1>5. StateAt(q)' = StateAt(q) /\ NextAt(q)' = NextAt(q)
  BY <1>3, <1>4 DEF StateAt, NextAt, KeyAt
<1>6. lock'[q] = s
  <2>1. lock' = Unlocked(r) /\ lock[q] = s
    BY <1>0, <1>1, CommitSteps DEF HasRead
  <2> QED BY <1>1, <2>1 DEF Unlocked
<1> QED BY <1>0, <1>1, <1>5, <1>6 DEF HasRead

LEMMA CommitInv ==
    ASSUME UInv, UNCHANGED <<taken, use, passed>>, NEW r \in Runs, Commit(r)
    PROVE  UInv'
<1>0. PICK at : at = run[r].at
  OBVIOUS
<1> DEFINE c == [NoCourse EXCEPT !.at = run[r].at, !.next = Used(r) + 1, !.last = UpTo(r)]
<1>1. /\ pc[r] = "held"
      /\ pc' = [pc EXCEPT ![r] = IF run[r].listed THEN "record" ELSE "sign"]
      /\ run' = [run EXCEPT ![r] = c] /\ UNCHANGED <<rec, signed, reused>>
  BY CommitSteps
<1>2. c.next = Used(r) + 1 /\ c.last = UpTo(r)
  BY DEF NoCourse
<1> HIDE DEF c
<1>3. /\ TInv' /\ Keeps(r) /\ HasRead(r) /\ at \in Homes /\ at \in Places
  BY <1>0, <1>1, CommitTypes, PlacesOfUse
     DEF UInv, UsesTypes, AskedInv, LockedInv, Keeps
<1>4. /\ run'[r] = c /\ pc'[r] = IF run[r].listed THEN "record" ELSE "sign"
      /\ \A s \in Runs : s # r => pc'[s] = pc[s] /\ run'[s] = run[s]
  BY <1>1 DEF UInv, UsesTypes, TInv, TypeOK
<1>5. /\ Reserved(r) = {} /\ Reserved(r)' = Used(r) + 1 .. UpTo(r)
      /\ \A s \in Runs : s # r => Reserved(s)' = Reserved(s)
  BY <1>1, <1>2, <1>4 DEF Reserved
<1>6. \A j \in Reserved(r)' :
         /\ j \in Index /\ ~Claimed(j) /\ Shows(at, j)'
         /\ \A p \in Homes : p # at => Apart(p, j)
  BY <1>0, <1>5, BlockIsNew
<1>7. \A j \in Index : Claimed(j)' => Claimed(j) \/ j \in Reserved(r)'
  BY <1>1, <1>5 DEF Claimed
<1>8. \A p \in Places, j \in Index : Shows(p, j) => Shows(p, j)'
  BY <1>3, CommitKeeps DEF UInv, UsesTypes
<1>9. UsesTypes'
  BY <1>3 DEF UInv, UsesTypes
<1>10. HandsInv'
  <2>1. \A s \in Runs, j \in Index : j \in Reserved(s) => Claimed(j)
    BY DEF Claimed
  <2>2. \A j \in Reserved(r)' : j \notin signed /\ j # taken
    BY <1>6 DEF Claimed
  <2>3. \A s \in Runs : Reserved(r)' \cap Reserved(s) = {}
    BY <1>6, <2>1
  <2>4. ASSUME NEW s \in Runs, NEW j \in Reserved(s)' PROVE j \notin signed /\ j # taken
    BY <1>5, <2>2 DEF UInv, HandsInv
  <2>5. ASSUME NEW s \in Runs, NEW q \in Runs, s # q
        PROVE  Reserved(s)' \cap Reserved(q)' = {}
    <3>1. Reserved(s) \cap Reserved(q) = {}
      BY <2>5 DEF UInv, HandsInv
    <3>2. CASE s = r
      BY <1>5, <2>3, <2>5, <3>2
    <3>3. CASE q = r
      BY <1>5, <2>3, <2>5, <3>3
    <3> QED BY <1>5, <3>1, <3>2, <3>3
  <2>6. taken' \notin signed' /\ reused' = {} /\ taken' = taken /\ signed' = signed
    BY <1>1 DEF UInv, HandsInv
  <2> QED BY <2>4, <2>5, <2>6 DEF HandsInv
<1>11. RecordInv'
  <2>1. Lists => pc'[r] # "sign"
    BY <1>3, <1>4 DEF Keeps
  <2> QED BY <1>1, <1>4, <2>1 DEF UInv, RecordInv, Lists
<1>12. HomesInv'
  <2> SUFFICES ASSUME NEW p \in Homes', NEW j \in Index, Claimed(j)' PROVE HomeKnows(p, j)'
    BY DEF HomesInv
  <2>1. p \in Homes /\ p \in Places
    BY PlacesOfUse DEF Homes
  <2>2. CASE Claimed(j)
    <3>1. HomeKnows(p, j)
      BY <2>1, <2>2 DEF UInv, HomesInv
    <3>2. rec \in Mark /\ rec' \in Mark /\ rec <= rec'
      BY <1>1, MarkType DEF UInv, UsesTypes, TInv, TypeOK
    <3> QED BY <1>1, <1>8, <2>1, <3>1, <3>2, HomesGoOn
  <2>3. CASE j \in Reserved(r)'
    <3>1. Shows(p, j)' \/ Apart(p, j)
      BY <1>6, <2>1, <2>3
    <3> QED BY <3>1 DEF HomeKnows, Apart
  <2> QED BY <1>7, <2>2, <2>3
<1>13. AskedInv'
  <2>1. \A s \in Runs : pc'[s] \in {"asked", "held"} => s # r
    BY <1>4
  <2> QED BY <1>4, <2>1 DEF UInv, AskedInv, Keeps, Homes, Lists
<1>14. LockedInv'
  <2> SUFFICES ASSUME NEW s \in Runs, pc'[s] = "held" PROVE HasRead(s)'
    BY DEF LockedInv
  <2>1. s # r
    BY <1>4
  <2> QED BY <1>4, <2>1, OthersStillRead
<1>15. RunsInv'
  <2> SUFFICES ASSUME NEW s \in Runs, NEW j \in Index, pc'[s] \in {"asked", "held"},
                      Claimed(j)'
               PROVE  RunKnows(s, j)'
    BY DEF RunsInv
  <2>0. PICK q : q = run[s].at
    OBVIOUS
  <2>1. s # r /\ pc[s] = pc'[s] /\ run'[s] = run[s]
    BY <1>4
  <2>2. q \in Homes /\ q \in Places
    BY <2>0, <2>1, PlacesOfUse DEF UInv, AskedInv, Keeps
  <2>3. CASE Claimed(j)
    <3>1. RunKnows(s, j)
      BY <2>1, <2>3 DEF UInv, RunsInv
    <3> QED BY <1>8, <2>0, <2>1, <2>2, <3>1, RunsGoOn
  <2>4. CASE j \in Reserved(r)'
    <3>1. Shows(q, j)' \/ Apart(q, j)
      BY <1>6, <2>2, <2>4
    <3>2. run'[s].at = q
      BY <2>0, <2>1
    <3> QED BY <3>1, <3>2 DEF RunKnows, Apart
  <2> QED BY <1>7, <2>3, <2>4
<1>16. FilesInv'
  <2>1. /\ file'[at].st = Written(r) /\ Written(r).count = Opened(r).count
        /\ \A q \in Places : q # at => file'[q] = file[q]
        /\ at \in KeyFiles => file'[at].next = Written(r).highest + 1
        /\ Written(r).highest \in Index /\ Written(r).highest >= Outside(r)
        /\ run[r].keyNext - 1 <= Outside(r) /\ Outside(r) \in Mark
        /\ run[r].keyNext \in 0 .. Capacity
    BY <1>0, <1>3, CommitKnown DEF UInv, UsesTypes
  <2>2. Opened(r).count \in IF Lists THEN {1} ELSE {1, Parts}
    <3>1. run[r].st.count \in IF Lists THEN {1} ELSE {1, Parts}
      <4>1. at \in StateFiles => KeyOf[at] \in Places
        BY ConstantsAssumption DEF Places
      <4> QED BY <1>0, <1>3, <4>1 DEF HasRead, StateAt, UInv, FilesInv
    <3>2. run[r].split \in Splits /\ (Lists => run[r].split = NoSplit)
      BY <1>3 DEF Keeps
    <3> QED BY <3>1, <3>2 DEF Opened, Split, Splits
  <2>3. use = "record" => \A p \in KeyFiles : file'[p].next >= FirstIndex
    <3> SUFFICES ASSUME use = "record", NEW p \in KeyFiles PROVE file'[p].next >= FirstIndex
      OBVIOUS
    <3>1. p \in Places /\ file[p].next >= FirstIndex /\ FirstIndex \in Int
      BY ConstantsAssumption, CapacityIsNat DEF UInv, FilesInv, Places
    <3>2. CASE p = at
      <4>1. run[r].keyNext = file[at].next
        BY <1>0, <1>3, <3>2, ConstantsAssumption DEF HasRead, NextAt, KeyAt
      <4> QED BY <2>1, <3>1, <3>2, <4>1, CapacityIsNat DEF Index, Mark
    <3> QED BY <2>1, <3>1, <3>2
  <2>4. use = "move" /\ ~passed => file'[MovedTo].st = Fresh
    <3>1. use = "move" /\ ~passed => at # MovedTo
      BY <1>3, PlacesOfUse DEF Homes
    <3> QED BY <2>1, <3>1, PlacesOfUse DEF UInv, FilesInv
  <2>5. \A p \in Places : file'[p].st.count \in IF Lists THEN {1} ELSE {1, Parts}
    BY <2>1, <2>2 DEF UInv, FilesInv
  <2>6. Lists' <=> Lists
    BY DEF Lists
  <2> QED BY <2>3, <2>4, <2>5, <2>6 DEF FilesInv
<1> QED BY <1>9, <1>10, <1>11, <1>12, <1>13, <1>14, <1>15, <1>16 DEF UInv

\* Files are put back from backups while no run is under way
LEMMA PutBackInv == ASSUME UInv, PutBack PROVE UInv'
<1>1. /\ use \in {"sight", "record"} /\ Calm /\ UNCHANGED <<taken, use, passed>>
  BY DEF PutBack
<1>2. PICK a \in Places, b \in Places : Copy(a, b)
  BY DEF PutBack
<1>3. /\ {a, b} \subseteq KeyFiles \/ {a, b} \subseteq StateFiles
      /\ file' = [file EXCEPT ![b] = file[a]]
      /\ UNCHANGED <<lock, rec, pc, run, signed, reused>>
  BY <1>2 DEF Copy
<1>4. Calm' /\ Calm
  BY <1>1, <1>3 DEF Calm
<1>5. UsesTypes'
  BY <1>1, <1>2, CopyTypes DEF UInv, UsesTypes
<1>6. \A p \in Places : file'[p] = IF p = b THEN file[a] ELSE file[p]
  BY <1>3 DEF UInv, UsesTypes, TInv, TypeOK
<1>7. FilesInv'
  <2>1. \A p \in KeyFiles : file'[p] = file[p] \/ (b \in KeyFiles /\ a \in KeyFiles /\ file'[p] = file[a])
    BY <1>3, <1>6, ConstantsAssumption DEF Places
  <2>2. use = "record" => \A p \in KeyFiles : file'[p].next >= FirstIndex
    BY <2>1 DEF UInv, FilesInv
  <2>3. \A p \in Places : file'[p].st.count \in IF Lists THEN {1} ELSE {1, Parts}
    BY <1>6 DEF UInv, FilesInv
  <2> QED BY <1>1, <2>2, <2>3 DEF FilesInv, Lists
<1>8. HandsInv' /\ RecordInv'
  BY <1>1, <1>3, <1>4, CalmHolds DEF UInv, HandsInv, RecordInv, Lists
<1>9. HomesInv'
  <2> SUFFICES ASSUME NEW p \in Homes', NEW j \in Index, Claimed(j)' PROVE HomeKnows(p, j)'
    BY DEF HomesInv
  <2>1. taken' = NoIndex \/ use = "turns"
    BY <1>1 DEF UInv, UsesTypes
  <2>2. j \in signed'
    BY <1>1, <1>4, <2>1, CalmHolds, CapacityIsNat DEF Claimed, Index, NoIndex
  <2>3. CASE use = "sight"
    BY <1>1, <2>2, <2>3 DEF HomeKnows
  <2>4. CASE use = "record"
    <3>1. j <= rec' \/ j < FirstIndex
      BY <1>1, <1>3, <2>2, <2>4 DEF UInv, RecordInv, Lists
    <3>2. CASE j <= rec'
      BY <1>1, <2>2, <2>4, <3>2 DEF HomeKnows, Lists
    <3>3. CASE j < FirstIndex
      <4>1. p = Original /\ p \in KeyFiles /\ p \in Places /\ p \notin StateFiles
        BY <1>1, <2>4, PlacesOfUse DEF Homes, UInv, UsesTypes
      <4>2. /\ StateAt(p)' = file'[p].st /\ NextAt(p)' = file'[p].next
        BY <4>1 DEF StateAt, NextAt, KeyAt
      <4>3. /\ file'[p].st \in State /\ file'[p].st.count = 1
            /\ file'[p].next \in 0 .. Capacity /\ file'[p].next >= FirstIndex
        BY <1>1, <1>5, <1>7, <2>4, <4>1 DEF FilesInv, Lists, UsesTypes, TInv, TypeOK
      <4>4. j <= file'[p].next - 1
        BY <3>3, <4>3, ConstantsAssumption, CapacityIsNat DEF Index
      <4>5. Shows(p, j)'
        BY <4>2, <4>3, <4>4, ShownUndivided, ShowsIsShownByNext
      <4> QED BY <4>5 DEF HomeKnows
    <3> QED BY <3>1, <3>2, <3>3
  <2> QED BY <1>1, <2>3, <2>4
<1> QED BY <1>4, <1>5, <1>7, <1>8, <1>9, CalmHolds DEF UInv

\* With the record always on, all that is claimed is in the record while no run is
\* under way
LEMMA CalmRecord ==
    ASSUME Calm', use' = "turns", RecordInv', UsesTypes' PROVE HomesInv'
<1> SUFFICES ASSUME NEW p \in Homes', NEW j \in Index, Claimed(j)' PROVE HomeKnows(p, j)'
  BY DEF HomesInv
<1>1. j \in signed' \/ j = taken'
  BY CalmHolds DEF Claimed
<1>2. j <= rec'
  BY <1>1 DEF RecordInv, Lists
<1> QED BY <1>1, <1>2 DEF HomeKnows, Lists

\* The session signs and saves in between the runs
LEMMA SessionInv == ASSUME UInv, Session PROVE UInv'
<1>1. use = "turns" /\ Calm /\ SessionStep /\ UNCHANGED <<use, passed>>
  BY DEF Session
<1>2. Lists /\ Lists' /\ use' = "turns"
  BY <1>1 DEF Lists
<1>3. /\ \A j \in signed : j <= rec
      /\ taken <= rec /\ taken \notin signed /\ reused = {}
      /\ signed \subseteq Index /\ rec \in Mark /\ taken \in Mark
  BY <1>1, <1>2 DEF UInv, RecordInv, HandsInv, UsesTypes, TInv, TypeOK
<1>4. \A r \in Runs : Reserved(r) = {} /\ pc[r] # "sign"
  BY <1>1 DEF Calm, Reserved
<1>5. ASSUME UNCHANGED <<lock, pc, run>>, TypeOK', taken' \in Mark, FilesInv',
             \A j \in signed' : j <= rec', taken' <= rec', taken' \notin signed', reused' = {}
      PROVE  UInv'
  <2>1. Calm'
    BY <1>1, <1>5 DEF Calm
  <2>2. UsesTypes'
    <3>1. AtInv'
      BY <2>1 DEF Calm, AtInv
    <3> QED BY <1>1, <1>5, <3>1 DEF UInv, UsesTypes, TInv
  <2>3. RecordInv' /\ HandsInv'
    BY <1>5, <2>1, CalmHolds DEF RecordInv, HandsInv
  <2> QED BY <1>2, <1>5, <2>1, <2>2, <2>3, CalmHolds, CalmRecord DEF UInv
<1>6. ASSUME file' = file PROVE FilesInv'
  BY <1>1, <1>6 DEF UInv, FilesInv, Lists
<1>7. ASSUME NEW i \in Index, SessionTake(i) PROVE UInv'
  <2>1. /\ i > rec /\ rec' = i /\ taken' = i
        /\ UNCHANGED <<file, lock, pc, run, signed, reused>>
    BY <1>7 DEF SessionTake
  <2>2. i \in Mark /\ i \in Int /\ rec \in Int
    BY <1>3, MarkType
  <2>3. TypeOK'
    BY <2>1, <2>2 DEF UInv, UsesTypes, TInv, TypeOK
  <2>4. \A j \in signed : j <= i /\ j # i
    <3>1. \A j \in signed : j \in Int
      BY <1>3, MarkType
    <3> QED BY <1>3, <2>1, <2>2, <3>1
  <2>5. i <= i
    BY <2>2
  <2> QED BY <1>3, <1>5, <1>6, <2>1, <2>2, <2>3, <2>4, <2>5
<1>8. CASE SessionSign
  <2>1. /\ taken # NoIndex /\ taken' = -1 /\ signed' = signed \cup {taken} /\ reused' = {}
        /\ UNCHANGED <<file, lock, rec, pc, run>>
    BY <1>3, <1>8 DEF SessionSign, NoIndex
  <2>2. taken \in Index
    BY <1>3, <2>1, CapacityIsNat DEF Mark, Index, NoIndex
  <2>3. TypeOK'
    BY <2>1, <2>2 DEF UInv, UsesTypes, TInv, TypeOK
  <2>4. -1 <= rec /\ -1 \notin Index
    BY <1>3, CapacityIsNat DEF Mark, Index
  <2>5. \A j \in signed' : j <= rec' /\ j \in Index
    BY <1>3, <2>1, <2>2
  <2> QED BY <1>5, <1>6, <2>1, <2>3, <2>4, <2>5, MarkType
<1>9. CASE SessionFails
  <2>1. taken' = -1 /\ UNCHANGED <<file, lock, rec, pc, run, signed, reused>>
    BY <1>9 DEF SessionFails, NoIndex, vars
  <2>2. TypeOK'
    BY <2>1 DEF UInv, UsesTypes, TInv, TypeOK
  <2>3. -1 <= rec /\ -1 \notin Index
    BY <1>3, CapacityIsNat DEF Mark, Index
  <2> QED BY <1>3, <1>5, <1>6, <2>1, <2>2, <2>3, MarkType
<1>10. ASSUME NEW p \in Places, SaveKey(p) PROVE UInv'
  <2>1. p \in KeyFiles /\ UNCHANGED <<lock, rec, pc, run, signed, reused, taken>>
    BY <1>10 DEF SaveKey
  <2>2. PICK next \in SessionCopies \cap (0 .. Capacity), st \in {file[p].st, Fresh} :
           file' = [file EXCEPT ![p] = [next |-> next, st |-> st]]
    BY <1>10 DEF SaveKey
  <2>3. st \in State /\ st.count = 1
    BY <1>2, FreshIsState DEF UInv, UsesTypes, TInv, TypeOK, FilesInv
  <2>4. \A q \in Places : file'[q] = IF q = p THEN [next |-> next, st |-> st] ELSE file[q]
    BY <2>2 DEF UInv, UsesTypes, TInv, TypeOK
  <2>5. TypeOK'
    <3>1. [next |-> next, st |-> st] \in [next : 0 .. Capacity, st : State]
      BY <2>2, <2>3
    <3>2. file' \in [Places -> [next : 0 .. Capacity, st : State]]
      BY <2>2, <3>1 DEF UInv, UsesTypes, TInv, TypeOK
    <3> QED BY <2>1, <3>2 DEF UInv, UsesTypes, TInv, TypeOK
  <2>6. FilesInv'
    <3>1. \A q \in Places : file'[q].st.count \in {1}
      BY <1>2, <2>3, <2>4 DEF UInv, FilesInv
    <3> QED BY <1>2, <3>1 DEF FilesInv
  <2> QED BY <1>3, <1>5, <2>1, <2>5, <2>6
<1> QED BY <1>1, <1>7, <1>8, <1>9, <1>10 DEF SessionStep

LEMMA UsesNextInv == UInv /\ [UsesNext]_usesVars => UInv'
<1> SUFFICES ASSUME UInv, [UsesNext]_usesVars PROVE UInv'
  OBVIOUS
<1>1. CASE UNCHANGED usesVars
  <2>1. UNCHANGED <<file, lock, rec, pc, run, signed, reused, taken, use, passed>>
    BY <1>1 DEF usesVars, sharedVars, vars
  <2>2. UsesTypes' /\ HandsInv' /\ RecordInv' /\ FilesInv'
    BY <2>1 DEF UInv, UsesTypes, TInv, TypeOK, AtInv, HandsInv, Reserved, RecordInv, Lists,
       FilesInv
  <2>3. AskedInv' /\ LockedInv'
    BY <2>1 DEF UInv, AskedInv, LockedInv, Keeps, Homes, Lists, HasRead, StateAt, NextAt, KeyAt
  <2>4. HomesInv' /\ RunsInv'
    BY <2>1 DEF UInv, HomesInv, Homes, HomeKnows, RunsInv, RunKnows, Claimed, Reserved,
       Apart, Lists, Shows, StateAt, NextAt, KeyAt
  <2> QED BY <2>2, <2>3, <2>4 DEF UInv
<1>2. CASE RunsGo
  <2>1. PICK r \in Runs : Asks(r) \/ Proceed(r)
    BY <1>2 DEF RunsGo
  <2>2. UNCHANGED <<taken, use, passed>>
    BY <1>2 DEF RunsGo
  <2> QED BY <2>1, <2>2, AsksInv, TakeLockInv, CommitInv, RecordStepInv, SignInv, QuitInv
        DEF Proceed
<1> QED BY <1>1, <1>2, PassOnInv, PutBackInv, SessionInv DEF UsesNext

\* One index signs at most once, whatever runs overlap, fail or are killed, as long as
\* the key and its copies are used in one of the documented ways.
THEOREM OneIndexSignsOnce == UsesSpec => []NoIndexReuse
<1>1. UInv => NoIndexReuse
  BY DEF UInv, HandsInv, NoIndexReuse
<1> QED BY <1>1, UsesInitInv, UsesNextInv, PTL DEF UsesSpec

\* Every state of a use has its types, the steps of the session and of the user included.
THEOREM UsesTypesHold == UsesSpec => []TypeOK
<1>1. UInv => TypeOK
  BY DEF UInv, UsesTypes, TInv
<1> QED BY <1>1, UsesInitInv, UsesNextInv, PTL DEF UsesSpec

\* Every step of a use, as seen from a place
LEMMA PlaceStep ==
    ASSUME UInv, UsesNext
    PROVE  /\ \A r \in Runs, j \in Index :
                 /\ pc[r] = "held" /\ pc'[r] \in {"record", "sign"}
                 /\ j \in run'[r].next .. run'[r].last
                 => ~Shows(run[r].at, j) /\ Shows(run[r].at, j)'
           /\ file' # file /\ pc' # pc =>
                 \A p \in Places, j \in Index : Shows(p, j) => Shows(p, j)'
<1>1. CASE \E r \in Runs : Commit(r)
  <2>1. PICK r \in Runs : Commit(r)
    BY <1>1
  <2>2. HasRead(r) /\ TInv
    BY <2>1, CommitSteps DEF UInv, LockedInv, UsesTypes
  <2>3. \A p \in Places, j \in Index : Shows(p, j) => Shows(p, j)'
    BY <2>1, <2>2, CommitKeeps
  <2>4. ASSUME NEW s \in Runs, NEW j \in Index,
               pc[s] = "held" /\ pc'[s] \in {"record", "sign"},
               j \in run'[s].next .. run'[s].last
        PROVE  ~Shows(run[s].at, j) /\ Shows(run[s].at, j)'
    <3>0. PICK at : at = run[r].at
      OBVIOUS
    <3> DEFINE c == [NoCourse EXCEPT !.at = run[r].at, !.next = Used(r) + 1, !.last = UpTo(r)]
    <3>1. /\ c.next = Used(r) + 1 /\ c.last = UpTo(r)
      BY DEF NoCourse
    <3>2. run' = [run EXCEPT ![r] = c] /\ \A t \in Runs : t # r => pc'[t] = pc[t]
      <4>1. /\ run' = [run EXCEPT ![r] = c]
            /\ pc' = [pc EXCEPT ![r] = IF run[r].listed THEN "record" ELSE "sign"]
        BY <2>1, CommitSteps
      <4> QED BY <2>2, <4>1 DEF TInv, TypeOK
    <3> HIDE DEF c
    <3>3. s = r
      BY <2>4, <3>2
    <3>4. j \in Used(r) + 1 .. UpTo(r)
      BY <2>2, <2>4, <3>1, <3>2, <3>3 DEF TInv, TypeOK
    <3>5. ~Shows(at, j) /\ Shows(at, j)'
      BY <2>1, <2>2, <3>0, <3>4, CommitOffers
    <3>6. run'[s].at = at
      BY <2>1, <2>2, <3>0, <3>3, CommitKnown
    <3> QED BY <3>0, <3>3, <3>5, <3>6
  <2> QED BY <2>3, <2>4
<1>2. CASE ~(\E r \in Runs : Commit(r))
  <2>1. \A s \in Runs : ~(pc[s] = "held" /\ pc'[s] \in {"record", "sign"})
    <3> SUFFICES ASSUME NEW s \in Runs, pc[s] = "held", pc'[s] # "held", pc'[s] # "idle"
                 PROVE  FALSE
      OBVIOUS
    <3>1. RunsGo
      BY DEF UsesNext, PassOn, PutBack, Session, Calm
    <3>2. PICK r \in Runs : Asks(r) \/ Proceed(r)
      BY <3>1 DEF RunsGo
    <3> QED BY <1>2, <3>2 DEF Asks, InSectors, Moved, WithSight, Listed, Ask, Proceed, Lock,
          UpdateRecord, Sign, Quit, Goto, UInv, UsesTypes, TInv, TypeOK
  <2>2. file' = file \/ pc' = pc
    <3>1. CASE RunsGo
      <4>1. PICK r \in Runs : Asks(r) \/ Proceed(r)
        BY <3>1 DEF RunsGo
      <4> QED BY <1>2, <4>1 DEF Asks, InSectors, Moved, WithSight, Listed, Ask, Proceed,
            Lock, UpdateRecord, Sign, Quit
    <3>2. CASE PassOn
      BY <3>2 DEF PassOn, vars
    <3>3. CASE PutBack
      BY <3>3 DEF PutBack, Copy
    <3>4. CASE Session
      BY <3>4 DEF Session, SessionStep, SessionTake, SessionSign, SessionFails, SaveKey, vars
    <3> QED BY <3>1, <3>2, <3>3, <3>4 DEF UsesNext
  <2> QED BY <2>1, <2>2
<1> QED BY <1>1, <1>2

\* A place gives out only what it still has, and offers nothing again that it has given
\* out, whatever runs overlap there or at a file that reads the same key.
THEOREM PlacesNeverGoBack == UsesSpec => PlaceNeverGoesBack
<1>1. UInv /\ [UsesNext]_usesVars =>
        [/\ \A r \in Runs, j \in Index :
             /\ pc[r] = "held" /\ pc'[r] \in {"record", "sign"}
             /\ j \in run'[r].next .. run'[r].last
             => ~Shows(run[r].at, j) /\ Shows(run[r].at, j)'
         /\ file' # file /\ pc' # pc =>
             \A p \in Places, j \in Index : Shows(p, j) => Shows(p, j)']_vars
  BY PlaceStep DEF usesVars, sharedVars
<1> QED BY <1>1, UsesInitInv, UsesNextInv, PTL DEF UsesSpec, PlaceNeverGoesBack

-----------------------------------------------------------------------------
(* The promise of OneTime.                                                 *)

Signers == Runs \cup {NoRun}

\* What a run or the session has in hand
Hand(s) == IF s = NoRun THEN {taken} \cap Index
           ELSE IF pc[s] \in {"record", "sign"} THEN run[s].next .. run[s].last ELSE {}

Blocks == {b .. b + n - 1 : b \in Index, n \in 1 .. MaxBlock}

LEMMA HandIs ==
    /\ Hand(NoRun) = {taken} \cap Index
    /\ \A r \in Runs : r # NoRun /\ Hand(r) = Reserved(r)
BY ConstantsAssumption DEF Hand, Reserved

\* A step after which all hold what they held
LEMMA HandsSame ==
    ASSUME taken' = taken, \A r \in Runs : Reserved(r)' = Reserved(r)
    PROVE  \A s \in Signers : Hand(s)' = Hand(s)
BY ConstantsAssumption DEF Signers, Hand, Reserved

\* Reserving a block, or retiring an index, takes it
LEMMA TakeRefines ==
    ASSUME NEW s \in Signers, NEW S \in Blocks, signed' = signed,
           Hand(s) = {}, Hand(s)' = S, \A t \in Signers : t # s => Hand(t)' = Hand(t),
           \A j \in S : j \notin signed /\ \A t \in Signers : j \notin Hand(t)
    PROVE  OneTimeIndices!Next
<1> DEFINE hand == [t \in Signers |-> Hand(t)]
<1>1. hand' = [hand EXCEPT ![s] = @ \cup S]
  OBVIOUS
<1> DEFINE U == UNION {hand[t] : t \in Signers}
<1>2. S \cap (U \cup signed \cup {}) = {}
  <2>1. \A t \in Signers : hand[t] = Hand(t)
    OBVIOUS
  <2> HIDE DEF hand
  <2>2. \A j \in S : j \notin U
    BY <2>1, Zenon
  <2> HIDE DEF U
  <2> QED BY <2>2
<1>3. OneTimeIndices!Take(s, S)
  BY <1>1, <1>2 DEF OneTimeIndices!Take, OneTimeIndices!Held, Hand, Signers
<1> QED BY <1>3 DEF OneTimeIndices!Next, Blocks, Signers

\* A signature spends the index in hand
LEMMA SpendRefines ==
    ASSUME NEW s \in Signers, NEW i \in Hand(s), i \in Index, signed' = signed \cup {i},
           Hand(s)' = Hand(s) \ {i}, \A t \in Signers : t # s => Hand(t)' = Hand(t)
    PROVE  OneTimeIndices!Next
<1> DEFINE hand == [t \in Signers |-> Hand(t)]
<1>1. hand' = [hand EXCEPT ![s] = @ \ {i}]
  OBVIOUS
<1>2. OneTimeIndices!Spend(s, i)
  BY <1>1 DEF OneTimeIndices!Spend, Hand, Signers
<1> QED BY <1>2 DEF OneTimeIndices!Next, Signers

\* What a run that is over, or a call of the session that fails, has in hand is lost
LEMMA DropRefines ==
    ASSUME NEW s \in Signers, signed' = signed, Hand(s)' = {},
           \A t \in Signers : t # s => Hand(t)' = Hand(t)
    PROVE  OneTimeIndices!Next
<1> DEFINE hand == [t \in Signers |-> Hand(t)]
<1>1. hand' = [t \in Signers |-> IF t \in {s} THEN {} ELSE hand[t]]
  OBVIOUS
<1>2. OneTimeIndices!Drop({s})
  BY <1>1 DEF OneTimeIndices!Drop, Hand, Signers
<1> QED BY <1>2 DEF OneTimeIndices!Next, Signers

LEMMA RunRefines ==
    ASSUME UInv, NEW r \in Runs, Proceed(r), UNCHANGED <<taken, use, passed>>
    PROVE  \/ OneTimeIndices!Next
           \/ signed' = signed /\ \A s \in Signers : Hand(s)' = Hand(s)
<1>0. TypeOK /\ r \in Signers /\ r # NoRun /\ Hand(r) = Reserved(r) /\ Hand(r)' = Reserved(r)'
  BY ConstantsAssumption DEF UInv, UsesTypes, TInv, Signers, Hand, Reserved
<1>1. ASSUME \A s \in Runs : s # r => pc'[s] = pc[s] /\ run'[s] = run[s]
      PROVE  \A t \in Signers : t # r => Hand(t)' = Hand(t)
  BY <1>1 DEF Hand, Signers
<1>2. ASSUME \A s \in Runs : s # r => pc'[s] = pc[s] /\ run'[s] = run[s],
             signed' = signed, Reserved(r)' = Reserved(r)
      PROVE  signed' = signed /\ \A s \in Signers : Hand(s)' = Hand(s)
  BY <1>0, <1>1, <1>2
<1>3. CASE Lock(r)
  <2>1. /\ \A s \in Runs : s # r => pc'[s] = pc[s] /\ run'[s] = run[s]
        /\ signed' = signed /\ pc[r] = "asked" /\ pc'[r] = "held"
    BY <1>0, <1>3 DEF Lock, Goto, TypeOK
  <2>2. Reserved(r)' = Reserved(r)
    BY <2>1 DEF Reserved
  <2> QED BY <1>2, <2>1, <2>2
<1>4. CASE UpdateRecord(r)
  <2>1. /\ \A s \in Runs : s # r => pc'[s] = pc[s] /\ run'[s] = run[s]
        /\ signed' = signed /\ pc[r] = "record" /\ pc'[r] = "sign" /\ run' = run
    BY <1>0, <1>4 DEF UpdateRecord, Goto, TypeOK
  <2>2. Reserved(r)' = Reserved(r)
    BY <2>1 DEF Reserved
  <2> QED BY <1>2, <2>1, <2>2
<1>5. CASE Commit(r)
  <2> DEFINE c == [NoCourse EXCEPT !.at = run[r].at, !.next = Used(r) + 1, !.last = UpTo(r)]
             S == Used(r) + 1 .. UpTo(r)
  <2>1. c.next = Used(r) + 1 /\ c.last = UpTo(r)
    BY DEF NoCourse
  <2>2. /\ run' = [run EXCEPT ![r] = c] /\ signed' = signed /\ pc[r] = "held"
        /\ pc' = [pc EXCEPT ![r] = IF run[r].listed THEN "record" ELSE "sign"]
    BY <1>5, CommitSteps
  <2> HIDE DEF c
  <2>3. /\ \A s \in Runs : s # r => pc'[s] = pc[s] /\ run'[s] = run[s]
        /\ run'[r] = c /\ pc'[r] \in {"record", "sign"}
    BY <1>0, <2>2 DEF TypeOK
  <2>4. Reserved(r) = {} /\ Reserved(r)' = S
    BY <2>1, <2>2, <2>3 DEF Reserved
  <2>5. \A j \in S : j \notin signed /\ \A t \in Signers : j \notin Hand(t)
    <3> SUFFICES ASSUME NEW j \in S PROVE j \notin signed /\ \A t \in Signers : j \notin Hand(t)
      OBVIOUS
    <3>0. PICK at : at = run[r].at
      OBVIOUS
    <3>1. ~Claimed(j)
      BY <1>5, <3>0, BlockIsNew
    <3> QED BY <3>1, HandIs DEF Claimed, Signers
  <2>6. S \in Blocks
    <3>1. Room(Opened(r), run[r].sector, Outside(r), run[r].need) /\ run[r].need \in 1 .. MaxBlock
      BY <1>0, <1>5, CommitRoom, CourseType DEF TypeOK
    <3>2. Used(r) + 1 \in Index /\ Used(r) \in Mark
      BY <3>1, BlockType DEF Used
    <3>3. UpTo(r) = (Used(r) + 1) + run[r].need - 1
      <4>1. Used(r) \in Int /\ run[r].need \in Int
        <5>1. Used(r) \in Int
          BY <3>2, MarkType
        <5>2. run[r].need \in Int
          BY <3>1
        <5> QED BY <5>1, <5>2
      <4> QED BY <4>1 DEF UpTo
    <3> QED BY <3>1, <3>2, <3>3 DEF Blocks
  <2> HIDE DEF S
  <2> QED BY <1>0, <1>1, <2>2, <2>3, <2>4, <2>5, <2>6, TakeRefines
<1>6. CASE Sign(r)
  <2> DEFINE i == run[r].next
             c == [run[r] EXCEPT !.next = i + 1]
  <2>1. /\ pc[r] = "sign" /\ i <= run[r].last /\ run' = [run EXCEPT ![r] = c]
        /\ signed' = signed \cup {i} /\ pc' = pc
    BY <1>6 DEF Sign, MayTake
  <2>2. run[r] \in Course /\ c.next = i + 1 /\ c.last = run[r].last
    BY <1>0 DEF TypeOK, Course
  <2> HIDE DEF c
  <2>3. run'[r] = c /\ \A s \in Runs : s # r => pc'[s] = pc[s] /\ run'[s] = run[s]
    BY <1>0, <2>1 DEF TypeOK
  <2>4. i \in Nat /\ run[r].last \in Int /\ run[r].last <= Capacity - 1
    <3>1. run[r].next \in 0 .. Capacity /\ run[r].last \in Mark
      BY <2>2, CourseType
    <3>2. i \in Nat
      BY <3>1
    <3>3. run[r].last \in Int /\ run[r].last <= Capacity - 1
      BY <3>1, CapacityIsNat DEF Mark
    <3> QED BY <3>2, <3>3
  <2>5. Reserved(r) = i .. run[r].last /\ Reserved(r)' = i + 1 .. run[r].last
    BY <2>1, <2>2, <2>3 DEF Reserved
  <2> HIDE DEF i
  <2>6. i \in Reserved(r) /\ Reserved(r)' = Reserved(r) \ {i} /\ i \in Index
    BY <2>1, <2>4, <2>5, CapacityIsNat DEF Index
  <2> QED BY <1>0, <1>1, <2>1, <2>3, <2>6, SpendRefines
<1>7. CASE Quit(r)
  <2>1. /\ \A s \in Runs : s # r => pc'[s] = pc[s] /\ run'[s] = run[s]
        /\ signed' = signed /\ pc'[r] = "idle"
    BY <1>0, <1>7 DEF Quit, TypeOK
  <2>2. Reserved(r)' = {}
    BY <2>1 DEF Reserved
  <2> QED BY <1>0, <1>1, <2>1, <2>2, DropRefines
<1> QED BY <1>3, <1>4, <1>5, <1>6, <1>7 DEF Proceed

LEMMA SessionRefines ==
    ASSUME UInv, Session
    PROVE  \/ OneTimeIndices!Next
           \/ signed' = signed /\ \A s \in Signers : Hand(s)' = Hand(s)
<1>1. /\ Calm /\ SessionStep /\ use = "turns" /\ UNCHANGED <<pc, run>>
  BY DEF Session, SessionStep, SessionTake, SessionSign, SessionFails, SaveKey, vars
<1>2. /\ \A t \in Signers : t # NoRun => Hand(t)' = Hand(t) /\ Hand(t) = {}
      /\ NoRun \in Signers
  BY <1>1 DEF Signers, Hand, Calm
<1>3. /\ \A j \in signed : j <= rec
      /\ rec \in Int /\ \A j \in signed : j \in Int
      /\ taken \in Mark
  BY <1>1, MarkType DEF UInv, RecordInv, Lists, UsesTypes, TInv, TypeOK
<1>4. ASSUME NEW i \in Index, SessionTake(i) PROVE OneTimeIndices!Next
  <2>1. /\ taken = -1 /\ i > rec /\ taken' = i /\ signed' = signed
    BY <1>4 DEF SessionTake, NoIndex
  <2>2. i \in Int /\ -1 \notin Index
    BY CapacityIsNat DEF Index
  <2>3. i \notin signed
    BY <1>3, <2>1, <2>2
  <2>4. Hand(NoRun) = {} /\ Hand(NoRun)' = {i}
    BY <2>1, <2>2 DEF Hand
  <2>5. {i} \in Blocks
    <3>1. {i} = i .. i + 1 - 1 /\ 1 \in 1 .. MaxBlock
      BY <2>2, ConstantsAssumption, CapacityIsNat
    <3> QED BY <3>1 DEF Blocks
  <2> QED BY <1>2, <2>1, <2>3, <2>4, <2>5, TakeRefines
<1>5. CASE SessionSign
  <2>1. /\ taken # -1 /\ taken' = -1 /\ signed' = signed \cup {taken}
    BY <1>5 DEF SessionSign, NoIndex
  <2>2. taken \in Index /\ -1 \notin Index
    BY <1>3, <2>1, CapacityIsNat DEF Mark, Index
  <2>3. Hand(NoRun) = {taken} /\ Hand(NoRun)' = {}
    BY <2>1, <2>2 DEF Hand
  <2> QED BY <1>2, <2>1, <2>2, <2>3, SpendRefines
<1>6. CASE SessionFails
  <2>1. taken' = -1 /\ signed' = signed /\ -1 \notin Index
    BY <1>6, CapacityIsNat DEF SessionFails, NoIndex, vars, Index
  <2>2. Hand(NoRun)' = {}
    BY <2>1 DEF Hand
  <2> QED BY <1>2, <2>1, <2>2, DropRefines
<1>7. ASSUME NEW p \in Places, SaveKey(p)
      PROVE  signed' = signed /\ \A s \in Signers : Hand(s)' = Hand(s)
  <2>1. taken' = taken /\ signed' = signed
    BY <1>7 DEF SaveKey
  <2> QED BY <1>2, <2>1 DEF Hand
<1> QED BY <1>1, <1>4, <1>5, <1>6, <1>7 DEF SessionStep

LEMMA UsesRefine ==
    ASSUME UInv, [UsesNext]_usesVars
    PROVE  OneTimeIndices!Next \/ UNCHANGED <<[s \in Signers |-> Hand(s)], signed, {}>>
<1>1. CASE UNCHANGED usesVars
  <2>1. signed' = signed /\ \A s \in Signers : Hand(s)' = Hand(s)
    BY <1>1 DEF usesVars, sharedVars, vars, Hand
  <2> QED BY <2>1
<1>2. CASE RunsGo
  <2>1. PICK r \in Runs : Asks(r) \/ Proceed(r)
    BY <1>2 DEF RunsGo
  <2>2. UNCHANGED <<taken, use, passed>>
    BY <1>2 DEF RunsGo
  <2>3. CASE Asks(r)
    <3>1. /\ signed' = signed /\ pc[r] = "idle" /\ pc'[r] = "asked"
          /\ \A s \in Runs : s # r => pc'[s] = pc[s] /\ run'[s] = run[s]
      BY <2>3 DEF Asks, InSectors, Moved, WithSight, Listed, Ask, Goto, UInv, UsesTypes,
         TInv, TypeOK
    <3>2. \A s \in Signers : Hand(s)' = Hand(s)
      BY <2>2, <3>1 DEF Hand, Signers
    <3> QED BY <3>1, <3>2
  <2>4. CASE Proceed(r)
    BY <2>2, <2>4, RunRefines
  <2> QED BY <2>1, <2>3, <2>4
<1>3. CASE PassOn \/ PutBack
  <2>1. UNCHANGED <<pc, run, signed, taken>>
    BY <1>3 DEF PassOn, PutBack, Copy, vars
  <2>2. \A s \in Signers : Hand(s)' = Hand(s)
    BY <2>1 DEF Hand
  <2> QED BY <2>1, <2>2
<1>4. CASE Session
  BY <1>4, SessionRefines
<1> QED BY <1>1, <1>2, <1>3, <1>4 DEF UsesNext

\* Used as documented, the files of a key, their locks, their copies and the record
\* implement the promise of OneTime: an index is in one hand at most, and once it has
\* signed in none.
THEOREM UsesImplementOneTime == UsesSpec => ImplementsOneTime
<1>1. UsesInit => OneTimeIndices!Init
  <2> SUFFICES ASSUME UsesInit PROVE OneTimeIndices!Init
    OBVIOUS
  <2>1. \A s \in Signers : Hand(s) = {}
    BY CapacityIsNat DEF UsesInit, Init, Hand, Signers, NoIndex, Index
  <2>2. signed \subseteq Index
    BY UsesInitInv DEF UInv, UsesTypes, TInv, TypeOK
  <2> QED BY <2>1, <2>2 DEF OneTimeIndices!Init, Hand, Signers
<1>2. UInv /\ [UsesNext]_usesVars => [OneTimeIndices!Next]_OneTimeIndices!vars
  BY UsesRefine DEF OneTimeIndices!vars, Hand, Signers
<1> QED BY <1>1, <1>2, UsesInitInv, UsesNextInv, PTL
      DEF UsesSpec, ImplementsOneTime, OneTimeIndices!Spec

-----------------------------------------------------------------------------
(* The used-index record, while no session signs in the middle of a run.   *)

\* The place of a run that is about to reserve a block shows what was entered in the
\* record since the run read it.
PastInv ==
    Lists => \A r \in Runs :
        /\ pc[r] \in {"asked", "held"} =>
              rec <= run[r].recHi \/ (rec \in Index /\ Shows(run[r].at, rec))
        /\ pc[r] = "record" => run[r].last \in Index /\ Shows(Original, run[r].last)

LEMMA PastCommit ==
    ASSUME UInv, PastInv, UNCHANGED <<taken, use, passed>>, NEW r \in Runs, Commit(r)
    PROVE  /\ PastInv'
           /\ \A s \in Runs : pc[s] = "held" /\ pc'[s] = "record" => run'[s].next > rec
<1> DEFINE c == [NoCourse EXCEPT !.at = run[r].at, !.next = Used(r) + 1, !.last = UpTo(r)]
<1>0. PICK at : at = run[r].at
  OBVIOUS
<1>1. /\ pc[r] = "held" /\ run' = [run EXCEPT ![r] = c]
      /\ pc' = [pc EXCEPT ![r] = IF run[r].listed THEN "record" ELSE "sign"]
      /\ UNCHANGED <<rec, signed, reused>>
  BY CommitSteps
<1>2. c.next = Used(r) + 1 /\ c.last = UpTo(r)
  BY DEF NoCourse
<1> HIDE DEF c
<1>3. /\ TInv /\ Keeps(r) /\ HasRead(r) /\ at \in Homes /\ at \in Places
  BY <1>0, <1>1, PlacesOfUse DEF UInv, UsesTypes, AskedInv, LockedInv, Keeps
<1>4. /\ run'[r] = c /\ pc'[r] = IF run[r].listed THEN "record" ELSE "sign"
      /\ \A s \in Runs : s # r => pc'[s] = pc[s] /\ run'[s] = run[s]
  BY <1>1, <1>3 DEF TInv, TypeOK
<1>5. \A p \in Places, j \in Index : Shows(p, j) => Shows(p, j)'
  BY <1>3, CommitKeeps
<1>6. Lists => Homes = {Original} /\ at = Original
  BY <1>3 DEF Lists, Homes, UInv, UsesTypes
<1>7. /\ UpTo(r) \in Index /\ UpTo(r) \in Used(r) + 1 .. UpTo(r)
      /\ Used(r) \in Int
  <2>1. Room(Opened(r), run[r].sector, Outside(r), run[r].need)
    BY <1>3, CommitRoom DEF TInv
  <2>2. /\ UpTo(r) \in Index /\ Used(r) \in Mark /\ Used(r) + 1 \in Index
        /\ Used(r) + 1 <= UpTo(r)
    BY <2>1, BlockType DEF UpTo, Used
  <2>3. Used(r) \in Int /\ UpTo(r) \in Int
    BY <2>2, MarkType
  <2> QED BY <2>2, <2>3
<1>8. PICK last : last = UpTo(r)
  OBVIOUS
<1>9. last \in Index /\ Shows(at, last)' /\ run'[r].last = last
  BY <1>0, <1>2, <1>3, <1>4, <1>7, <1>8, CommitOffers
<1>10. PastInv'
  <2> SUFFICES ASSUME Lists, NEW s \in Runs
               PROVE  /\ pc'[s] \in {"asked", "held"} =>
                            \/ rec' <= run'[s].recHi
                            \/ rec' \in Index /\ Shows(run[s].at, rec)'
                      /\ pc'[s] = "record" =>
                            run'[s].last \in Index /\ Shows(Original, run[s].last)'
    BY DEF PastInv, Lists
  <2>1. Original \in Places /\ at = Original
    BY <1>6, PlacesOfUse
  <2>2. CASE s = r
    BY <1>4, <1>9, <2>1, <2>2
  <2>3. CASE s # r
    <3>0. PICK q, h : q = run[s].at /\ h = run[s].last
      OBVIOUS
    <3>1. pc'[s] = pc[s] /\ run'[s] = run[s] /\ rec' = rec
      BY <1>1, <1>4, <2>3
    <3>2. ASSUME pc[s] \in {"asked", "held"}, ~(rec <= run[s].recHi)
          PROVE  rec \in Index /\ Shows(run[s].at, rec)'
      <4>0. PICK k : k = rec
        OBVIOUS
      <4>1. q \in Places /\ k \in Index /\ Shows(q, k)
        BY <3>0, <3>2, <4>0 DEF PastInv, UInv, UsesTypes, TInv, AtInv
      <4>2. Shows(q, k)'
        BY <1>5, <4>1
      <4> QED BY <3>0, <3>1, <4>0, <4>1, <4>2
    <3>3. ASSUME pc[s] = "record" PROVE run[s].last \in Index /\ Shows(Original, run[s].last)'
      <4>1. h \in Index /\ Shows(Original, h)
        BY <3>0, <3>3 DEF PastInv
      <4>2. Shows(Original, h)'
        BY <1>5, <2>1, <4>1
      <4> QED BY <3>0, <3>1, <4>1, <4>2
    <3> QED BY <3>1, <3>2, <3>3
  <2> QED BY <2>2, <2>3
<1>11. ASSUME Lists PROVE Used(r) >= rec
  <2>1. /\ run[r].st \in State /\ run[r].st = StateAt(at) /\ run[r].keyNext = NextAt(at)
        /\ run[r].keyNext \in 0 .. Capacity /\ run[r].split = NoSplit /\ at \notin StateFiles
    BY <1>0, <1>3, <1>6, <1>11, CourseType, PlacesOfUse DEF HasRead, Keeps, TInv, TypeOK
  <2>2. run[r].st.count = 1
    BY <1>3, <1>11, <2>1 DEF StateAt, UInv, FilesInv
  <2>3. Used(r) = Top(run[r].st, run[r].sector, Outside(r))
    BY <2>1 DEF Used, Opened, Split
  <2>4. /\ Outside(r) \in Mark /\ Outside(r) >= run[r].keyNext - 1 /\ Outside(r) >= run[r].recHi
        /\ Outside(r) \in Int
    BY <1>3, OutsideType DEF TInv
  <2>5. Used(r) >= run[r].st.highest /\ Used(r) >= Outside(r)
    BY <2>1, <2>2, <2>3, <2>4, TopType DEF Fits
  <2>6. rec \in Int /\ run[r].recHi \in Int /\ run[r].st.highest \in Int
    BY <1>3, <2>1, CourseType, StateType, MarkType DEF TInv, TypeOK
  <2>7. CASE rec <= run[r].recHi
    BY <1>7, <2>4, <2>5, <2>6, <2>7
  <2>8. CASE rec \in Index /\ Shows(at, rec)
    <3>1. ShownBy(run[r].st, run[r].keyNext, rec)
      BY <2>1, <2>8, ShowsIsShownBy
    <3>2. rec <= run[r].st.highest \/ rec <= run[r].keyNext - 1
      BY <2>1, <2>2, <2>8, <3>1, ShownUndivided
    <3> QED BY <1>7, <2>1, <2>4, <2>5, <2>6, <3>2
  <2> QED BY <1>0, <1>1, <1>11, <2>7, <2>8 DEF PastInv
<1>12. pc'[r] = "record" => Lists
  BY <1>3, <1>4 DEF Keeps
<1>13. run'[r].next = Used(r) + 1 /\ rec \in Int
  BY <1>2, <1>3, <1>4, MarkType DEF TInv, TypeOK
<1> QED BY <1>4, <1>7, <1>10, <1>11, <1>12, <1>13

\* Steps of a run that reserve nothing
LEMMA PastProceed ==
    ASSUME UInv, PastInv, UNCHANGED <<taken, use, passed>>, NEW r \in Runs,
           Asks(r) \/ Lock(r) \/ UpdateRecord(r) \/ Sign(r) \/ Quit(r)
    PROVE  /\ PastInv'
           /\ \A s \in Runs : ~(pc[s] = "held" /\ pc'[s] = "record")
<1>1. TypeOK /\ AtInv /\ (Lists' <=> Lists) /\ Original \in Places
  BY PlacesOfUse DEF UInv, UsesTypes, TInv, Lists
<1>2. /\ file' = file
      /\ \A s \in Runs : s # r => pc'[s] = pc[s] /\ run'[s] = run[s]
  BY <1>1 DEF Asks, InSectors, Moved, WithSight, Listed, Ask, Goto, Lock, UpdateRecord, Sign,
     Quit, TypeOK
<1>3. ~(pc[r] = "held" /\ pc'[r] = "record") /\ (pc'[r] = "record" => pc[r] = "record")
  BY <1>1 DEF Asks, InSectors, Moved, WithSight, Listed, Ask, Goto, Lock, UpdateRecord, Sign,
     Quit, TypeOK
<1>4. \/ rec' = rec
      \/ UpdateRecord(r) /\ pc[r] = "record" /\ rec' \in {rec, run[r].last}
  BY DEF Asks, InSectors, Moved, WithSight, Listed, Ask, Lock, UpdateRecord, Sign, Quit, Goto,
     Larger
<1>5. pc'[r] \in {"asked", "held"} =>
        \/ run'[r].recHi = rec \/ ~Lists
        \/ pc[r] \in {"asked", "held"} /\ run'[r].recHi = run[r].recHi /\ run'[r].at = run[r].at
  <2>1. CASE Asks(r)
    BY <1>1, <2>1 DEF Asks, InSectors, Moved, WithSight, Listed, Ask, TypeOK, Lists
  <2>2. CASE Lock(r)
    <3>1. run[r] \in Course /\ pc[r] = "asked"
      BY <1>1, <2>2 DEF TypeOK, Lock, Goto
    <3> QED BY <1>1, <2>2, <3>1 DEF Lock, TypeOK, Course
  <2>3. CASE UpdateRecord(r) \/ Sign(r) \/ Quit(r)
    BY <1>1, <2>3 DEF UpdateRecord, Sign, Quit, Goto, TypeOK
  <2> QED BY <2>1, <2>2, <2>3
<1>6. PastInv'
  <2> SUFFICES ASSUME Lists, NEW s \in Runs
               PROVE  /\ pc'[s] \in {"asked", "held"} =>
                            \/ rec' <= run'[s].recHi
                            \/ rec' \in Index /\ Shows(run[s].at, rec)'
                      /\ pc'[s] = "record" =>
                            run'[s].last \in Index /\ Shows(Original, run[s].last)'
    BY <1>1 DEF PastInv
  <2>1. ASSUME pc'[s] = "record"
        PROVE  run'[s].last \in Index /\ Shows(Original, run[s].last)'
    <3>0. PICK h : h = run[s].last
      OBVIOUS
    <3>1. s # r
      <4>1. pc[r] = "record" => pc'[r] # "record"
        BY <1>1 DEF Asks, InSectors, Moved, WithSight, Listed, Ask, Goto, Lock, UpdateRecord,
           Sign, Quit, TypeOK
      <4> QED BY <1>3, <2>1, <4>1
    <3>2. h \in Index /\ Shows(Original, h)
      BY <1>2, <2>1, <3>0, <3>1 DEF PastInv
    <3>3. Shows(Original, h)'
      BY <1>2, <3>2, SameFiles
    <3> QED BY <1>2, <3>0, <3>1, <3>2, <3>3
  <2>2. ASSUME pc'[s] \in {"asked", "held"}, ~(rec' <= run'[s].recHi)
        PROVE  rec' \in Index /\ Shows(run[s].at, rec)'
    <3>0. PICK q, k : q = run'[s].at /\ k = rec'
      OBVIOUS
    <3>1. q = Original
      <4>1. Keeps(s)'
        BY <2>2, AsksInv, TakeLockInv, RecordStepInv, SignInv, QuitInv DEF UInv, AskedInv
      <4> QED BY <3>0, <4>1 DEF Keeps, Homes, Lists, UInv, UsesTypes
    <3>2. \/ /\ pc[s] \in {"asked", "held"}
             /\ run'[s].recHi = run[s].recHi /\ run[s].at = q
          \/ rec' # rec /\ rec' \in {rec, run[r].last} /\ pc[r] = "record"
      <4>1. rec <= rec
        BY <1>1, MarkType DEF TypeOK
      <4>2. CASE s # r
        BY <1>2, <2>2, <3>0, <4>2
      <4>3. CASE s = r
        <5>1. \/ run'[r].recHi = rec
              \/ pc[r] \in {"asked", "held"} /\ run'[r].recHi = run[r].recHi
                 /\ run'[r].at = run[r].at
          BY <1>5, <2>2, <4>3
        <5>2. CASE run'[r].recHi = rec
          <6>1. rec' # rec
            BY <2>2, <4>1, <4>3, <5>2
          <6> QED BY <1>4, <6>1
        <5> QED BY <3>0, <4>3, <5>1, <5>2
      <4> QED BY <4>2, <4>3
    <3>3. k \in Index /\ Shows(q, k)
      <4>1. CASE rec' = rec
        BY <2>2, <3>0, <3>2, <4>1 DEF PastInv
      <4>2. CASE rec' # rec
        BY <1>4, <3>0, <3>1, <4>2 DEF PastInv
      <4> QED BY <4>1, <4>2
    <3>4. Shows(q, k)'
      BY <1>2, <3>3, SameFiles
    <3> QED BY <3>0, <3>3, <3>4
  <2> QED BY <2>1, <2>2
<1> QED BY <1>2, <1>3, <1>6

LEMMA PastNext ==
    ASSUME UInv, PastInv, [UsesNext]_usesVars
    PROVE  /\ PastInv'
           /\ \A s \in Runs : pc[s] = "held" /\ pc'[s] = "record" => run'[s].next > rec
<1>1. CASE UNCHANGED usesVars
  BY <1>1 DEF usesVars, sharedVars, vars, PastInv, Lists, Shows, StateAt, NextAt, KeyAt
<1>2. CASE RunsGo
  <2>1. PICK r \in Runs : Asks(r) \/ Proceed(r)
    BY <1>2 DEF RunsGo
  <2>2. UNCHANGED <<taken, use, passed>>
    BY <1>2 DEF RunsGo
  <2> QED BY <2>1, <2>2, PastCommit, PastProceed DEF Proceed
<1>3. CASE PassOn \/ PutBack \/ Session
  <2>1. Calm /\ pc' = pc
    BY <1>3 DEF PassOn, PutBack, Copy, Session, SessionStep, SessionTake, SessionSign,
       SessionFails, SaveKey, vars
  <2> QED BY <2>1 DEF Calm, PastInv
<1> QED BY <1>1, <1>2, <1>3 DEF UsesNext

\* As long as the session signs in between the runs, and no key is split while its record
\* is on, every block that is reserved is past all that the record says was used: what
\* the run read of it before the lock is never too old.
THEOREM BlocksPastRecord == UsesSpec => BlockPastRecord
<1>1. UsesInit => PastInv
  BY DEF UsesInit, Init, PastInv
<1>2. UInv /\ PastInv /\ [UsesNext]_usesVars => PastInv'
  BY PastNext
<1>3. UInv /\ PastInv /\ [UsesNext]_usesVars =>
        [\A r \in Runs :
          pc[r] = "held" /\ pc'[r] = "record" => run'[r].next > rec]_sharedVars
  BY PastNext
<1> QED BY <1>1, <1>2, <1>3, UsesInitInv, UsesNextInv, PTL DEF UsesSpec, BlockPastRecord
=============================================================================
