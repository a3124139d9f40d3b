------------------------- MODULE SyncChannelProofs -------------------------
(***************************************************************************)
(* Proofs about SyncChannel, for any number of senders and messages and any *)
(* lengths.                                                                 *)
(***************************************************************************)
EXTENDS SyncChannel, FiniteSetTheorems, SequenceTheorems, WellFoundedInduction, TLAPS

-----------------------------------------------------------------------------
(* Numbers *)

\* The remainder of what goes around a ring of n once at most
LEMMA Around ==
    ASSUME NEW n \in Nat \ {0}, NEW i \in 0 .. 2 * n - 1
    PROVE  i % n = IF i < n THEN i ELSE i - n
  OBVIOUS

\* A set of numbers that is not empty has a member with none below it.
LEMMA MinimalNumber ==
    ASSUME NEW R, IsWellFoundedOn(R, Nat), NEW T, T \subseteq Nat, T # {}
    PROVE  \E x \in T : \A y \in T : ~(<<y, x>> \in R)
  BY WFMin

\* A set of numbers that is not empty has a smallest one.
LEMMA SmallestNumber ==
    ASSUME NEW T, T \subseteq Nat, T # {}
    PROVE  \E x \in T : \A y \in T : x <= y
  <1>1. ASSUME NEW R, IsWellFoundedOn(R, Nat), \A x, y \in Nat : x < y => <<x, y>> \in R
        PROVE  \E x \in T : \A y \in T : x <= y
    <2>1. IsWellFoundedOn(R, Nat)
      BY <1>1
    <2>2. PICK x \in T : \A y \in T : ~(<<y, x>> \in R)
      BY <2>1, MinimalNumber
    <2>3. ASSUME NEW y \in T
          PROVE  x <= y
      <3>1. x \in Nat /\ y \in Nat
        OBVIOUS
      <3>2. ~(y < x)
        BY <1>1, <2>2, <3>1
      <3> QED
        BY <3>1, <3>2
    <2> QED
      BY <2>3
  <1>2. \A x, y \in Nat : x < y => <<x, y>> \in OpToRel(<, Nat)
    BY DEF OpToRel
  <1> QED
    BY <1>1, <1>2, NatLessThanWellFounded, Zenon

-----------------------------------------------------------------------------
(* Going around a ring of n slots *)

\* The steps from r to i, and the slot k steps on from r
Steps(r, i, n) == (i + n - r) % n
On(r, k, n) == (r + k) % n

\* How many steps around a ring of n lie between two indices, without the remainder.
LEMMA StepsIs ==
    ASSUME NEW n \in Nat \ {0}, NEW r \in 0 .. n - 1, NEW i \in 0 .. n - 1
    PROVE  /\ Steps(r, i, n) = IF i >= r THEN i - r ELSE i + n - r
           /\ Steps(r, i, n) \in 0 .. n - 1
  <1> DEFINE j == i + n - r
  <1>1. j \in 0 .. 2 * n - 1 /\ Steps(r, i, n) = j % n
    BY DEF Steps
  <1> HIDE DEF j
  <1>2. j % n = IF j < n THEN j ELSE j - n
    BY <1>1, Around
  <1> QED
    BY <1>1, <1>2 DEF j

\* The index that lies k steps on, without the remainder.
LEMMA OnIs ==
    ASSUME NEW n \in Nat \ {0}, NEW r \in 0 .. n - 1, NEW k \in 0 .. n - 1
    PROVE  /\ On(r, k, n) = IF r + k < n THEN r + k ELSE r + k - n
           /\ On(r, k, n) \in 0 .. n - 1
  <1> DEFINE j == r + k
  <1>1. j \in 0 .. 2 * n - 1 /\ On(r, k, n) = j % n
    BY DEF On
  <1> HIDE DEF j
  <1>2. j % n = IF j < n THEN j ELSE j - n
    BY <1>1, Around
  <1> QED
    BY <1>1, <1>2 DEF j

\* The two are inverse to each other.
LEMMA OnSteps ==
    ASSUME NEW n \in Nat \ {0}, NEW r \in 0 .. n - 1, NEW k \in 0 .. n - 1, NEW i \in 0 .. n - 1
    PROVE  Steps(r, i, n) = k <=> i = On(r, k, n)
  <1>1. Steps(r, i, n) = IF i >= r THEN i - r ELSE i + n - r
    BY StepsIs
  <1>2. On(r, k, n) = IF r + k < n THEN r + k ELSE r + k - n
    BY OnIs
  <1> QED
    BY <1>1, <1>2

\* From a place k steps on it is k steps less, or all but those once more around.
LEMMA StepsShift ==
    ASSUME NEW n \in Nat \ {0}, NEW r \in 0 .. n - 1, NEW k \in 0 .. n - 1, NEW i \in 0 .. n - 1
    PROVE  Steps(On(r, k, n), i, n) =
             IF Steps(r, i, n) >= k THEN Steps(r, i, n) - k ELSE Steps(r, i, n) + n - k
  <1> DEFINE o == On(r, k, n)
  <1>1. o \in 0 .. n - 1 /\ o = IF r + k < n THEN r + k ELSE r + k - n
    BY OnIs
  <1>2. Steps(r, i, n) = IF i >= r THEN i - r ELSE i + n - r
    BY StepsIs
  <1> HIDE DEF o
  <1>3. Steps(o, i, n) = IF i >= o THEN i - o ELSE i + n - o
    BY <1>1, StepsIs
  <1>4. Steps(o, i, n) =
             IF Steps(r, i, n) >= k THEN Steps(r, i, n) - k ELSE Steps(r, i, n) + n - k
    BY <1>1, <1>2, <1>3
  <1> QED
    BY <1>4 DEF o

-----------------------------------------------------------------------------
(* The ring of the channel *)

Indices == 0 .. Length - 1

\* The length and the indices are numbers, of which 0 is an index.
LEMMA RingIs ==
    ASSUME TypeOK
    PROVE  /\ Length \in Nat \ {0} /\ 0 \in Indices
           /\ read_idx \in Indices /\ write_idx \in Indices /\ Indices \subseteq Nat
           /\ DOMAIN waiting = 1 .. Length
           /\ \A i \in Indices : At(i) \in {"empty", "reserved", "released"} \cup Message
  <1>1. max_waiting \in Nat
    BY LensAssumption DEF TypeOK
  <1>2. Length \in Nat \ {0}
    BY <1>1 DEF TypeOK
  <1> QED
    BY <1>2 DEF TypeOK, Indices, Length, At

\* How much is in use: at most all but one of the slots
LEMMA UsedIs ==
    ASSUME TypeOK
    PROVE  /\ Used = Steps(read_idx, write_idx, Length) /\ Used \in Indices
           /\ write_idx = On(read_idx, Used, Length)
           /\ Used = 0 <=> IsEmpty
           /\ Used = Length - 1 <=> IsFull
  <1>1. Length \in Nat \ {0} /\ read_idx \in 0 .. Length - 1 /\ write_idx \in 0 .. Length - 1
    BY RingIs DEF Indices
  <1>2. /\ Used = Steps(read_idx, write_idx, Length) /\ Used \in Indices
        /\ Used = IF write_idx >= read_idx THEN write_idx - read_idx
                  ELSE write_idx + Length - read_idx
    BY <1>1, StepsIs DEF Used, Wrap, Steps, Indices
  <1>3. write_idx = On(read_idx, Used, Length)
    BY <1>1, <1>2, OnSteps DEF Indices
  <1>4. Used = Length - 1 <=> IsFull
    <2>1. CASE Length = 1
      <3>1. (write_idx + 1) % 1 = 0
        BY <1>1, <2>1
      <3> QED
        BY <1>1, <1>2, <2>1, <3>1 DEF IsFull, Wrap
    <2>2. CASE Length # 1
      <3>1. On(write_idx, 1, Length) = IF write_idx + 1 < Length THEN write_idx + 1
                                       ELSE write_idx + 1 - Length
        BY <1>1, <2>2, OnIs
      <3>2. Wrap(write_idx + 1) = On(write_idx, 1, Length)
        BY DEF Wrap, On
      <3> QED
        BY <1>1, <1>2, <2>2, <3>1, <3>2 DEF IsFull
    <2> QED
      BY <2>1, <2>2
  <1> QED
    BY <1>1, <1>2, <1>3, <1>4 DEF IsEmpty

\* What lies between the indices is in use, and nothing else is.
Window == \A i \in Indices : At(i) = "empty" <=> Offset(i) >= Used

\* The receiver passes over released slots only, all of them in use.
LEMMA SkippedIs ==
    ASSUME TypeOK, Window
    PROVE  /\ Skipped \in 0 .. Used
           /\ Foremost # "released"
           /\ Foremost = "empty" <=> Skipped = Used
           /\ \A j \in 0 .. Skipped - 1 : Nth(j) = "released"
  <1>1. Length \in Nat \ {0} /\ read_idx \in 0 .. Length - 1 /\ Used \in 0 .. Length - 1
    BY RingIs, UsedIs DEF Indices
  <1>2. \A k \in 0 .. Length - 1 : Nth(k) = "empty" <=> k >= Used
    <2> TAKE k \in 0 .. Length - 1
    <2> DEFINE i == On(read_idx, k, Length)
    <2>1. i \in 0 .. Length - 1 /\ Nth(k) = At(i)
      BY <1>1, OnIs DEF Nth, Wrap, On
    <2>2. Offset(i) = k
      <3> HIDE DEF i
      <3>1. Steps(read_idx, i, Length) = k
        BY <1>1, <2>1, OnSteps DEF i
      <3> QED
        BY <3>1 DEF Offset, Wrap, Steps
    <2> HIDE DEF i
    <2> QED
      BY <2>1, <2>2 DEF Window, Indices
  <1> DEFINE T == {k \in 0 .. Length - 1 : Nth(k) # "released"}
  <1>3. Used \in T
    BY <1>1, <1>2
  <1>4. PICK k \in T : \A j \in T : k <= j
    <2>1. T \subseteq Nat /\ T # {}
      BY <1>1, <1>3
    <2> HIDE DEF T
    <2> QED
      BY <2>1, SmallestNumber
  <1>5. k \in 0 .. Length - 1 /\ Nth(k) # "released" /\ \A j \in 0 .. k - 1 : Nth(j) = "released"
    BY <1>1, <1>4
  <1>6. /\ Skipped \in 0 .. Length - 1 /\ Nth(Skipped) # "released"
        /\ \A j \in 0 .. Skipped - 1 : Nth(j) = "released"
    <2> HIDE DEF T
    <2> QED
      BY <1>5 DEF Skipped
  <1>7. Skipped \in 0 .. Used
    <2>1. ~(Used \in 0 .. Skipped - 1)
      BY <1>3, <1>6
    <2> QED
      BY <1>1, <1>6, <2>1
  <1> QED
    BY <1>1, <1>2, <1>6, <1>7 DEF Foremost

-----------------------------------------------------------------------------
(* What the critical sections do to the ring *)

Content == {"empty", "reserved", "released"} \cup Message

\* The ring between two critical sections: its part of TypeOK, and Window
RingOK ==
    /\ waiting \in Seq(Content)
    /\ Length \in IF max_waiting = 0 THEN {1, 2} ELSE {max_waiting + 1}
    /\ read_idx \in Indices /\ write_idx \in Indices
    /\ max_waiting \in QueueLens
    /\ Window

\* A slot that is in use is filled or released.
LEMMA RingStored ==
    ASSUME TypeOK, Window,
           NEW i \in Indices, At(i) # "empty",
           NEW v \in Content \ {"empty"},
           Store(i, v), UNCHANGED <<read_idx, write_idx, max_waiting>>
    PROVE  /\ RingOK'
           /\ Length' = Length /\ Used' = Used
           /\ \A j \in Indices : At(j)' = IF j = i THEN v ELSE At(j)
  <1>1. Length \in Nat \ {0} /\ DOMAIN waiting = 1 .. Length
    BY RingIs
  <1>2. waiting' \in Seq(Content) /\ Length' = Length
    <2>1. waiting \in Seq(Content) /\ i + 1 \in 1 .. Len(waiting)
      BY <1>1 DEF TypeOK, Content, Indices, Length
    <2> QED
      BY <2>1 DEF Store, Length
  <1>3. \A j \in Indices : At(j)' = IF j = i THEN v ELSE At(j)
    BY <1>1 DEF Store, At, Indices
  <1>4. Used' = Used /\ Indices' = Indices /\ \A j \in Indices : Offset(j)' = Offset(j)
    BY <1>2 DEF Used, Wrap, Offset, Indices
  <1>5. Window'
    BY <1>3, <1>4 DEF Window
  <1> QED
    BY <1>2, <1>3, <1>4, <1>5 DEF RingOK, TypeOK, Indices

\* A slot is used at write_idx.
LEMMA RingPushed ==
    ASSUME TypeOK, Window, ~IsFull,
           NEW v \in Content \ {"empty"},
           Store(write_idx, v), write_idx' = Wrap(write_idx + 1),
           UNCHANGED <<read_idx, max_waiting>>
    PROVE  /\ RingOK'
           /\ Length' = Length /\ Used' = Used + 1
           /\ At(write_idx) = "empty"
           /\ \A j \in Indices : At(j)' = IF j = write_idx THEN v ELSE At(j)
  <1>1. /\ Length \in Nat \ {0} /\ DOMAIN waiting = 1 .. Length
        /\ read_idx \in 0 .. Length - 1 /\ write_idx \in 0 .. Length - 1
        /\ Used \in 0 .. Length - 1
    BY RingIs, UsedIs DEF Indices
  <1>2. waiting' \in Seq(Content) /\ Length' = Length
    <2>1. waiting \in Seq(Content) /\ write_idx + 1 \in 1 .. Len(waiting)
      BY <1>1 DEF TypeOK, Content, Length
    <2> QED
      BY <2>1 DEF Store, Length
  <1>3. \A j \in Indices : At(j)' = IF j = write_idx THEN v ELSE At(j)
    BY <1>1 DEF Store, At, Indices
  <1>4. Used + 1 \in 0 .. Length - 1
    BY <1>1, UsedIs
  <1>5. write_idx' = On(read_idx, Used + 1, Length)
    <2>1. 1 \in 0 .. Length - 1
      BY <1>1, <1>4
    <2>2. write_idx' = On(write_idx, 1, Length)
      BY DEF Wrap, On
    <2>3. On(write_idx, 1, Length) = IF write_idx + 1 < Length THEN write_idx + 1
                                     ELSE write_idx + 1 - Length
      BY <1>1, <2>1, OnIs
    <2>4. write_idx = On(read_idx, Used, Length)
      BY UsedIs
    <2>5. On(read_idx, Used, Length) =
            IF read_idx + Used < Length THEN read_idx + Used ELSE read_idx + Used - Length
      BY <1>1, OnIs
    <2> DEFINE u == Used + 1
    <2>6. On(read_idx, u, Length) =
            IF read_idx + u < Length THEN read_idx + u ELSE read_idx + u - Length
      <3>1. u \in 0 .. Length - 1
        BY <1>4
      <3> HIDE DEF u
      <3> QED
        BY <1>1, <3>1, OnIs
    <2> QED
      BY <1>1, <1>4, <2>2, <2>3, <2>4, <2>5, <2>6
  <1>6. write_idx' \in 0 .. Length - 1 /\ Steps(read_idx, write_idx', Length) = Used + 1
    <2> DEFINE u == Used + 1
    <2>1. u \in 0 .. Length - 1 /\ write_idx' = On(read_idx, u, Length)
      BY <1>4, <1>5
    <2> HIDE DEF u
    <2>2. On(read_idx, u, Length) \in 0 .. Length - 1
      BY <1>1, <2>1, OnIs
    <2> DEFINE w == On(read_idx, u, Length)
    <2>3. w \in 0 .. Length - 1 /\ w = write_idx'
      BY <2>1, <2>2
    <2>4. Steps(read_idx, w, Length) = u <=> w = On(read_idx, u, Length)
      <3>1. w \in 0 .. Length - 1
        BY <2>3
      <3> HIDE DEF w
      <3> QED
        BY <1>1, <2>1, <3>1, OnSteps
    <2> QED
      BY <2>3, <2>4 DEF u
  <1>7. /\ Used' = Used + 1 /\ Indices' = Indices
        /\ \A j \in Indices : Offset(j)' = Offset(j)
    BY <1>2, <1>6 DEF Used, Wrap, Offset, Indices, Steps
  <1>8. \A j \in Indices : Offset(j) \in Nat /\ (Offset(j) = Used <=> j = write_idx)
    <2> TAKE j \in Indices
    <2>1. Offset(j) = Steps(read_idx, j, Length)
      BY DEF Offset, Wrap, Steps
    <2>2. j \in 0 .. Length - 1
      BY DEF Indices
    <2>3. Steps(read_idx, j, Length) \in 0 .. Length - 1
      BY <1>1, <2>2, StepsIs
    <2>4. Steps(read_idx, j, Length) = Used <=> j = On(read_idx, Used, Length)
      BY <1>1, <2>2, OnSteps
    <2> QED
      BY <2>1, <2>3, <2>4, UsedIs
  <1>9. Window'
    <2> SUFFICES ASSUME NEW j \in Indices
                 PROVE  At(j)' = "empty" <=> Offset(j) >= Used + 1
      BY <1>7 DEF Window
    <2> QED
      BY <1>1, <1>3, <1>8 DEF Window
  <1> QED
    BY <1>1, <1>2, <1>3, <1>6, <1>7, <1>8, <1>9 DEF RingOK, TypeOK, Indices, Window

\* The first k slots that are in use are passed.
LEMMA RingPassed ==
    ASSUME TypeOK, Window,
           NEW k \in 0 .. Used,
           waiting' = Cleared(k), read_idx' = Wrap(read_idx + k),
           UNCHANGED <<write_idx, max_waiting>>
    PROVE  /\ RingOK'
           /\ Length' = Length /\ Used' = Used - k
           /\ \A j \in Indices : At(j)' = IF Offset(j) < k THEN "empty" ELSE At(j)
  <1>1. /\ Length \in Nat \ {0} /\ DOMAIN waiting = 1 .. Length
        /\ read_idx \in 0 .. Length - 1 /\ write_idx \in 0 .. Length - 1
        /\ Used \in 0 .. Length - 1 /\ k \in 0 .. Length - 1
    BY RingIs, UsedIs DEF Indices
  <1>2. waiting' \in Seq(Content) /\ Length' = Length
    BY <1>1 DEF Cleared, TypeOK, Content, Length
  <1>3. \A j \in Indices : At(j)' = IF Offset(j) < k THEN "empty" ELSE At(j)
    BY <1>1 DEF Cleared, At, Indices
  <1>4. read_idx' = On(read_idx, k, Length) /\ read_idx' \in 0 .. Length - 1
    BY <1>1, OnIs DEF On, Wrap
  <1>5. \A j \in Indices :
            /\ Offset(j) \in 0 .. Length - 1
            /\ Offset(j)' = IF Offset(j) >= k THEN Offset(j) - k ELSE Offset(j) + Length - k
    <2> TAKE j \in Indices
    <2>1. /\ Offset(j) = Steps(read_idx, j, Length)
          /\ Offset(j)' = Steps(On(read_idx, k, Length), j, Length)
      BY <1>2, <1>4 DEF Offset, Wrap, Steps
    <2>2. j \in 0 .. Length - 1
      BY DEF Indices
    <2>3. Steps(read_idx, j, Length) \in 0 .. Length - 1
      BY <1>1, <2>2, StepsIs
    <2>4. Steps(On(read_idx, k, Length), j, Length) =
            IF Steps(read_idx, j, Length) >= k THEN Steps(read_idx, j, Length) - k
            ELSE Steps(read_idx, j, Length) + Length - k
      BY <1>1, <2>2, StepsShift
    <2> QED
      BY <2>1, <2>3, <2>4
  <1>6. Used = Offset(write_idx) /\ Used' = Offset(write_idx)'
    BY DEF Used, Offset
  <1>7. Used' = Used - k
    BY <1>1, <1>5, <1>6 DEF Indices
  <1>8. Indices' = Indices
    BY <1>2 DEF Indices
  <1>9. Window'
    <2> SUFFICES ASSUME NEW j \in Indices
                 PROVE  At(j)' = "empty" <=> Offset(j)' >= Used - k
      BY <1>7, <1>8 DEF Window
    <2> QED
      BY <1>1, <1>3, <1>5 DEF Window
  <1> QED
    BY <1>1, <1>2, <1>3, <1>4, <1>7, <1>9 DEF RingOK, TypeOK, Indices

\* Sequences of one element and of two
LEMMA OneMore ==
    ASSUME NEW S, NEW s \in Seq(S), NEW x \in S, Len(s) = 1
    PROVE  /\ Append(s, x) \in Seq(S) /\ Len(Append(s, x)) = 2
           /\ Append(s, x)[1] = s[1] /\ Append(s, x)[2] = x
  <1>1. Append(s, x) \in Seq(S) /\ Len(Append(s, x)) = 2
    OBVIOUS
  <1>2. Append(s, x)[1] = s[1]
    OBVIOUS
  <1>3. Append(s, x)[2] = x
    <2>1. Append(s, x)[Len(s) + 1] = x
      BY AppendProperties
    <2> QED
      BY <2>1
  <1> QED
    BY <1>1, <1>2, <1>3

\* A ring of one slot is what is left of a ring of two.
LEMMA OneLess ==
    ASSUME NEW S, NEW s \in Seq(S), Len(s) = 2
    PROVE  /\ SubSeq(s, 1, 1) \in Seq(S) /\ Len(SubSeq(s, 1, 1)) = 1
           /\ SubSeq(s, 1, 1)[1] = s[1]
  OBVIOUS

\* A channel of length 0, without a slot, gets one.
LEMMA RingOpened ==
    ASSUME TypeOK, Window, NeedsSlot,
           waiting' = Append(waiting, "empty"), UNCHANGED <<read_idx, write_idx, max_waiting>>
    PROVE  /\ RingOK'
           /\ Length' = 2 /\ Used = 0 /\ Used' = 0
           /\ At(0) = "empty" /\ \A j \in 0 .. 1 : At(j)' = "empty"
  <1>1. Length = 1 /\ read_idx = 0 /\ write_idx = 0 /\ waiting \in Seq(Content)
    BY RingIs DEF NeedsSlot, Indices, TypeOK, Content
  <1>2. /\ waiting' \in Seq(Content) /\ Len(waiting') = 2
        /\ waiting'[1] = waiting[1] /\ waiting'[2] = "empty"
    <2>1. waiting \in Seq(Content) /\ "empty" \in Content /\ Len(waiting) = 1
      BY <1>1 DEF Length, Content
    <2> QED
      BY <2>1, OneMore
  <1>3. 1 % 1 = 0 /\ 0 % 2 = 0 /\ 1 % 2 = 1 /\ 2 % 2 = 0 /\ 3 % 2 = 1
    OBVIOUS
  <1>4. Used = 0 /\ Offset(0) = 0
    BY <1>1, <1>3 DEF Used, Offset, Wrap
  <1>5. At(0) = "empty"
    BY <1>1, <1>4 DEF Window, Indices
  <1>6. \A j \in 0 .. 1 : At(j)' = "empty"
    BY <1>2, <1>5 DEF At
  <1>7. Length' = 2 /\ read_idx' = 0 /\ write_idx' = 0 /\ Indices' = 0 .. 1
    BY <1>1, <1>2 DEF Length, Indices
  <1>8. Used' = 0 /\ Offset(0)' = 0 /\ Offset(1)' = 1
    BY <1>3, <1>7 DEF Used, Offset, Wrap
  <1>9. Window'
    BY <1>6, <1>7, <1>8 DEF Window
  <1>10. max_waiting' = 0 /\ max_waiting' \in QueueLens
    BY DEF NeedsSlot, TypeOK
  <1> QED
    BY <1>2, <1>4, <1>5, <1>6, <1>7, <1>8, <1>9, <1>10 DEF RingOK

\* The slot is removed when the message in it, the only one, is taken.
LEMMA RingShrunk ==
    ASSUME TypeOK, Window, max_waiting = 0, Length > 1, Foremost # "empty",
           waiting' = SubSeq(Cleared(Skipped + 1), 1, Length - 1),
           read_idx' = 0, write_idx' = 0, UNCHANGED max_waiting
    PROVE  /\ RingOK'
           /\ Length = 2 /\ Length' = 1
           /\ Skipped = 0 /\ Used = 1 /\ Used' = 0 /\ At(0)' = "empty"
  <1>1. Length = 2
    BY DEF TypeOK
  <1>2. Skipped = 0 /\ Used = 1
    <2>1. Used \in 0 .. 1 /\ Skipped \in 0 .. Used /\ Skipped # Used
      BY <1>1, UsedIs, SkippedIs DEF Indices
    <2> QED
      BY <2>1
  <1>3. waiting \in Seq(Content) /\ Len(waiting) = 2
    BY <1>1 DEF TypeOK, Content, Length
  <1>4. Cleared(1) \in Seq(Content) /\ Len(Cleared(1)) = 2
    <2> DEFINE ring == [i \in 1 .. 2 |-> IF Offset(i - 1) < 1 THEN "empty" ELSE waiting[i]]
    <2>1. Cleared(1) = ring
      BY <1>1 DEF Cleared
    <2>2. \A i \in 1 .. 2 : ring[i] \in Content
      BY <1>3 DEF Content
    <2>3. ring \in Seq(Content)
      BY <2>2, IsASeq
    <2>4. Len(ring) = 2
      OBVIOUS
    <2> QED
      BY <2>1, <2>3, <2>4
  <1>5. waiting' = SubSeq(Cleared(1), 1, 1)
    BY <1>1, <1>2
  <1>6. waiting' \in Seq(Content) /\ Len(waiting') = 1 /\ waiting'[1] = Cleared(1)[1]
    <2> DEFINE ring == Cleared(1)
    <2>1. ring \in Seq(Content) /\ Len(ring) = 2 /\ waiting' = SubSeq(ring, 1, 1)
      BY <1>4, <1>5
    <2> HIDE DEF ring
    <2>2. /\ SubSeq(ring, 1, 1) \in Seq(Content) /\ Len(SubSeq(ring, 1, 1)) = 1
          /\ SubSeq(ring, 1, 1)[1] = ring[1]
      BY <2>1, OneLess
    <2> QED
      BY <2>1, <2>2 DEF ring
  <1>7. Cleared(1)[1] = "empty"
    <2>1. Cleared(1)[1] = IF Offset(0) < 1 THEN "empty" ELSE At(0)
      BY <1>1 DEF Cleared, At
    <2>2. Offset(0) >= 1 => At(0) = "empty"
      BY <1>1, <1>2 DEF Window, Indices
    <2>3. Offset(0) \in Nat
      BY <1>1, RingIs DEF Offset, Wrap, Indices
    <2> QED
      BY <2>1, <2>2, <2>3
  <1>8. Length' = 1 /\ Indices' = {0} /\ At(0)' = "empty"
    <2>1. Length' = 1 /\ waiting'[0 + 1] = "empty" /\ 0 .. 1 - 1 = {0}
      BY <1>6, <1>7 DEF Length
    <2> QED
      BY <2>1 DEF Indices, At
  <1>9. Used' = 0 /\ Offset(0)' = 0
    <2>1. 1 % 1 = 0
      OBVIOUS
    <2> QED
      BY <1>8, <2>1 DEF Used, Offset, Wrap
  <1>10. Window'
    BY <1>8, <1>9 DEF Window
  <1>11. max_waiting' = 0 /\ max_waiting' \in QueueLens
    BY DEF TypeOK
  <1> QED
    BY <1>1, <1>2, <1>6, <1>8, <1>9, <1>10, <1>11 DEF RingOK

-----------------------------------------------------------------------------
(* The inductive invariant *)

HoldersHold ==
    \A h \in Holders :
        /\ sender[h] = "open"
        /\ slot[h] < Length /\ At(slot[h]) = "reserved"
        /\ \A g \in Holders : slot[g] = slot[h] => g = h

ReservedHeld == \A i \in Indices : At(i) = "reserved" => \E h \in Holders : slot[h] = i

Left == {h \in Sender : sender[h] \in {"closed", "dropped"}}

\* closed_count is what its name says, a client only waits after a call that is over, and the
\* receiver does not go on to the second lock without a slot.
IInv ==
    /\ TypeOK
    /\ HoldersHold /\ ReservedHeld /\ Window
    /\ closed_count = Cardinality(Left)
    /\ \A h \in Sender : awaiting[h] # "nothing" => sender[h] = "open"
    /\ receiver \in {"opened", "sync_opened"} => ~NeedsSlot

\* ReservationsHold is three conjuncts of IInv.
LEMMA ReservationsAre == ReservationsHold <=> HoldersHold /\ ReservedHeld /\ Window
  BY DEF ReservationsHold, HoldersHold, ReservedHeld, Window, Indices

\* Who holds a reservation holds a slot of the ring, which is reserved.
LEMMA HoldersAre ==
    ASSUME TypeOK, HoldersHold
    PROVE  \A h \in Holders : h \in Sender /\ slot[h] \in Indices /\ At(slot[h]) = "reserved"
  BY RingIs DEF HoldersHold, TypeOK, Indices

\* The ring and its reservations, after a step
Reserved == RingOK /\ HoldersHold /\ ReservedHeld

\* Calls that leave the ring and the reservations alone keep both right.
LEMMA RingKept ==
    ASSUME IInv, UNCHANGED <<ringVars, slot>>, \A h \in Holders : sender'[h] = "open"
    PROVE  Reserved'
  <1>1. /\ Length' = Length /\ Used' = Used /\ Holders' = Holders /\ Indices' = Indices
        /\ \A i : At(i)' = At(i) /\ Offset(i)' = Offset(i)
    BY DEF ringVars, Length, Used, Wrap, Holders, At, Offset, Indices
  <1>2. RingOK'
    BY <1>1 DEF IInv, RingOK, TypeOK, Window, Content, Indices, ringVars
  <1>3. HoldersHold' /\ ReservedHeld'
    BY <1>1 DEF IInv, HoldersHold, ReservedHeld, ringVars
  <1> QED
    BY <1>2, <1>3 DEF Reserved

\* The reservation of h is over: its slot is filled or released.
LEMMA RingSettled ==
    ASSUME IInv, NEW h \in Holders, NEW v \in Content \ {"empty", "reserved"},
           Store(slot[h], v), slot' = Restrict(slot, Holders \ {h}),
           UNCHANGED <<read_idx, write_idx, max_waiting>>,
           \A g \in Holders \ {h} : sender'[g] = "open"
    PROVE  Reserved'
  <1>1. slot[h] \in Indices /\ At(slot[h]) # "empty"
    BY HoldersAre DEF IInv
  <1>2. /\ RingOK' /\ Length' = Length
        /\ \A j \in Indices : At(j)' = IF j = slot[h] THEN v ELSE At(j)
    BY <1>1, RingStored DEF IInv
  <1>3. Holders' = Holders \ {h} /\ \A g \in Holders' : slot'[g] = slot[g]
    BY DEF Holders, Restrict
  <1>4. HoldersHold'
    <2> SUFFICES ASSUME NEW g \in Holders \ {h}
                 PROVE  /\ sender'[g] = "open"
                        /\ slot[g] < Length /\ waiting'[slot[g] + 1] = "reserved"
                        /\ \A f \in Holders \ {h} : slot[f] = slot[g] => f = g
      BY <1>2, <1>3 DEF HoldersHold, At
    <2>1. slot[g] # slot[h] /\ slot[g] \in Indices /\ At(slot[g]) = "reserved"
      BY HoldersAre DEF IInv, HoldersHold
    <2>2. waiting'[slot[g] + 1] = "reserved"
      BY <1>2, <2>1 DEF At
    <2> QED
      BY <2>2 DEF IInv, HoldersHold
  <1>5. ReservedHeld'
    <2> SUFFICES ASSUME NEW i \in Indices, At(i)' = "reserved"
                 PROVE  \E g \in Holders \ {h} : slot[g] = i
      BY <1>2, <1>3 DEF ReservedHeld, Indices
    <2>1. i # slot[h] /\ At(i) = "reserved"
      BY <1>2
    <2> QED
      BY <2>1 DEF IInv, ReservedHeld
  <1> QED
    BY <1>2, <1>4, <1>5 DEF Reserved

\* The slot at write_idx is reserved for h ...
LEMMA RingReserved ==
    ASSUME IInv, ~IsFull,
           NEW h \in Sender \ Holders,
           Store(write_idx, "reserved"), write_idx' = Wrap(write_idx + 1),
           slot' = [g \in Holders \cup {h} |-> IF g = h THEN write_idx ELSE slot[g]],
           UNCHANGED <<read_idx, max_waiting>>,
           \A g \in Holders \cup {h} : sender'[g] = "open"
    PROVE  Reserved'
  <1>1. /\ RingOK' /\ Length' = Length /\ write_idx \in Indices /\ At(write_idx) = "empty"
        /\ \A j \in Indices : At(j)' = IF j = write_idx THEN "reserved" ELSE At(j)
    BY RingPushed, RingIs DEF IInv, Content
  <1>2. Holders' = Holders \cup {h}
    BY DEF Holders
  <1>3. \A g \in Holders : slot'[g] = slot[g] /\ slot[g] \in Indices /\ slot[g] # write_idx
    <2>1. \A g \in Holders : slot[g] \in Indices /\ At(slot[g]) # "empty"
      BY HoldersAre DEF IInv
    <2> QED
      BY <1>1, <2>1
  <1>4. slot'[h] = write_idx
    OBVIOUS
  <1>5. HoldersHold'
    <2> SUFFICES ASSUME NEW g \in Holders \cup {h}
                 PROVE  /\ slot'[g] < Length /\ waiting'[slot'[g] + 1] = "reserved"
                        /\ \A f \in Holders \cup {h} : slot'[f] = slot'[g] => f = g
      BY <1>1, <1>2 DEF HoldersHold, At
    <2>1. CASE g = h
      BY <1>1, <1>3, <1>4, <2>1, RingIs DEF At, IInv, Indices
    <2>2. CASE g # h
      <3>1. g \in Holders /\ slot'[g] = slot[g] /\ slot[g] \in Indices /\ slot[g] # write_idx
        BY <1>3, <2>2
      <3>2. waiting'[slot[g] + 1] = "reserved"
        BY <1>1, <3>1 DEF At, IInv, HoldersHold
      <3>3. \A f \in Holders \cup {h} : slot'[f] = slot'[g] => f = g
        BY <1>3, <1>4, <3>1 DEF IInv, HoldersHold
      <3> QED
        BY <3>1, <3>2, <3>3 DEF IInv, HoldersHold
    <2> QED
      BY <2>1, <2>2
  <1>6. ReservedHeld'
    <2> SUFFICES ASSUME NEW i \in Indices, At(i)' = "reserved"
                 PROVE  \E g \in Holders \cup {h} : slot'[g] = i
      BY <1>1, <1>2 DEF ReservedHeld, Indices
    <2>1. CASE i = write_idx
      BY <1>4, <2>1
    <2>2. CASE i # write_idx
      <3>1. PICK g \in Holders : slot[g] = i
        BY <1>1, <2>2 DEF IInv, ReservedHeld
      <3> QED
        BY <1>3, <3>1
    <2> QED
      BY <2>1, <2>2
  <1> QED
    BY <1>1, <1>5, <1>6 DEF Reserved

\* ... or filled at once, by send_sync.
LEMMA RingFilled ==
    ASSUME IInv, ~IsFull,
           NEW v \in Content \ {"empty", "reserved"},
           Store(write_idx, v), write_idx' = Wrap(write_idx + 1),
           UNCHANGED <<read_idx, max_waiting, slot>>,
           \A g \in Holders : sender'[g] = "open"
    PROVE  Reserved'
  <1>1. /\ RingOK' /\ Length' = Length /\ write_idx \in Indices /\ At(write_idx) = "empty"
        /\ \A j \in Indices : At(j)' = IF j = write_idx THEN v ELSE At(j)
    BY RingPushed, RingIs DEF IInv
  <1>2. Holders' = Holders
    BY DEF Holders
  <1>3. HoldersHold'
    <2> SUFFICES ASSUME NEW g \in Holders
                 PROVE  slot[g] < Length /\ waiting'[slot[g] + 1] = "reserved"
      BY <1>1, <1>2 DEF HoldersHold, At, IInv
    <2>1. slot[g] \in Indices /\ At(slot[g]) = "reserved"
      BY HoldersAre DEF IInv
    <2>2. waiting'[slot[g] + 1] = "reserved"
      BY <1>1, <2>1 DEF At
    <2> QED
      BY <2>2 DEF IInv, HoldersHold
  <1>4. ReservedHeld'
    <2> SUFFICES ASSUME NEW i \in Indices, At(i)' = "reserved"
                 PROVE  \E g \in Holders : slot[g] = i
      BY <1>1, <1>2 DEF ReservedHeld, Indices
    <2>1. At(i) = "reserved"
      BY <1>1
    <2> QED
      BY <2>1 DEF IInv, ReservedHeld
  <1> QED
    BY <1>1, <1>3, <1>4 DEF Reserved

\* The receiver passes k slots, none of them a reserved one.
LEMMA RingReceived ==
    ASSUME IInv, NEW k \in 0 .. Used,
           \A j \in Indices : Offset(j) < k => At(j) # "reserved",
           waiting' = Cleared(k), read_idx' = Wrap(read_idx + k),
           UNCHANGED <<write_idx, max_waiting, slot, sender>>
    PROVE  Reserved'
  <1>1. /\ RingOK' /\ Length' = Length
        /\ \A j \in Indices : At(j)' = IF Offset(j) < k THEN "empty" ELSE At(j)
    BY RingPassed DEF IInv
  <1>2. Holders' = Holders
    BY DEF Holders
  <1>3. \A j \in Indices : At(j)' = "reserved" <=> At(j) = "reserved"
    BY <1>1
  <1>4. HoldersHold'
    <2> SUFFICES ASSUME NEW g \in Holders
                 PROVE  slot[g] < Length /\ waiting'[slot[g] + 1] = "reserved"
      BY <1>1, <1>2 DEF HoldersHold, At, IInv
    <2>1. slot[g] \in Indices /\ At(slot[g]) = "reserved"
      BY HoldersAre DEF IInv
    <2>2. waiting'[slot[g] + 1] = "reserved"
      BY <1>3, <2>1 DEF At
    <2> QED
      BY <2>2 DEF IInv, HoldersHold
  <1>5. ReservedHeld'
    BY <1>1, <1>2, <1>3 DEF ReservedHeld, Indices, IInv
  <1> QED
    BY <1>1, <1>4, <1>5 DEF Reserved

\* A slot comes or goes: nothing is reserved at the time.
LEMMA RingResized ==
    ASSUME IInv, RingOK', UNCHANGED slot,
           \A j \in Indices : At(j) # "reserved",
           \A j \in Indices' : At(j)' = "empty"
    PROVE  Reserved'
  <1>1. Holders = {}
    BY HoldersAre DEF IInv
  <1>2. Holders' = {}
    BY <1>1 DEF Holders
  <1>3. HoldersHold' /\ ReservedHeld'
    BY <1>2 DEF HoldersHold, ReservedHeld
  <1> QED
    BY <1>3 DEF Reserved

-----------------------------------------------------------------------------
(* The receiver's critical sections *)

\* No message, sender or receiver is taken for another, or for a slot that has no message.
LEMMA NamesDiffer ==
    /\ \A m \in Message : m \notin {"empty", "reserved", "released"} /\ m \notin Sender
    /\ Receiver \notin Sender
    /\ Message \subseteq Content \ {"empty", "reserved"}
  BY SendersAssumption, MessagesAssumption DEF Content

\* The slots that the receiver passes over were released.
LEMMA Passed ==
    ASSUME TypeOK, Window
    PROVE  /\ \A j \in Indices : Offset(j) \in Nat /\ Nth(Offset(j)) = At(j)
           /\ \A j \in Indices : Offset(j) < Skipped => At(j) = "released"
  <1>1. Length \in Nat \ {0} /\ read_idx \in 0 .. Length - 1 /\ Used \in 0 .. Length - 1
    BY RingIs, UsedIs DEF Indices
  <1>2. ASSUME NEW j \in Indices
        PROVE  Offset(j) \in Nat /\ Nth(Offset(j)) = At(j)
    <2>1. j \in 0 .. Length - 1 /\ Offset(j) = Steps(read_idx, j, Length)
      BY DEF Indices, Offset, Wrap, Steps
    <2> DEFINE k == Offset(j)
    <2>2. k \in 0 .. Length - 1
      BY <1>1, <2>1, StepsIs
    <2>3. j = On(read_idx, k, Length)
      <3>1. Steps(read_idx, j, Length) = k
        BY <2>1
      <3> HIDE DEF k
      <3> QED
        BY <1>1, <2>1, <2>2, <3>1, OnSteps
    <2> QED
      BY <2>2, <2>3 DEF Nth, Wrap, On
  <1>3. ASSUME NEW j \in Indices, Offset(j) < Skipped
        PROVE  At(j) = "released"
    <2>1. Skipped \in Nat /\ \A k \in 0 .. Skipped - 1 : Nth(k) = "released"
      BY <1>1, SkippedIs
    <2>2. Offset(j) \in 0 .. Skipped - 1
      BY <1>2, <1>3, <2>1
    <2> QED
      BY <1>2, <2>1, <2>2
  <1> QED
    BY <1>2, <1>3

\* A message is taken with the released slots before it.
LEMMA Taken ==
    ASSUME TypeOK, Window, Foremost \in Message
    PROVE  /\ Skipped + 1 \in 0 .. Used /\ Skipped \in Nat
           /\ \A j \in Indices : Offset(j) < Skipped + 1 => At(j) # "reserved"
  <1>1. Skipped \in 0 .. Used /\ Skipped # Used /\ Used \in Nat
    BY SkippedIs, UsedIs, NamesDiffer, RingIs
  <1>2. ASSUME NEW j \in Indices, Offset(j) < Skipped + 1
        PROVE  At(j) # "reserved"
    <2>1. Offset(j) \in Nat /\ Nth(Offset(j)) = At(j)
      BY Passed
    <2>2. CASE Offset(j) < Skipped
      BY <2>2, Passed
    <2>3. CASE Offset(j) = Skipped
      BY <2>1, <2>3, NamesDiffer DEF Foremost
    <2> QED
      BY <1>1, <1>2, <2>1, <2>2, <2>3
  <1> QED
    BY <1>1, <1>2

\* What Take does to the ring: it is the only message of a channel of length 0 ...
LEMMA TakeShrinks ==
    ASSUME IInv, NEW call, NEW woken, Take(call, woken), max_waiting = 0, Length > 1
    PROVE  /\ Reserved'
           /\ Length = 2 /\ Length' = 1 /\ Skipped = 0 /\ Used = 1 /\ Used' = 0
           /\ At(0)' = "empty" /\ Wrap(read_idx + Skipped + 1) = write_idx
  <1>1. Foremost \in Message /\ Foremost # "empty"
    BY NamesDiffer DEF Take
  <1>2. /\ waiting' = SubSeq(Cleared(Skipped + 1), 1, Length - 1)
        /\ read_idx' = 0 /\ write_idx' = 0 /\ UNCHANGED <<max_waiting, slot>>
    BY DEF Take, senderVars
  <1>3. /\ RingOK'
        /\ Length = 2 /\ Length' = 1 /\ Skipped = 0 /\ Used = 1 /\ Used' = 0 /\ At(0)' = "empty"
    BY <1>1, <1>2, RingShrunk DEF IInv
  <1>4. \A j \in Indices : At(j) # "reserved"
    <2> SUFFICES ASSUME NEW j \in Indices, At(j) = "reserved"
                 PROVE  FALSE
      OBVIOUS
    <2>1. Offset(j) >= 1 => At(j) = "empty"
      BY <1>3 DEF IInv, Window
    <2>2. Offset(j) < 1 => At(j) # "reserved"
      BY <1>1, <1>3, Taken DEF IInv
    <2>3. Offset(j) \in Nat
      BY Passed DEF IInv
    <2> QED
      BY <2>1, <2>2, <2>3
  <1>5. \A j \in Indices' : At(j)' = "empty"
    BY <1>3 DEF Indices
  <1>6. Reserved'
    BY <1>2, <1>3, <1>4, <1>5, RingResized
  <1>7. Wrap(read_idx + Skipped + 1) = write_idx
    <2>1. write_idx = On(read_idx, 1, Length) /\ read_idx \in Nat
      BY <1>3, UsedIs, RingIs DEF IInv
    <2> QED
      BY <1>3, <2>1 DEF On, Wrap
  <1> QED
    BY <1>3, <1>6, <1>7

\* ... or the ring keeps its length.
LEMMA TakePasses ==
    ASSUME IInv, NEW call, NEW woken, Take(call, woken), ~(max_waiting = 0 /\ Length > 1)
    PROVE  /\ Reserved'
           /\ Length' = Length /\ Skipped + 1 \in 0 .. Used /\ Used' = Used - (Skipped + 1)
           /\ read_idx' = Wrap(read_idx + Skipped + 1) /\ write_idx' = write_idx
           /\ \A j \in Indices : At(j)' = IF Offset(j) < Skipped + 1 THEN "empty" ELSE At(j)
  <1>1. /\ Skipped + 1 \in 0 .. Used /\ Skipped \in Nat
        /\ \A j \in Indices : Offset(j) < Skipped + 1 => At(j) # "reserved"
    BY Taken DEF IInv, Take
  <1> DEFINE k == Skipped + 1
  <1>2. /\ waiting' = Cleared(k) /\ read_idx' = Wrap(read_idx + k)
        /\ UNCHANGED <<write_idx, max_waiting, slot, sender>>
    <2>1. read_idx + Skipped + 1 = read_idx + k
      BY <1>1, RingIs DEF IInv
    <2> QED
      BY <2>1 DEF Take, senderVars
  <1>3. k \in 0 .. Used /\ \A j \in Indices : Offset(j) < k => At(j) # "reserved"
    BY <1>1
  <1>4. read_idx' = Wrap(read_idx + Skipped + 1)
    BY DEF Take
  <1> HIDE DEF k
  <1>5. /\ Reserved' /\ Length' = Length /\ Used' = Used - k
        /\ \A j \in Indices : At(j)' = IF Offset(j) < k THEN "empty" ELSE At(j)
    <2>1. Reserved'
      BY <1>2, <1>3, RingReceived
    <2>2. /\ Length' = Length /\ Used' = Used - k
          /\ \A j \in Indices : At(j)' = IF Offset(j) < k THEN "empty" ELSE At(j)
      BY <1>2, <1>3, RingPassed DEF IInv
    <2> QED
      BY <2>1, <2>2
  <1> QED
    BY <1>1, <1>2, <1>4, <1>5 DEF k

\* What TakeEnd and Await do to it
LEMMA OnlyPasses ==
    ASSUME IInv, waiting' = Cleared(Skipped), read_idx' = Wrap(read_idx + Skipped),
           UNCHANGED <<write_idx, max_waiting, slot, sender>>
    PROVE  /\ Reserved'
           /\ Length' = Length /\ Skipped \in 0 .. Used /\ Used' = Used - Skipped
           /\ \A j \in Indices : At(j)' = IF Offset(j) < Skipped THEN "empty" ELSE At(j)
  <1>1. Skipped \in 0 .. Used /\ \A j \in Indices : Offset(j) < Skipped => At(j) # "reserved"
    BY SkippedIs, Passed DEF IInv
  <1>2. Reserved'
    BY <1>1, RingReceived
  <1>3. /\ Length' = Length /\ Used' = Used - Skipped
        /\ \A j \in Indices : At(j)' = IF Offset(j) < Skipped THEN "empty" ELSE At(j)
    BY <1>1, RingPassed DEF IInv
  <1> QED
    BY <1>1, <1>2, <1>3

\* A receiver of a zero-length channel opens its slot when the channel is empty, and doubles the ring.
LEMMA Opens ==
    ASSUME IInv, NEW before, NEW after, Open(before, after)
    PROVE  /\ Reserved'
           /\ Length = 1 /\ Length' = 2 /\ Used = 0 /\ Used' = 0 /\ IsEmpty
           /\ \A j \in 0 .. 1 : At(j)' = "empty"
  <1>1. /\ RingOK' /\ Length' = 2 /\ Used = 0 /\ Used' = 0
        /\ At(0) = "empty" /\ \A j \in 0 .. 1 : At(j)' = "empty"
    BY RingOpened DEF Open, IInv
  <1>2. Length = 1
    BY DEF Open, NeedsSlot
  <1>3. (\A j \in Indices : At(j) # "reserved") /\ (\A j \in Indices' : At(j)' = "empty")
    BY <1>1, <1>2 DEF Indices
  <1>4. Reserved'
    BY <1>1, <1>3, RingResized DEF Open, senderVars
  <1>5. IsEmpty
    BY <1>1, UsedIs DEF IInv
  <1> QED
    BY <1>1, <1>2, <1>4, <1>5

-----------------------------------------------------------------------------
(* The reservations *)

\* The message that a sender is given was not given before.
LEMMA NextMessageIs ==
    ASSUME IInv, NEW h, MessageLeft(h)
    PROVE  NextMessage \in Message \ given
  <1>1. CASE Message \ given # {}
    BY <1>1 DEF NextMessage
  <1>2. CASE Message \ given = {}
    <2>1. Cardinality(Message \ given) = 0
      BY <1>2, FS_EmptySet
    <2>2. Cardinality({g \in Sender \ {h} : sender[g] = "sending"}) \in Nat
      <3>1. IsFiniteSet({g \in Sender \ {h} : sender[g] = "sending"})
        BY SendersAssumption, FS_Subset
      <3> QED
        BY <3>1, FS_CardinalityType
    <2> QED
      BY <2>1, <2>2 DEF MessageLeft
  <1> QED
    BY <1>1, <1>2

\* Of a sender whose call holds no reservation only the state changes.
LEMMA NotHolding ==
    ASSUME IInv, NEW h \in Sender, NEW call \in Call, Within(h, call)
    PROVE  h \notin Holders
  BY DEF IInv, HoldersHold, Within, Call

\* Every step keeps the ring between its indices, and each reservation in a slot of its own.
LEMMA RingStep ==
    ASSUME IInv, Next
    PROVE  Reserved'
  <1>0. /\ \A h \in Holders : h \in Sender /\ sender[h] = "open"
        /\ sender \in [Sender -> {"none", "open", "closed", "dropped"} \cup Call]
    BY DEF IInv, HoldersHold, TypeOK
  <1>1. ASSUME NEW h \in Sender, PollReady(h)
        PROVE  Reserved'
    <2>1. CASE PollReadyReserves(h)
      <3>1. \A g \in Holders \cup {h} : sender'[g] = "open"
        BY <1>0, <2>1 DEF PollReadyReserves, Return
      <3> QED
        BY <2>1, <3>1, RingReserved DEF PollReadyReserves
    <2>2. CASE PollReadyAtOnce(h) \/ PollReadyFull(h)
      <3>1. \A g \in Holders : sender'[g] = "open"
        BY <1>0, <2>2 DEF PollReadyAtOnce, PollReadyFull, Return, Sleep
      <3>2. UNCHANGED <<ringVars, slot>>
        BY <2>2 DEF PollReadyAtOnce, PollReadyFull
      <3> QED
        BY <3>1, <3>2, RingKept
    <2> QED
      BY <1>1, <2>1, <2>2 DEF PollReady
  <1>2. ASSUME NEW h \in Sender, StartSend(h)
        PROVE  Reserved'
    <2>1. NextMessage \in Content \ {"empty", "reserved"}
      BY <1>2, NextMessageIs, NamesDiffer DEF StartSend
    <2>2. \A g \in Holders \ {h} : sender'[g] = "open"
      BY <1>0, <1>2 DEF StartSend, Return
    <2> QED
      BY <1>2, <2>1, <2>2, RingSettled DEF StartSend
  <1>3. ASSUME NEW h \in Sender, NEW call \in Call, Unreserve(h, call)
        PROVE  Reserved'
    <2>1. "released" \in Content \ {"empty", "reserved"}
      BY DEF Content
    <2>2. \A g \in Holders \ {h} : sender'[g] = "open"
      BY <1>0, <1>3 DEF Unreserve, GiveUp, Return
    <2> QED
      BY <1>3, <2>1, <2>2, RingSettled DEF Unreserve, GiveUp
  <1>4. ASSUME NEW h \in Sender, PollFlush(h) \/ PollClose(h) \/ DropSender(h)
        PROVE  Reserved'
    <2>1. h \notin Holders /\ UNCHANGED <<ringVars, slot>>
      BY <1>4, NotHolding DEF PollFlush, PollClose, DropSender, PollFlushed, PollUnflushed,
                              PollClosed, PollCloseFails, Leave, Call
    <2>2. \A g \in Holders : sender'[g] = "open"
      BY <1>0, <1>4, <2>1 DEF PollFlush, PollClose, DropSender, PollFlushed, PollUnflushed,
                              PollClosed, PollCloseFails, Leave, Return, Sleep
    <2> QED
      BY <2>1, <2>2, RingKept
  <1>5. ASSUME NEW h \in Sender, SendSync(h)
        PROVE  Reserved'
    <2>1. h \notin Holders
      BY <1>5, NotHolding DEF SendSync, SendSyncStores, SendSyncParks, SendSyncFails, Call
    <2>2. \A g \in Holders : sender'[g] = "open"
      BY <1>0, <1>5, <2>1 DEF SendSync, SendSyncStores, SendSyncParks, SendSyncFails, Return
    <2>3. CASE SendSyncStores(h)
      <3>1. NextMessage \in Content \ {"empty", "reserved"}
        BY <2>3, NextMessageIs, NamesDiffer DEF SendSyncStores
      <3> QED
        BY <2>2, <2>3, <3>1, RingFilled DEF SendSyncStores
    <2>4. CASE SendSyncParks(h) \/ SendSyncFails(h)
      <3>1. UNCHANGED <<ringVars, slot>>
        BY <2>4 DEF SendSyncParks, SendSyncFails
      <3> QED
        BY <2>2, <3>1, RingKept
    <2> QED
      BY <1>5, <2>3, <2>4 DEF SendSync
  <1>6. ASSUME NEW h \in Sender, NEW g \in Sender, Clone(h, g)
        PROVE  Reserved'
    <2>1. \A f \in Holders : sender'[f] = "open"
      BY <1>0, <1>6 DEF Clone
    <2>2. UNCHANGED <<ringVars, slot>>
      BY <1>6 DEF Clone
    <2> QED
      BY <2>1, <2>2, RingKept
  <1>7. CASE PollOpens \/ SyncOpens
    BY <1>7, Opens DEF PollOpens, SyncOpens
  <1>8. ASSUME NEW call, TakeMessage(call)
        PROVE  Reserved'
    BY <1>8, TakeShrinks, TakePasses DEF TakeMessage
  <1>9. ASSUME NEW call, TakeEnd(call) \/ AwaitMessage(call)
        PROVE  Reserved'
    BY <1>9, OnlyPasses DEF TakeEnd, AwaitMessage, Await, senderVars
  <1>10. CASE DropReceiver
    BY <1>0, <1>10, RingKept DEF DropReceiver, senderVars
  <1> QED
    BY <1>1, <1>2, <1>3, <1>4, <1>5, <1>6, <1>7, <1>8, <1>9, <1>10 DEF Next, Receive

-----------------------------------------------------------------------------
(* The types of what is not the ring *)

WaiterTypes == waiting_senders \in Seq(Sender) /\ waiting_flushers \subseteq Sender

SenderTypes ==
    /\ closed_count \in Nat
    /\ sender \in [Sender -> {"none", "open", "closed", "dropped"} \cup Call]
    /\ Holders \subseteq Sender /\ slot \in [Holders -> Nat]
    /\ awaiting \in [Sender -> {"nothing", "ready", "flush", "close"}]

ReceiverTypes ==
    /\ recv_waker \in BOOLEAN /\ ended \in BOOLEAN
    /\ receiver \in {"idle", "opened", "sync", "sync_opened", "dropped"}
    /\ asleep \subseteq Sender \cup {Receiver}
    /\ given \subseteq Message /\ received \in Seq(Message)

\* The types and the window, sorted by the variables they are about.
LEMMA TypesAre == TypeOK /\ Window <=> RingOK /\ WaiterTypes /\ SenderTypes /\ ReceiverTypes
  BY DEF TypeOK, RingOK, Indices, Content, WaiterTypes, SenderTypes, ReceiverTypes

\* A sender that queues up is in the list of those that wait, and nobody leaves it.
LEMMA QueueUpTypes ==
    ASSUME WaiterTypes, NEW h \in Sender, QueueUp(h)
    PROVE  /\ waiting_senders' \in Seq(Sender)
           /\ Range(waiting_senders') = Range(waiting_senders) \cup {h}
  <1>1. CASE h \in Range(waiting_senders)
    BY <1>1 DEF QueueUp, WaiterTypes
  <1>2. CASE h \notin Range(waiting_senders)
    <2>1. waiting_senders' = Append(waiting_senders, h)
      BY <1>2 DEF QueueUp
    <2>2. /\ waiting_senders' \in Seq(Sender)
          /\ Len(waiting_senders') = Len(waiting_senders) + 1
          /\ \A i \in 1 .. Len(waiting_senders) : waiting_senders'[i] = waiting_senders[i]
          /\ waiting_senders'[Len(waiting_senders) + 1] = h
      BY <2>1, AppendProperties DEF WaiterTypes
    <2>3. /\ Len(waiting_senders) \in Nat
          /\ DOMAIN waiting_senders = 1 .. Len(waiting_senders)
          /\ DOMAIN waiting_senders' = 1 .. Len(waiting_senders) + 1
      BY <2>2 DEF WaiterTypes
    <2> QED
      BY <2>2, <2>3 DEF Range
  <1> QED
    BY <1>1, <1>2

\* Waking the first one
LEMMA RestTypes ==
    ASSUME NEW queue \in Seq(Sender)
    PROVE  /\ RestOf(queue) \in Seq(Sender) /\ FirstOf(queue) \subseteq Sender
           /\ Range(queue) = FirstOf(queue) \cup Range(RestOf(queue))
  <1>1. CASE queue = <<>>
    BY <1>1 DEF RestOf, FirstOf, Range
  <1>2. CASE queue # <<>>
    <2>1. /\ Head(queue) = queue[1] /\ Head(queue) \in Sender
          /\ Tail(queue) \in Seq(Sender) /\ Len(queue) \in Nat \ {0}
          /\ Len(Tail(queue)) = Len(queue) - 1
          /\ \A i \in 1 .. Len(queue) - 1 : Tail(queue)[i] = queue[i + 1]
      BY <1>2, HeadTailProperties
    <2>2. DOMAIN queue = 1 .. Len(queue) /\ DOMAIN Tail(queue) = 1 .. Len(queue) - 1
      BY <2>1
    <2>3. ASSUME NEW x \in Range(queue)
          PROVE  x \in {Head(queue)} \cup Range(Tail(queue))
      <3>1. PICK i \in 1 .. Len(queue) : queue[i] = x
        BY <2>2 DEF Range
      <3>2. CASE i # 1
        <4>1. i - 1 \in 1 .. Len(queue) - 1 /\ (i - 1) + 1 = i
          BY <2>1, <3>2
        <4>2. Tail(queue)[i - 1] = x
          BY <2>1, <3>1, <4>1
        <4> QED
          BY <2>2, <4>1, <4>2 DEF Range
      <3> QED
        BY <2>1, <3>1, <3>2
    <2>4. ASSUME NEW x \in {Head(queue)} \cup Range(Tail(queue))
          PROVE  x \in Range(queue)
      <3>1. CASE x = Head(queue)
        BY <2>1, <2>2, <3>1 DEF Range
      <3>2. CASE x \in Range(Tail(queue))
        <4>1. PICK i \in 1 .. Len(queue) - 1 : Tail(queue)[i] = x
          BY <2>2, <3>2 DEF Range
        <4>2. i + 1 \in 1 .. Len(queue) /\ queue[i + 1] = x
          BY <2>1, <4>1
        <4> QED
          BY <2>2, <4>2 DEF Range
      <3> QED
        BY <3>1, <3>2
    <2> QED
      BY <1>2, <2>1, <2>3, <2>4 DEF RestOf, FirstOf
  <1> QED
    BY <1>1, <1>2

\* The lists of waiting senders, flushers and the receiver's waker keep their types.
LEMMA WaiterTypesStep ==
    ASSUME IInv, Next
    PROVE  WaiterTypes'
  <1>0. WaiterTypes
    BY TypesAre DEF IInv
  <1>1. RestOf(waiting_senders) \in Seq(Sender)
    BY <1>0, RestTypes DEF WaiterTypes
  <1>2. ASSUME NEW h \in Sender,
               QueueUp(h) /\ UNCHANGED waiting_flushers
        PROVE  WaiterTypes'
    BY <1>0, <1>2, QueueUpTypes DEF WaiterTypes
  <1>3. ASSUME NEW h \in Sender,
               PollReady(h) \/ StartSend(h) \/ PollFlush(h) \/ PollClose(h) \/ SendSync(h)
               \/ (\E call \in Call : Unreserve(h, call)) \/ DropSender(h)
               \/ \E g \in Sender : Clone(h, g)
        PROVE  WaiterTypes'
    <2>1. CASE PollReadyFull(h) \/ SendSyncParks(h)
      BY <1>2, <2>1 DEF PollReadyFull, SendSyncParks
    <2>2. CASE PollUnflushed(h, "flushing", "flush") \/ PollUnflushed(h, "closing", "close")
      BY <1>0, <2>2 DEF PollUnflushed, WaiterTypes
    <2>3. CASE UNCHANGED waiters
      BY <1>0, <2>3 DEF waiters, WaiterTypes
    <2> QED
      BY <1>3, <2>1, <2>2, <2>3
         DEF PollReady, PollReadyAtOnce, PollReadyReserves, StartSend, PollFlush, PollFlushed,
             PollClose, PollClosed, PollCloseFails, SendSync, SendSyncStores, SendSyncFails,
             Unreserve, GiveUp, DropSender, Leave, Clone
  <1>4. CASE PollOpens \/ SyncOpens
    BY <1>0, <1>1, <1>4 DEF PollOpens, SyncOpens, Open, WaiterTypes
  <1>5. CASE Receive
    <2>1. waiting_senders' \in {waiting_senders, <<>>, RestOf(waiting_senders)}
      BY <1>5 DEF Receive, TakeMessage, Take, TakeEnd, AwaitMessage, Await, waiters
    <2>2. waiting_flushers' \in {waiting_flushers, {}}
      BY <1>5 DEF Receive, TakeMessage, Take, TakeEnd, AwaitMessage, Await, waiters
    <2>3. waiting_senders' \in Seq(Sender)
      <3>1. <<>> \in Seq(Sender) /\ waiting_senders \in Seq(Sender)
        BY <1>0, EmptySeq DEF WaiterTypes
      <3> QED
        BY <1>1, <2>1, <3>1, Zenon
    <2>4. waiting_flushers' \subseteq Sender
      BY <1>0, <2>2 DEF WaiterTypes
    <2> QED
      BY <2>3, <2>4 DEF WaiterTypes
  <1>6. CASE DropReceiver
    BY <1>6 DEF DropReceiver, WaiterTypes
  <1> QED
    BY <1>3, <1>4, <1>5, <1>6 DEF Next

-----------------------------------------------------------------------------
(* The senders *)

AwaitingIsOpen == \A h \in Sender : awaiting[h] # "nothing" => sender[h] = "open"

\* The states and the count agree.
SendersCounted ==
    /\ sender \in [Sender -> {"none", "open", "closed", "dropped"} \cup Call]
    /\ awaiting \in [Sender -> {"nothing", "ready", "flush", "close"}]
    /\ closed_count \in Nat /\ closed_count = Cardinality(Left)
    /\ AwaitingIsOpen

\* closed_count counts the senders that have left.
LEMMA CountedIs == IInv => SendersCounted /\ IsFiniteSet(Left)
  BY SendersAssumption, FS_Subset DEF IInv, TypeOK, SendersCounted, AwaitingIsOpen, Left

\* A call begins, waits or is over ...
LEMMA CallGoesOn ==
    ASSUME SendersCounted, NEW h \in Sender, sender[h] \in {"open"} \cup Call,
           \/ Return(h, "open") \/ \E call \in Call : Return(h, call)
           \/ \E operation \in {"ready", "flush", "close"} : Sleep(h, operation),
           UNCHANGED closed_count
    PROVE  SendersCounted'
  <1>1. /\ sender' \in [Sender -> {"none", "open", "closed", "dropped"} \cup Call]
        /\ awaiting' \in [Sender -> {"nothing", "ready", "flush", "close"}]
        /\ sender'[h] \in {"open"} \cup Call
        /\ awaiting'[h] # "nothing" => sender'[h] = "open"
        /\ \A g \in Sender \ {h} : sender'[g] = sender[g] /\ awaiting'[g] = awaiting[g]
    BY DEF SendersCounted, Return, Sleep
  <1>2. Left' = Left
    BY <1>1 DEF Left, Call
  <1>3. AwaitingIsOpen'
    BY <1>1 DEF SendersCounted, AwaitingIsOpen
  <1> QED
    BY <1>1, <1>2, <1>3 DEF SendersCounted

\* ... one more sender is closed or dropped ...
LEMMA OneMoreLeft ==
    ASSUME SendersCounted, IsFiniteSet(Left), NEW h \in Sender \ Left,
           sender'[h] \in {"closed", "dropped"}, awaiting'[h] = "nothing",
           sender' \in [Sender -> {"none", "open", "closed", "dropped"} \cup Call],
           awaiting' \in [Sender -> {"nothing", "ready", "flush", "close"}],
           \A g \in Sender \ {h} : sender'[g] = sender[g] /\ awaiting'[g] = awaiting[g],
           closed_count' = closed_count + 1
    PROVE  SendersCounted'
  <1>1. Left' = Left \cup {h}
    BY DEF Left
  <1>2. Cardinality(Left \cup {h}) = Cardinality(Left) + 1
    BY FS_AddElement
  <1>3. AwaitingIsOpen'
    BY DEF SendersCounted, AwaitingIsOpen
  <1> QED
    BY <1>1, <1>2, <1>3 DEF SendersCounted

\* A close or a drop counts the sender that left, once.
LEMMA SenderLeaves ==
    ASSUME SendersCounted, IsFiniteSet(Left), NEW h \in Sender, sender[h] \in {"open"} \cup Call,
           NEW after \in {"closed", "dropped"}, Return(h, after),
           closed_count' = closed_count + 1
    PROVE  SendersCounted'
  <1>1. h \notin Left
    BY DEF Left, Call
  <1>2. /\ sender' \in [Sender -> {"none", "open", "closed", "dropped"} \cup Call]
        /\ awaiting' \in [Sender -> {"nothing", "ready", "flush", "close"}]
        /\ sender'[h] = after /\ awaiting'[h] = "nothing"
        /\ \A g \in Sender \ {h} : sender'[g] = sender[g] /\ awaiting'[g] = awaiting[g]
    BY DEF SendersCounted, Return
  <1> QED
    BY <1>1, <1>2, OneMoreLeft

\* ... or a handle is cloned.
LEMMA SenderCloned ==
    ASSUME SendersCounted, IsFiniteSet(Left), NEW h \in Sender, NEW g \in Sender, Clone(h, g)
    PROVE  SendersCounted'
  <1>1. /\ sender' \in [Sender -> {"none", "open", "closed", "dropped"} \cup Call]
        /\ awaiting' \in [Sender -> {"nothing", "ready", "flush", "close"}]
        /\ sender'[g] = sender[h] /\ awaiting'[g] = awaiting[g] /\ awaiting[g] = "nothing"
        /\ \A f \in Sender \ {g} : sender'[f] = sender[f] /\ awaiting'[f] = awaiting[f]
    BY DEF SendersCounted, Clone, AwaitingIsOpen
  <1>2. CASE sender[h] = "closed"
    <2>1. g \notin Left
      BY DEF Left, Clone
    <2>2. closed_count' = closed_count + 1
      BY <1>2 DEF Clone
    <2> QED
      BY <1>1, <1>2, <2>1, <2>2, OneMoreLeft
  <1>3. CASE sender[h] = "open"
    <2>1. Left' = Left /\ closed_count' = closed_count
      BY <1>1, <1>3 DEF Left, Clone
    <2>2. AwaitingIsOpen'
      BY <1>1 DEF SendersCounted, AwaitingIsOpen
    <2> QED
      BY <1>1, <2>1, <2>2 DEF SendersCounted
  <1> QED
    BY <1>2, <1>3 DEF Clone

\* closed_count counts on: a clone of a closed sender counts as one that left.
LEMMA SendersStep ==
    ASSUME IInv, Next
    PROVE  SendersCounted'
  <1>0. SendersCounted /\ IsFiniteSet(Left)
    BY CountedIs
  <1>1. ASSUME NEW h \in Sender,
               \/ PollReady(h) \/ StartSend(h) \/ PollFlush(h) \/ PollCloseFails(h)
               \/ PollUnflushed(h, "closing", "close") \/ SendSync(h)
               \/ \E call \in Call : Unreserve(h, call)
        PROVE  SendersCounted'
    <2>1. sender[h] \in {"open"} \cup Call /\ UNCHANGED closed_count
      BY <1>1 DEF PollReady, PollReadyAtOnce, PollReadyReserves, PollReadyFull, StartSend,
             PollFlush, PollFlushed, PollUnflushed, PollCloseFails, SendSync, SendSyncStores,
             SendSyncParks, SendSyncFails, Unreserve, GiveUp, Within, Call
    <2>2. \/ Return(h, "open") \/ \E call \in Call : Return(h, call)
          \/ \E operation \in {"ready", "flush", "close"} : Sleep(h, operation)
      BY <1>1 DEF PollReady, PollReadyAtOnce, PollReadyReserves, PollReadyFull, StartSend,
             PollFlush, PollFlushed, PollUnflushed, PollCloseFails, SendSync, SendSyncStores,
             SendSyncParks, SendSyncFails, Unreserve, GiveUp, Call
    <2> QED
      BY <1>0, <2>1, <2>2, CallGoesOn
  <1>2. ASSUME NEW h \in Sender, PollClosed(h) \/ DropSender(h)
        PROVE  SendersCounted'
    <2>1. sender[h] \in {"open"} \cup Call /\ closed_count' = closed_count + 1
      BY <1>2 DEF PollClosed, DropSender, Leave, Within, Call
    <2>2. \E after \in {"closed", "dropped"} : Return(h, after)
      BY <1>2 DEF PollClosed, DropSender, Leave
    <2> QED
      BY <1>0, <2>1, <2>2, SenderLeaves
  <1>3. ASSUME NEW h \in Sender, NEW g \in Sender, Clone(h, g)
        PROVE  SendersCounted'
    BY <1>0, <1>3, SenderCloned
  <1>4. CASE PollOpens \/ SyncOpens \/ Receive \/ DropReceiver
    <2>1. UNCHANGED <<sender, awaiting, closed_count>>
      BY <1>4 DEF PollOpens, SyncOpens, Open, Receive, TakeMessage, Take, TakeEnd, AwaitMessage,
             Await, DropReceiver, senderVars
    <2> QED
      BY <1>0, <2>1 DEF SendersCounted, AwaitingIsOpen, Left
  <1> QED
    BY <1>1, <1>2, <1>3, <1>4 DEF Next, PollClose

\* Only senders ever hold a reservation.
LEMMA HoldersStep ==
    ASSUME IInv, Next
    PROVE  Holders' \subseteq Sender /\ slot' \in [Holders' -> Nat]
  <1>0. Holders \subseteq Sender /\ slot \in [Holders -> Nat] /\ write_idx \in Nat
    BY RingIs DEF IInv, TypeOK
  <1>1. ASSUME NEW h \in Sender, slot' = Restrict(slot, Holders \ {h})
        PROVE  Holders' \subseteq Sender /\ slot' \in [Holders' -> Nat]
    BY <1>0, <1>1 DEF Restrict, Holders
  <1>2. ASSUME NEW h \in Sender, PollReadyReserves(h)
        PROVE  Holders' \subseteq Sender /\ slot' \in [Holders' -> Nat]
    BY <1>0, <1>2 DEF PollReadyReserves, Holders
  <1>3. CASE UNCHANGED slot
    BY <1>0, <1>3 DEF Holders
  <1> QED
    BY <1>1, <1>2, <1>3
       DEF Next, PollReady, PollReadyAtOnce, PollReadyFull, StartSend, PollFlush, PollFlushed,
           PollUnflushed, PollClose, PollClosed, PollCloseFails, SendSync, SendSyncStores,
           SendSyncParks, SendSyncFails, Unreserve, GiveUp, DropSender, Leave, Clone, PollOpens,
           SyncOpens, Open, Receive, TakeMessage, Take, TakeEnd, AwaitMessage, Await, DropReceiver,
           senderVars

-----------------------------------------------------------------------------
(* The receiver *)

\* Whoever a step puts to sleep is a sender or the receiver; only messages are given and received.
LEMMA ReceiverTypesStep ==
    ASSUME IInv, Next
    PROVE  ReceiverTypes'
  <1>0. ReceiverTypes
    BY TypesAre DEF IInv
  <1>1. ASSUME NEW h \in Sender,
               PollReady(h) \/ StartSend(h) \/ PollFlush(h) \/ PollClose(h) \/ SendSync(h)
               \/ (\E call \in Call : Unreserve(h, call)) \/ DropSender(h)
               \/ \E g \in Sender : Clone(h, g)
        PROVE  ReceiverTypes'
    <2>1. asleep' \subseteq asleep \cup {h}
      BY <1>1 DEF PollReady, PollReadyAtOnce, PollReadyReserves, PollReadyFull, StartSend,
             PollFlush, PollFlushed, PollUnflushed, PollClose, PollClosed, PollCloseFails, SendSync,
             SendSyncStores, SendSyncParks, SendSyncFails, Unreserve, GiveUp, DropSender, Leave,
             Clone, LeaveReceiver, WakeReceiver, Sleep
    <2>2. recv_waker' \in {recv_waker, FALSE} /\ UNCHANGED <<receiver, received, ended>>
      BY <1>1 DEF PollReady, PollReadyAtOnce, PollReadyReserves, PollReadyFull, StartSend,
             PollFlush, PollFlushed, PollUnflushed, PollClose, PollClosed, PollCloseFails, SendSync,
             SendSyncStores, SendSyncParks, SendSyncFails, Unreserve, GiveUp, DropSender, Leave,
             Clone, LeaveReceiver, WakeReceiver, Sleep, history
    <2>3. given' \subseteq Message
      <3>1. given' \in {given, given \cup {NextMessage}}
        BY <1>1 DEF PollReady, PollReadyAtOnce, PollReadyReserves, PollReadyFull, StartSend,
             PollFlush, PollFlushed, PollUnflushed, PollClose, PollClosed, PollCloseFails, SendSync,
             SendSyncStores, SendSyncParks, SendSyncFails, Unreserve, GiveUp, DropSender, Leave,
             Clone, history
      <3>2. given' # given => NextMessage \in Message
        <4>1. given' # given => MessageLeft(h)
          BY <1>1 DEF PollReady, PollReadyAtOnce, PollReadyReserves, PollReadyFull, StartSend,
             PollFlush, PollFlushed, PollUnflushed, PollClose, PollClosed, PollCloseFails, SendSync,
             SendSyncStores, SendSyncParks, SendSyncFails, Unreserve, GiveUp, DropSender, Leave,
             Clone, history
        <4> QED
          BY <4>1, NextMessageIs
      <3> QED
        BY <1>0, <3>1, <3>2 DEF ReceiverTypes
    <2> QED
      BY <1>0, <2>1, <2>2, <2>3 DEF ReceiverTypes
  <1>2. CASE PollOpens \/ SyncOpens \/ DropReceiver
    BY <1>0, <1>2 DEF PollOpens, SyncOpens, Open, DropReceiver, ReceiverTypes, history
  <1>3. ASSUME NEW call, TakeMessage(call)
        PROVE  ReceiverTypes'
    <2>1. received' \in Seq(Message)
      BY <1>0, <1>3, AppendProperties DEF TakeMessage, Take, ReceiverTypes
    <2>2. asleep' \subseteq asleep
      BY <1>3 DEF TakeMessage, Take
    <2>3. recv_waker' = FALSE /\ receiver' = "idle" /\ UNCHANGED <<given, ended>>
      BY <1>3 DEF TakeMessage, Take
    <2> QED
      BY <1>0, <2>1, <2>2, <2>3 DEF ReceiverTypes
  <1>4. ASSUME NEW call, TakeEnd(call) \/ AwaitMessage(call)
        PROVE  ReceiverTypes'
    BY <1>0, <1>4 DEF TakeEnd, AwaitMessage, Await, ReceiverTypes, history
  <1> QED
    BY <1>1, <1>2, <1>3, <1>4 DEF Next, Receive

\* Between its two locks the receiver has a slot: nobody else shrinks the ring.
LEMMA SlotStep ==
    ASSUME IInv, Next
    PROVE  (receiver \in {"opened", "sync_opened"} => ~NeedsSlot)'
  <1>1. CASE PollOpens \/ SyncOpens
    <2>1. Length' = 2
      BY <1>1, Opens DEF PollOpens, SyncOpens
    <2> QED
      BY <2>1 DEF NeedsSlot
  <1>2. CASE Receive \/ DropReceiver
    BY <1>2 DEF Receive, TakeMessage, Take, TakeEnd, AwaitMessage, Await, DropReceiver
  <1>3. ASSUME NEW h \in Sender,
               PollReady(h) \/ StartSend(h) \/ PollFlush(h) \/ PollClose(h) \/ SendSync(h)
               \/ (\E call \in Call : Unreserve(h, call)) \/ DropSender(h)
               \/ \E g \in Sender : Clone(h, g)
        PROVE  (receiver \in {"opened", "sync_opened"} => ~NeedsSlot)'
    <2>1. UNCHANGED <<receiver, max_waiting>>
      BY <1>3 DEF PollReady, PollReadyAtOnce, PollReadyReserves, PollReadyFull, StartSend,
             PollFlush, PollFlushed, PollUnflushed, PollClose, PollClosed, PollCloseFails, SendSync,
             SendSyncStores, SendSyncParks, SendSyncFails, Unreserve, GiveUp, DropSender, Leave,
             Clone, ringVars
    <2>2. waiting' = waiting \/ \E i, v : Store(i, v)
      BY <1>3 DEF PollReady, PollReadyAtOnce, PollReadyReserves, PollReadyFull, StartSend,
             PollFlush, PollFlushed, PollUnflushed, PollClose, PollClosed, PollCloseFails, SendSync,
             SendSyncStores, SendSyncParks, SendSyncFails, Unreserve, GiveUp, DropSender, Leave,
             Clone, ringVars
    <2>3. Length' = Length
      <3>1. ASSUME NEW i, NEW v, Store(i, v)
            PROVE  Len(waiting') = Len(waiting)
        <4>1. waiting \in Seq(Content)
          BY DEF IInv, TypeOK, Content
        <4> QED
          BY <3>1, <4>1 DEF Store
      <3> QED
        BY <2>2, <3>1 DEF Length
    <2> QED
      BY <2>1, <2>3 DEF IInv, NeedsSlot
  <1> QED
    BY <1>1, <1>2, <1>3 DEF Next

\* Every step keeps the invariant.
LEMMA IInvStep ==
    ASSUME IInv, [Next]_vars
    PROVE  IInv'
  <1>1. CASE Next
    <2>1. Reserved' /\ SendersCounted'
      BY <1>1, RingStep, SendersStep
    <2>2. WaiterTypes' /\ ReceiverTypes'
      BY <1>1, WaiterTypesStep, ReceiverTypesStep
    <2>3. Holders' \subseteq Sender /\ slot' \in [Holders' -> Nat]
      BY <1>1, HoldersStep
    <2>4. (receiver \in {"opened", "sync_opened"} => ~NeedsSlot)'
      BY <1>1, SlotStep
    <2>5. RingOK' /\ HoldersHold' /\ ReservedHeld' /\ Window'
      BY <2>1 DEF Reserved, RingOK
    <2>6. TypeOK'
      BY <2>1, <2>2, <2>3, <2>5
         DEF TypeOK, RingOK, Indices, Content, WaiterTypes, ReceiverTypes, SendersCounted
    <2> QED
      BY <2>1, <2>4, <2>5, <2>6 DEF IInv, SendersCounted, AwaitingIsOpen
  <1>2. CASE UNCHANGED vars
    BY <1>2 DEF vars, ringVars, waiters, senderVars, history, IInv, TypeOK, HoldersHold,
           ReservedHeld, Window, Left, NeedsSlot, Length, Holders, Indices, At, Offset, Used, Wrap
  <1> QED
    BY <1>1, <1>2

\* The invariant holds of a new channel.
LEMMA IInvInit == Init => IInv
  <1> SUFFICES ASSUME Init
               PROVE  IInv
    OBVIOUS
  <1>1. max_waiting \in Nat /\ read_idx = 0 /\ write_idx = 0
    BY LensAssumption DEF Init
  <1>2. waiting \in Seq(Content) /\ Length = max_waiting + 1 /\ \A i \in Indices : At(i) = "empty"
    <2> DEFINE n == max_waiting + 1
               ring == [i \in 1 .. n |-> "empty"]
    <2>1. n \in Nat /\ waiting = ring
      BY <1>1 DEF Init
    <2> HIDE DEF n
    <2>2. ring \in Seq(Content) /\ Len(ring) = n
      BY <2>1 DEF Content
    <2>3. \A i \in 0 .. n - 1 : ring[i + 1] = "empty"
      BY <2>1
    <2> QED
      BY <2>1, <2>2, <2>3 DEF n, Length, Indices, At
  <1>3. Window
    <2>1. Length \in Nat \ {0} /\ read_idx \in 0 .. Length - 1
      BY <1>1, <1>2
    <2>2. \A i \in 0 .. Length - 1 : Offset(i) \in Nat
      BY <2>1, StepsIs DEF Offset, Wrap, Steps
    <2>3. Used = 0
      BY <1>1, <2>1, StepsIs DEF Used, Wrap, Steps
    <2> QED
      BY <1>2, <2>2, <2>3 DEF Window, Indices
  <1>4. Holders = {}
    BY DEF Init, Holders
  <1>5. Left = {} /\ closed_count = Cardinality(Left)
    <2>1. Left = {}
      BY DEF Init, Left
    <2> QED
      BY <2>1, FS_EmptySet DEF Init
  <1>6. TypeOK
    <2>1. waiting \in Seq({"empty", "reserved", "released"} \cup Message)
      BY <1>2 DEF Content
    <2>2. /\ Length \in IF max_waiting = 0 THEN {1, 2} ELSE {max_waiting + 1}
          /\ read_idx \in 0 .. Length - 1 /\ write_idx \in 0 .. Length - 1
      BY <1>1, <1>2
    <2>3. /\ waiting_senders \in Seq(Sender) /\ waiting_flushers \subseteq Sender
          /\ received \in Seq(Message) /\ given \subseteq Message
      BY EmptySeq DEF Init
    <2>4. /\ sender \in [Sender -> {"none", "open", "closed", "dropped"} \cup Call]
          /\ awaiting \in [Sender -> {"nothing", "ready", "flush", "close"}]
          /\ Holders \subseteq Sender /\ slot \in [Holders -> Nat]
      BY <1>4 DEF Init, Holders
    <2> QED
      BY <2>1, <2>2, <2>3, <2>4 DEF Init, TypeOK
  <1>7. HoldersHold /\ ReservedHeld
    BY <1>2, <1>4 DEF HoldersHold, ReservedHeld
  <1> QED
    BY <1>3, <1>5, <1>6, <1>7 DEF IInv, Init

\* The invariant holds: whatever any number of senders and the receiver do.
THEOREM Invariant == Spec => []IInv
  <1>1. Init => IInv
    BY IInvInit
  <1>2. IInv /\ [Next]_vars => IInv'
    BY IInvStep
  <1> QED
    BY <1>1, <1>2, PTL DEF Spec

\* Every variable has the type the code gives it, and the indices stay within the ring.
THEOREM TypeCorrect == Spec => []TypeOK
  <1>1. IInv => TypeOK
    BY DEF IInv
  <1> QED
    BY <1>1, Invariant, PTL

\* The index a sender carries is that of its own reserved slot, whatever was received, released or
\* shrunk meanwhile, and just the slots between the indices are in use.
THEOREM ReservationsCorrect == Spec => []ReservationsHold
  <1>1. IInv => ReservationsHold
    BY ReservationsAre DEF IInv
  <1> QED
    BY <1>1, Invariant, PTL

-----------------------------------------------------------------------------
(* Nobody is left asleep *)

\* A part of a finite set that is as large is all of it.
LEMMA AllOf ==
    ASSUME NEW S, IsFiniteSet(S), NEW T \in SUBSET S
    PROVE  Cardinality(T) = Cardinality(S) <=> T = S
  BY FS_Subset

\* All senders are closed or dropped when none of them could send any more.
NobodySends == \A h \in Sender : sender[h] \in {"none", "closed", "dropped"}

\* The receiver's count of closed senders says whether anybody may send.
LEMMA AllClosedIs ==
    ASSUME SendersCounted
    PROVE  AllClosed <=> NobodySends
  <1>1. Left \in SUBSET Created /\ IsFiniteSet(Created)
    BY SendersAssumption, FS_Subset DEF Left, Created
  <1>2. Left = Created <=> NobodySends
    BY DEF Left, Created, SendersCounted, Call, NobodySends
  <1> QED
    BY <1>1, <1>2, AllOf DEF AllClosed, SendersCounted

\* The same, after a step.
LEMMA AllClosedNext ==
    ASSUME SendersCounted'
    PROVE  AllClosed' <=> NobodySends'
  <1>1. Left' \in SUBSET Created' /\ IsFiniteSet(Created')
    BY SendersAssumption, FS_Subset DEF Left, Created
  <1>2. Left' = Created' <=> NobodySends'
    BY DEF Left, Created, SendersCounted, Call, NobodySends
  <1> QED
    BY <1>1, <1>2, AllOf DEF AllClosed, SendersCounted

\* In a ring where something is in use, the indices differ.
LEMMA NoSteps ==
    ASSUME NEW n \in Nat \ {0}, NEW r \in 0 .. n - 1, NEW w \in 0 .. n - 1
    PROVE  Steps(r, w, n) = 0 <=> w = r
  <1>1. Steps(r, w, n) = IF w >= r THEN w - r ELSE w + n - r
    BY StepsIs
  <1> QED
    BY <1>1

\* The indices are equal, after a step, when nothing is in use.
LEMMA NotEmptyNext ==
    ASSUME RingOK'
    PROVE  IsEmpty' <=> Used' = 0
  <1> DEFINE n == Length'  r == read_idx'  w == write_idx'
  <1>1. n \in Nat \ {0} /\ r \in 0 .. n - 1 /\ w \in 0 .. n - 1
    <2>1. max_waiting' \in Nat
      BY LensAssumption DEF RingOK
    <2>2. IF max_waiting' = 0 THEN n \in {1, 2} ELSE n = max_waiting' + 1
      BY DEF RingOK
    <2>3. n \in Nat \ {0}
      <3> HIDE DEF n
      <3> QED
        BY <2>1, <2>2
    <2>4. r \in Indices' /\ w \in Indices' /\ Indices' = 0 .. n - 1
      BY DEF RingOK, Indices
    <2> QED
      BY <2>3, <2>4
  <1>2. Used' = Steps(r, w, n) /\ (IsEmpty' <=> w = r)
    BY DEF Used, Wrap, Steps, IsEmpty
  <1> HIDE DEF n, r, w
  <1> QED
    BY <1>1, <1>2, NoSteps

\* Steps of a sender that wake the receiver, and those that leave it
Waking(h) ==
    \/ StartSend(h) \/ PollClosed(h) \/ SendSyncStores(h) \/ DropSender(h)
    \/ \E call \in Call : Unreserve(h, call)

Leaving(h) ==
    \/ PollReadyAtOnce(h) \/ PollReadyFull(h) \/ PollFlushed(h) \/ PollCloseFails(h)
    \/ PollUnflushed(h, "flushing", "flush") \/ PollUnflushed(h, "closing", "close")
    \/ SendSyncParks(h) \/ SendSyncFails(h)

\* The steps, sorted by whether they can give the receiver something.
LEMMA NextIs ==
    ASSUME Next
    PROVE  \/ \E h \in Sender : \/ Waking(h) \/ Leaving(h) \/ PollReadyReserves(h)
                                \/ \E g \in Sender : Clone(h, g)
           \/ PollOpens \/ SyncOpens
           \/ \E call \in {"poll", "sync"} : TakeMessage(call) \/ TakeEnd(call) \/ AwaitMessage(call)
           \/ DropReceiver
  BY DEF Next, Waking, Leaving, PollReady, PollFlush, PollClose, SendSync, Receive

\* What a call that may give the receiver something does besides.
LEMMA WakingIs ==
    ASSUME NEW h \in Sender, Waking(h)
    PROVE  /\ WakeReceiver(h) /\ UNCHANGED <<receiver, waiters, read_idx, max_waiting>>
           /\ \E after : Return(h, after)
  BY DEF Waking, StartSend, PollClosed, SendSyncStores, DropSender, Leave, Unreserve, GiveUp,
         ringVars

\* What a call that gives the receiver nothing leaves alone.
LEMMA LeavingIs ==
    ASSUME NEW h \in Sender, Leaving(h)
    PROVE  /\ UNCHANGED <<ringVars, slot, closed_count, receiver, recv_waker>>
           /\ asleep' \ {h} = asleep \ {h}
           /\ \/ Return(h, "open") \/ Return(h, "sending")
              \/ \E operation : Sleep(h, operation)
  BY DEF Leaving, PollReadyAtOnce, PollReadyFull, PollFlushed, PollCloseFails, PollUnflushed,
         SendSyncParks, SendSyncFails, LeaveReceiver, Sleep

\* A receiver that goes to sleep has passed what was released, and stands before an open slot.
LEMMA AwaitIs ==
    ASSUME IInv, NEW call, AwaitMessage(call)
    PROVE  /\ At(read_idx)' \in {"empty", "reserved"}
           /\ ~NeedsSlot /\ Length' = Length /\ max_waiting' = max_waiting
           /\ RingOK' /\ Used' = Used - Skipped /\ Skipped \in 0 .. Used
           /\ read_idx' = Wrap(read_idx + Skipped) /\ write_idx' = write_idx
  <1>1. /\ waiting' = Cleared(Skipped) /\ read_idx' = Wrap(read_idx + Skipped)
        /\ UNCHANGED <<write_idx, max_waiting, slot, sender>> /\ Foremost \notin Message
    BY DEF AwaitMessage, Await, senderVars
  <1>2. /\ Reserved' /\ Length' = Length /\ Skipped \in 0 .. Used /\ Used' = Used - Skipped
        /\ \A j \in Indices : At(j)' = IF Offset(j) < Skipped THEN "empty" ELSE At(j)
    BY <1>1, OnlyPasses
  <1>3. ~NeedsSlot
    BY DEF AwaitMessage, Await, Receiving, IInv
  <1>4. At(read_idx)' \in {"empty", "reserved"}
    <2> DEFINE n == read_idx'
    <2>1. n \in Indices
      BY <1>2 DEF Reserved, RingOK, Indices
    <2>2. waiting'[n + 1] = IF Offset(n) < Skipped THEN "empty" ELSE At(n)
      <3> HIDE DEF n
      <3> QED
        BY <1>2, <2>1 DEF At
    <2>3. At(n) = Foremost
      BY <1>1 DEF Foremost, Nth
    <2>4. At(n) \in Content
      <3> HIDE DEF n
      <3> QED
        BY <2>1, RingIs DEF IInv, Content
    <2>5. Foremost # "released"
      BY SkippedIs DEF IInv
    <2> QED
      BY <1>1, <2>2, <2>3, <2>4, <2>5 DEF At, Content
  <1> QED
    BY <1>1, <1>2, <1>3, <1>4 DEF Reserved

\* Nobody loses the last sender that is open while its call goes on.
LEMMA StillSending ==
    ASSUME IInv, Next, NEW h \in Sender, sender'[h] \in {"open"} \cup Call
    PROVE  ~AllClosed'
  <1>1. SendersCounted'
    BY SendersStep
  <1>2. ~NobodySends'
    BY DEF NobodySends, Call
  <1> QED
    BY <1>1, <1>2, AllClosedNext

\* A receiver that sleeps is woken by whatever gives it something to return.
LEMMA ReceiverStep ==
    ASSUME IInv, ReceiverNotStranded, [Next]_vars
    PROVE  ReceiverNotStranded'
  <1> SUFFICES ASSUME Receiver \in asleep', ~ReceiverClosed'
               PROVE  /\ recv_waker' /\ At(read_idx)' \in {"empty", "reserved"}
                      /\ ~AllClosed' /\ ~NeedsSlot'
    BY DEF ReceiverNotStranded
  <1>0. ASSUME Receiver \in asleep, UNCHANGED receiver
        PROVE  recv_waker /\ At(read_idx) \in {"empty", "reserved"} /\ ~AllClosed /\ ~NeedsSlot
    BY <1>0 DEF ReceiverNotStranded, ReceiverClosed
  <1>1. ASSUME NEW h \in Sender, Waking(h)
        PROVE  FALSE
    <2>1. WakeReceiver(h) /\ UNCHANGED receiver
      BY <1>1, WakingIs
    <2>2. Receiver \in asleep /\ ~recv_waker
      BY <2>1 DEF WakeReceiver
    <2> QED
      BY <1>0, <2>1, <2>2
  <1>2. ASSUME Next, NEW h \in Sender, Leaving(h)
        PROVE  /\ recv_waker' /\ At(read_idx)' \in {"empty", "reserved"}
               /\ ~AllClosed' /\ ~NeedsSlot'
    <2>1. /\ UNCHANGED <<waiting, read_idx, write_idx, max_waiting>>
          /\ UNCHANGED <<receiver, recv_waker>> /\ asleep' \ {h} = asleep \ {h}
      BY <1>2, LeavingIs DEF ringVars
    <2>2. Receiver \in asleep
      BY <2>1, NamesDiffer
    <2>3. sender'[h] \in {"open"} \cup Call
      BY <1>2, LeavingIs DEF Return, Sleep, IInv, TypeOK, Call
    <2>4. ~AllClosed'
      BY <1>2, <2>3, StillSending
    <2> QED
      BY <1>0, <2>1, <2>2, <2>4 DEF At, NeedsSlot, Length
  <1>3. ASSUME Next, NEW h \in Sender, PollReadyReserves(h)
        PROVE  /\ recv_waker' /\ At(read_idx)' \in {"empty", "reserved"}
               /\ ~AllClosed' /\ ~NeedsSlot'
    <2>1. /\ ~IsFull /\ Store(write_idx, "reserved") /\ write_idx' = Wrap(write_idx + 1)
          /\ UNCHANGED <<read_idx, max_waiting>> /\ UNCHANGED <<receiver, recv_waker>>
          /\ asleep' = asleep \ {h}
      BY <1>3 DEF PollReadyReserves, LeaveReceiver
    <2>2. /\ Length' = Length
          /\ \A j \in Indices : At(j)' = IF j = write_idx THEN "reserved" ELSE At(j)
      BY <2>1, RingPushed DEF IInv, Content
    <2>3. recv_waker /\ At(read_idx) \in {"empty", "reserved"} /\ ~NeedsSlot
      BY <1>0, <2>1
    <2>4. waiting'[read_idx + 1] \in {"empty", "reserved"}
      BY <2>2, <2>3, RingIs DEF At, IInv
    <2>5. ~AllClosed'
      BY <1>3, StillSending DEF PollReadyReserves, Return, IInv, TypeOK
    <2> QED
      BY <2>1, <2>2, <2>3, <2>4, <2>5 DEF At, NeedsSlot
  <1>4. ASSUME Next, NEW h \in Sender, NEW g \in Sender, Clone(h, g)
        PROVE  /\ recv_waker' /\ At(read_idx)' \in {"empty", "reserved"}
               /\ ~AllClosed' /\ ~NeedsSlot'
    <2>1. /\ UNCHANGED <<waiting, read_idx, write_idx, max_waiting>>
          /\ UNCHANGED <<receiver, recv_waker, asleep>>
      BY <1>4 DEF Clone, ringVars
    <2>2. ~NobodySends
      BY <1>0, <2>1, CountedIs, AllClosedIs
    <2>3. PICK f \in Sender : sender[f] \notin {"none", "closed", "dropped"}
      BY <2>2 DEF NobodySends
    <2>4. sender'[f] \in {"open"} \cup Call
      BY <1>4, <2>3 DEF Clone, IInv, TypeOK
    <2>5. ~AllClosed'
      BY <1>4, <2>4, StillSending
    <2> QED
      BY <1>0, <2>1, <2>5 DEF At, NeedsSlot, Length
  <1>5. ASSUME \/ PollOpens \/ SyncOpens \/ DropReceiver
               \/ \E call \in {"poll", "sync"} : TakeMessage(call) \/ TakeEnd(call)
        PROVE  FALSE
    BY <1>5 DEF PollOpens, SyncOpens, Open, DropReceiver, TakeMessage, Take, TakeEnd
  <1>6. ASSUME Next, NEW call, AwaitMessage(call)
        PROVE  /\ recv_waker' /\ At(read_idx)' \in {"empty", "reserved"}
               /\ ~AllClosed' /\ ~NeedsSlot'
    <2>1. recv_waker' /\ ~AllClosed /\ UNCHANGED sender
      BY <1>6 DEF AwaitMessage, Await, senderVars
    <2>2. ~NobodySends
      BY <2>1, CountedIs, AllClosedIs
    <2>3. SendersCounted' /\ ~NobodySends'
      BY <1>6, <2>1, <2>2, SendersStep DEF NobodySends
    <2>4. ~AllClosed'
      BY <2>3, AllClosedNext
    <2>5. At(read_idx)' \in {"empty", "reserved"} /\ ~NeedsSlot'
      BY <1>6, AwaitIs DEF NeedsSlot
    <2> QED
      BY <2>1, <2>4, <2>5
  <1>7. CASE UNCHANGED vars
    BY <1>0, <1>7 DEF vars, ringVars, senderVars, At, Length, NeedsSlot, AllClosed, Created
  <1>8. CASE Next
    BY <1>1, <1>2, <1>3, <1>4, <1>5, <1>6, <1>8, NextIs
  <1> QED
    BY <1>7, <1>8

\* A receiver that is not going to be woken has nothing to do.
THEOREM ReceiverAwake == Spec => []ReceiverNotStranded
  <1>1. Init => ReceiverNotStranded
    BY DEF Init, ReceiverNotStranded
  <1>2. IInv /\ ReceiverNotStranded /\ [Next]_vars => ReceiverNotStranded'
    BY ReceiverStep
  <1> QED
    BY <1>1, <1>2, Invariant, PTL DEF Spec

\* h waits for a slot, and is asleep.
SlotSleeper(h) == h \in asleep /\ (awaiting[h] = "ready" \/ sender[h] = "sending")

Listed(h) ==
    /\ h \in Range(waiting_senders) /\ ~ReceiverClosed
    /\ Receiver \in asleep => IsFull

\* SenderNotStranded, a sender at a time.
LEMMA SenderNotStrandedIs ==
    SenderNotStranded <=> \A h \in Sender : SlotSleeper(h) => Listed(h)
  BY DEF SenderNotStranded, SlotSleeper, Listed

\* A sender that sleeps for room is woken, or remains in the list.
LEMMA SenderStep ==
    ASSUME IInv, SenderNotStranded, [Next]_vars
    PROVE  SenderNotStranded'
  <1> SUFFICES ASSUME NEW h \in Sender, h \in asleep',
                      awaiting'[h] = "ready" \/ sender'[h] = "sending"
               PROVE  Listed(h)'
    BY DEF SenderNotStranded, Listed
  <1>0. SlotSleeper(h) => Listed(h)
    BY SenderNotStrandedIs
  <1>1. ASSUME NEW g \in Sender, Waking(g)
        PROVE  Listed(h)'
    <2>1. /\ asleep' \subseteq asleep \ {g} /\ UNCHANGED <<receiver, waiting_senders>>
          /\ \E after : Return(g, after)
      BY <1>1, WakingIs DEF WakeReceiver, waiters
    <2>2. h # g /\ SlotSleeper(h)
      BY <2>1 DEF Return, SlotSleeper, IInv, TypeOK
    <2>3. CASE SendSyncStores(g)
      BY <1>0, <2>1, <2>2, <2>3 DEF SendSyncStores, Listed, ReceiverClosed
    <2>4. CASE ~SendSyncStores(g)
      <3>1. UNCHANGED <<read_idx, write_idx>>
        BY <1>1, <2>4 DEF Waking, StartSend, PollClosed, DropSender, Leave, Unreserve, GiveUp,
               ringVars
      <3>2. Length' = Length
        <4>1. waiting' = waiting \/ \E i, v : Store(i, v)
          BY <1>1, <2>4 DEF Waking, StartSend, PollClosed, DropSender, Leave, Unreserve, GiveUp,
               ringVars
        <4>2. waiting \in Seq(Content)
          BY DEF IInv, TypeOK, Content
        <4> QED
          BY <4>1, <4>2 DEF Store, Length
      <3> QED
        BY <1>0, <2>1, <2>2, <3>1, <3>2 DEF Listed, ReceiverClosed, IsFull, Wrap
    <2> QED
      BY <2>3, <2>4
  <1>2. ASSUME NEW g \in Sender, Leaving(g)
        PROVE  Listed(h)'
    <2>1. /\ UNCHANGED <<waiting, read_idx, write_idx, receiver>> /\ asleep' \ {g} = asleep \ {g}
          /\ \/ Return(g, "open") \/ Return(g, "sending")
             \/ \E operation : Sleep(g, operation)
      BY <1>2, LeavingIs DEF ringVars
    <2>2. IsFull' <=> IsFull
      BY <2>1 DEF IsFull, Wrap, Length
    <2>3. Receiver \in asleep' <=> Receiver \in asleep
      BY <2>1, NamesDiffer
    <2>4. Range(waiting_senders) \subseteq Range(waiting_senders')
      <3>1. CASE PollReadyFull(g) \/ SendSyncParks(g)
        BY <3>1, QueueUpTypes, TypesAre DEF PollReadyFull, SendSyncParks, IInv
      <3>2. CASE ~(PollReadyFull(g) \/ SendSyncParks(g))
        BY <1>2, <3>2 DEF Leaving, PollReadyAtOnce, PollFlushed, PollCloseFails, PollUnflushed,
               SendSyncFails, waiters
      <3> QED
        BY <3>1, <3>2
    <2>5. CASE h # g
      <3>1. SlotSleeper(h)
        BY <2>1, <2>5 DEF Return, Sleep, SlotSleeper, IInv, TypeOK
      <3> QED
        BY <1>0, <2>1, <2>2, <2>3, <2>4, <3>1 DEF Listed, ReceiverClosed
    <2>6. CASE h = g
      <3>1. PollReadyFull(g) \/ SendSyncParks(g)
        <4>1. CASE PollReadyAtOnce(g) \/ PollFlushed(g) \/ PollCloseFails(g) \/ SendSyncFails(g)
          BY <2>6, <4>1 DEF PollReadyAtOnce, PollFlushed, PollCloseFails, SendSyncFails,
                 LeaveReceiver
        <4>2. CASE PollUnflushed(g, "flushing", "flush") \/ PollUnflushed(g, "closing", "close")
          <5>1. sender'[g] = "open" /\ awaiting'[g] \in {"flush", "close"}
            BY <4>2 DEF PollUnflushed, Sleep, IInv, TypeOK
          <5> QED
            BY <2>6, <5>1
        <4> QED
          BY <1>2, <4>1, <4>2 DEF Leaving
      <3>2. g \in Range(waiting_senders')
        BY <3>1, QueueUpTypes, TypesAre DEF PollReadyFull, SendSyncParks, IInv
      <3>3. IsFull /\ ~ReceiverClosed
        BY <3>1 DEF PollReadyFull, SendSyncParks
      <3> QED
        BY <2>1, <2>2, <2>6, <3>2, <3>3 DEF Listed, ReceiverClosed
    <2> QED
      BY <2>5, <2>6
  <1>3. ASSUME NEW g \in Sender, PollReadyReserves(g)
        PROVE  Listed(h)'
    <2>1. /\ asleep' = asleep \ {g} /\ UNCHANGED <<receiver, waiting_senders>>
          /\ Return(g, "open") /\ ~IsFull
      BY <1>3 DEF PollReadyReserves, LeaveReceiver, waiters
    <2>2. SlotSleeper(h)
      BY <2>1 DEF Return, SlotSleeper, IInv, TypeOK
    <2> QED
      BY <1>0, <2>1, <2>2 DEF Listed, ReceiverClosed
  <1>4. ASSUME NEW f \in Sender, NEW g \in Sender, Clone(f, g)
        PROVE  Listed(h)'
    <2>1. /\ UNCHANGED <<waiting, read_idx, write_idx, receiver, waiting_senders>>
          /\ UNCHANGED <<awaiting, asleep>>
      BY <1>4 DEF Clone, ringVars, waiters
    <2>2. h # g
      BY <1>4, <2>1 DEF Clone, IInv, TypeOK
    <2>3. SlotSleeper(h)
      BY <1>4, <2>1, <2>2 DEF Clone, SlotSleeper, IInv, TypeOK
    <2> QED
      BY <1>0, <2>1, <2>3 DEF Listed, ReceiverClosed, IsFull, Wrap, Length
  <1>5. Range(waiting_senders) = FirstOf(waiting_senders) \cup Range(RestOf(waiting_senders))
    BY RestTypes DEF IInv, TypeOK
  <1>6. CASE PollOpens \/ SyncOpens \/ \E call \in {"poll", "sync"} : TakeMessage(call)
    <2>1. /\ asleep' \subseteq asleep \ (FirstOf(waiting_senders) \cup {Receiver})
          /\ UNCHANGED <<sender, awaiting>> /\ receiver' # "dropped"
          /\ waiting_senders' = RestOf(waiting_senders)
      BY <1>6 DEF PollOpens, SyncOpens, Open, TakeMessage, Take, senderVars
    <2>2. SlotSleeper(h)
      BY <2>1 DEF SlotSleeper
    <2> QED
      BY <1>0, <1>5, <2>1, <2>2 DEF Listed, ReceiverClosed
  <1>7. ASSUME NEW call, TakeEnd(call)
        PROVE  Listed(h)'
    <2>1. /\ asleep' = asleep \ {Receiver} /\ UNCHANGED <<sender, awaiting, waiting_senders>>
          /\ receiver' = "idle"
      BY <1>7 DEF TakeEnd, senderVars, waiters
    <2>2. SlotSleeper(h)
      BY <2>1 DEF SlotSleeper
    <2> QED
      BY <1>0, <2>1, <2>2 DEF Listed, ReceiverClosed
  <1>8. ASSUME NEW call, AwaitMessage(call)
        PROVE  Listed(h)'
    <2>1. /\ UNCHANGED <<sender, awaiting>> /\ asleep' \subseteq asleep \cup {Receiver}
          /\ receiver' # "dropped"
      BY <1>8 DEF AwaitMessage, Await, senderVars
    <2>2. SlotSleeper(h)
      BY <2>1, NamesDiffer DEF SlotSleeper
    <2>3. CASE Wrap(write_idx + 1) # Wrap(read_idx + Skipped)
      <3>1. h \notin Range(waiting_senders)
        BY <1>8, <2>3, NamesDiffer DEF AwaitMessage, Await
      <3> QED
        BY <1>0, <2>2, <3>1 DEF Listed
    <2>4. CASE Wrap(write_idx + 1) = Wrap(read_idx + Skipped)
      <3>1. IsFull'
        BY <1>8, <2>4, AwaitIs DEF IsFull, Wrap
      <3>2. waiting_senders' = waiting_senders
        BY <1>8, <2>4 DEF AwaitMessage, Await
      <3> QED
        BY <1>0, <2>1, <2>2, <3>1, <3>2 DEF Listed, ReceiverClosed
    <2> QED
      BY <2>3, <2>4
  <1>9. CASE DropReceiver
    <2>1. SlotSleeper(h) /\ h \notin Range(waiting_senders)
      BY <1>9 DEF DropReceiver, SlotSleeper, senderVars
    <2> QED
      BY <1>0, <2>1 DEF Listed
  <1>10. CASE UNCHANGED vars
    BY <1>0, <1>10 DEF vars, ringVars, senderVars, waiters, SlotSleeper, Listed, ReceiverClosed,
           IsFull, Wrap, Length
  <1>11. CASE Next
    BY <1>1, <1>2, <1>3, <1>4, <1>6, <1>7, <1>8, <1>9, <1>11, NextIs
  <1> QED
    BY <1>10, <1>11

\* A sender that is not going to be woken and waits for a slot is in the list of a receiver that is
\* there; if the receiver waits too, then there is no slot.
THEOREM SenderAwake == Spec => []SenderNotStranded
  <1>1. Init => SenderNotStranded
    BY DEF Init, SenderNotStranded
  <1>2. IInv /\ SenderNotStranded /\ [Next]_vars => SenderNotStranded'
    BY SenderStep
  <1> QED
    BY <1>1, <1>2, Invariant, PTL DEF Spec

\* h waits until what was sent has been received, and is asleep.
FlushSleeper(h) == h \in asleep /\ awaiting[h] \in {"flush", "close"}

Flushing(h) == h \in waiting_flushers /\ ~IsEmpty /\ ~ReceiverClosed

\* FlushNotStranded, a sender at a time.
LEMMA FlushNotStrandedIs ==
    FlushNotStranded <=> \A h \in Sender : FlushSleeper(h) => Flushing(h)
  BY DEF FlushNotStranded, FlushSleeper, Flushing

\* What is stored in the ring stays until it is received.
LEMMA StaysInUse ==
    ASSUME IInv, ~IsEmpty, ~IsFull, NEW v \in Content \ {"empty"},
           Store(write_idx, v), write_idx' = Wrap(write_idx + 1),
           UNCHANGED <<read_idx, max_waiting>>
    PROVE  ~IsEmpty'
  <1>1. RingOK' /\ Used' = Used + 1
    BY RingPushed DEF IInv
  <1>2. Used \in Nat
    BY UsedIs, RingIs DEF IInv
  <1> QED
    BY <1>1, <1>2, NotEmptyNext

\* A sender that sleeps for the queue to empty is woken, or remains in the list.
LEMMA FlushStep ==
    ASSUME IInv, FlushNotStranded, [Next]_vars
    PROVE  FlushNotStranded'
  <1> SUFFICES ASSUME NEW h \in Sender, h \in asleep', awaiting'[h] \in {"flush", "close"}
               PROVE  Flushing(h)'
    BY DEF FlushNotStranded, Flushing
  <1>0. FlushSleeper(h) => Flushing(h)
    BY FlushNotStrandedIs
  <1>1. ASSUME NEW g \in Sender, Waking(g)
        PROVE  Flushing(h)'
    <2>1. /\ asleep' \subseteq asleep \ {g} /\ UNCHANGED <<receiver, waiting_flushers>>
          /\ \E after : Return(g, after)
      BY <1>1, WakingIs DEF WakeReceiver, waiters
    <2>2. Flushing(h)
      BY <1>0, <2>1 DEF Return, FlushSleeper, IInv, TypeOK
    <2>3. CASE SendSyncStores(g)
      <3>1. NextMessage \in Content \ {"empty"}
        BY <2>3, NextMessageIs, NamesDiffer DEF SendSyncStores
      <3>2. ~IsEmpty'
        BY <2>2, <2>3, <3>1, StaysInUse DEF SendSyncStores, Flushing
      <3> QED
        BY <2>1, <2>2, <3>2 DEF Flushing, ReceiverClosed
    <2>4. CASE ~SendSyncStores(g)
      <3>1. UNCHANGED <<read_idx, write_idx>>
        BY <1>1, <2>4 DEF Waking, StartSend, PollClosed, DropSender, Leave, Unreserve, GiveUp,
               ringVars
      <3> QED
        BY <2>1, <2>2, <3>1 DEF Flushing, ReceiverClosed, IsEmpty
    <2> QED
      BY <2>3, <2>4
  <1>2. ASSUME NEW g \in Sender, Leaving(g)
        PROVE  Flushing(h)'
    <2>1. /\ UNCHANGED <<read_idx, write_idx, receiver>> /\ asleep' \ {g} = asleep \ {g}
          /\ \/ Return(g, "open") \/ Return(g, "sending")
             \/ \E operation : Sleep(g, operation)
      BY <1>2, LeavingIs DEF ringVars
    <2>2. waiting_flushers \subseteq waiting_flushers'
      BY <1>2 DEF Leaving, PollReadyAtOnce, PollReadyFull, PollFlushed, PollCloseFails,
             PollUnflushed, SendSyncParks, SendSyncFails, waiters
    <2>3. CASE h # g
      <3>1. Flushing(h)
        BY <1>0, <2>1, <2>3 DEF Return, Sleep, FlushSleeper, IInv, TypeOK
      <3> QED
        BY <2>1, <2>2, <3>1 DEF Flushing, ReceiverClosed, IsEmpty
    <2>4. CASE h = g
      <3>1. ~(PollReadyAtOnce(g) \/ PollFlushed(g) \/ PollCloseFails(g) \/ SendSyncFails(g))
        BY <2>4 DEF PollReadyAtOnce, PollFlushed, PollCloseFails, SendSyncFails, LeaveReceiver
      <3>2. ~(PollReadyFull(g) \/ SendSyncParks(g))
        BY <2>4 DEF PollReadyFull, SendSyncParks, Sleep, Return, IInv, TypeOK
      <3>3. PollUnflushed(g, "flushing", "flush") \/ PollUnflushed(g, "closing", "close")
        BY <1>2, <3>1, <3>2 DEF Leaving
      <3> QED
        BY <2>1, <2>4, <3>3 DEF PollUnflushed, Flushing, IsEmpty, ReceiverClosed
    <2> QED
      BY <2>3, <2>4
  <1>3. ASSUME NEW g \in Sender, PollReadyReserves(g)
        PROVE  Flushing(h)'
    <2>1. /\ asleep' = asleep \ {g} /\ UNCHANGED <<receiver, waiting_flushers>>
          /\ Return(g, "open")
      BY <1>3 DEF PollReadyReserves, LeaveReceiver, waiters
    <2>2. Flushing(h)
      BY <1>0, <2>1 DEF Return, FlushSleeper, IInv, TypeOK
    <2>3. ~IsEmpty'
      BY <1>3, <2>2, StaysInUse DEF PollReadyReserves, Flushing, Content
    <2> QED
      BY <2>1, <2>2, <2>3 DEF Flushing, ReceiverClosed
  <1>4. ASSUME NEW f \in Sender, NEW g \in Sender, Clone(f, g)
        PROVE  Flushing(h)'
    <2>1. /\ UNCHANGED <<read_idx, write_idx, receiver, waiting_flushers, awaiting, asleep>>
      BY <1>4 DEF Clone, ringVars, waiters
    <2> QED
      BY <1>0, <2>1 DEF FlushSleeper, Flushing, ReceiverClosed, IsEmpty
  <1>5. ASSUME NEW before, NEW after, Open(before, after)
        PROVE  Flushing(h)'
    <2>1. FlushSleeper(h)
      BY <1>5 DEF Open, FlushSleeper, senderVars
    <2> QED
      BY <1>0, <1>5, <2>1, Opens DEF Flushing
  <1>6. ASSUME NEW call \in {"poll", "sync"}, TakeMessage(call)
        PROVE  Flushing(h)'
    <2> DEFINE next == Wrap(read_idx + Skipped + 1)
    <2>1. Take(call, FirstOf(waiting_senders)) /\ receiver' # "dropped"
      BY <1>6 DEF TakeMessage, Take
    <2>2. FlushSleeper(h)
      BY <2>1 DEF Take, FlushSleeper, senderVars
    <2>3. next # write_idx
      <3> SUFFICES ASSUME next = write_idx
                   PROVE  FALSE
        OBVIOUS
      <3>1. h \notin waiting_flushers
        BY <2>1 DEF Take
      <3> QED
        BY <1>0, <2>2, <3>1 DEF Flushing
    <2>4. ~(max_waiting = 0 /\ Length > 1)
      BY <2>1, <2>3, TakeShrinks
    <2>5. read_idx' = next /\ write_idx' = write_idx /\ waiting_flushers' = waiting_flushers
      BY <2>1, <2>3, <2>4 DEF Take
    <2> QED
      BY <1>0, <2>1, <2>2, <2>3, <2>5 DEF Flushing, IsEmpty, ReceiverClosed
  <1>7. ASSUME NEW call, TakeEnd(call)
        PROVE  Flushing(h)'
    <2>1. NobodySends /\ awaiting' = awaiting
      BY <1>7, CountedIs, AllClosedIs DEF TakeEnd, senderVars
    <2> QED
      BY <2>1 DEF NobodySends, IInv
  <1>8. ASSUME NEW call, AwaitMessage(call)
        PROVE  Flushing(h)'
    <2> DEFINE next == Wrap(read_idx + Skipped)
    <2>1. /\ receiver' # "dropped" /\ UNCHANGED <<awaiting, write_idx>>
          /\ asleep' \subseteq asleep \cup {Receiver} /\ read_idx' = next
      BY <1>8 DEF AwaitMessage, Await, senderVars
    <2>2. FlushSleeper(h)
      BY <2>1, NamesDiffer DEF FlushSleeper
    <2>3. Flushing(h)
      BY <1>0, <2>2
    <2>4. next # write_idx
      <3> SUFFICES ASSUME next = write_idx
                   PROVE  FALSE
        OBVIOUS
      <3>1. Length \in Nat \ {0, 1} /\ write_idx \in 0 .. Length - 1
        <4>1. ~NeedsSlot
          BY <1>8, AwaitIs
        <4>2. max_waiting \in Nat
          BY LensAssumption DEF IInv, TypeOK
        <4> QED
          BY <4>1, <4>2, RingIs DEF NeedsSlot, IInv, TypeOK
      <3>2. Wrap(write_idx + 1) # write_idx
        <4>1. On(write_idx, 1, Length) =
                IF write_idx + 1 < Length THEN write_idx + 1 ELSE write_idx + 1 - Length
          BY <3>1, OnIs
        <4> QED
          BY <3>1, <4>1 DEF On, Wrap
      <3>3. h \notin waiting_flushers
        BY <1>8, <3>2, NamesDiffer DEF AwaitMessage, Await
      <3> QED
        BY <2>3, <3>3 DEF Flushing
    <2>5. waiting_flushers' = waiting_flushers
      BY <1>8, <2>4 DEF AwaitMessage, Await
    <2> QED
      BY <2>1, <2>3, <2>4, <2>5 DEF Flushing, IsEmpty, ReceiverClosed
  <1>9. CASE DropReceiver
    <2>1. FlushSleeper(h) /\ h \notin waiting_flushers
      BY <1>9 DEF DropReceiver, FlushSleeper, senderVars
    <2> QED
      BY <1>0, <2>1 DEF Flushing
  <1>10. CASE UNCHANGED vars
    BY <1>0, <1>10 DEF vars, ringVars, senderVars, waiters, FlushSleeper, Flushing, ReceiverClosed,
           IsEmpty
  <1>11. CASE Next
    BY <1>1, <1>2, <1>3, <1>4, <1>5, <1>6, <1>7, <1>8, <1>9, <1>11, NextIs
       DEF PollOpens, SyncOpens
  <1> QED
    BY <1>10, <1>11

\* A flush or close that is not going to be woken is in the list, and something is waiting.
THEOREM FlushAwake == Spec => []FlushNotStranded
  <1>1. Init => FlushNotStranded
    BY DEF Init, FlushNotStranded
  <1>2. IInv /\ FlushNotStranded /\ [Next]_vars => FlushNotStranded'
    BY FlushStep
  <1> QED
    BY <1>1, <1>2, Invariant, PTL DEF Spec

-----------------------------------------------------------------------------
(* The ring is a queue of places *)

\* Steps around the ring add up.
LEMMA OnOn ==
    ASSUME NEW n \in Nat \ {0}, NEW r \in 0 .. n - 1, NEW j \in 0 .. n - 1, NEW k \in 0 .. n - 1,
           j + k \in 0 .. n - 1
    PROVE  On(On(r, j, n), k, n) = On(r, j + k, n)
  <1> DEFINE o == On(r, j, n)  l == j + k
  <1>1. o \in 0 .. n - 1 /\ o = IF r + j < n THEN r + j ELSE r + j - n
    BY OnIs
  <1>2. l \in 0 .. n - 1 /\ l = j + k
    OBVIOUS
  <1> HIDE DEF o, l
  <1>3. On(o, k, n) = IF o + k < n THEN o + k ELSE o + k - n
    BY <1>1, OnIs
  <1>4. On(r, l, n) = IF r + l < n THEN r + l ELSE r + l - n
    BY <1>2, OnIs
  <1>5. On(o, k, n) = On(r, l, n)
    BY <1>1, <1>2, <1>3, <1>4
  <1> QED
    BY <1>5 DEF o, l

\* The index of the k-th place
Index(k) == On(read_idx, k - 1, Length)

\* Places of the queue and slots in use of the ring correspond, one to one.
LEMMA IndexIs ==
    ASSUME IInv
    PROVE  /\ \A k \in 1 .. Length : Index(k) \in Indices /\ Offset(Index(k)) = k - 1
           /\ \A i \in Indices : Offset(i) + 1 \in 1 .. Length /\ Index(Offset(i) + 1) = i
           /\ \A k \in 1 .. Used : Index(k) \in Indices /\ At(Index(k)) # "empty"
           /\ \A i \in Indices : At(i) # "empty" => Offset(i) + 1 \in 1 .. Used
  <1>1. Length \in Nat \ {0} /\ read_idx \in 0 .. Length - 1 /\ Used \in 0 .. Length - 1
    BY RingIs, UsedIs DEF IInv, Indices
  <1>2. ASSUME NEW k \in 1 .. Length
        PROVE  Index(k) \in Indices /\ Offset(Index(k)) = k - 1
    <2> DEFINE l == k - 1  i == On(read_idx, l, Length)
    <2>1. l \in 0 .. Length - 1
      BY <1>1
    <2> HIDE DEF l
    <2>2. i \in 0 .. Length - 1
      BY <1>1, <2>1, OnIs
    <2>3. Steps(read_idx, i, Length) = l
      <3>1. i = On(read_idx, l, Length)
        OBVIOUS
      <3> HIDE DEF i
      <3> QED
        BY <1>1, <2>1, <2>2, <3>1, OnSteps
    <2> QED
      BY <2>2, <2>3 DEF l, Index, Indices, Offset, Wrap, Steps
  <1>3. ASSUME NEW i \in Indices
        PROVE  Offset(i) + 1 \in 1 .. Length /\ Index(Offset(i) + 1) = i
    <2> DEFINE l == Offset(i)
    <2>1. i \in 0 .. Length - 1 /\ l = Steps(read_idx, i, Length)
      BY DEF Indices, Offset, Wrap, Steps
    <2>2. l \in 0 .. Length - 1
      BY <1>1, <2>1, StepsIs
    <2>3. i = On(read_idx, l, Length)
      <3> HIDE DEF l
      <3> QED
        BY <1>1, <2>1, <2>2, OnSteps
    <2>4. l + 1 - 1 = l
      BY <2>2
    <2> QED
      BY <1>1, <2>2, <2>3, <2>4 DEF Index
  <1>4. ASSUME NEW k \in 1 .. Used
        PROVE  Index(k) \in Indices /\ At(Index(k)) # "empty"
    <2>1. k \in 1 .. Length /\ ~(k - 1 >= Used)
      BY <1>1
    <2> QED
      BY <1>2, <2>1 DEF IInv, Window
  <1>5. ASSUME NEW i \in Indices, At(i) # "empty"
        PROVE  Offset(i) + 1 \in 1 .. Used
    <2>1. ~(Offset(i) >= Used) /\ Offset(i) \in Nat
      BY <1>5, Passed DEF IInv, Window
    <2> QED
      BY <1>1, <2>1
  <1> QED
    BY <1>2, <1>3, <1>4, <1>5

\* A reserved slot is its holder's place, and nobody else's.
LEMMA PlaceIs ==
    ASSUME IInv
    PROVE  /\ \A h \in Holders : Place(slot[h]) = h
           /\ \A i \in Indices : At(i) = "reserved" => Place(i) \in Holders /\ slot[Place(i)] = i
           /\ \A i \in Indices : At(i) # "reserved" => Place(i) = At(i)
  <1>1. ASSUME NEW i \in Indices, At(i) = "reserved"
        PROVE  Place(i) \in Holders /\ slot[Place(i)] = i
    <2>1. \E h \in Holders : slot[h] = i
      BY <1>1 DEF IInv, ReservedHeld
    <2> QED
      BY <1>1, <2>1 DEF Place
  <1>2. ASSUME NEW h \in Holders
        PROVE  Place(slot[h]) = h
    <2>1. slot[h] \in Indices /\ At(slot[h]) = "reserved"
      BY HoldersAre DEF IInv
    <2>2. Place(slot[h]) \in Holders /\ slot[Place(slot[h])] = slot[h]
      BY <1>1, <2>1
    <2> QED
      BY <2>2 DEF IInv, HoldersHold
  <1> QED
    BY <1>1, <1>2 DEF Place

Value == Sender \cup Message \cup {"released"}

\* What the queue holds, place for place
PlacesFacts ==
    /\ Used \in Nat /\ Places \in Seq(Value) /\ Len(Places) = Used
    /\ \A k \in 1 .. Used :
        /\ Index(k) \in Indices /\ Places[k] \in Value
        /\ At(Index(k)) = "reserved" => Places[k] \in Holders
        /\ At(Index(k)) # "reserved" => Places[k] = At(Index(k))
        /\ \A h \in Sender : Places[k] = h <=> h \in Holders /\ Index(k) = slot[h]

\* The queue of places, in terms of the ring.
LEMMA PlacesAre == IInv => PlacesFacts
  <1> SUFFICES ASSUME IInv
               PROVE  PlacesFacts
    OBVIOUS
  <1>1. Used \in Nat
    BY UsedIs, RingIs DEF IInv
  <1>2. ASSUME NEW k \in 1 .. Used
        PROVE  Place(Index(k)) \in Value
    <2>1. Index(k) \in Indices /\ At(Index(k)) # "empty"
      BY IndexIs
    <2>2. CASE At(Index(k)) = "reserved"
      BY <2>1, <2>2, PlaceIs, HoldersAre DEF Value, IInv
    <2>3. CASE At(Index(k)) # "reserved"
      BY <2>1, <2>3, PlaceIs, RingIs DEF Value, IInv
    <2> QED
      BY <2>2, <2>3
  <1>3. Places = [k \in 1 .. Used |-> Place(Index(k))]
    <2>1. \A k \in 1 .. Used : read_idx + k - 1 = read_idx + (k - 1)
      BY <1>1, RingIs DEF IInv
    <2> QED
      BY <2>1 DEF Places, Index, On, Wrap
  <1>4. Places \in Seq(Value) /\ Len(Places) = Used
    <2> DEFINE place(k) == Place(Index(k))
    <2>1. Places = [k \in 1 .. Used |-> place(k)] /\ \A k \in 1 .. Used : place(k) \in Value
      BY <1>2, <1>3
    <2> HIDE DEF place
    <2> QED
      BY <1>1, <2>1
  <1>5. ASSUME NEW k \in 1 .. Used, NEW h \in Sender
        PROVE  Places[k] = h <=> h \in Holders /\ Index(k) = slot[h]
    <2>1. Places[k] = Place(Index(k)) /\ Index(k) \in Indices
      BY <1>3, IndexIs
    <2>2. CASE At(Index(k)) = "reserved"
      BY <2>1, <2>2, PlaceIs
    <2>3. CASE At(Index(k)) # "reserved"
      <3>1. Places[k] \in {"empty", "released"} \cup Message
        BY <2>1, <2>3, PlaceIs, RingIs DEF IInv
      <3>2. Places[k] # "empty" /\ "released" \notin Sender
        BY <2>1, <2>3, IndexIs, PlaceIs, SendersAssumption
      <3>3. Places[k] # h
        BY <3>1, <3>2, NamesDiffer
      <3>4. h \in Holders => Index(k) # slot[h]
        BY <2>3, HoldersAre DEF IInv
      <3> QED
        BY <3>3, <3>4
    <2> QED
      BY <2>2, <2>3
  <1>6. ASSUME NEW k \in 1 .. Used
        PROVE  /\ At(Index(k)) = "reserved" => Places[k] \in Holders
               /\ At(Index(k)) # "reserved" => Places[k] = At(Index(k))
    BY <1>3, PlaceIs, IndexIs
  <1>7. \A k \in 1 .. Used : Places[k] \in Value
    BY <1>2, <1>3
  <1> QED
    BY <1>1, <1>4, <1>5, <1>6, <1>7, IndexIs DEF PlacesFacts

\* The same, after a step.
LEMMA PlacesAreNext == IInv' => PlacesFacts'
  BY PlacesAre, PTL

\* A place is the same before and after a step that leaves its slot alone.
LEMMA SamePlace ==
    ASSUME IInv, IInv', NEW k \in 1 .. Used, NEW l \in 1 .. Used', NEW i,
           Index(k) = i, Index(l)' = i, waiting'[i + 1] = waiting[i + 1],
           \A h \in Holders : slot[h] = i => h \in Holders' /\ slot'[h] = i
    PROVE  Places'[l] = Places[k]
  <1>0. PlacesFacts /\ PlacesFacts'
    BY PlacesAre, PlacesAreNext
  <1>1. CASE At(i) = "reserved"
    <2>1. Places[k] \in Holders /\ slot[Places[k]] = i /\ Places[k] \in Sender
      BY <1>0, <1>1, HoldersAre DEF PlacesFacts, IInv
    <2>2. Places[k] \in Holders' /\ slot'[Places[k]] = i
      BY <2>1
    <2> QED
      BY <1>0, <2>1, <2>2 DEF PlacesFacts
  <1>2. CASE At(i) # "reserved"
    <2>1. Places[k] = waiting[i + 1]
      BY <1>0, <1>2 DEF PlacesFacts, At
    <2>2. Places'[l] = waiting'[i + 1]
      BY <1>0, <1>2 DEF PlacesFacts, At
    <2> QED
      BY <2>1, <2>2
  <1> QED
    BY <1>1, <1>2

\* Who leaves the ring and the reservations alone leaves the queue alone.
LEMMA QueueKept ==
    ASSUME UNCHANGED <<ringVars, slot>>
    PROVE  Places' = Places
  BY DEF ringVars, Places, Place, Used, Wrap, Length, At, Holders

\* A sender has a place in the queue when it holds a reservation.
LEMMA InQueue ==
    ASSUME IInv, NEW h \in Sender
    PROVE  h \in Range(Places) <=> h \in Holders
  <1>1. PlacesFacts /\ DOMAIN Places = 1 .. Used
    BY PlacesAre DEF PlacesFacts
  <1>2. ASSUME h \in Holders
        PROVE  h \in Range(Places)
    <2>1. slot[h] \in Indices /\ At(slot[h]) # "empty"
      BY <1>2, HoldersAre DEF IInv
    <2> DEFINE k == Offset(slot[h]) + 1
    <2>2. k \in 1 .. Used /\ Index(k) = slot[h]
      BY <2>1, IndexIs
    <2> HIDE DEF k
    <2>3. Places[k] = h
      BY <1>1, <1>2, <2>2 DEF PlacesFacts
    <2> QED
      BY <1>1, <2>2, <2>3 DEF Range
  <1> QED
    BY <1>1, <1>2 DEF PlacesFacts, Range

\* A reservation that is filled or given up is so in its place.
LEMMA QueueSettled ==
    ASSUME IInv, IInv', NEW h \in Holders, NEW v \in Content \ {"empty", "reserved"},
           Store(slot[h], v), slot' = Restrict(slot, Holders \ {h}),
           UNCHANGED <<read_idx, write_idx, max_waiting>>
    PROVE  Places' = Promise!Put(h, v) /\ Length' = Length
  <1>0. PlacesFacts /\ PlacesFacts' /\ h \in Sender
    BY PlacesAre, PlacesAreNext, HoldersAre DEF IInv
  <1>1. slot[h] \in Indices /\ At(slot[h]) # "empty"
    BY HoldersAre DEF IInv
  <1>2. /\ Length' = Length /\ Used' = Used
        /\ \A j \in Indices : waiting'[j + 1] = IF j = slot[h] THEN v ELSE waiting[j + 1]
    BY <1>1, RingStored DEF IInv, At
  <1>3. Holders' = Holders \ {h} /\ \A g \in Holders' : slot'[g] = slot[g]
    BY DEF Holders, Restrict
  <1>4. ASSUME NEW k \in 1 .. Used
        PROVE  Places'[k] = IF Places[k] = h THEN v ELSE Places[k]
    <2> DEFINE i == Index(k)
    <2>1. i \in Indices /\ Index(k)' = i /\ k \in 1 .. Used'
      BY <1>0, <1>2 DEF PlacesFacts, Index
    <2>2. Places[k] = h <=> i = slot[h]
      BY <1>0 DEF PlacesFacts
    <2>3. CASE i = slot[h]
      <3>1. waiting'[i + 1] = v
        BY <1>2, <2>1, <2>3
      <3>2. At(Index(k))' = v
        BY <2>1, <3>1 DEF At
      <3>3. Places'[k] = v
        BY <1>0, <2>1, <3>2 DEF PlacesFacts
      <3> QED
        BY <2>2, <2>3, <3>3
    <2>4. CASE i # slot[h]
      <3>1. waiting'[i + 1] = waiting[i + 1]
        BY <1>2, <2>1, <2>4
      <3>2. \A g \in Holders : slot[g] = i => g \in Holders' /\ slot'[g] = i
        BY <1>3, <2>4
      <3>3. Index(k) = i
        OBVIOUS
      <3> HIDE DEF i
      <3>4. Places'[k] = Places[k]
        BY <2>1, <3>1, <3>2, <3>3, SamePlace
      <3> QED
        BY <2>2, <2>4, <3>4
    <2> QED
      BY <2>3, <2>4
  <1>5. DOMAIN Places = 1 .. Used /\ Places' \in [1 .. Used -> Value']
    <2>1. Places' \in Seq(Value) /\ Len(Places') = Used
      BY <1>0, <1>2 DEF PlacesFacts, Value
    <2>2. Places \in Seq(Value) /\ Len(Places) = Used
      BY <1>0 DEF PlacesFacts
    <2> QED
      BY <2>1, <2>2 DEF Value
  <1>6. Places' = [k \in 1 .. Used |-> IF Places[k] = h THEN v ELSE Places[k]]
    BY <1>4, <1>5
  <1> QED
    BY <1>2, <1>5, <1>6 DEF Promise!Put

\* What is written at write_idx is the last place of the queue.
LEMMA QueuePushed ==
    ASSUME IInv, IInv', ~IsFull,
           NEW v \in Content \ {"empty"},
           Store(write_idx, v), write_idx' = Wrap(write_idx + 1),
           UNCHANGED <<read_idx, max_waiting>>,
           \A g \in Holders : g \in Holders' /\ slot'[g] = slot[g],
           NEW x \in Value,
           \/ v = x /\ v # "reserved"
           \/ v = "reserved" /\ x \in Holders' /\ slot'[x] = write_idx /\ x \in Sender
    PROVE  Places' = Append(Places, x) /\ Length' = Length
  <1>0. PlacesFacts /\ PlacesFacts'
    BY PlacesAre, PlacesAreNext
  <1>1. /\ Length' = Length /\ Used' = Used + 1 /\ Used \in Nat
        /\ At(write_idx) = "empty" /\ write_idx \in Indices
        /\ \A j \in Indices : waiting'[j + 1] = IF j = write_idx THEN v ELSE waiting[j + 1]
    BY <1>0, RingPushed, RingIs DEF IInv, At, PlacesFacts
  <1>2. ASSUME NEW k \in 1 .. Used
        PROVE  Places'[k] = Places[k]
    <2> DEFINE i == Index(k)
    <2>1. i \in Indices /\ Index(k)' = i /\ k \in 1 .. Used' /\ At(i) # "empty"
      BY <1>0, <1>1, IndexIs DEF PlacesFacts, Index
    <2>2. waiting'[i + 1] = waiting[i + 1] /\ Index(k) = i
      BY <1>1, <2>1
    <2>3. \A g \in Holders : slot[g] = i => g \in Holders' /\ slot'[g] = i
      OBVIOUS
    <2> HIDE DEF i
    <2> QED
      BY <2>1, <2>2, <2>3, SamePlace
  <1>3. Places'[Used + 1] = x
    <2> SUFFICES ASSUME NEW k, k = Used + 1
                 PROVE  Places'[k] = x
      OBVIOUS
    <2>1. k \in 1 .. Used' /\ k - 1 = Used
      BY <1>1
    <2>2. Index(k)' = write_idx
      <3>1. Index(k)' = On(read_idx, k - 1, Length)
        BY <1>1 DEF Index
      <3> QED
        BY <2>1, <3>1, UsedIs DEF IInv
    <2>3. At(Index(k))' = v
      <3>1. waiting'[write_idx + 1] = v
        BY <1>1
      <3> QED
        BY <2>2, <3>1 DEF At
    <2>4. CASE v = x /\ v # "reserved"
      BY <1>0, <2>1, <2>3, <2>4 DEF PlacesFacts
    <2>5. CASE v = "reserved" /\ x \in Holders' /\ slot'[x] = write_idx /\ x \in Sender
      BY <1>0, <2>1, <2>2, <2>5 DEF PlacesFacts
    <2> QED
      BY <2>4, <2>5
  <1>4. Places \in Seq(Value) /\ Len(Places) = Used
    BY <1>0 DEF PlacesFacts
  <1>5. Places' \in Seq(Value) /\ Len(Places') = Used + 1
    BY <1>0, <1>1 DEF PlacesFacts, Value
  <1>6. Places' = Append(Places, x)
    <2> DEFINE q == Places'  r == Append(Places, x)
    <2>1. /\ r \in Seq(Value) /\ Len(r) = Used + 1
          /\ \A k \in 1 .. Used : r[k] = Places[k]
          /\ r[Used + 1] = x
      BY <1>4, AppendProperties
    <2>2. \A k \in 1 .. Used + 1 : q[k] = r[k]
      BY <1>1, <1>2, <1>3, <2>1
    <2>3. q \in Seq(Value) /\ Len(q) = Used + 1
      BY <1>5
    <2> HIDE DEF q, r
    <2>4. q = r
      BY <2>1, <2>2, <2>3, SeqEqual
    <2> QED
      BY <2>4 DEF q, r
  <1> QED
    BY <1>1, <1>6

\* A sequence that lacks the first n members of another is the rest of it.
LEMMA RestIs ==
    ASSUME NEW S, NEW q \in Seq(S), NEW n \in 0 .. Len(q), NEW t \in Seq(S), Len(t) = Len(q) - n,
           \A k \in 1 .. Len(t) : t[k] = q[n + k]
    PROVE  t = SubSeq(q, n + 1, Len(q))
  <1> DEFINE r == SubSeq(q, n + 1, Len(q))
  <1>1. r \in Seq(S) /\ Len(r) = Len(q) - n
    OBVIOUS
  <1>2. \A k \in 1 .. Len(q) - n : r[k] = q[n + k]
    OBVIOUS
  <1>3. \A k \in 1 .. Len(t) : t[k] = r[k]
    BY <1>2
  <1> HIDE DEF r
  <1>4. t = r
    BY <1>1, <1>3, SeqEqual
  <1> QED
    BY <1>4 DEF r

\* What the receiver takes or passes over are the first places of the queue.
LEMMA QueuePassed ==
    ASSUME IInv, IInv', NEW n \in 0 .. Used,
           waiting' = Cleared(n), read_idx' = Wrap(read_idx + n),
           UNCHANGED <<write_idx, max_waiting, slot>>
    PROVE  Places' = Promise!After(n) /\ Length' = Length
  <1>0. PlacesFacts /\ PlacesFacts'
    BY PlacesAre, PlacesAreNext
  <1>1. /\ Length' = Length /\ Used' = Used - n
        /\ \A j \in Indices : waiting'[j + 1] = IF Offset(j) < n THEN "empty" ELSE waiting[j + 1]
    BY RingPassed DEF IInv, At
  <1>2. /\ Length \in Nat \ {0} /\ read_idx \in 0 .. Length - 1
        /\ Used \in 0 .. Length - 1 /\ n \in 0 .. Length - 1
    BY RingIs, UsedIs DEF IInv, Indices
  <1>3. read_idx' = On(read_idx, n, Length)
    BY DEF On, Wrap
  <1>4. ASSUME NEW k \in 1 .. Used - n
        PROVE  Places'[k] = Places[n + k]
    <2>1. n + k \in 1 .. Used /\ k \in 1 .. Used' /\ n + k \in 1 .. Length
      BY <1>1, <1>2
    <2>2. Index(k)' = Index(n + k)
      <3> DEFINE l == k - 1
      <3>1. l \in 0 .. Length - 1 /\ n + l \in 0 .. Length - 1 /\ n + k - 1 = n + l
        BY <1>2
      <3>2. Index(k)' = On(On(read_idx, n, Length), l, Length)
        BY <1>1, <1>3 DEF Index
      <3>3. Index(n + k) = On(read_idx, n + l, Length)
        BY <3>1 DEF Index
      <3> HIDE DEF l
      <3> QED
        BY <1>2, <3>1, <3>2, <3>3, OnOn
    <2> DEFINE i == Index(n + k)
    <2>3. i \in Indices /\ Offset(i) = n + k - 1
      BY <2>1, IndexIs
    <2>4. waiting'[i + 1] = waiting[i + 1]
      <3>1. ~(Offset(i) < n)
        BY <1>2, <2>3
      <3> QED
        BY <1>1, <2>3, <3>1
    <2>5. \A h \in Holders : slot[h] = i => h \in Holders' /\ slot'[h] = i
      BY DEF Holders
    <2> DEFINE m == n + k
    <2>6. m \in 1 .. Used /\ Index(m) = i /\ Index(k)' = i
      BY <2>1, <2>2
    <2> HIDE DEF i, m
    <2>7. Places'[k] = Places[m]
      BY <2>1, <2>4, <2>5, <2>6, SamePlace
    <2> QED
      BY <2>7 DEF m
  <1>5. /\ Places \in Seq(Value) /\ Len(Places) = Used
        /\ Places' \in Seq(Value) /\ Len(Places') = Used - n
    BY <1>0, <1>1 DEF PlacesFacts, Value
  <1>6. Places' = SubSeq(Places, n + 1, Len(Places))
    <2> DEFINE t == Places'
    <2>1. t \in Seq(Value) /\ Len(t) = Len(Places) - n /\ n \in 0 .. Len(Places)
      BY <1>5
    <2>2. \A k \in 1 .. Len(t) : t[k] = Places[n + k]
      BY <1>4, <1>5
    <2> HIDE DEF t
    <2>3. t = SubSeq(Places, n + 1, Len(Places))
      BY <1>5, <2>1, <2>2, RestIs
    <2> QED
      BY <2>3 DEF t
  <1> QED
    BY <1>1, <1>6 DEF Promise!After

\* The places that are passed were given up, and the one after them is what is found there.
LEMMA HeadOfQueue ==
    ASSUME IInv
    PROVE  /\ \A k \in 1 .. Skipped : Places[k] = "released"
           /\ Foremost \in Message => Places[Skipped + 1] = Foremost
  <1>1. Skipped \in 0 .. Used /\ Used \in Nat /\ PlacesFacts /\ read_idx \in Nat
    BY SkippedIs, PlacesAre, RingIs DEF IInv, PlacesFacts
  <1>2. ASSUME NEW k \in 1 .. Used, At(Index(k)) # "reserved"
        PROVE  Places[k] = Nth(k - 1)
    BY <1>1, <1>2 DEF PlacesFacts, Index, On, Nth, Wrap
  <1>3. ASSUME NEW k \in 1 .. Skipped
        PROVE  Places[k] = "released"
    <2>1. k \in 1 .. Used /\ k - 1 \in 0 .. Skipped - 1
      BY <1>1
    <2>2. Nth(k - 1) = "released"
      BY <2>1, SkippedIs DEF IInv
    <2>3. At(Index(k)) = Nth(k - 1)
      BY DEF Index, On, Nth, Wrap
    <2> QED
      BY <1>2, <2>1, <2>2, <2>3
  <1>4. ASSUME Foremost \in Message
        PROVE  Places[Skipped + 1] = Foremost
    <2> DEFINE k == Skipped + 1
    <2>1. k \in 1 .. Used /\ k - 1 = Skipped
      BY <1>1, <1>4, SkippedIs, NamesDiffer DEF IInv
    <2> HIDE DEF k
    <2>2. At(Index(k)) = Foremost
      BY <2>1 DEF Index, On, Nth, Wrap, Foremost
    <2>3. Foremost # "reserved"
      BY <1>4, NamesDiffer
    <2>4. Places[k] = Foremost
      BY <1>2, <2>1, <2>2, <2>3 DEF Foremost
    <2> QED
      BY <2>4 DEF k
  <1> QED
    BY <1>3, <1>4

-----------------------------------------------------------------------------
(* Each step is a step of the queue *)

Life == [h \in Sender |-> IF sender[h] \in Call THEN "open" ELSE sender[h]]
Asked == max_waiting = 0 /\ Length = 2

\* A call that begins, waits or is over leaves its sender open.
LEMMA LifeGoesOn ==
    ASSUME IInv, NEW h \in Sender, sender[h] \in {"open"} \cup Call,
           \/ Return(h, "open") \/ \E call \in Call : Return(h, call)
           \/ \E operation : Sleep(h, operation)
    PROVE  Life' = Life /\ Life[h] = "open"
  <1>1. sender'[h] \in {"open"} \cup Call /\ \A g \in Sender \ {h} : sender'[g] = sender[g]
    BY DEF IInv, TypeOK, Return, Sleep, Call
  <1>2. Life'[h] = "open" /\ Life[h] = "open"
    BY <1>1 DEF Life, Call
  <1>3. \A g \in Sender : Life'[g] = Life[g]
    BY <1>1, <1>2 DEF Life
  <1> QED
    BY <1>2, <1>3 DEF Life

\* A sender that returns closed or dropped has ended its life in the promise, too.
LEMMA LifeEnds ==
    ASSUME IInv, NEW h \in Sender, sender[h] \in {"open"} \cup Call,
           NEW after \in {"closed", "dropped"}, Return(h, after)
    PROVE  Life' = [Life EXCEPT ![h] = after] /\ Life[h] = "open"
  <1>1. sender'[h] = after /\ \A g \in Sender \ {h} : sender'[g] = sender[g]
    BY DEF IInv, TypeOK, Return
  <1>2. Life[h] = "open"
    BY DEF Life, Call
  <1>3. Life'[h] = after /\ \A g \in Sender \ {h} : Life'[g] = Life[g]
    BY <1>1 DEF Life, Call
  <1> QED
    BY <1>2, <1>3 DEF Life

\* A ring that is not full has room for one more place.
LEMMA RoomIs ==
    ASSUME IInv, ~IsFull
    PROVE  Promise!Room
  <1>1. /\ Used \in 0 .. Length - 1 /\ Used # Length - 1 /\ Len(Places) = Used
        /\ Places \in Seq(Value)
    BY UsedIs, PlacesAre DEF IInv, Indices, PlacesFacts
  <1>2. CASE max_waiting = 0
    <2>1. Length = 2 /\ Used = 0
      BY <1>1, <1>2 DEF IInv, TypeOK
    <2>2. Places = <<>>
      BY <1>1, <2>1
    <2> QED
      BY <1>2, <2>1, <2>2 DEF Promise!Room
  <1>3. CASE max_waiting # 0
    <2>1. Length = max_waiting + 1 /\ max_waiting \in Nat
      BY <1>3, LensAssumption DEF IInv, TypeOK
    <2>2. Used < max_waiting
      BY <1>1, <2>1
    <2> QED
      BY <1>1, <1>3, <2>2 DEF Promise!Room
  <1> QED
    BY <1>2, <1>3

\* The stutters: calls that store nothing
LEMMA QuietStep ==
    ASSUME IInv, NEW h \in Sender, Leaving(h)
    PROVE  UNCHANGED Promise!vars
  <1>1. UNCHANGED <<ringVars, slot, receiver, history>>
    BY DEF Leaving, PollReadyAtOnce, PollReadyFull, PollFlushed, PollCloseFails, PollUnflushed,
         SendSyncParks, SendSyncFails
  <1>2. sender[h] \in {"open"} \cup Call
    BY DEF Leaving, PollReadyAtOnce, PollReadyFull, PollFlushed, PollCloseFails, PollUnflushed,
         SendSyncParks, SendSyncFails, Within, Call
  <1>3. Return(h, "open") \/ Return(h, "sending") \/ \E operation : Sleep(h, operation)
    BY LeavingIs
  <1>4. Life' = Life
    BY <1>2, <1>3, LifeGoesOn DEF Call
  <1>5. Places' = Places /\ Asked' = Asked
    BY <1>1, QueueKept DEF Asked, Length, ringVars
  <1> QED
    BY <1>1, <1>4, <1>5 DEF Promise!vars, Life, Asked, ReceiverClosed, ringVars, history

\* poll_ready takes the last place of the queue.
LEMMA ReserveStep ==
    ASSUME IInv, IInv', NEW h \in Sender, PollReadyReserves(h)
    PROVE  Promise!Reserve(h)
  <1>1. /\ sender[h] = "open" /\ ~ReceiverClosed /\ h \notin Holders /\ ~IsFull
        /\ Store(write_idx, "reserved") /\ write_idx' = Wrap(write_idx + 1)
        /\ Return(h, "open") /\ UNCHANGED <<read_idx, max_waiting, receiver, history>>
    BY DEF PollReadyReserves
  <1>2. /\ \A g \in Holders : g \in Holders' /\ slot'[g] = slot[g]
        /\ h \in Holders' /\ slot'[h] = write_idx
    BY <1>1 DEF PollReadyReserves, Holders
  <1>3. Places' = Append(Places, h) /\ Length' = Length
    <2>1. "reserved" \in Content \ {"empty"} /\ h \in Value
      BY DEF Content, Value
    <2> QED
      BY <1>1, <1>2, <2>1, QueuePushed
  <1>4. Life' = Life /\ Life[h] = "open"
    BY <1>1, LifeGoesOn
  <1>5. Promise!Room /\ h \notin Range(Places)
    BY <1>1, RoomIs, InQueue
  <1> QED
    BY <1>1, <1>3, <1>4, <1>5 DEF Promise!Reserve, Promise!Range, Range, Life, ReceiverClosed, history

\* start_send puts its message where the sender's reservation is.
LEMMA FillStep ==
    ASSUME IInv, IInv', NEW h \in Sender, StartSend(h)
    PROVE  \E m \in Message : Promise!Fill(h, m)
  <1>1. /\ sender[h] = "open" /\ h \in Holders /\ MessageLeft(h)
        /\ Store(slot[h], NextMessage) /\ slot' = Restrict(slot, Holders \ {h})
        /\ given' = given \cup {NextMessage} /\ Return(h, "open")
        /\ UNCHANGED <<read_idx, write_idx, max_waiting>>
        /\ UNCHANGED <<receiver, received, ended>>
    BY DEF StartSend
  <1>2. NextMessage \in Message \ given /\ NextMessage \in Content \ {"empty", "reserved"}
    BY <1>1, NextMessageIs, NamesDiffer
  <1>3. Places' = Promise!Put(h, NextMessage) /\ Length' = Length
    BY <1>1, <1>2, QueueSettled
  <1>4. Life' = Life
    BY <1>1, LifeGoesOn
  <1>5. h \in Range(Places)
    BY <1>1, InQueue
  <1>6. Promise!Fill(h, NextMessage)
    BY <1>1, <1>2, <1>3, <1>4, <1>5
       DEF Promise!Fill, Promise!Range, Range, Life, ReceiverClosed
  <1> QED
    BY <1>2, <1>6

\* unreserve gives the place up, without moving any other.
LEMMA GiveUpStep ==
    ASSUME IInv, IInv', NEW h \in Sender, NEW call \in Call, Unreserve(h, call)
    PROVE  Promise!GiveUp(h)
  <1>1. /\ sender[h] = "open" /\ h \in Holders
        /\ Store(slot[h], "released") /\ slot' = Restrict(slot, Holders \ {h})
        /\ Return(h, call) /\ UNCHANGED <<read_idx, write_idx, max_waiting>>
        /\ UNCHANGED <<receiver, given, received, ended>>
    BY DEF Unreserve, GiveUp, history
  <1>2. "released" \in Content \ {"empty", "reserved"}
    BY DEF Content
  <1>3. Places' = Promise!Put(h, "released") /\ Length' = Length
    BY <1>1, <1>2, QueueSettled
  <1>4. Life' = Life
    BY <1>1, LifeGoesOn
  <1>5. h \in Range(Places)
    BY <1>1, InQueue
  <1> QED
    BY <1>1, <1>3, <1>4, <1>5 DEF Promise!GiveUp, Promise!Range, Range, Life, ReceiverClosed

\* send_sync puts its message at the end.
LEMMA SendStep ==
    ASSUME IInv, IInv', NEW h \in Sender, SendSyncStores(h)
    PROVE  \E m \in Message : Promise!Send(h, m)
  <1>1. /\ sender[h] \in {"open"} \cup Call /\ ~ReceiverClosed /\ MessageLeft(h) /\ ~IsFull
        /\ Store(write_idx, NextMessage) /\ write_idx' = Wrap(write_idx + 1)
        /\ given' = given \cup {NextMessage} /\ Return(h, "open")
        /\ UNCHANGED <<read_idx, max_waiting>> /\ UNCHANGED <<slot, receiver, received, ended>>
    BY DEF SendSyncStores, Within, Call
  <1>2. NextMessage \in Message \ given /\ NextMessage \in Content \ {"empty", "reserved"}
    BY <1>1, NextMessageIs, NamesDiffer
  <1>3. Places' = Append(Places, NextMessage) /\ Length' = Length
    <2>1. \A g \in Holders : g \in Holders' /\ slot'[g] = slot[g]
      BY <1>1 DEF Holders
    <2> DEFINE m == NextMessage
    <2>2. m \in Content \ {"empty"} /\ m \in Value /\ m # "reserved" /\ Store(write_idx, m)
      BY <1>1, <1>2 DEF Value
    <2> HIDE DEF m
    <2>3. Places' = Append(Places, m) /\ Length' = Length
      BY <1>1, <2>1, <2>2, QueuePushed
    <2> QED
      BY <2>3 DEF m
  <1>4. Life' = Life /\ Life[h] = "open"
    BY <1>1, LifeGoesOn
  <1>5. Promise!Room
    BY <1>1, RoomIs
  <1>6. Promise!Send(h, NextMessage)
    BY <1>1, <1>2, <1>3, <1>4, <1>5 DEF Promise!Send, Life, ReceiverClosed
  <1> QED
    BY <1>2, <1>6

\* poll_close succeeds only when nothing is waiting.
LEMMA CloseStep ==
    ASSUME IInv, NEW h \in Sender, PollClosed(h)
    PROVE  Promise!Close(h)
  <1>1. /\ sender[h] \in {"open"} \cup Call /\ IsEmpty /\ Return(h, "closed")
        /\ UNCHANGED <<ringVars, slot, receiver, history>>
    BY DEF PollClosed, Within, Call
  <1>2. Life' = [Life EXCEPT ![h] = "closed"] /\ Life[h] = "open"
    BY <1>1, LifeEnds
  <1>3. Places' = Places /\ Asked' = Asked
    BY <1>1, QueueKept DEF Asked, Length, ringVars
  <1>4. Places = <<>>
    <2>1. Used = 0 /\ Places \in Seq(Value) /\ Len(Places) = Used
      BY <1>1, UsedIs, PlacesAre DEF IInv, PlacesFacts
    <2> QED
      BY <2>1
  <1> QED
    BY <1>1, <1>2, <1>3, <1>4 DEF Promise!Close, Life, Asked, ReceiverClosed, ringVars, history

\* A sender is dropped without a reservation.
LEMMA DropStep ==
    ASSUME IInv, NEW h \in Sender, DropSender(h)
    PROVE  Promise!Drop(h)
  <1>1. /\ sender[h] \in {"open"} \cup Call /\ Return(h, "dropped") /\ h \notin Holders
        /\ UNCHANGED <<ringVars, slot, receiver, history>>
    BY NotHolding DEF DropSender, Leave, Within, Call
  <1>2. Life' = [Life EXCEPT ![h] = "dropped"] /\ Life[h] = "open"
    BY <1>1, LifeEnds
  <1>3. Places' = Places /\ Asked' = Asked
    BY <1>1, QueueKept DEF Asked, Length, ringVars
  <1>4. h \notin Range(Places)
    BY <1>1, InQueue
  <1> QED
    BY <1>1, <1>2, <1>3, <1>4
       DEF Promise!Drop, Promise!Range, Range, Life, Asked, ReceiverClosed, ringVars, history

\* A clone is as open as the sender it is made from.
LEMMA CloneStep ==
    ASSUME IInv, NEW h \in Sender, NEW g \in Sender, Clone(h, g)
    PROVE  Promise!Clone(h, g)
  <1>1. /\ sender[h] \in {"open", "closed"} /\ sender[g] = "none"
        /\ sender' = [sender EXCEPT ![g] = sender[h]]
        /\ UNCHANGED <<ringVars, slot, receiver, history>>
    BY DEF Clone
  <1>2. /\ Life[h] = sender[h] /\ Life[g] = "none"
        /\ Life' = [Life EXCEPT ![g] = Life[h]]
    <2>1. Life[h] = sender[h] /\ Life[g] = "none"
      BY <1>1 DEF Life, Call
    <2>2. Life'[g] = sender[h] /\ \A f \in Sender \ {g} : Life'[f] = Life[f]
      BY <1>1 DEF Life, Call, IInv, TypeOK
    <2> QED
      BY <2>1, <2>2 DEF Life
  <1>3. Places' = Places /\ Asked' = Asked
    BY <1>1, QueueKept DEF Asked, Length, ringVars
  <1> QED
    BY <1>1, <1>2, <1>3 DEF Promise!Clone, Life, Asked, ReceiverClosed, ringVars, history

\* With nothing in use the queue is empty.
LEMMA EmptyPlaces ==
    ASSUME PlacesFacts, Used = 0
    PROVE  Places = <<>>
  BY DEF PlacesFacts

\* The same, after a step.
LEMMA EmptyPlacesNext ==
    ASSUME PlacesFacts', Used' = 0
    PROVE  Places' = <<>>
  BY DEF PlacesFacts

\* A receiver that opens its slot asks for a message.
LEMMA AskStep ==
    ASSUME IInv, IInv', NEW before \in {{"idle"}, {"idle", "sync"}},
           NEW after \in {"opened", "sync_opened"}, Open(before, after)
    PROVE  Promise!Ask
  <1>1. /\ max_waiting = 0 /\ UNCHANGED <<max_waiting, sender, given, received, ended>>
        /\ receiver # "dropped" /\ receiver' # "dropped"
    BY DEF Open, NeedsSlot, senderVars, history
  <1>2. Length = 1 /\ Length' = 2 /\ Used = 0 /\ Used' = 0
    BY Opens
  <1>3. Places = <<>> /\ Places' = <<>>
    BY <1>2, PlacesAre, PlacesAreNext, EmptyPlaces, EmptyPlacesNext
  <1> QED
    BY <1>1, <1>2, <1>3 DEF Promise!Ask, ReceiverClosed

\* A receive takes the first message after the places that were given up.
LEMMA ReceiveStep ==
    ASSUME IInv, IInv', NEW call \in {"poll", "sync"}, TakeMessage(call)
    PROVE  Promise!Receive
  <1>1. /\ Take(call, FirstOf(waiting_senders)) /\ Foremost \in Message
        /\ received' = Append(received, Foremost)
        /\ UNCHANGED <<max_waiting, sender, slot, given, ended>>
        /\ receiver # "dropped" /\ receiver' # "dropped"
    BY DEF TakeMessage, Take, Receiving, senderVars
  <1> DEFINE n == Skipped + 1
  <1>2. /\ PlacesFacts /\ PlacesFacts' /\ n \in 1 .. Used /\ Len(Places) = Used
        /\ Places[n] = Foremost /\ n - 1 = Skipped
        /\ \A k \in 1 .. Skipped : Places[k] = "released"
    <2>1. Skipped + 1 \in 0 .. Used /\ Skipped \in Nat
      BY <1>1, Taken DEF IInv
    <2>2. n \in 1 .. Used /\ n - 1 = Skipped
      BY <2>1
    <2> QED
      BY <1>1, <2>2, PlacesAre, PlacesAreNext, HeadOfQueue DEF PlacesFacts
  <1>3. Places' = Promise!After(n) /\ Asked' = FALSE
    <2>1. CASE max_waiting = 0 /\ Length > 1
      <3>1. Length' = 1 /\ Used' = 0 /\ Used = 1 /\ Skipped = 0
        BY <1>1, <2>1, TakeShrinks
      <3>2. Places' = <<>>
        BY <1>2, <3>1, EmptyPlacesNext
      <3>3. SubSeq(Places, 2, 1) = <<>> /\ n = 1 /\ Len(Places) = 1
        BY <1>2, <3>1
      <3>4. Promise!After(1) = <<>>
        BY <3>3 DEF Promise!After
      <3> QED
        BY <3>1, <3>2, <3>3, <3>4 DEF Asked
    <2>2. CASE ~(max_waiting = 0 /\ Length > 1)
      <3>1. Length' = Length
        BY <1>1, <2>2, TakePasses
      <3>2. waiting' = Cleared(n) /\ read_idx' = Wrap(read_idx + n) /\ write_idx' = write_idx
        <4>1. read_idx + Skipped + 1 = read_idx + n
          BY <1>2, RingIs DEF IInv
        <4> QED
          BY <1>1, <2>2, <4>1 DEF Take
      <3>3. n \in 0 .. Used
        BY <1>2
      <3>4. Places' = Promise!After(n)
        <4> HIDE DEF n
        <4> QED
          BY <1>1, <3>2, <3>3, QueuePassed
      <3> QED
        BY <1>1, <2>2, <3>1, <3>4 DEF Asked
    <2> QED
      BY <2>1, <2>2
  <1> HIDE DEF n
  <1>4. Promise!Released(n - 1)
    BY <1>2 DEF Promise!Released
  <1> QED
    BY <1>1, <1>2, <1>3, <1>4 DEF Promise!Receive, ReceiverClosed, Asked

\* The stream ends when nobody can send, and nothing but released places is left.
LEMMA EndStep ==
    ASSUME IInv, IInv', NEW call \in {"poll", "sync"}, TakeEnd(call)
    PROVE  Promise!End
  <1>1. /\ Foremost \notin Message /\ waiting' = Cleared(Skipped)
        /\ read_idx' = Wrap(read_idx + Skipped) /\ ended' = TRUE
        /\ UNCHANGED <<write_idx, max_waiting, sender, slot, given, received>>
        /\ receiver # "dropped" /\ receiver' # "dropped" /\ AllClosed
    BY DEF TakeEnd, Receiving, senderVars
  <1>2. NobodySends
    BY <1>1, CountedIs, AllClosedIs
  <1>3. Holders = {}
    BY <1>2, HoldersAre DEF NobodySends, IInv, HoldersHold
  <1>4. /\ Skipped = Used /\ PlacesFacts /\ PlacesFacts'
        /\ \A k \in 1 .. Skipped : Places[k] = "released"
    <2>1. \E i \in Indices : Foremost = At(i)
      <3>1. /\ Skipped \in 0 .. Length - 1 /\ read_idx \in 0 .. Length - 1
            /\ Length \in Nat \ {0}
        BY SkippedIs, UsedIs, RingIs DEF IInv, Indices
      <3>2. On(read_idx, Skipped, Length) \in Indices
        BY <3>1, OnIs DEF Indices
      <3> QED
        BY <3>2 DEF Foremost, Nth, Wrap, On
    <2>2. Foremost # "reserved" /\ Foremost \in Content /\ Foremost # "released"
      BY <1>3, <2>1, RingIs, SkippedIs DEF IInv, ReservedHeld, Content
    <2>3. Foremost = "empty"
      BY <1>1, <2>2 DEF Content
    <2> QED
      BY <2>3, SkippedIs, HeadOfQueue, PlacesAre, PlacesAreNext DEF IInv
  <1>5. Used' = 0
    <2>1. Used' = Used - Skipped /\ Used \in Nat
      BY <1>1, <1>4, OnlyPasses DEF PlacesFacts
    <2> QED
      BY <1>4, <2>1
  <1>6. Places' = <<>> /\ Promise!Released(Len(Places))
    BY <1>4, <1>5, EmptyPlacesNext DEF Promise!Released, PlacesFacts
  <1>7. \A h \in Sender : Life[h] # "open"
    BY <1>2 DEF NobodySends, Life, Call
  <1>8. Length' = Length
    BY <1>1, OnlyPasses
  <1> QED
    BY <1>1, <1>6, <1>7, <1>8 DEF Promise!End, Life, ReceiverClosed

\* A receive that goes to sleep only passes over released places.
LEMMA PassStep ==
    ASSUME IInv, IInv', NEW call \in {"poll", "sync"}, AwaitMessage(call)
    PROVE  Promise!Pass
  <1>1. /\ waiting' = Cleared(Skipped) /\ read_idx' = Wrap(read_idx + Skipped)
        /\ UNCHANGED <<write_idx, max_waiting, sender, slot, given, received, ended>>
        /\ receiver # "dropped" /\ receiver' # "dropped"
    BY DEF AwaitMessage, Await, Receiving, senderVars, history
  <1>2. Skipped \in 0 .. Used /\ Len(Places) = Used /\ \A k \in 1 .. Skipped : Places[k] = "released"
    BY SkippedIs, HeadOfQueue, PlacesAre DEF IInv, PlacesFacts
  <1>3. Places' = Promise!After(Skipped) /\ Length' = Length
    BY <1>1, <1>2, QueuePassed
  <1>4. Promise!Released(Skipped)
    BY <1>2 DEF Promise!Released
  <1> QED
    BY <1>1, <1>2, <1>3, <1>4 DEF Promise!Pass, ReceiverClosed

\* The drop of the receiver leaves the queue as it is.
LEMMA HangUpStep ==
    ASSUME DropReceiver
    PROVE  Promise!HangUp
  <1>1. Places' = Places
    BY QueueKept DEF DropReceiver, senderVars
  <1> QED
    BY <1>1 DEF DropReceiver, Promise!HangUp, ReceiverClosed, senderVars, ringVars, history, Length

\* Every step of the channel is one of the promise, or a stutter.
LEMMA QueueStep ==
    ASSUME IInv, IInv', [Next]_vars
    PROVE  [Promise!Next]_Promise!vars
  <1>1. ASSUME NEW h \in Sender, Waking(h)
        PROVE  Promise!Next
    BY <1>1, FillStep, GiveUpStep, SendStep, CloseStep, DropStep DEF Waking, Promise!Next
  <1>2. ASSUME NEW h \in Sender, PollReadyReserves(h) \/ \E g \in Sender : Clone(h, g)
        PROVE  Promise!Next
    BY <1>2, ReserveStep, CloneStep DEF Promise!Next
  <1>3. CASE PollOpens \/ SyncOpens
    <2>1. \E before \in {{"idle"}, {"idle", "sync"}}, after \in {"opened", "sync_opened"} :
            Open(before, after)
      BY <1>3 DEF PollOpens, SyncOpens
    <2> QED
      BY <2>1, AskStep DEF Promise!Next
  <1>4. ASSUME NEW call \in {"poll", "sync"},
               TakeMessage(call) \/ TakeEnd(call) \/ AwaitMessage(call)
        PROVE  Promise!Next
    BY <1>4, ReceiveStep, EndStep, PassStep DEF Promise!Next
  <1>5. CASE DropReceiver
    BY <1>5, HangUpStep DEF Promise!Next
  <1>6. ASSUME NEW h \in Sender, Leaving(h)
        PROVE  UNCHANGED Promise!vars
    BY <1>6, QuietStep
  <1>7. CASE UNCHANGED vars
    <2>1. UNCHANGED <<ringVars, slot, sender, receiver, history>>
      BY <1>7 DEF vars, senderVars
    <2>2. Places' = Places
      BY <2>1, QueueKept
    <2> QED
      BY <2>1, <2>2 DEF Promise!vars, ReceiverClosed, ringVars, history, Length
  <1>8. CASE Next
    BY <1>1, <1>2, <1>3, <1>4, <1>5, <1>6, <1>8, NextIs
  <1> QED
    BY <1>7, <1>8

\* A new channel is an empty queue.
LEMMA QueueInit ==
    ASSUME Init, IInv
    PROVE  Promise!Init
  <1>1. Length = max_waiting + 1 /\ max_waiting \in Nat
    <2>1. max_waiting \in Nat
      BY LensAssumption DEF Init
    <2> DEFINE n == max_waiting + 1
    <2>2. n \in Nat /\ waiting = [i \in 1 .. n |-> "empty"]
      BY <2>1 DEF Init
    <2> HIDE DEF n
    <2>3. Len(waiting) = n
      BY <2>2
    <2> QED
      BY <2>1, <2>3 DEF n, Length
  <1>2. Used = 0
    BY UsedIs DEF Init, IInv, IsEmpty
  <1>3. Places = <<>>
    BY <1>2, PlacesAre, EmptyPlaces
  <1>4. Life = [h \in Sender |-> IF h = First THEN "open" ELSE "none"]
    BY DEF Init, Life, Call
  <1>5. ~(max_waiting = 0 /\ Length = 2)
    BY <1>1
  <1> QED
    BY <1>3, <1>4, <1>5 DEF Init, Promise!Init, Life, ReceiverClosed

\* However slots are reserved, filled, released and passed over, and however the ring grows and
\* shrinks, the channel is a queue: each message arrives once, in the order of the reservations.
THEOREM ChannelIsQueue == Spec => IsQueue
  <1>1. Init => IInv /\ Promise!Init
    BY IInvInit, QueueInit
  <1>2. IInv /\ [Next]_vars => IInv' /\ [Promise!Next]_Promise!vars
    BY IInvStep, QueueStep
  <1> QED
    BY <1>1, <1>2, PTL DEF Spec, IsQueue, Promise!Spec
=============================================================================
