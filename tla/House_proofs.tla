----------------------------- MODULE House_proofs -----------------------------
(* Proofs about the labels, the filters of an answer, the choice of a clip's    *)
(* frame, the matching of two cameras and the incidents of the quality report,  *)
(* and about the thirteen parts of MCHouse beside each other: whichever of them *)
(* a behaviour runs, each keeps its invariant.                                  *)
EXTENDS MCHouse, HouseParts_proofs, TLAPS

----------------------------------------------------------------------------
(* The labels *)

AnyVerdict == LabelVerdicts \cup {Unlabeled}
LabelLine == [frame : Pictures, label : AnyVerdict]
Undos == [kind : {"label", "skip"}, frame : Pictures, previous : AnyVerdict, position : Nat]

LabelTyped ==
  /\ labelsFile \in Seq(LabelLine) /\ labeled \in [Pictures -> AnyVerdict]
  /\ labelQueue \in Seq(Pictures) /\ undoStack \in Seq(Undos)
  /\ opened \in [Pictures -> AnyVerdict]
SkipsInv == \A n \in 1..Len(undoStack) : undoStack[n].kind = "skip" => undoStack[n].position >= 1
LatestInv == \A p \in Pictures : labeled[p] = LatestLabel(labelsFile, p)
WaitingInv ==
  /\ OnceEach(labelQueue)
  /\ \A p \in Pictures : Within(labelQueue, p) => labeled[p] = Unlabeled
  /\ \A p \in Pictures : p \notin LeftOut /\ labeled[p] = Unlabeled => Within(labelQueue, p)

\* Entry n of the stack is of a verdict on p.
Of(p, n) == undoStack[n].kind = "label" /\ undoStack[n].frame = p
StackInv ==
  /\ \A p \in Pictures, n \in 1..Len(undoStack) : Of(p, n) => labeled[p] # Unlabeled
  /\ \A p \in Pictures, m, n \in 1..Len(undoStack) :
       Of(p, m) /\ Of(p, n) /\ m < n => undoStack[n].previous # Unlabeled
OpenedInv ==
  /\ \A p \in Pictures : (\A n \in 1..Len(undoStack) : ~Of(p, n)) => opened[p] = labeled[p]
  /\ \A p \in Pictures, n \in 1..Len(undoStack) :
       Of(p, n) /\ (\A m \in 1..Len(undoStack) : Of(p, m) => n <= m)
         => undoStack[n].previous = opened[p]

LabelInv == LabelTyped /\ SkipsInv /\ LatestInv /\ WaitingInv /\ StackInv /\ OpenedInv

(* The last line of a frame counts, and a frame without a line has no label.   *)
LEMMA LatestIs ==
  ASSUME NEW file \in Seq(LabelLine), NEW p, NEW m \in 1..Len(file), file[m].frame = p,
         \A n \in 1..Len(file) : file[n].frame = p => n <= m
  PROVE  LatestLabel(file, p) = file[m].label
<1> DEFINE lines == {n \in DOMAIN file : file[n].frame = p}
<1>1. DOMAIN file = 1..Len(file) /\ Len(file) \in Nat
  BY LenProperties
<1>2. m \in lines /\ (\A n \in lines : n <= m) /\ lines # {} /\ lines \subseteq Int
  BY <1>1
<1>3. LatestLabel(file, p) = file[CHOOSE k \in lines : \A n \in lines : n <= k].label
  BY <1>2 DEF LatestLabel
<1> HIDE DEF lines
<1>4. \A k \in lines : (\A n \in lines : n <= k) => k = m
  BY <1>2
<1>5. (CHOOSE k \in lines : \A n \in lines : n <= k) = m
  BY <1>2, <1>4
<1> QED
  BY <1>3, <1>5

LEMMA LatestNone ==
  ASSUME NEW file \in Seq(LabelLine), NEW p, \A n \in 1..Len(file) : file[n].frame # p
  PROVE  LatestLabel(file, p) = Unlabeled
<1>1. DOMAIN file = 1..Len(file)
  BY LenProperties
<1>2. {n \in DOMAIN file : file[n].frame = p} = {}
  BY <1>1
<1> QED
  BY <1>2 DEF LatestLabel

LEMMA LatestCases ==
  ASSUME NEW file \in Seq(LabelLine), NEW p
  PROVE  \/ /\ \A n \in 1..Len(file) : file[n].frame # p
            /\ LatestLabel(file, p) = Unlabeled
         \/ \E m \in 1..Len(file) :
              /\ file[m].frame = p /\ \A n \in 1..Len(file) : file[n].frame = p => n <= m
              /\ LatestLabel(file, p) = file[m].label
<1>1. CASE \A n \in 1..Len(file) : file[n].frame # p
  BY <1>1, LatestNone
<1>2. CASE \E n \in 1..Len(file) : file[n].frame = p
  <2> DEFINE T == {n \in 1..Len(file) : file[n].frame = p}
  <2>1. Len(file) \in Nat /\ T # {} /\ T \subseteq 0..Len(file)
    BY <1>2, LenProperties
  <2>2. PICK m \in T : \A n \in T : n <= m
    <3> HIDE DEF T
    <3> QED
      BY <2>1, GreatestNat
  <2>3. m \in 1..Len(file) /\ file[m].frame = p /\ \A n \in 1..Len(file) : file[n].frame = p => n <= m
    BY <2>2
  <2>4. LatestLabel(file, p) = file[m].label
    BY <2>3, LatestIs
  <2> QED
    BY <2>3, <2>4
<1> QED
  BY <1>1, <1>2

LEMMA LatestTyped ==
  ASSUME NEW file \in Seq(LabelLine), NEW p PROVE LatestLabel(file, p) \in AnyVerdict
<1>1. \A m \in 1..Len(file) : file[m].label \in AnyVerdict
  <2> TAKE m \in 1..Len(file)
  <2>1. file[m] \in LabelLine
    BY ElementOfSeq
  <2> QED
    BY <2>1 DEF LabelLine
<1> QED
  BY <1>1, LatestCases DEF AnyVerdict

LEMMA LatestAppend ==
  ASSUME NEW file \in Seq(LabelLine), NEW line \in LabelLine, NEW p
  PROVE  LatestLabel(Append(file, line), p)
           = IF line.frame = p THEN line.label ELSE LatestLabel(file, p)
<1> DEFINE new == Append(file, line)
<1>1. /\ new \in Seq(LabelLine) /\ Len(new) = Len(file) + 1 /\ Len(file) \in Nat
      /\ \A i \in 1..Len(file) : new[i] = file[i]
      /\ new[Len(file) + 1] = line
  BY AppendProperties, LenProperties
<1> HIDE DEF new
<1>2. Len(new) \in 1..Len(new) /\ new[Len(new)] = line /\ 1..Len(file) \subseteq 1..Len(new)
      /\ (\A n \in 1..Len(new) : n = Len(new) \/ n \in 1..Len(file))
      /\ \A n \in 1..Len(new) : n <= Len(new)
  BY <1>1
<1>3. CASE line.frame = p
  BY <1>1, <1>2, <1>3, LatestIs DEF new
<1>4. CASE line.frame # p
  <2>1. CASE \A n \in 1..Len(file) : file[n].frame # p
    <3>1. \A n \in 1..Len(new) : new[n].frame # p
      BY <1>1, <1>2, <1>4, <2>1
    <3> QED
      BY <1>1, <1>4, <2>1, <3>1, LatestNone DEF new
  <2>2. CASE \E n \in 1..Len(file) : file[n].frame = p
    <3>1. PICK m \in 1..Len(file) :
              /\ file[m].frame = p /\ \A n \in 1..Len(file) : file[n].frame = p => n <= m
              /\ LatestLabel(file, p) = file[m].label
      BY <2>2, LatestCases
    <3>2. m \in 1..Len(new) /\ new[m] = file[m]
          /\ \A n \in 1..Len(new) : new[n].frame = p => n <= m
      BY <1>1, <1>2, <1>4, <3>1
    <3>3. LatestLabel(new, p) = new[m].label
      BY <1>1, <3>1, <3>2, LatestIs
    <3> QED
      BY <1>4, <3>1, <3>2, <3>3 DEF new
  <2> QED
    BY <2>1, <2>2
<1> QED
  BY <1>3, <1>4

(* An order of a finite set is a sequence that holds each of it once.           *)
LEMMA OrderHolds ==
  ASSUME NEW S, IsFiniteSet(S), NEW q \in Orders(S)
  PROVE  /\ q \in Seq(S) /\ OnceEach(q)
         /\ \A x : Within(q, x) <=> x \in S
<1>1. Cardinality(S) \in Nat
  BY FS_CardinalityType
<1>2. q \in [1..Cardinality(S) -> S] /\ \A i, j \in DOMAIN q : i # j => q[i] # q[j]
  BY DEF Orders
<1>3. q \in Seq(S) /\ Len(q) = Cardinality(S) /\ DOMAIN q = 1..Cardinality(S)
  BY <1>1, <1>2
<1>4. OnceEach(q)
  BY <1>2, <1>3 DEF OnceEach
<1>5. IsFiniteSet(1..Cardinality(S)) /\ Cardinality(1..Cardinality(S)) = Cardinality(S)
  <2>1. 1 \in Int /\ Cardinality(S) \in Int
    BY <1>1
  <2>2. /\ IsFiniteSet(1..Cardinality(S))
        /\ Cardinality(1..Cardinality(S)) = IF 1 > Cardinality(S) THEN 0 ELSE Cardinality(S) - 1 + 1
    BY <2>1, FS_Interval
  <2> QED
    BY <1>1, <2>2
<1>6. q \in Injection(1..Cardinality(S), S)
  BY <1>2, <1>3 DEF Injection, IsInjective
<1>7. q \in Surjection(1..Cardinality(S), S)
  BY <1>5, <1>6, FS_Injection
<1>8. \A x \in S : \E n \in 1..Cardinality(S) : q[n] = x
  BY <1>7 DEF Surjection
<1>9. \A n \in 1..Cardinality(S) : q[n] \in S
  BY <1>2
<1> QED
  BY <1>3, <1>4, <1>8, <1>9 DEF Within

LEMMA LabelTypes == LabelInv => VerdictsAreKept
<1> SUFFICES ASSUME LabelInv PROVE VerdictsAreKept
  OBVIOUS
<1>1. /\ DOMAIN labelQueue = 1..Len(labelQueue)
      /\ DOMAIN undoStack = 1..Len(undoStack) /\ Len(undoStack) \in Nat
  BY LenProperties DEF LabelInv, LabelTyped
<1>2. \A p : ToLabel(p) <=> Within(labelQueue, p)
  BY <1>1 DEF ToLabel, Within
<1>3. \A p \in Pictures : labeled[p] = LatestLabel(labelsFile, p)
  BY DEF LabelInv, LatestInv
<1>4. \A i, j \in DOMAIN labelQueue : labelQueue[i] = labelQueue[j] => i = j
  BY <1>1 DEF LabelInv, WaitingInv, OnceEach
<1>5. \A p \in Pictures :
       /\ ToLabel(p) => labeled[p] = Unlabeled
       /\ p \notin LeftOut /\ labeled[p] = Unlabeled => ToLabel(p)
  BY <1>2 DEF LabelInv, WaitingInv
<1>6. Restored = opened
  <2> DEFINE back(p) == IF VerdictsOf(p) = {} THEN labeled[p]
       ELSE undoStack[CHOOSE n \in VerdictsOf(p) : \A m \in VerdictsOf(p) : n <= m].previous
  <2>1. ASSUME NEW p \in Pictures PROVE back(p) = opened[p]
    <3>1. VerdictsOf(p) = {n \in 1..Len(undoStack) : Of(p, n)}
      BY <1>1 DEF VerdictsOf, Of
    <3>2. CASE VerdictsOf(p) = {}
      <4>1. \A n \in 1..Len(undoStack) : ~Of(p, n)
        BY <3>1, <3>2
      <4> QED
        BY <3>2, <4>1 DEF LabelInv, OpenedInv
    <3>3. CASE VerdictsOf(p) # {}
      <4> DEFINE k == CHOOSE n \in VerdictsOf(p) : \A m \in VerdictsOf(p) : n <= m
      <4>1. VerdictsOf(p) \subseteq Nat
        BY <1>1, <3>1
      <4>2. k \in VerdictsOf(p) /\ \A m \in VerdictsOf(p) : k <= m
        <5>1. \E n \in VerdictsOf(p) : \A m \in VerdictsOf(p) : n <= m
          BY <3>3, <4>1, LeastNat
        <5> QED
          BY <5>1
      <4> HIDE DEF k
      <4>3. undoStack[k].previous = opened[p]
        BY <3>1, <4>2 DEF LabelInv, OpenedInv
      <4> QED
        BY <3>3, <4>3 DEF k
    <3> QED
      BY <3>2, <3>3
  <2>2. Restored = [p \in Pictures |-> back(p)]
    BY DEF Restored
  <2>3. opened = [p \in Pictures |-> opened[p]]
    BY DEF LabelInv, LabelTyped
  <2> HIDE DEF back
  <2> QED
    BY <2>1, <2>2, <2>3
<1> QED
  BY <1>3, <1>4, <1>5, <1>6 DEF VerdictsAreKept

LEMMA LabelInitInv == LabelInit => LabelInv
<1> SUFFICES ASSUME LabelInit PROVE LabelInv
  OBVIOUS
<1> USE DEF LabelInit
<1>1. /\ IsFiniteSet(Pictures \ LeftOut) /\ Pictures \ LeftOut \subseteq Pictures
  BY LabelAssumption, FS_Subset
<1>2. /\ labelQueue \in Seq(Pictures \ LeftOut) /\ OnceEach(labelQueue)
      /\ \A x : Within(labelQueue, x) <=> x \in Pictures \ LeftOut
  BY <1>1, OrderHolds
<1>3. labelQueue \in Seq(Pictures)
  BY <1>1, <1>2, SeqMonotonic
<1>4. labelsFile \in Seq(LabelLine) /\ undoStack \in Seq(Undos) /\ Len(undoStack) = 0 /\ Len(labelsFile) = 0
  BY EmptySeq
<1>5. LabelTyped
  BY <1>3, <1>4 DEF LabelTyped, AnyVerdict
<1>6. \A p \in Pictures : LatestLabel(labelsFile, p) = Unlabeled
  <2> TAKE p \in Pictures
  <2>1. \A n \in 1..Len(labelsFile) : labelsFile[n].frame # p
    BY <1>4
  <2> QED
    BY <1>4, <2>1, LatestNone
<1>7. LatestInv /\ WaitingInv
  BY <1>2, <1>6 DEF LatestInv, WaitingInv
<1>8. SkipsInv /\ StackInv /\ OpenedInv
  BY <1>4 DEF SkipsInv, StackInv, OpenedInv
<1> QED
  BY <1>5, <1>7, <1>8 DEF LabelInv

(* The queue without a frame, and with one put in.                             *)
LEMMA PositionIs ==
  ASSUME LabelTyped, NEW p, Within(labelQueue, p)
  PROVE  Position(p) \in 1..Len(labelQueue) /\ labelQueue[Position(p)] = p
<1>1. DOMAIN labelQueue = 1..Len(labelQueue)
  BY LenProperties DEF LabelTyped
<1>2. ToLabel(p) /\ \E n \in DOMAIN labelQueue : labelQueue[n] = p
  BY <1>1 DEF Within, ToLabel
<1> QED
  BY <1>1, <1>2 DEF Position

LEMMA PositionTyped ==
  ASSUME LabelTyped, NEW p
  PROVE  Position(p) \in Nat /\ (Within(labelQueue, p) => Position(p) >= 1)
<1>1. DOMAIN labelQueue = 1..Len(labelQueue)
  BY LenProperties DEF LabelTyped
<1>2. ToLabel(p) <=> Within(labelQueue, p)
  BY <1>1 DEF Within, ToLabel
<1> QED
  BY <1>2, PositionIs DEF Position

LEMMA QueueWithoutIs ==
  ASSUME LabelTyped, WaitingInv, NEW p
  PROVE  /\ QueueWithout(p) \in Seq(Pictures) /\ OnceEach(QueueWithout(p))
         /\ \A x : Within(QueueWithout(p), x) <=> Within(labelQueue, x) /\ x # p
<1>1. DOMAIN labelQueue = 1..Len(labelQueue) /\ Len(labelQueue) \in Nat
      /\ labelQueue \in Seq(Pictures) /\ OnceEach(labelQueue)
  BY LenProperties DEF LabelTyped, WaitingInv
<1>2. ToLabel(p) <=> Within(labelQueue, p)
  BY <1>1 DEF Within, ToLabel
<1>3. CASE ~ToLabel(p)
  BY <1>1, <1>2, <1>3 DEF QueueWithout
<1>4. CASE ToLabel(p)
  <2> DEFINE k == Position(p)
             a == SubSeq(labelQueue, 1, k - 1)
             b == SubSeq(labelQueue, k + 1, Len(labelQueue))
  <2>1. k \in 1..Len(labelQueue) /\ labelQueue[k] = p
    BY <1>2, <1>4, PositionIs
  <2>2. QueueWithout(p) = a \o b
    BY <1>4 DEF QueueWithout
  <2> HIDE DEF k
  <2>3. /\ 1 \in 1..(Len(labelQueue) + 1) /\ k - 1 \in 0..Len(labelQueue)
        /\ k + 1 \in 1..(Len(labelQueue) + 1) /\ Len(labelQueue) \in 0..Len(labelQueue)
    BY <1>1, <2>1
  <2>4. /\ a \in Seq(Pictures) /\ OnceEach(a)
        /\ \A x : Within(a, x) <=> \E i \in 1..(k - 1) : labelQueue[i] = x
    BY <1>1, <2>3, WithinSubSeq
  <2>5. /\ b \in Seq(Pictures) /\ OnceEach(b)
        /\ \A x : Within(b, x) <=> \E i \in (k + 1)..Len(labelQueue) : labelQueue[i] = x
    BY <1>1, <2>3, WithinSubSeq
  <2> HIDE DEF a, b
  <2>6. \A x : ~(Within(a, x) /\ Within(b, x))
    <3> SUFFICES ASSUME NEW x, NEW i \in 1..(k - 1), NEW j \in (k + 1)..Len(labelQueue),
                        labelQueue[i] = x, labelQueue[j] = x
                 PROVE FALSE
      BY <2>4, <2>5
    <3>1. i \in 1..Len(labelQueue) /\ j \in 1..Len(labelQueue) /\ i # j
      BY <1>1, <2>1
    <3> QED
      BY <1>1, <3>1 DEF OnceEach
  <2>7. /\ a \o b \in Seq(Pictures)
        /\ \A x : Within(a \o b, x) <=> Within(a, x) \/ Within(b, x)
        /\ OnceEach(a \o b)
    BY <2>4, <2>5, <2>6, WithinConcat
  <2>8. ASSUME NEW x PROVE Within(a, x) \/ Within(b, x) <=> Within(labelQueue, x) /\ x # p
    <3>1. ASSUME NEW i \in 1..Len(labelQueue), labelQueue[i] = x, x # p
          PROVE  Within(a, x) \/ Within(b, x)
      <4>1. i # k
        BY <2>1, <3>1
      <4>2. i \in 1..(k - 1) \/ i \in (k + 1)..Len(labelQueue)
        BY <1>1, <2>1, <4>1
      <4> QED
        BY <2>4, <2>5, <3>1, <4>2
    <3>2. ASSUME NEW i \in 1..(k - 1), labelQueue[i] = x
          PROVE  Within(labelQueue, x) /\ x # p
      <4>1. i \in 1..Len(labelQueue) /\ i # k
        BY <1>1, <2>1
      <4> QED
        BY <1>1, <2>1, <3>2, <4>1 DEF OnceEach, Within
    <3>3. ASSUME NEW i \in (k + 1)..Len(labelQueue), labelQueue[i] = x
          PROVE  Within(labelQueue, x) /\ x # p
      <4>1. i \in 1..Len(labelQueue) /\ i # k
        BY <1>1, <2>1
      <4> QED
        BY <1>1, <2>1, <3>3, <4>1 DEF OnceEach, Within
    <3>4. Within(labelQueue, x) /\ x # p => Within(a, x) \/ Within(b, x)
      BY <3>1 DEF Within
    <3>5. Within(a, x) => Within(labelQueue, x) /\ x # p
      BY <2>4, <3>2
    <3>6. Within(b, x) => Within(labelQueue, x) /\ x # p
      BY <2>5, <3>3
    <3> QED
      BY <3>4, <3>5, <3>6
  <2> QED
    BY <2>2, <2>7, <2>8
<1> QED
  BY <1>3, <1>4

LEMMA OneHeld ==
  ASSUME NEW S, NEW p \in S
  PROVE  <<p>> \in Seq(S) /\ OnceEach(<<p>>) /\ \A x : Within(<<p>>, x) <=> x = p
<1>1. Len(<<p>>) = 1 /\ <<p>>[1] = p /\ 1..1 = {1}
  OBVIOUS
<1>2. <<p>> \in Seq(S)
  OBVIOUS
<1> QED
  BY <1>1, <1>2 DEF OnceEach, Within

LEMMA JoinedWith ==
  ASSUME NEW S, NEW p \in S, NEW q \in Seq(S), OnceEach(q), ~Within(q, p)
  PROVE  /\ <<p>> \o q \in Seq(S) /\ OnceEach(<<p>> \o q)
         /\ \A x : Within(<<p>> \o q, x) <=> Within(q, x) \/ x = p
         /\ Append(q, p) \in Seq(S) /\ OnceEach(Append(q, p))
         /\ \A x : Within(Append(q, p), x) <=> Within(q, x) \/ x = p
<1> DEFINE one == <<p>>
<1>1. one \in Seq(S) /\ OnceEach(one) /\ \A x : Within(one, x) <=> x = p
  BY OneHeld
<1>2. Append(q, p) = q \o one
  BY AppendIsConcat
<1> HIDE DEF one
<1>3. /\ one \o q \in Seq(S)
      /\ \A x : Within(one \o q, x) <=> Within(one, x) \/ Within(q, x)
      /\ OnceEach(one \o q)
  BY <1>1, WithinConcat
<1>4. /\ q \o one \in Seq(S)
      /\ \A x : Within(q \o one, x) <=> Within(q, x) \/ Within(one, x)
      /\ OnceEach(q \o one)
  BY <1>1, WithinConcat
<1> QED
  BY <1>1, <1>2, <1>3, <1>4 DEF one

LEMMA InsertedIs ==
  ASSUME NEW S, NEW p \in S, NEW q \in Seq(S), OnceEach(q), ~Within(q, p), NEW n \in Nat, n >= 1
  PROVE  /\ InsertedAt(q, n, p) \in Seq(S) /\ OnceEach(InsertedAt(q, n, p))
         /\ \A x : Within(InsertedAt(q, n, p), x) <=> Within(q, x) \/ x = p
<1> DEFINE at == IF n > Len(q) + 1 THEN Len(q) + 1 ELSE n
           one == <<p>>
           a == SubSeq(q, 1, at - 1)
           b == SubSeq(q, at, Len(q))
<1>1. Len(q) \in Nat
  BY LenProperties
<1>2. InsertedAt(q, n, p) = a \o one \o b
  BY DEF InsertedAt
<1>3. at \in 1..(Len(q) + 1)
  BY <1>1
<1>4. one \in Seq(S) /\ OnceEach(one) /\ \A x : Within(one, x) <=> x = p
  BY OneHeld
<1> HIDE DEF at, one
<1>5. 1 \in 1..(Len(q) + 1) /\ at - 1 \in 0..Len(q) /\ Len(q) \in 0..Len(q)
  BY <1>1, <1>3
<1>6. /\ a \in Seq(S) /\ OnceEach(a)
      /\ \A x : Within(a, x) <=> \E i \in 1..(at - 1) : q[i] = x
  BY <1>5, WithinSubSeq
<1>7. /\ b \in Seq(S) /\ OnceEach(b)
      /\ \A x : Within(b, x) <=> \E i \in at..Len(q) : q[i] = x
  BY <1>3, <1>5, WithinSubSeq
<1> HIDE DEF a, b
<1>8. \A x : Within(a, x) \/ Within(b, x) <=> Within(q, x)
  <2> TAKE x
  <2>1. \A i \in 1..Len(q) : i \in 1..(at - 1) \/ i \in at..Len(q)
    BY <1>1, <1>3
  <2>2. (\A i \in 1..(at - 1) : i \in 1..Len(q)) /\ (\A i \in at..Len(q) : i \in 1..Len(q))
    BY <1>1, <1>3
  <2> QED
    BY <1>6, <1>7, <2>1, <2>2 DEF Within
<1>9. \A x : ~(Within(a, x) /\ Within(b, x))
  <2> SUFFICES ASSUME NEW x, NEW i \in 1..(at - 1), NEW j \in at..Len(q), q[i] = x, q[j] = x
               PROVE FALSE
    BY <1>6, <1>7
  <2>1. i \in 1..Len(q) /\ j \in 1..Len(q) /\ i # j
    BY <1>1, <1>3
  <2> QED
    BY <2>1 DEF OnceEach
<1>10. \A x : ~(Within(a, x) /\ Within(one, x)) /\ ~(Within(one, x) /\ Within(b, x))
  BY <1>4, <1>8
<1> DEFINE c == a \o one
<1>11. /\ c \in Seq(S) /\ OnceEach(c)
       /\ \A x : Within(c, x) <=> Within(a, x) \/ Within(one, x)
  BY <1>4, <1>6, <1>10, WithinConcat
<1> HIDE DEF c
<1>12. \A x : ~(Within(c, x) /\ Within(b, x))
  BY <1>9, <1>10, <1>11
<1>13. /\ c \o b \in Seq(S) /\ OnceEach(c \o b)
       /\ \A x : Within(c \o b, x) <=> Within(c, x) \/ Within(b, x)
  BY <1>7, <1>11, <1>12, WithinConcat
<1>14. \A x : Within(c \o b, x) <=> Within(q, x) \/ x = p
  BY <1>4, <1>8, <1>11, <1>13
<1> QED
  BY <1>2, <1>13, <1>14 DEF c

(* The stack under a push and a pop.                                           *)
LEMMA Pushed ==
  ASSUME LabelTyped, NEW e \in Undos, undoStack' = Append(undoStack, e)
  PROVE  /\ undoStack' \in Seq(Undos) /\ Len(undoStack) \in Nat
         /\ Len(undoStack') = Len(undoStack) + 1 /\ undoStack'[Len(undoStack')] = e
         /\ \A n \in 1..Len(undoStack) : n \in 1..Len(undoStack') /\ undoStack'[n] = undoStack[n]
         /\ Len(undoStack') \in 1..Len(undoStack')
         /\ \A n \in 1..Len(undoStack') : n = Len(undoStack') \/ n \in 1..Len(undoStack)
         /\ \A n \in 1..Len(undoStack) : n < Len(undoStack')
<1>1. /\ undoStack' \in Seq(Undos) /\ Len(undoStack) \in Nat
      /\ Len(undoStack') = Len(undoStack) + 1 /\ undoStack'[Len(undoStack) + 1] = e
      /\ \A n \in 1..Len(undoStack) : undoStack'[n] = undoStack[n]
  BY AppendProperties, LenProperties DEF LabelTyped
<1> QED
  BY <1>1

LEMMA PoppedIs ==
  ASSUME LabelTyped, undoStack # <<>>, undoStack' = Popped
  PROVE  /\ undoStack' \in Seq(Undos) /\ Len(undoStack) \in 1..Len(undoStack)
         /\ Top \in Undos /\ Len(undoStack') = Len(undoStack) - 1 /\ Len(undoStack) \in Nat
         /\ \A n \in 1..Len(undoStack') : n \in 1..Len(undoStack) /\ undoStack'[n] = undoStack[n]
         /\ \A n \in 1..Len(undoStack) : n = Len(undoStack) \/ n \in 1..Len(undoStack')
         /\ \A n \in 1..Len(undoStack') : n < Len(undoStack)
<1>1. undoStack \in Seq(Undos) /\ Len(undoStack) \in Nat \ {0}
  BY EmptySeq DEF LabelTyped
<1>2. \A i \in 1..(Len(undoStack) - 1) : undoStack[i] \in Undos
  BY <1>1, ElementOfSeq
<1>3. 1 \in Int /\ Len(undoStack) - 1 \in Int
  BY <1>1
<1>4. /\ undoStack' \in Seq(Undos)
      /\ Len(undoStack') = IF 1 <= Len(undoStack) - 1 THEN (Len(undoStack) - 1) - 1 + 1 ELSE 0
      /\ \A i \in 1..((Len(undoStack) - 1) - 1 + 1) : undoStack'[i] = undoStack[1 + i - 1]
  BY <1>2, <1>3, SubSeqProperties DEF Popped
<1>5. Len(undoStack') = Len(undoStack) - 1
  <2> DEFINE k == Len(undoStack)
  <2>1. k \in Nat /\ k # 0
    BY <1>1
  <2>2. Len(undoStack') = IF 1 <= k - 1 THEN (k - 1) - 1 + 1 ELSE 0
    BY <1>4
  <2> HIDE DEF k
  <2>3. (IF 1 <= k - 1 THEN (k - 1) - 1 + 1 ELSE 0) = k - 1
    BY <2>1
  <2> QED
    BY <2>2, <2>3 DEF k
<1>6. \A n \in 1..Len(undoStack') : n \in 1..Len(undoStack) /\ undoStack'[n] = undoStack[n]
  <2> TAKE n \in 1..Len(undoStack')
  <2>1. n \in 1..((Len(undoStack) - 1) - 1 + 1) /\ 1 + n - 1 = n /\ n \in 1..Len(undoStack)
    BY <1>1, <1>5
  <2> QED
    BY <1>4, <2>1
<1>7. Len(undoStack) \in 1..Len(undoStack)
  BY <1>1
<1>8. Top \in Undos
  BY <1>1, <1>7, ElementOfSeq DEF Top
<1>9. /\ \A n \in 1..Len(undoStack) : n = Len(undoStack) \/ n \in 1..Len(undoStack')
      /\ \A n \in 1..Len(undoStack') : n < Len(undoStack)
  BY <1>1, <1>5
<1> QED
  BY <1>1, <1>4, <1>5, <1>6, <1>7, <1>8, <1>9

LEMMA LabelFrameStep ==
  ASSUME LabelInv, NEW p \in Pictures, NEW verdict \in LabelVerdicts, LabelFrame(p, verdict)
  PROVE  LabelInv'
<1> DEFINE e == [kind |-> "label", frame |-> p, previous |-> labeled[p], position |-> Position(p)]
<1>1. LabelTyped /\ WaitingInv /\ LatestInv
  BY DEF LabelInv
<1>2. /\ labelsFile' = Append(labelsFile, Line(p, verdict))
      /\ undoStack' = Append(undoStack, e)
      /\ labeled' = [labeled EXCEPT ![p] = verdict]
      /\ labelQueue' = QueueWithout(p) /\ opened' = opened
  BY DEF LabelFrame
<1>3. Line(p, verdict) \in LabelLine /\ Line(p, verdict).frame = p /\ Line(p, verdict).label = verdict
  BY DEF Line, LabelLine, AnyVerdict
<1>4. e \in Undos /\ e.kind = "label" /\ e.frame = p /\ e.previous = labeled[p]
  BY <1>1, PositionTyped DEF Undos, LabelTyped
<1>5. verdict # Unlabeled
  BY LabelAssumption DEF Unlabeled
<1>6. /\ labeled' \in [Pictures -> AnyVerdict] /\ labeled'[p] = verdict
      /\ \A x \in Pictures : x # p => labeled'[x] = labeled[x]
  BY <1>1, <1>2 DEF LabelTyped, AnyVerdict
<1> HIDE DEF e
<1>7. /\ undoStack' \in Seq(Undos) /\ undoStack'[Len(undoStack')] = e
      /\ \A n \in 1..Len(undoStack) : n \in 1..Len(undoStack') /\ undoStack'[n] = undoStack[n]
      /\ Len(undoStack') \in 1..Len(undoStack') /\ Len(undoStack') \in Nat
      /\ \A n \in 1..Len(undoStack') : n = Len(undoStack') \/ n \in 1..Len(undoStack)
      /\ \A n \in 1..Len(undoStack) : n < Len(undoStack')
  BY <1>1, <1>2, <1>4, Pushed
<1>8. LabelTyped'
  <2>1. labelsFile' \in Seq(LabelLine)
    BY <1>1, <1>2, <1>3, AppendProperties DEF LabelTyped
  <2>2. labelQueue' \in Seq(Pictures)
    BY <1>1, <1>2, QueueWithoutIs
  <2>3. opened' \in [Pictures -> AnyVerdict]
    BY <1>1, <1>2 DEF LabelTyped
  <2> QED
    BY <1>6, <1>7, <2>1, <2>2, <2>3 DEF LabelTyped
<1>9. SkipsInv'
  BY <1>4, <1>7 DEF LabelInv, SkipsInv
<1>10. LatestInv'
  <2> SUFFICES ASSUME NEW x \in Pictures PROVE labeled'[x] = LatestLabel(labelsFile', x)
    BY DEF LatestInv
  <2>1. labelsFile \in Seq(LabelLine)
    BY <1>1 DEF LabelTyped
  <2>2. LatestLabel(labelsFile', x) = IF p = x THEN verdict ELSE LatestLabel(labelsFile, x)
    BY <1>2, <1>3, <2>1, LatestAppend
  <2>3. labeled[x] = LatestLabel(labelsFile, x)
    BY <1>1 DEF LatestInv
  <2> QED
    BY <1>6, <2>2, <2>3
<1>11. WaitingInv'
  <2>1. /\ OnceEach(labelQueue')
        /\ \A x : Within(labelQueue', x) <=> Within(labelQueue, x) /\ x # p
    BY <1>1, <1>2, QueueWithoutIs
  <2> QED
    BY <1>1, <1>5, <1>6, <2>1 DEF WaitingInv
<1>12. \A x \in Pictures, n \in 1..Len(undoStack) : Of(x, n)' <=> Of(x, n)
  BY <1>7 DEF Of
<1>13. \A x \in Pictures, n \in 1..Len(undoStack') : n = Len(undoStack') => (Of(x, n)' <=> x = p)
  BY <1>4, <1>7 DEF Of
<1>14. \A x \in Pictures, n \in 1..Len(undoStack) : Of(x, n) => labeled[x] # Unlabeled
  BY DEF LabelInv, StackInv
<1>15. StackInv'
  <2>1. ASSUME NEW x \in Pictures, NEW n \in 1..Len(undoStack'), Of(x, n)' PROVE labeled'[x] # Unlabeled
    BY <1>5, <1>6, <1>7, <1>12, <1>13, <1>14, <2>1
  <2>2. ASSUME NEW x \in Pictures, NEW m \in 1..Len(undoStack'), NEW n \in 1..Len(undoStack'),
               Of(x, m)', Of(x, n)', m < n
        PROVE  undoStack'[n].previous # Unlabeled
    <3>1. m \in 1..Len(undoStack) /\ Of(x, m)
      BY <1>7, <1>12, <2>2
    <3>2. CASE n = Len(undoStack')
      BY <1>4, <1>7, <1>13, <1>14, <2>2, <3>1, <3>2
    <3>3. CASE n \in 1..Len(undoStack)
      <4>1. Of(x, n) /\ undoStack'[n] = undoStack[n]
        BY <1>7, <1>12, <2>2, <3>3
      <4> QED
        BY <2>2, <3>1, <3>3, <4>1 DEF LabelInv, StackInv
    <3> QED
      BY <1>7, <3>2, <3>3
  <2> QED
    BY <2>1, <2>2 DEF StackInv
<1>16. OpenedInv'
  <2>1. ASSUME NEW x \in Pictures, \A n \in 1..Len(undoStack') : ~Of(x, n)'
        PROVE  opened'[x] = labeled'[x]
    <3>1. x # p /\ \A n \in 1..Len(undoStack) : ~Of(x, n)
      BY <1>7, <1>12, <1>13, <2>1
    <3>2. opened[x] = labeled[x]
      BY <3>1 DEF LabelInv, OpenedInv
    <3> QED
      BY <1>2, <1>6, <3>1, <3>2
  <2>2. ASSUME NEW x \in Pictures, NEW n \in 1..Len(undoStack'), Of(x, n)',
               \A m \in 1..Len(undoStack') : Of(x, m)' => n <= m
        PROVE  undoStack'[n].previous = opened'[x]
    <3>1. CASE n \in 1..Len(undoStack)
      <4>1. Of(x, n) /\ undoStack'[n] = undoStack[n] /\ \A m \in 1..Len(undoStack) : Of(x, m) => n <= m
        BY <1>7, <1>12, <2>2, <3>1
      <4> QED
        BY <1>2, <3>1, <4>1 DEF LabelInv, OpenedInv
    <3>2. CASE n = Len(undoStack')
      <4>1. x = p
        BY <1>13, <2>2, <3>2
      <4>2. ASSUME NEW m \in 1..Len(undoStack), Of(p, m) PROVE FALSE
        <5>1. m \in 1..Len(undoStack') /\ Of(p, m)' /\ m < n /\ m \in Int /\ n \in Int
          BY <1>7, <1>12, <3>2, <4>2
        <5>2. n <= m
          BY <2>2, <4>1, <5>1
        <5> QED
          BY <5>1, <5>2
      <4>3. opened[p] = labeled[p]
        BY <4>2 DEF LabelInv, OpenedInv
      <4> QED
        BY <1>2, <1>4, <1>7, <3>2, <4>1, <4>3
    <3> QED
      BY <1>7, <3>1, <3>2
  <2> QED
    BY <2>1, <2>2 DEF OpenedInv
<1> QED
  BY <1>8, <1>9, <1>10, <1>11, <1>15, <1>16 DEF LabelInv

LEMMA SkipFrameStep ==
  ASSUME LabelInv, NEW p \in Pictures, SkipFrame(p)
  PROVE  LabelInv'
<1> DEFINE e == [kind |-> "skip", frame |-> p, previous |-> Unlabeled, position |-> Position(p)]
<1>1. LabelTyped /\ WaitingInv /\ LatestInv
  BY DEF LabelInv
<1>2. /\ labelQueue' = Append(QueueWithout(p), p) /\ undoStack' = Append(undoStack, e)
      /\ labelsFile' = labelsFile /\ labeled' = labeled /\ opened' = opened
  BY DEF SkipFrame
<1>3. Within(labelQueue, p)
  <2>1. DOMAIN labelQueue = 1..Len(labelQueue)
    BY <1>1, LenProperties DEF LabelTyped
  <2> QED
    BY <2>1 DEF SkipFrame, ToLabel, Within
<1>4. e \in Undos /\ e.kind = "skip" /\ e.position >= 1
  BY <1>1, <1>3, PositionTyped DEF Undos, AnyVerdict
<1> HIDE DEF e
<1>5. /\ undoStack' \in Seq(Undos) /\ undoStack'[Len(undoStack')] = e
      /\ \A n \in 1..Len(undoStack) : n \in 1..Len(undoStack') /\ undoStack'[n] = undoStack[n]
      /\ \A n \in 1..Len(undoStack') : n = Len(undoStack') \/ n \in 1..Len(undoStack)
  BY <1>1, <1>2, <1>4, Pushed
<1>6. /\ QueueWithout(p) \in Seq(Pictures) /\ OnceEach(QueueWithout(p))
      /\ \A x : Within(QueueWithout(p), x) <=> Within(labelQueue, x) /\ x # p
  BY <1>1, QueueWithoutIs
<1>7. /\ labelQueue' \in Seq(Pictures) /\ OnceEach(labelQueue')
      /\ \A x : Within(labelQueue', x) <=> Within(labelQueue, x)
  <2> DEFINE q == QueueWithout(p)
  <2>1. q \in Seq(Pictures) /\ OnceEach(q) /\ ~Within(q, p)
    BY <1>6
  <2> HIDE DEF q
  <2>2. /\ Append(q, p) \in Seq(Pictures) /\ OnceEach(Append(q, p))
        /\ \A x : Within(Append(q, p), x) <=> Within(q, x) \/ x = p
    BY <2>1, JoinedWith
  <2> QED
    BY <1>2, <1>3, <1>6, <2>2 DEF q
<1>8. LabelTyped'
  BY <1>1, <1>2, <1>5, <1>7 DEF LabelTyped
<1>9. SkipsInv'
  BY <1>4, <1>5 DEF LabelInv, SkipsInv
<1>10. LatestInv' /\ WaitingInv'
  BY <1>1, <1>2, <1>7 DEF LatestInv, WaitingInv
<1>11. \A x \in Pictures, n \in 1..Len(undoStack') :
         Of(x, n)' => n \in 1..Len(undoStack) /\ Of(x, n) /\ undoStack'[n] = undoStack[n]
  BY <1>4, <1>5 DEF Of
<1>12. \A x \in Pictures, n \in 1..Len(undoStack) : Of(x, n) => n \in 1..Len(undoStack') /\ Of(x, n)'
  BY <1>5 DEF Of
<1>13. StackInv' /\ OpenedInv'
  <2>1. StackInv'
    BY <1>2, <1>11 DEF LabelInv, StackInv
  <2>2. ASSUME NEW x \in Pictures, \A n \in 1..Len(undoStack') : ~Of(x, n)'
        PROVE  opened'[x] = labeled'[x]
    BY <1>2, <1>12, <2>2 DEF LabelInv, OpenedInv
  <2>3. ASSUME NEW x \in Pictures, NEW n \in 1..Len(undoStack'), Of(x, n)',
               \A m \in 1..Len(undoStack') : Of(x, m)' => n <= m
        PROVE  undoStack'[n].previous = opened'[x]
    <3>1. n \in 1..Len(undoStack) /\ Of(x, n) /\ undoStack'[n] = undoStack[n]
      BY <1>11, <2>3
    <3>2. \A m \in 1..Len(undoStack) : Of(x, m) => n <= m
      BY <1>12, <2>3
    <3> QED
      BY <1>2, <3>1, <3>2 DEF LabelInv, OpenedInv
  <2> QED
    BY <2>1, <2>2, <2>3 DEF OpenedInv
<1> QED
  BY <1>8, <1>9, <1>10, <1>13 DEF LabelInv

LEMMA UndoSkipStep ==
  ASSUME LabelInv, UndoSkip
  PROVE  LabelInv'
<1> DEFINE p == Top.frame
<1>1. LabelTyped /\ WaitingInv /\ LatestInv
  BY DEF LabelInv
<1>2. /\ undoStack # <<>> /\ Top.kind = "skip" /\ undoStack' = Popped
      /\ labelsFile' = labelsFile /\ labeled' = labeled /\ opened' = opened
      /\ labelQueue' = IF ToLabel(p) THEN InsertedAt(QueueWithout(p), Top.position, p) ELSE labelQueue
  BY DEF UndoSkip
<1>3. /\ undoStack' \in Seq(Undos) /\ Len(undoStack) \in 1..Len(undoStack) /\ Top \in Undos
      /\ \A n \in 1..Len(undoStack') : n \in 1..Len(undoStack) /\ undoStack'[n] = undoStack[n]
      /\ \A n \in 1..Len(undoStack) : n = Len(undoStack) \/ n \in 1..Len(undoStack')
  BY <1>1, <1>2, PoppedIs
<1>4. p \in Pictures /\ Top.position \in Nat /\ Top.position >= 1
  BY <1>2, <1>3 DEF Undos, LabelInv, SkipsInv, Top
<1> HIDE DEF p
<1>5. /\ labelQueue' \in Seq(Pictures) /\ OnceEach(labelQueue')
      /\ \A x : Within(labelQueue', x) <=> Within(labelQueue, x)
  <2>1. CASE ~ToLabel(p)
    BY <1>1, <1>2, <2>1 DEF LabelTyped, WaitingInv
  <2>2. CASE ToLabel(p)
    <3> DEFINE q == QueueWithout(p)
               k == Top.position
    <3>1. q \in Seq(Pictures) /\ OnceEach(q) /\ ~Within(q, p)
          /\ \A x : Within(q, x) <=> Within(labelQueue, x) /\ x # p
      BY <1>1, QueueWithoutIs
    <3>2. labelQueue' = InsertedAt(q, k, p)
      BY <1>2, <2>2
    <3>3. k \in Nat /\ k >= 1
      BY <1>4
    <3>4. Within(labelQueue, p)
      <4>1. DOMAIN labelQueue = 1..Len(labelQueue)
        BY <1>1, LenProperties DEF LabelTyped
      <4> QED
        BY <2>2, <4>1 DEF ToLabel, Within
    <3> HIDE DEF q, k
    <3>5. /\ InsertedAt(q, k, p) \in Seq(Pictures) /\ OnceEach(InsertedAt(q, k, p))
          /\ \A x : Within(InsertedAt(q, k, p), x) <=> Within(q, x) \/ x = p
      BY <1>4, <3>1, <3>3, InsertedIs
    <3>6. \A x : Within(q, x) \/ x = p <=> Within(labelQueue, x)
      BY <3>1, <3>4
    <3> QED
      BY <3>2, <3>5, <3>6
  <2> QED
    BY <2>1, <2>2
<1>6. LabelTyped'
  BY <1>1, <1>2, <1>3, <1>5 DEF LabelTyped
<1>7. SkipsInv'
  BY <1>3 DEF LabelInv, SkipsInv
<1>8. LatestInv' /\ WaitingInv'
  BY <1>1, <1>2, <1>5 DEF LatestInv, WaitingInv
<1>9. \A x \in Pictures, n \in 1..Len(undoStack') :
         Of(x, n)' => n \in 1..Len(undoStack) /\ Of(x, n) /\ undoStack'[n] = undoStack[n]
  BY <1>3 DEF Of
<1>10. \A x \in Pictures, n \in 1..Len(undoStack) : Of(x, n) => n \in 1..Len(undoStack') /\ Of(x, n)'
  BY <1>2, <1>3 DEF Of, Top
<1>11. StackInv' /\ OpenedInv'
  <2>1. StackInv'
    BY <1>2, <1>9 DEF LabelInv, StackInv
  <2>2. ASSUME NEW x \in Pictures, \A n \in 1..Len(undoStack') : ~Of(x, n)'
        PROVE  opened'[x] = labeled'[x]
    BY <1>2, <1>10, <2>2 DEF LabelInv, OpenedInv
  <2>3. ASSUME NEW x \in Pictures, NEW n \in 1..Len(undoStack'), Of(x, n)',
               \A m \in 1..Len(undoStack') : Of(x, m)' => n <= m
        PROVE  undoStack'[n].previous = opened'[x]
    <3>1. n \in 1..Len(undoStack) /\ Of(x, n) /\ undoStack'[n] = undoStack[n]
      BY <1>9, <2>3
    <3>2. \A m \in 1..Len(undoStack) : Of(x, m) => n <= m
      BY <1>10, <2>3
    <3> QED
      BY <1>2, <3>1, <3>2 DEF LabelInv, OpenedInv
  <2> QED
    BY <2>1, <2>2, <2>3 DEF OpenedInv
<1> QED
  BY <1>6, <1>7, <1>8, <1>11 DEF LabelInv

LEMMA UndoLabelStep ==
  ASSUME LabelInv, UndoLabel
  PROVE  LabelInv'
<1> DEFINE p == Top.frame
           v == Top.previous
           k == Len(undoStack)
<1>1. LabelTyped /\ WaitingInv /\ LatestInv
  BY DEF LabelInv
<1>2. /\ undoStack # <<>> /\ Top.kind = "label" /\ undoStack' = Popped
      /\ labelsFile' = Append(labelsFile, Line(p, v))
      /\ labeled' = [labeled EXCEPT ![p] = v]
      /\ labelQueue' = IF ComesBack(v) THEN <<p>> \o labelQueue ELSE labelQueue
      /\ opened' = opened
  BY DEF UndoLabel
<1>3. /\ undoStack' \in Seq(Undos) /\ k \in 1..k /\ Top \in Undos
      /\ \A n \in 1..Len(undoStack') : n \in 1..k /\ undoStack'[n] = undoStack[n] /\ n < k
      /\ \A n \in 1..k : n = k \/ n \in 1..Len(undoStack')
  BY <1>1, <1>2, PoppedIs
<1>4. p \in Pictures /\ v \in AnyVerdict /\ Top = undoStack[k]
  BY <1>3 DEF Undos, Top
<1>5. \A x \in Pictures : Of(x, k) <=> x = p
  BY <1>2, <1>4 DEF Of
<1>6. undoStack[k].previous = v
  BY <1>4
<1> HIDE DEF p, v
<1>7. labeled[p] # Unlabeled
  BY <1>3, <1>4, <1>5 DEF LabelInv, StackInv
<1> HIDE DEF k
<1>8. /\ labeled' \in [Pictures -> AnyVerdict] /\ labeled'[p] = v
      /\ \A x \in Pictures : x # p => labeled'[x] = labeled[x]
  BY <1>1, <1>2, <1>4 DEF LabelTyped
<1>9. /\ labelQueue' \in Seq(Pictures) /\ OnceEach(labelQueue')
      /\ \A x : Within(labelQueue', x) <=> Within(labelQueue, x) \/ (x = p /\ v = Unlabeled)
  <2>1. CASE v # Unlabeled
    BY <1>1, <1>2, <2>1 DEF ComesBack, LabelTyped, WaitingInv
  <2>2. CASE v = Unlabeled
    <3>1. /\ labelQueue \in Seq(Pictures) /\ OnceEach(labelQueue) /\ ~Within(labelQueue, p)
      BY <1>1, <1>4, <1>7 DEF LabelTyped, WaitingInv
    <3>2. /\ <<p>> \o labelQueue \in Seq(Pictures) /\ OnceEach(<<p>> \o labelQueue)
          /\ \A x : Within(<<p>> \o labelQueue, x) <=> Within(labelQueue, x) \/ x = p
      BY <1>4, <3>1, JoinedWith
    <3>3. labelQueue' = <<p>> \o labelQueue
      BY <1>2, <2>2 DEF ComesBack
    <3> QED
      BY <2>2, <3>2, <3>3
  <2> QED
    BY <2>1, <2>2
<1>10. Line(p, v) \in LabelLine /\ Line(p, v).frame = p /\ Line(p, v).label = v
  BY <1>4 DEF Line, LabelLine
<1>11. labelsFile \in Seq(LabelLine)
  BY <1>1 DEF LabelTyped
<1>12. LabelTyped'
  <2>1. labelsFile' \in Seq(LabelLine)
    BY <1>2, <1>10, <1>11, AppendProperties
  <2>2. opened' \in [Pictures -> AnyVerdict]
    BY <1>1, <1>2 DEF LabelTyped
  <2> QED
    BY <1>3, <1>8, <1>9, <2>1, <2>2 DEF LabelTyped
<1>13. SkipsInv'
  BY <1>3 DEF LabelInv, SkipsInv, k
<1>14. LatestInv'
  <2> SUFFICES ASSUME NEW x \in Pictures PROVE labeled'[x] = LatestLabel(labelsFile', x)
    BY DEF LatestInv
  <2>1. LatestLabel(labelsFile', x) = IF p = x THEN v ELSE LatestLabel(labelsFile, x)
    BY <1>2, <1>10, <1>11, LatestAppend
  <2>2. labeled[x] = LatestLabel(labelsFile, x)
    BY <1>1 DEF LatestInv
  <2> QED
    BY <1>8, <2>1, <2>2
<1>15. WaitingInv'
  BY <1>1, <1>4, <1>7, <1>8, <1>9 DEF WaitingInv
<1>16. \A x \in Pictures, n \in 1..Len(undoStack') :
         Of(x, n)' => n \in 1..k /\ n < k /\ Of(x, n) /\ undoStack'[n] = undoStack[n]
  BY <1>3 DEF Of
<1>17. \A x \in Pictures, n \in 1..k : Of(x, n) => (n = k /\ x = p) \/ (n \in 1..Len(undoStack') /\ Of(x, n)')
  BY <1>3, <1>5 DEF Of
<1>18. StackInv'
  <2>1. ASSUME NEW x \in Pictures, NEW n \in 1..Len(undoStack'), Of(x, n)'
        PROVE  labeled'[x] # Unlabeled
    <3>1. n \in 1..k /\ n < k /\ Of(x, n) /\ k \in 1..k
      BY <1>3, <1>16, <2>1
    <3>2. CASE x = p
      <4>1. Of(p, n) /\ Of(p, k)
        BY <1>3, <1>4, <1>5, <3>1, <3>2
      <4>2. undoStack[k].previous # Unlabeled
        BY <1>4, <3>1, <4>1 DEF LabelInv, StackInv, k
      <4> QED
        BY <1>6, <1>8, <3>2, <4>2
    <3>3. CASE x # p
      BY <1>8, <3>1, <3>3 DEF LabelInv, StackInv, k
    <3> QED
      BY <3>2, <3>3
  <2>2. ASSUME NEW x \in Pictures, NEW m \in 1..Len(undoStack'), NEW n \in 1..Len(undoStack'),
               Of(x, m)', Of(x, n)', m < n
        PROVE  undoStack'[n].previous # Unlabeled
    <3>1. /\ m \in 1..k /\ n \in 1..k /\ Of(x, m) /\ Of(x, n) /\ undoStack'[n] = undoStack[n]
      BY <1>16, <2>2
    <3> QED
      BY <2>2, <3>1 DEF LabelInv, StackInv, k
  <2> QED
    BY <2>1, <2>2 DEF StackInv
<1>19. OpenedInv'
  <2>1. ASSUME NEW x \in Pictures, \A n \in 1..Len(undoStack') : ~Of(x, n)'
        PROVE  opened'[x] = labeled'[x]
    <3>1. \A n \in 1..k : Of(x, n) => n = k /\ x = p
      BY <1>17, <2>1
    <3>2. CASE x = p
      <4>1. k \in 1..k /\ Of(p, k) /\ \A m \in 1..k : Of(p, m) => k <= m
        <5>1. k \in 1..k /\ Of(p, k)
          BY <1>3, <1>4, <1>5
        <5>2. ASSUME NEW m \in 1..k, Of(p, m) PROVE k <= m
          <6>1. m = k
            BY <3>1, <3>2, <5>2
          <6> QED
            BY <6>1
        <5> QED
          BY <5>1, <5>2
      <4>2. undoStack[k].previous = opened[p]
        BY <1>4, <4>1 DEF LabelInv, OpenedInv, k
      <4> QED
        BY <1>2, <1>6, <1>8, <3>2, <4>2
    <3>3. CASE x # p
      <4>1. \A n \in 1..k : ~Of(x, n)
        BY <3>1, <3>3
      <4>2. opened[x] = labeled[x]
        BY <4>1 DEF LabelInv, OpenedInv, k
      <4> QED
        BY <1>2, <1>8, <3>3, <4>2
    <3> QED
      BY <3>2, <3>3
  <2>2. ASSUME NEW x \in Pictures, NEW n \in 1..Len(undoStack'), Of(x, n)',
               \A m \in 1..Len(undoStack') : Of(x, m)' => n <= m
        PROVE  undoStack'[n].previous = opened'[x]
    <3>1. n \in 1..k /\ n < k /\ Of(x, n) /\ undoStack'[n] = undoStack[n]
      BY <1>16, <2>2
    <3>2. ASSUME NEW m \in 1..k, Of(x, m) PROVE n <= m
      <4>1. CASE m = k
        BY <3>1, <4>1
      <4>2. CASE m \in 1..Len(undoStack') /\ Of(x, m)'
        BY <2>2, <4>2
      <4> QED
        BY <1>17, <3>2, <4>1, <4>2
    <3>3. undoStack[n].previous = opened[x]
      BY <3>1, <3>2 DEF LabelInv, OpenedInv, k
    <3> QED
      BY <1>2, <3>1, <3>3
  <2> QED
    BY <2>1, <2>2 DEF OpenedInv
<1> QED
  BY <1>12, <1>13, <1>14, <1>15, <1>18, <1>19 DEF LabelInv

LEMMA ReopenStep ==
  ASSUME LabelInv, ReopenSession
  PROVE  LabelInv'
<1> DEFINE S == {p \in Pictures \ LeftOut : LatestLabel(labelsFile, p) = Unlabeled}
<1>1. LabelTyped
  BY DEF LabelInv
<1>2. PICK order \in Orders(S) : OpenSession(labelsFile, order)
  BY DEF ReopenSession
<1>3. /\ labeled' = [p \in Pictures |-> LatestLabel(labelsFile, p)]
      /\ labelQueue' = order /\ undoStack' = <<>> /\ opened' = labeled' /\ labelsFile' = labelsFile
  BY <1>2 DEF OpenSession, ReopenSession
<1>4. IsFiniteSet(S) /\ S \subseteq Pictures
  BY LabelAssumption, FS_Subset
<1>5. order \in Seq(S) /\ OnceEach(order) /\ \A x : Within(order, x) <=> x \in S
  <2> HIDE DEF S
  <2> QED
    BY <1>2, <1>4, OrderHolds
<1>6. order \in Seq(Pictures)
  <2> HIDE DEF S
  <2> QED
    BY <1>4, <1>5, SeqMonotonic
<1>7. undoStack' \in Seq(Undos) /\ Len(undoStack') = 0
  BY <1>3, EmptySeq
<1>8. labelsFile \in Seq(LabelLine)
  BY <1>1 DEF LabelTyped
<1>9. \A p \in Pictures : LatestLabel(labelsFile, p) \in AnyVerdict
  BY <1>8, LatestTyped
<1>10. LabelTyped'
  BY <1>3, <1>6, <1>7, <1>8, <1>9 DEF LabelTyped
<1>11. LatestInv' /\ WaitingInv'
  BY <1>3, <1>5 DEF LatestInv, WaitingInv
<1>12. SkipsInv' /\ StackInv' /\ OpenedInv'
  BY <1>3, <1>7 DEF SkipsInv, StackInv, OpenedInv
<1> QED
  BY <1>10, <1>11, <1>12 DEF LabelInv

LEMMA LabelStep == LabelInv /\ [LabelNext]_labelVars => LabelInv'
<1> SUFFICES ASSUME LabelInv, [LabelNext]_labelVars PROVE LabelInv'
  OBVIOUS
<1>1. CASE \E p \in Pictures, verdict \in LabelVerdicts : LabelFrame(p, verdict)
  BY <1>1, LabelFrameStep
<1>2. CASE \E p \in Pictures : SkipFrame(p)
  BY <1>2, SkipFrameStep
<1>3. CASE UNCHANGED labelVars \/ UndoRefused
  <2>1. UNCHANGED <<labelsFile, labeled, labelQueue, undoStack, opened>>
    BY <1>3 DEF labelVars, UndoRefused, KeptEntry
  <2> QED
    BY <2>1 DEF LabelInv, LabelTyped, SkipsInv, LatestInv, WaitingInv, StackInv, OpenedInv, Of
<1> QED
  BY <1>1, <1>2, <1>3, UndoSkipStep, UndoLabelStep, ReopenStep DEF LabelNext

(* labeling.py: memory and file agree on every verdict, no frame waits twice,   *)
(* and the undo stack leads back to what the session opened with.               *)
THEOREM VerdictsAreKeptCorrect == LabelSpec => []VerdictsAreKept
<1>1. LabelSpec => []LabelInv
  BY LabelInitInv, LabelStep, PTL DEF LabelSpec
<1> QED
  BY <1>1, LabelTypes, PTL
----------------------------------------------------------------------------
(* The filters of an answer *)

Lists == [Places -> Nat]
Anchors == Places \cup {"tile", Nowhere}
AnswerReplies == [person : Nat, list : Lists \cup {NoList}, box : Anchors, vehicle : {0, Host},
            vehicleAt : Places \cup {Nowhere}]
Phases == {"scores", "ensemble", "ignore_zones", "ignore_boxes", "max_person_box", "alert_zones",
           "verdict", "nothing"}
Filtering == {"ignore_zones", "ignore_boxes", "max_person_box", "alert_zones", "verdict", "nothing"}

\* The list and the person of an answer agree: none above it, and one at the
\* threshold exactly when the answer is.
Agrees(r) ==
  r.list # NoList =>
    /\ \A p \in Places : r.list[p] <= r.person
    /\ r.person >= Host => \E p \in Places : r.list[p] = r.person
\* The box is of the best person of the list, when that one is at the threshold.
Boxed(r) ==
  r.list # NoList /\ r.person >= Host => r.box \in Places /\ r.list[r.box] = r.person

\* Who the filters so far have left.
Left ==
  {p \in Places :
    /\ awaits # "ignore_zones" => p \notin IgnoreZone
    /\ awaits \notin {"ignore_zones", "ignore_boxes"} => p \notin IgnoreBox \/ notes.box_observe > 0
    /\ awaits \in {"alert_zones", "verdict", "nothing"} => p \notin Oversized
    /\ awaits \in {"verdict", "nothing"} => observing \/ p \in AlertZone}

Unequal == \A p, q \in Places : served.list[p] > 0 /\ served.list[p] = served.list[q] => p = q

AnswerTyped ==
  /\ observing \in BOOLEAN /\ awaits \in Phases /\ reply \in AnswerReplies
  /\ used \in {"shadow", "shadow_marginal", "primary", "neither", "primary_only"}
  /\ served \in [person : Nat, list : Lists \cup {NoList}]
  /\ notes \in [ignored_persons : Nat, ignored_boxes : Nat, oversized_persons : Nat,
                box_observe : Nat, outside : Nat, persons : Nat \cup {-1}]
ScoredInv == awaits = "ensemble" => reply.list # NoList /\ Agrees(reply) /\ Boxed(reply)
ObservedInv ==
  /\ awaits \in {"scores", "ensemble", "ignore_zones", "ignore_boxes"} => notes.box_observe = 0
ServedInv ==
  awaits \in Filtering =>
    /\ Agrees(served) /\ reply.person <= served.person
    /\ used = "neither" => served.person < Host
    /\ reply.list = NoList <=> served.list = NoList
    /\ reply.list # NoList =>
         /\ \A p \in Places : reply.list[p] = IF p \in Left THEN served.list[p] ELSE 0
         /\ Agrees(reply)
         /\ reply.person < Host => \A p \in Left : served.list[p] < Host
         /\ Unequal => Boxed(reply)
VehicleInv ==
  awaits \in {"verdict", "nothing"} /\ reply.vehicle > 0 => observing \/ reply.vehicleAt \in AlertZone

AnswerInv == AnswerTyped /\ ScoredInv /\ ObservedInv /\ ServedInv /\ VehicleInv

LEMMA HostNumbers ==
  /\ Host \in Nat /\ Low \in Nat /\ Trust \in Nat /\ Band \in Nat /\ ListFloor \in Nat
  /\ 0 < Low /\ Low < Trust /\ Trust <= Host /\ 0 < Host /\ 0 < ListFloor /\ ListFloor <= Trust
  /\ ListFloor <= Host
  BY AnswerAssumption, EnsembleAssumption, FloorAssumption

LEMMA NoListIsNone == \A l \in Lists : l # NoList
<1> SUFFICES ASSUME NEW l \in Lists, l = NoList PROVE FALSE
  OBVIOUS
<1>1. DOMAIN l = Places /\ DOMAIN NoList = {}
  BY DEF Lists, NoList
<1> QED
  BY <1>1, AnswerAssumption

(* The best person of a list.                                                   *)
LEMMA BestIs ==
  ASSUME NEW l \in Lists
  PROVE  /\ Best(l) \in Nat /\ \A p \in Places : l[p] <= Best(l)
         /\ BestPlace(l) \in BestPlaces(l)
         /\ \A p \in BestPlaces(l) : p \in Places /\ l[p] = Best(l)
<1>1. IsFiniteSet(Places) /\ Places # {} /\ l \in [Places -> Int]
  BY AnswerAssumption DEF Lists
<1>2. \E p \in Places : \A x \in Places : l[x] <= l[p]
  BY <1>1, GreatestOf
<1>7. \E m \in {l[x] : x \in Places} : \A x \in Places : l[x] <= m
  BY <1>2
<1>8. Best(l) \in {l[x] : x \in Places} /\ \A x \in Places : l[x] <= Best(l)
  BY <1>7 DEF Best
<1>9. BestPlaces(l) # {} /\ \A x \in BestPlaces(l) : x \in Places /\ l[x] = Best(l)
  BY <1>8 DEF BestPlaces
<1>10. \A x \in Places : l[x] \in Nat
  BY DEF Lists
<1> QED
  BY <1>8, <1>9, <1>10 DEF BestPlace

LEMMA OnlyIs ==
  ASSUME NEW l \in Lists, NEW S
  PROVE  Only(l, S) \in Lists /\ \A p \in Places : Only(l, S)[p] = IF p \in S THEN l[p] ELSE 0
  BY DEF Only, Lists

LEMMA PersonListIs ==
  ASSUME NEW found \in Lists
  PROVE  /\ PersonList(found) \in Lists
         /\ \A p \in Places : PersonList(found)[p] = IF found[p] >= ListFloor THEN found[p] ELSE 0
  BY OnlyIs DEF PersonList, Only

(* What the models find agrees with what they list.                             *)
LEMMA FoundAgrees ==
  ASSUME NEW found \in Lists, NEW at \in BestPlaces(found)
  PROVE  /\ \A p \in Places : PersonList(found)[p] <= Best(found)
         /\ Best(found) >= Trust => at \in Places /\ PersonList(found)[at] = Best(found)
<1>1. /\ Best(found) \in Nat /\ \A p \in Places : found[p] <= Best(found) /\ found[p] \in Nat
      /\ at \in Places /\ found[at] = Best(found)
  BY BestIs DEF Lists
<1>2. \A p \in Places : PersonList(found)[p] = IF found[p] >= ListFloor THEN found[p] ELSE 0
  BY PersonListIs
<1>3. ASSUME NEW p \in Places PROVE PersonList(found)[p] <= Best(found)
  BY <1>1, <1>2
<1>4. ASSUME Best(found) >= Trust PROVE PersonList(found)[at] = Best(found)
  <2>1. found[at] >= ListFloor
    BY <1>1, <1>4, HostNumbers
  <2> QED
    BY <1>1, <1>2, <2>1
<1> QED
  BY <1>1, <1>3, <1>4

(* The second model's confidences keep their order where they are raised.       *)
LEMMA RemapIs ==
  ASSUME NEW s \in Nat
  PROVE  /\ Remap(s) \in Nat
         /\ Marginal(s) => Remap(s) >= Host
         /\ s < Host => \A t \in Nat : t <= s => Remap(t) <= Remap(s)
<1>1. \A t \in Nat : Marginal(t) =>
        /\ Host - Trust \in Nat /\ Host - Trust > 0
        /\ (t - Trust) * Band \in Nat
        /\ ((t - Trust) * Band) \div (Host - Trust) \in Nat
  <2> TAKE t \in Nat
  <2> SUFFICES ASSUME Marginal(t)
               PROVE  /\ Host - Trust \in Nat /\ Host - Trust > 0
                      /\ (t - Trust) * Band \in Nat
                      /\ ((t - Trust) * Band) \div (Host - Trust) \in Nat
    OBVIOUS
  <2>1. Host - Trust \in Nat /\ Host - Trust > 0 /\ t - Trust \in Nat /\ Band \in Nat
    BY HostNumbers DEF Marginal
  <2>2. (t - Trust) * Band \in Nat
    <3> DEFINE a == t - Trust
    <3>1. a \in Nat /\ Band \in Nat
      BY <2>1
    <3> HIDE DEF a
    <3>2. a * Band \in Nat
      BY <3>1
    <3> QED
      BY <3>2 DEF a
  <2>3. ((t - Trust) * Band) \div (Host - Trust) \in Nat
    <3> DEFINE a == (t - Trust) * Band
               d == Host - Trust
    <3>1. a \in Nat /\ d \in Nat /\ d > 0
      BY <2>1, <2>2
    <3> HIDE DEF a, d
    <3>2. a \div d \in Nat
      BY <3>1
    <3> QED
      BY <3>2 DEF a, d
  <2> QED
    BY <2>1, <2>2, <2>3
<1>2. \A t \in Nat : Remap(t) \in Nat /\ (Marginal(t) => Remap(t) >= Host) /\ (~Marginal(t) => Remap(t) = t)
  <2> TAKE t \in Nat
  <2>1. CASE Marginal(t)
    <3> DEFINE e == ((t - Trust) * Band) \div (Host - Trust)
    <3>1. e \in Nat /\ Remap(t) = Host + e
      BY <1>1, <2>1 DEF Remap
    <3> HIDE DEF e
    <3> QED
      BY <2>1, <3>1, HostNumbers
  <2>2. CASE ~Marginal(t)
    BY <2>2 DEF Remap
  <2> QED
    BY <2>1, <2>2
<1>3. ASSUME s < Host, NEW t \in Nat, t <= s PROVE Remap(t) <= Remap(s)
  <2>1. CASE ~Marginal(t) /\ ~Marginal(s)
    BY <1>2, <1>3, <2>1
  <2>2. CASE ~Marginal(t) /\ Marginal(s)
    <3>1. t < Host
      BY <1>3, HostNumbers
    <3>2. Remap(t) = t /\ Remap(s) >= Host /\ Remap(s) \in Nat
      BY <1>2, <2>2
    <3> QED
      BY <3>1, <3>2, HostNumbers
  <2>3. CASE Marginal(t) /\ ~Marginal(s)
    BY <1>3, <2>3, HostNumbers DEF Marginal
  <2>4. CASE Marginal(t) /\ Marginal(s)
    <3> DEFINE a == (t - Trust) * Band
               b == (s - Trust) * Band
               d == Host - Trust
    <3>1. a \in Nat /\ b \in Nat /\ d \in Nat /\ d > 0 /\ a \div d \in Nat /\ b \div d \in Nat
      BY <1>1, <2>4
    <3>2. a <= b
      <4> DEFINE x == t - Trust
                 y == s - Trust
      <4>1. x \in Nat /\ y \in Nat /\ x <= y /\ Band \in Nat
        BY <1>3, <2>4, HostNumbers DEF Marginal
      <4> HIDE DEF x, y
      <4>2. x * Band <= y * Band
        BY <4>1
      <4> QED
        BY <4>2 DEF x, y
    <3>3. Remap(t) = Host + (a \div d) /\ Remap(s) = Host + (b \div d)
      BY <2>4 DEF Remap
    <3> HIDE DEF a, b, d
    <3>4. a \div d <= b \div d
      BY <3>1, <3>2
    <3> QED
      BY <3>1, <3>3, <3>4, HostNumbers
  <2> QED
    BY <2>1, <2>2, <2>3, <2>4
<1> QED
  BY <1>2, <1>3

LEMMA VerdictIs ==
  ASSUME NEW p \in Nat, NEW s \in Nat
  PROVE  /\ s >= Host => Verdict(p, s) = "shadow"
         /\ Marginal(s) => Verdict(p, s) = "shadow_marginal"
         /\ s < Trust /\ p >= Host /\ s >= Low => Verdict(p, s) = "primary"
         /\ s < Trust /\ ~(p >= Host /\ s >= Low) => Verdict(p, s) = "neither"
<1>1. CASE s >= Host
  <2>1. ~Marginal(s) /\ ~(s < Trust)
    BY <1>1, HostNumbers DEF Marginal
  <2>2. Verdict(p, s) = "shadow"
    BY <1>1, <2>1 DEF Verdict
  <2> QED
    BY <2>1, <2>2
<1>2. CASE Marginal(s)
  <2>1. ~(s >= Host) /\ ~(s < Trust)
    BY <1>2, HostNumbers DEF Marginal
  <2>2. Verdict(p, s) = "shadow_marginal"
    BY <1>2, <2>1 DEF Verdict
  <2> QED
    BY <2>1, <2>2
<1>3. CASE s < Trust
  <2>1. ~(s >= Host) /\ ~Marginal(s)
    BY <1>3, HostNumbers DEF Marginal
  <2>2. CASE p >= Host /\ s >= Low
    <3>1. Verdict(p, s) = "primary"
      BY <1>3, <2>1, <2>2 DEF Verdict
    <3> QED
      BY <2>1, <2>2, <3>1
  <2>3. CASE ~(p >= Host /\ s >= Low)
    <3>1. Verdict(p, s) = "neither"
      BY <2>1, <2>3 DEF Verdict
    <3> QED
      BY <2>1, <2>3, <3>1
  <2> QED
    BY <2>2, <2>3
<1> QED
  BY <1>1, <1>2, <1>3, HostNumbers DEF Marginal

(* A second model's answer: what it found agrees with what it lists.            *)
LEMMA ShadowIs ==
  ASSUME NEW sh \in ShadowReplies
  PROVE  /\ sh.person \in Nat /\ sh.list \in Lists \cup {NoList} /\ sh.box \in Anchors
         /\ sh.list # NoList =>
              /\ \A p \in Places : sh.list[p] <= sh.person
              /\ sh.person >= Trust => sh.box \in Places /\ sh.list[sh.box] = sh.person
<1>1. CASE sh \in {[person |-> c, list |-> NoList, box |-> Nowhere] : c \in Confidences}
  <2>1. PICK c \in Confidences : sh = [person |-> c, list |-> NoList, box |-> Nowhere]
    BY <1>1
  <2>2. sh.person = c /\ sh.list = NoList /\ sh.box = Nowhere /\ c \in Nat
    BY <2>1, AnswerAssumption
  <2> QED
    BY <2>2 DEF Anchors
<1>2. CASE sh \in {[person |-> Best(f), list |-> PersonList(f), box |-> BestPlace(f)] : f \in FullFrames}
  <2>1. PICK f \in FullFrames : sh = [person |-> Best(f), list |-> PersonList(f), box |-> BestPlace(f)]
    BY <1>2
  <2>2. f \in Lists
    BY AnswerAssumption DEF FullFrames, Lists
  <2>3. sh.person = Best(f) /\ sh.list = PersonList(f) /\ sh.box = BestPlace(f)
    BY <2>1
  <2>4. Best(f) \in Nat /\ BestPlace(f) \in BestPlaces(f) /\ BestPlace(f) \in Places
    BY <2>2, BestIs
  <2>5. PersonList(f) \in Lists
    BY <2>2, PersonListIs
  <2>6. /\ \A p \in Places : PersonList(f)[p] <= Best(f)
        /\ Best(f) >= Trust => BestPlace(f) \in Places /\ PersonList(f)[BestPlace(f)] = Best(f)
    BY <2>2, <2>4, FoundAgrees
  <2> QED
    BY <2>3, <2>4, <2>5, <2>6 DEF Anchors
<1> QED
  BY <1>1, <1>2 DEF ShadowReplies

LEMMA RejudgedIs ==
  ASSUME NEW r \in AnswerReplies, NEW top \in Nat, NEW list \in Lists \cup {NoList}, NEW box \in Anchors
  PROVE  /\ Rejudged(r, top, list, box) \in AnswerReplies
         /\ Rejudged(r, top, list, box).person = top
         /\ Rejudged(r, top, list, box).list = list
         /\ Rejudged(r, top, list, box).box = box
         /\ Rejudged(r, top, list, box).vehicle = r.vehicle
         /\ Rejudged(r, top, list, box).vehicleAt = r.vehicleAt
  BY DEF Rejudged, AnswerReplies

(* Whatever the verdict, the answer agrees with its list.                       *)
LEMMA CombinedIs ==
  ASSUME NEW r \in AnswerReplies, r.list \in Lists, Agrees(r), Boxed(r), NEW sh \in ShadowReplies
  PROVE  /\ Combined(r, sh) \in AnswerReplies
         /\ Agrees(Combined(r, sh)) /\ Boxed(Combined(r, sh))
         /\ Verdict(r.person, sh.person) \in {"shadow", "shadow_marginal", "primary", "neither"}
         /\ Verdict(r.person, sh.person) = "neither" => Combined(r, sh).person < Host
<1> DEFINE p == r.person
           s == sh.person
           v == Verdict(r.person, sh.person)
<1>0. p \in Nat /\ s \in Nat /\ sh.list \in Lists \cup {NoList} /\ sh.box \in Anchors /\ r.box \in Anchors
  BY ShadowIs DEF AnswerReplies
<1>1. CASE s >= Host
  <2>1. v = "shadow"
    BY <1>0, <1>1, VerdictIs
  <2>2. Combined(r, sh) = Rejudged(r, sh.person, sh.list, sh.box)
    BY <2>1 DEF Combined
  <2>3. s >= Trust
    BY <1>0, <1>1, HostNumbers
  <2>4. sh.list # NoList =>
              /\ \A q \in Places : sh.list[q] <= sh.person
              /\ sh.box \in Places /\ sh.list[sh.box] = sh.person
    BY <2>3, ShadowIs
  <2> DEFINE c == Rejudged(r, sh.person, sh.list, sh.box)
  <2>5. c \in AnswerReplies /\ c.person = sh.person /\ c.list = sh.list /\ c.box = sh.box
    <3>1. sh.person \in Nat /\ sh.list \in Lists \cup {NoList} /\ sh.box \in Anchors
      BY <1>0
    <3> QED
      BY <3>1 DEF Rejudged, AnswerReplies
  <2> HIDE DEF c
  <2>6. Agrees(c) /\ Boxed(c)
    BY <2>4, <2>5 DEF Agrees, Boxed
  <2> QED
    BY <2>1, <2>2, <2>5, <2>6 DEF c
<1>2. CASE Marginal(s)
  <2>1. v = "shadow_marginal"
    BY <1>0, <1>2, VerdictIs
  <2>2. Combined(r, sh) = Rejudged(r, Remap(sh.person), RemapList(sh.list), sh.box)
    BY <2>1 DEF Combined
  <2>3. s >= Trust /\ s < Host
    BY <1>2 DEF Marginal
  <2>4. sh.list # NoList =>
              /\ \A q \in Places : sh.list[q] <= sh.person
              /\ sh.box \in Places /\ sh.list[sh.box] = sh.person
    BY <2>3, ShadowIs
  <2>5. Remap(s) \in Nat /\ \A t \in Nat : t <= s => Remap(t) <= Remap(s)
    BY <1>0, <2>3, RemapIs
  <2>6. ASSUME sh.list # NoList
        PROVE  /\ RemapList(sh.list) \in Lists
               /\ \A q \in Places : RemapList(sh.list)[q] = Remap(sh.list[q])
    <3>1. sh.list \in Lists /\ RemapList(sh.list) = [q \in Places |-> Remap(sh.list[q])]
      BY <1>0, <2>6 DEF RemapList
    <3>2. \A q \in Places : Remap(sh.list[q]) \in Nat
      BY <3>1, RemapIs DEF Lists
    <3> QED
      BY <3>1, <3>2 DEF Lists
  <2>7. sh.list = NoList => RemapList(sh.list) = NoList
    BY DEF RemapList
  <2>8. RemapList(sh.list) \in Lists \cup {NoList}
    BY <2>6, <2>7
  <2> DEFINE c == Rejudged(r, Remap(sh.person), RemapList(sh.list), sh.box)
  <2>9. c \in AnswerReplies /\ c.person = Remap(s) /\ c.list = RemapList(sh.list) /\ c.box = sh.box
    <3> DEFINE x == Remap(sh.person)
               y == RemapList(sh.list)
               e == Rejudged(r, x, y, sh.box)
    <3>1. x \in Nat /\ y \in Lists \cup {NoList} /\ sh.box \in Anchors
      BY <1>0, <2>5, <2>8
    <3> HIDE DEF x, y
    <3>2. e \in AnswerReplies /\ e.person = x /\ e.list = y /\ e.box = sh.box
      BY <3>1, RejudgedIs
    <3> QED
      BY <3>2 DEF x, y
  <2> HIDE DEF c
  <2>10. Agrees(c) /\ Boxed(c)
    <3> SUFFICES ASSUME c.list # NoList PROVE Agrees(c) /\ Boxed(c)
      BY DEF Agrees, Boxed
    <3>1. sh.list # NoList /\ sh.list \in Lists
      BY <1>0, <2>7, <2>9
    <3>2. \A q \in Places : c.list[q] = Remap(sh.list[q]) /\ sh.list[q] \in Nat /\ sh.list[q] <= s
      BY <2>4, <2>6, <2>9, <3>1 DEF Lists
    <3>3. \A q \in Places : c.list[q] <= c.person
      BY <2>5, <2>9, <3>2
    <3>4. c.box \in Places /\ c.list[c.box] = c.person
      BY <2>4, <2>9, <3>1, <3>2
    <3> QED
      BY <3>3, <3>4 DEF Agrees, Boxed
  <2> QED
    BY <2>1, <2>2, <2>9, <2>10 DEF c
<1>3. CASE s < Trust /\ p >= Host /\ s >= Low
  <2>1. v = "primary"
    BY <1>0, <1>3, VerdictIs
  <2>2. Combined(r, sh) = r
    BY <2>1 DEF Combined
  <2> QED
    BY <2>1, <2>2
<1>4. CASE s < Trust /\ ~(p >= Host /\ s >= Low)
  <2>1. v = "neither"
    BY <1>0, <1>4, VerdictIs
  <2>2. Combined(r, sh) = Rejudged(r, Smaller(Larger(r.person, sh.person), Host - 1), CapList(r.list), r.box)
    BY <2>1 DEF Combined
  <2> DEFINE k == Smaller(Larger(r.person, sh.person), Host - 1)
  <2>3. k \in Nat /\ k < Host /\ \A t \in Nat : t <= r.person => Smaller(t, Host - 1) <= k
    BY <1>0, HostNumbers DEF Smaller, Larger
  <2>4. CapList(r.list) \in Lists /\ \A q \in Places : CapList(r.list)[q] = Smaller(r.list[q], Host - 1)
    <3>1. \A q \in Places : Smaller(r.list[q], Host - 1) \in Nat
      BY HostNumbers DEF Smaller, Lists
    <3> QED
      BY <3>1 DEF CapList, Lists
  <2> DEFINE c == Rejudged(r, k, CapList(r.list), r.box)
  <2>5. c \in AnswerReplies /\ c.person = k /\ c.list = CapList(r.list)
    <3> DEFINE y == CapList(r.list)
               e == Rejudged(r, k, y, r.box)
    <3>1. k \in Nat /\ y \in Lists \cup {NoList} /\ r.box \in Anchors
      BY <1>0, <2>3, <2>4
    <3> HIDE DEF k, y
    <3>2. e \in AnswerReplies /\ e.person = k /\ e.list = y
      BY <3>1, RejudgedIs
    <3> QED
      BY <3>2 DEF y
  <2>6. r.list # NoList
    BY NoListIsNone
  <2>7. \A q \in Places : r.list[q] \in Nat /\ r.list[q] <= r.person
    BY <2>6 DEF Agrees, Lists
  <2> HIDE DEF k, c
  <2>8. \A q \in Places : c.list[q] <= c.person
    BY <2>3, <2>4, <2>5, <2>7
  <2>9. ~(c.person >= Host)
    BY <2>3, <2>5, HostNumbers
  <2>10. Agrees(c) /\ Boxed(c)
    BY <2>8, <2>9 DEF Agrees, Boxed
  <2> QED
    BY <2>1, <2>2, <2>3, <2>5, <2>10 DEF c, k
<1> QED
  BY <1>0, <1>1, <1>2, <1>3, <1>4, HostNumbers DEF Marginal

(* What a filter leaves of an answer that agrees with its list.                 *)
LEMMA LeavesAgreeing ==
  ASSUME NEW r \in AnswerReplies, r.list \in Lists, Agrees(r), NEW kept \in SUBSET Places
  PROVE  /\ WithoutPersons(r, kept) \in AnswerReplies
         /\ WithoutPersons(r, kept).list = Only(r.list, kept)
         /\ WithoutPersons(r, kept).person <= r.person
         /\ WithoutPersons(r, kept).vehicle = r.vehicle
         /\ Agrees(WithoutPersons(r, kept))
         /\ (/\ Boxed(r)
             /\ \A p, q \in Places : r.list[p] > 0 /\ r.list[p] = r.list[q] => p = q)
              => Boxed(WithoutPersons(r, kept))
<1> DEFINE left == Only(r.list, kept)
           w == WithoutPersons(r, kept)
<1>1. left \in Lists /\ \A p \in Places : left[p] = IF p \in kept THEN r.list[p] ELSE 0
  BY OnlyIs
<1>2. r.list # NoList /\ r.person \in Nat /\ r.box \in Anchors
  BY NoListIsNone DEF AnswerReplies
<1>3. \A p \in Places : r.list[p] \in Nat /\ r.list[p] <= r.person
  BY <1>2 DEF Agrees, Lists
<1>4. \A p \in Places : left[p] <= r.person /\ left[p] \in Nat
  BY <1>1, <1>2, <1>3
<1>5. /\ Best(left) \in Nat /\ BestPlace(left) \in Places /\ left[BestPlace(left)] = Best(left)
      /\ \A p \in Places : left[p] <= Best(left)
  BY <1>1, BestIs
<1>6. CASE kept = {}
  <2>1. w = Rejudged(r, 0, left, Nowhere)
    BY <1>6 DEF WithoutPersons
  <2>2. w \in AnswerReplies /\ w.person = 0 /\ w.list = left /\ w.vehicle = r.vehicle
    BY <1>1, <2>1, RejudgedIs DEF Anchors
  <2> HIDE DEF w, left
  <2>3. \A p \in Places : w.list[p] <= w.person
    BY <1>1, <1>6, <2>2
  <2>4. ~(w.person >= Host)
    BY <2>2, HostNumbers
  <2>5. Agrees(w) /\ Boxed(w)
    BY <2>3, <2>4 DEF Agrees, Boxed
  <2> QED
    BY <1>2, <2>2, <2>5 DEF w, left
<1>7. CASE kept # {} /\ Best(left) < r.person
  <2>1. w = Rejudged(r, Best(left), left, BestPlace(left))
    BY <1>7 DEF WithoutPersons
  <2>2. w \in AnswerReplies /\ w.person = Best(left) /\ w.list = left /\ w.box = BestPlace(left) /\ w.vehicle = r.vehicle
    BY <1>1, <1>5, <2>1, RejudgedIs DEF Anchors
  <2> HIDE DEF w, left
  <2>3. Agrees(w) /\ Boxed(w)
    BY <1>5, <2>2 DEF Agrees, Boxed
  <2>4. w.person <= r.person
    BY <1>2, <1>5, <1>7, <2>2
  <2> QED
    BY <2>2, <2>3, <2>4 DEF w, left
<1>8. CASE kept # {} /\ ~(Best(left) < r.person)
  <2>1. w = Rejudged(r, r.person, left, r.box)
    BY <1>8 DEF WithoutPersons
  <2>2. w \in AnswerReplies /\ w.person = r.person /\ w.list = left /\ w.box = r.box /\ w.vehicle = r.vehicle
    BY <1>1, <1>2, <2>1, RejudgedIs
  <2>3. Best(left) = r.person
    <3> DEFINE b == BestPlace(left)
               m == Best(left)
    <3>1. b \in Places /\ left[b] = m /\ m \in Nat /\ ~(m < r.person)
      BY <1>5, <1>8
    <3> HIDE DEF b, m, left
    <3>2. m <= r.person
      BY <1>4, <3>1
    <3>3. m = r.person
      BY <1>2, <3>1, <3>2
    <3> QED
      BY <3>3 DEF m, left
  <2>4. Agrees(w)
    <3> HIDE DEF w, left
    <3> QED
      BY <1>4, <1>5, <2>2, <2>3 DEF Agrees
  <2>5. ASSUME Boxed(r), \A p, q \in Places : r.list[p] > 0 /\ r.list[p] = r.list[q] => p = q
        PROVE  Boxed(w)
    <3> HIDE DEF w, left
    <3> SUFFICES ASSUME w.person >= Host PROVE Boxed(w)
      BY DEF Boxed
    <3>1. r.person >= Host /\ r.person > 0
      BY <1>2, <2>2, HostNumbers
    <3>2. r.box \in Places /\ r.list[r.box] = r.person
      BY <1>2, <2>5, <3>1 DEF Boxed
    <3>3. PICK b \in Places : left[b] = r.person
      BY <1>5, <2>3
    <3>4. b \in kept /\ r.list[b] = r.person
      BY <1>1, <3>1, <3>3
    <3>5. b = r.box
      BY <2>5, <3>1, <3>2, <3>4
    <3> QED
      BY <2>2, <3>3, <3>5, <3>2 DEF Boxed
  <2>6. w.person <= r.person
    BY <1>2, <2>2
  <2> QED
    BY <2>2, <2>4, <2>5, <2>6
<1> QED
  BY <1>6, <1>7, <1>8

LEMMA LeavesInZones ==
  ASSUME NEW r \in AnswerReplies, r.list \in Lists, Agrees(r)
  PROVE  LET kept == Listed(r.list) \cap AlertZone
         IN /\ InAlertZones(r) \in AnswerReplies
            /\ InAlertZones(r).list = Only(r.list, kept)
            /\ InAlertZones(r).person <= r.person
            /\ InAlertZones(r).vehicle = r.vehicle
            /\ InAlertZones(r).vehicleAt = r.vehicleAt
            /\ Agrees(InAlertZones(r)) /\ Boxed(InAlertZones(r))
<1> DEFINE kept == Listed(r.list) \cap AlertZone
           left == Only(r.list, kept)
           w == InAlertZones(r)
<1>1. left \in Lists /\ \A p \in Places : left[p] = IF p \in kept THEN r.list[p] ELSE 0
  <2> HIDE DEF kept
  <2> QED
    BY OnlyIs
<1>2. r.list # NoList /\ r.person \in Nat
  BY NoListIsNone DEF AnswerReplies
<1>3. \A p \in Places : r.list[p] \in Nat /\ r.list[p] <= r.person
  BY <1>2 DEF Agrees, Lists
<1>4. \A p \in Places : left[p] <= r.person /\ left[p] \in Nat
  <2> HIDE DEF kept, left
  <2> QED
    BY <1>1, <1>2, <1>3
<1>5. /\ Best(left) \in Nat /\ BestPlace(left) \in Places /\ left[BestPlace(left)] = Best(left)
      /\ \A p \in Places : left[p] <= Best(left)
  <2> HIDE DEF left
  <2> QED
    BY <1>1, BestIs
<1>6. CASE kept = {}
  <2>1. w = Rejudged(r, 0, left, Nowhere)
    BY <1>6 DEF InAlertZones
  <2> HIDE DEF w, left
  <2>2. w \in AnswerReplies /\ w.person = 0 /\ w.list = left /\ w.vehicle = r.vehicle /\ w.vehicleAt = r.vehicleAt
    BY <1>1, <2>1, RejudgedIs DEF Anchors
  <2>3. \A p \in Places : w.list[p] <= w.person
    BY <1>1, <1>6, <2>2
  <2>4. ~(w.person >= Host)
    BY <2>2, HostNumbers
  <2>5. Agrees(w) /\ Boxed(w)
    BY <2>3, <2>4 DEF Agrees, Boxed
  <2> QED
    BY <1>2, <2>2, <2>5 DEF w, left
<1>7. CASE kept # {}
  <2>1. w = Rejudged(r, Best(left), left, BestPlace(left))
    BY <1>7 DEF InAlertZones
  <2> HIDE DEF w, left
  <2>2. /\ w \in AnswerReplies /\ w.person = Best(left) /\ w.list = left /\ w.box = BestPlace(left)
        /\ w.vehicle = r.vehicle /\ w.vehicleAt = r.vehicleAt
    BY <1>1, <1>5, <2>1, RejudgedIs DEF Anchors
  <2>3. Agrees(w) /\ Boxed(w)
    BY <1>5, <2>2 DEF Agrees, Boxed
  <2>4. w.person <= r.person
    BY <1>4, <1>5, <2>2
  <2> QED
    BY <2>2, <2>3, <2>4 DEF w, left
<1> QED
  BY <1>6, <1>7

LEMMA AnswerInitInv ==
  ASSUME AnswerInit
  PROVE  AnswerInv
<1>1. AnswerTyped
  <2>1. reply \in AnswerReplies
    BY DEF AnswerInit, AnswerReplies, Anchors
  <2>2. served \in [person : Nat, list : Lists \cup {NoList}]
    BY DEF AnswerInit
  <2>3. notes \in [ignored_persons : Nat, ignored_boxes : Nat, oversized_persons : Nat,
                   box_observe : Nat, outside : Nat, persons : Nat \cup {-1}]
    BY DEF AnswerInit
  <2> QED
    BY <2>1, <2>2, <2>3 DEF AnswerInit, AnswerTyped, Phases
<1>2. awaits = "scores" /\ notes.box_observe = 0
  BY DEF AnswerInit
<1>3. ScoredInv /\ ObservedInv /\ ServedInv /\ VehicleInv
  BY <1>2 DEF ScoredInv, ObservedInv, ServedInv, VehicleInv, Filtering
<1> QED
  BY <1>1, <1>3 DEF AnswerInv

LEMMA ScoresFrameStep ==
  ASSUME AnswerInv, NEW found \in FullFrames, NEW tile \in Confidences, NEW v \in {0, Host},
         NEW at \in Places \cup {Nowhere}, ScoresFrame(found, tile, v, at)
  PROVE  AnswerInv'
<1>1. found \in Lists /\ tile \in Nat
  BY AnswerAssumption DEF FullFrames, Lists
<1>2. PICK first \in BestPlaces(found) :
        reply' = [person |-> CombineRects(found, tile, first).person,
                  list |-> CombineRects(found, tile, first).list,
                  box |-> CombineRects(found, tile, first).box, vehicle |-> v, vehicleAt |-> at]
  BY DEF ScoresFrame
<1>3. awaits' = "ensemble" /\ observing' = observing /\ used' = used /\ served' = served /\ notes' = notes
  BY DEF ScoresFrame
<1>4. first \in Places /\ found[first] = Best(found) /\ Best(found) \in Nat
  BY <1>1, <1>2, BestIs
<1>5. /\ PersonList(found) \in Lists
      /\ \A p \in Places : PersonList(found)[p] <= Best(found)
      /\ Best(found) >= Trust => PersonList(found)[first] = Best(found)
  BY <1>1, <1>2, PersonListIs, FoundAgrees
<1> DEFINE box == IF Best(found) > 0 THEN first ELSE IF tile > 0 THEN "tile" ELSE Nowhere
<1>6. box \in Anchors /\ (Best(found) > 0 => box = first)
  BY <1>4 DEF Anchors
<1>7. reply' = [person |-> Best(found), list |-> PersonList(found), box |-> box,
                vehicle |-> v, vehicleAt |-> at]
  BY <1>2 DEF CombineRects
<1> HIDE DEF box
<1>8. reply' \in AnswerReplies
  BY <1>4, <1>5, <1>6, <1>7 DEF AnswerReplies
<1>9. reply'.person = Best(found) /\ reply'.list = PersonList(found) /\ reply'.box = box
  BY <1>7
<1>10. reply'.person >= Host => reply'.box \in Places /\ reply'.list[reply'.box] = reply'.person
  <2> SUFFICES ASSUME reply'.person >= Host
               PROVE  reply'.box \in Places /\ reply'.list[reply'.box] = reply'.person
    OBVIOUS
  <2>1. Best(found) >= Trust /\ Best(found) > 0
    BY <1>4, <1>9, HostNumbers
  <2> QED
    BY <1>4, <1>5, <1>6, <1>9, <2>1
<1>11. \A p \in Places : reply'.list[p] <= reply'.person
  BY <1>5, <1>9
<1>12. reply'.list # NoList
  BY <1>5, <1>9, NoListIsNone
<1>13. AnswerTyped'
  BY <1>3, <1>8 DEF AnswerInv, AnswerTyped, Phases
<1>14. ScoredInv'
  BY <1>10, <1>11, <1>12 DEF ScoredInv, Agrees, Boxed
<1>15. awaits = "scores"
  BY DEF ScoresFrame
<1>16. ObservedInv'
  BY <1>3, <1>15 DEF AnswerInv, ObservedInv
<1>17. ServedInv' /\ VehicleInv'
  BY <1>3 DEF ServedInv, VehicleInv, Filtering
<1> QED
  BY <1>13, <1>14, <1>16, <1>17 DEF AnswerInv

(* Once served, nobody has been taken out yet.                                  *)
LEMMA ServedFirst ==
  ASSUME AnswerInv, awaits = "ensemble", awaits' = "ignore_zones",
         observing' = observing, notes' = notes, reply' \in AnswerReplies, Agrees(reply'), Boxed(reply'),
         served' = [person |-> reply'.person, list |-> reply'.list],
         used' \in {"shadow", "shadow_marginal", "primary", "neither", "primary_only"},
         used' = "neither" => reply'.person < Host
  PROVE  AnswerInv'
<1>1. reply'.person \in Nat /\ reply'.list \in Lists \cup {NoList}
  BY DEF AnswerReplies
<1>2. served'.person = reply'.person /\ served'.list = reply'.list
  OBVIOUS
<1>3. AnswerTyped'
  BY <1>1 DEF AnswerInv, AnswerTyped, Phases
<1>4. notes'.box_observe = 0
  BY DEF AnswerInv, ObservedInv
<1>5. ScoredInv' /\ ObservedInv' /\ VehicleInv'
  BY <1>4 DEF ScoredInv, ObservedInv, VehicleInv
<1>6. \A p \in Places : p \in Left'
  BY DEF Left
<1>7. Agrees(served')
  BY <1>2 DEF Agrees
<1>8. ASSUME reply'.list # NoList
      PROVE  /\ \A p \in Places : reply'.list[p] = IF p \in Left' THEN served'.list[p] ELSE 0
             /\ reply'.person < Host => \A p \in Left' : served'.list[p] < Host
  <2>1. \A p \in Places : reply'.list[p] = IF p \in Left' THEN served'.list[p] ELSE 0
    BY <1>2, <1>6
  <2>2. ASSUME reply'.person < Host, NEW p \in Left' PROVE served'.list[p] < Host
    <3>1. p \in Places
      BY DEF Left
    <3>2. reply'.list[p] <= reply'.person /\ reply'.list[p] \in Nat
      BY <1>1, <1>8, <3>1 DEF Agrees, Lists
    <3> QED
      BY <1>1, <1>2, <2>2, <3>2, HostNumbers
  <2> QED
    BY <2>1, <2>2
<1>9. reply'.person <= served'.person
  BY <1>1, <1>2
<1>10. ServedInv'
  BY <1>2, <1>7, <1>8, <1>9 DEF ServedInv
<1> QED
  BY <1>3, <1>5, <1>10 DEF AnswerInv

LEMMA JoinsShadowStep ==
  ASSUME AnswerInv, NEW sh \in ShadowReplies, JoinsShadow(sh)
  PROVE  AnswerInv'
<1>1. /\ awaits = "ensemble" /\ reply' = Combined(reply, sh) /\ used' = Verdict(reply.person, sh.person)
      /\ served' = [person |-> reply'.person, list |-> reply'.list] /\ awaits' = "ignore_zones"
      /\ observing' = observing /\ notes' = notes
  BY DEF JoinsShadow, Serves
<1>2. reply \in AnswerReplies /\ reply.list \in Lists /\ Agrees(reply) /\ Boxed(reply)
  <2>1. reply \in AnswerReplies /\ reply.list # NoList /\ Agrees(reply) /\ Boxed(reply)
    BY <1>1 DEF AnswerInv, AnswerTyped, ScoredInv
  <2> QED
    BY <2>1 DEF AnswerReplies
<1>3. /\ Combined(reply, sh) \in AnswerReplies
      /\ Agrees(Combined(reply, sh)) /\ Boxed(Combined(reply, sh))
      /\ Verdict(reply.person, sh.person) \in {"shadow", "shadow_marginal", "primary", "neither"}
      /\ Verdict(reply.person, sh.person) = "neither" => Combined(reply, sh).person < Host
  BY <1>2, CombinedIs
<1>4. /\ reply' \in AnswerReplies /\ Agrees(reply') /\ Boxed(reply')
      /\ used' \in {"shadow", "shadow_marginal", "primary", "neither", "primary_only"}
      /\ used' = "neither" => reply'.person < Host
  BY <1>1, <1>3
<1> QED
  BY <1>1, <1>4, ServedFirst

LEMMA ServesPrimaryStep ==
  ASSUME AnswerInv, ServesPrimary
  PROVE  AnswerInv'
<1>1. /\ awaits = "ensemble" /\ reply' = reply /\ used' = "primary_only"
      /\ served' = [person |-> reply'.person, list |-> reply'.list] /\ awaits' = "ignore_zones"
      /\ observing' = observing /\ notes' = notes
  BY DEF ServesPrimary, Serves
<1>2. reply \in AnswerReplies /\ Agrees(reply) /\ Boxed(reply)
  BY <1>1 DEF AnswerInv, AnswerTyped, ScoredInv
<1>3. reply' \in AnswerReplies /\ Agrees(reply') /\ Boxed(reply')
  BY <1>1, <1>2
<1> QED
  BY <1>1, <1>3, ServedFirst

Noted == [ignored_persons : Nat, ignored_boxes : Nat, oversized_persons : Nat,
          box_observe : Nat, outside : Nat, persons : Nat \cup {-1}]

LEMMA Taken ==
  ASSUME AnswerTyped, NEW S
  PROVE  reply.list # NoList =>
           /\ reply.list \in Lists /\ IsFiniteSet(Listed(reply.list))
           /\ Cardinality(Listed(reply.list) \ S) \in Nat
           /\ Cardinality(Listed(reply.list) \cap S) \in Nat
           /\ Cardinality(Listed(reply.list) \cap S) = 0 <=> Listed(reply.list) \cap S = {}
<1> SUFFICES ASSUME reply.list # NoList
             PROVE  /\ reply.list \in Lists /\ IsFiniteSet(Listed(reply.list))
                    /\ Cardinality(Listed(reply.list) \ S) \in Nat
                    /\ Cardinality(Listed(reply.list) \cap S) \in Nat
                    /\ Cardinality(Listed(reply.list) \cap S) = 0 <=> Listed(reply.list) \cap S = {}
  OBVIOUS
<1> DEFINE L == Listed(reply.list)
<1>1. L \subseteq Places /\ reply.list \in Lists
  BY DEF Listed, AnswerTyped, AnswerReplies
<1>2. IsFiniteSet(L)
  BY <1>1, AnswerAssumption, FS_Subset
<1> HIDE DEF L
<1>3. L \ S \subseteq L /\ L \cap S \subseteq L
  OBVIOUS
<1>4. IsFiniteSet(L \ S) /\ IsFiniteSet(L \cap S)
  BY <1>2, <1>3, FS_Subset
<1>5. Cardinality(L \ S) \in Nat /\ Cardinality(L \cap S) \in Nat
  BY <1>4, FS_CardinalityType
<1>6. Cardinality(L \cap S) = 0 <=> L \cap S = {}
  BY <1>4, FS_EmptySet
<1> QED
  BY <1>1, <1>2, <1>5, <1>6 DEF L

(* Who is still listed is who the filters left.                                 *)
LEMMA StillServed ==
  ASSUME AnswerInv, awaits \in Filtering, awaits' \in Filtering,
         observing' = observing, used' = used, served' = served, notes' \in Noted,
         reply' \in AnswerReplies, reply'.person <= reply.person,
         reply'.list = NoList <=> reply.list = NoList,
         reply.list # NoList =>
           /\ \A p \in Places : reply'.list[p] = IF p \in Left' THEN served.list[p] ELSE 0
           /\ Agrees(reply')
           /\ Unequal => Boxed(reply'),
         ObservedInv', VehicleInv'
  PROVE  AnswerInv'
<1>1. AnswerTyped'
  BY DEF AnswerInv, AnswerTyped, Phases, Filtering, Noted
<1>2. ScoredInv'
  BY DEF ScoredInv, Filtering
<1>3. /\ Agrees(served) /\ reply.person <= served.person
      /\ used = "neither" => served.person < Host
      /\ reply.list = NoList <=> served.list = NoList
  BY DEF AnswerInv, ServedInv
<1>4. reply.person \in Nat /\ reply'.person \in Nat /\ served.person \in Nat
      /\ reply'.list \in Lists \cup {NoList}
  BY DEF AnswerInv, AnswerTyped, AnswerReplies
<1>5. reply'.person <= served.person
  BY <1>3, <1>4
<1>6. Agrees(served') /\ (Unequal' <=> Unequal)
  BY <1>3 DEF Agrees, Unequal
<1>7. ASSUME reply'.list # NoList
      PROVE  /\ \A p \in Places : reply'.list[p] = IF p \in Left' THEN served'.list[p] ELSE 0
             /\ Agrees(reply')
             /\ reply'.person < Host => \A p \in Left' : served'.list[p] < Host
             /\ Unequal' => Boxed(reply')
  <2>1. /\ \A p \in Places : reply'.list[p] = IF p \in Left' THEN served'.list[p] ELSE 0
        /\ Agrees(reply')
        /\ Unequal' => Boxed(reply')
    BY <1>6, <1>7
  <2>2. ASSUME reply'.person < Host, NEW p \in Left' PROVE served'.list[p] < Host
    <3>1. p \in Places
      BY DEF Left
    <3>2. served'.list[p] = reply'.list[p] /\ reply'.list[p] <= reply'.person /\ reply'.list[p] \in Nat
      BY <1>4, <1>7, <2>1, <3>1 DEF Agrees, Lists
    <3> QED
      BY <1>4, <2>2, <3>2, HostNumbers
  <2> QED
    BY <2>1, <2>2
<1>8. ServedInv'
  <2>1. served' = served /\ used' = used
    OBVIOUS
  <2> QED
    BY <1>3, <1>5, <1>6, <1>7, <2>1 DEF ServedInv
<1> QED
  BY <1>1, <1>2, <1>8 DEF AnswerInv

(* A filter takes out whom it excludes and nobody else.                         *)
LEMMA FilteredStep ==
  ASSUME AnswerInv, awaits \in Filtering, awaits' \in Filtering,
         NEW excluded \in SUBSET Places, NEW counter, NEW then, Filtered(excluded, counter, then),
         notes' \in Noted, ObservedInv', VehicleInv',
         \A p \in Places : p \in Left' <=> p \in Left /\ p \notin excluded
  PROVE  AnswerInv'
<1>1. observing' = observing /\ used' = used /\ served' = served
  BY DEF Filtered
<1>2. reply \in AnswerReplies /\ AnswerTyped
  BY DEF AnswerInv, AnswerTyped
<1>3. reply.list # NoList =>
        /\ \A p \in Places : reply.list[p] = IF p \in Left THEN served.list[p] ELSE 0
        /\ Agrees(reply)
        /\ Unequal => Boxed(reply)
  BY DEF AnswerInv, ServedInv
<1>4. CASE Drops(excluded)
  <2> DEFINE kept == Listed(reply.list) \ excluded
  <2>1. reply.list # NoList /\ reply.list \in Lists /\ kept \in SUBSET Places
    BY <1>2, <1>4 DEF Drops, AnswerReplies, Listed
  <2>2. reply' = WithoutPersons(reply, kept)
    BY <1>4 DEF Filtered
  <2>3. Agrees(reply)
    BY <1>3, <2>1
  <2>4. /\ reply' \in AnswerReplies /\ reply'.list = Only(reply.list, kept)
        /\ reply'.person <= reply.person /\ Agrees(reply')
        /\ (/\ Boxed(reply)
            /\ \A p, q \in Places : reply.list[p] > 0 /\ reply.list[p] = reply.list[q] => p = q)
             => Boxed(reply')
    <3> HIDE DEF kept
    <3> QED
      BY <1>2, <2>1, <2>2, <2>3, LeavesAgreeing
  <2>5. reply'.list \in Lists /\ \A p \in Places : reply'.list[p] = IF p \in kept THEN reply.list[p] ELSE 0
    <3> HIDE DEF kept
    <3> QED
      BY <2>1, <2>4, OnlyIs
  <2>6. reply'.list # NoList
    BY <2>5, NoListIsNone
  <2>7. ASSUME NEW p \in Places PROVE reply'.list[p] = IF p \in Left' THEN served.list[p] ELSE 0
    <3>1. reply.list[p] \in Nat /\ reply.list[p] = IF p \in Left THEN served.list[p] ELSE 0
      BY <1>3, <2>1 DEF Lists
    <3>2. p \in kept <=> reply.list[p] > 0 /\ p \notin excluded
      BY DEF Listed
    <3>3. reply'.list[p] = IF p \in kept THEN reply.list[p] ELSE 0
      BY <2>5
    <3>4. p \in Left' <=> p \in Left /\ p \notin excluded
      OBVIOUS
    <3> HIDE DEF kept
    <3> QED
      BY <3>1, <3>2, <3>3, <3>4
  <2>8. ASSUME Unequal PROVE Boxed(reply')
    <3>1. \A p, q \in Places : reply.list[p] > 0 /\ reply.list[p] = reply.list[q] => p = q
      BY <1>3, <2>1, <2>8 DEF Unequal
    <3> QED
      BY <1>3, <2>1, <2>4, <2>8, <3>1
  <2> QED
    BY <1>1, <2>1, <2>4, <2>6, <2>7, <2>8, StillServed
<1>5. CASE ~Drops(excluded)
  <2>1. reply' = reply
    BY <1>5 DEF Filtered
  <2>2. ASSUME reply.list # NoList, NEW p \in Places
        PROVE  reply'.list[p] = IF p \in Left' THEN served.list[p] ELSE 0
    <3>1. reply.list[p] \in Nat
      BY <1>2, <2>2 DEF AnswerReplies, Lists
    <3>2. p \in excluded => reply.list[p] = 0
      BY <1>5, <2>2, <3>1 DEF Drops, Listed
    <3>3. reply.list[p] = IF p \in Left THEN served.list[p] ELSE 0
      BY <1>3, <2>2
    <3>4. p \in Left' <=> p \in Left /\ p \notin excluded
      OBVIOUS
    <3> QED
      BY <2>1, <3>2, <3>3, <3>4
  <2>3. reply.list # NoList => Agrees(reply') /\ (Unequal => Boxed(reply'))
    BY <1>3, <2>1
  <2>4. reply'.person <= reply.person /\ reply' \in AnswerReplies
    BY <1>2, <2>1 DEF AnswerReplies
  <2> QED
    BY <1>1, <2>1, <2>2, <2>3, <2>4, StillServed
<1> QED
  BY <1>4, <1>5

LEMMA NotedIs ==
  ASSUME AnswerTyped, NEW n \in Nat
  PROVE  /\ notes \in Noted
         /\ [notes EXCEPT !["ignored_persons"] = n] \in Noted
         /\ [notes EXCEPT !["ignored_persons"] = n].box_observe = notes.box_observe
         /\ [notes EXCEPT !["ignored_boxes"] = n] \in Noted
         /\ [notes EXCEPT !["ignored_boxes"] = n].box_observe = notes.box_observe
         /\ [notes EXCEPT !["oversized_persons"] = n] \in Noted
         /\ [notes EXCEPT !["oversized_persons"] = n].box_observe = notes.box_observe
         /\ [notes EXCEPT !.box_observe = n] \in Noted
         /\ [notes EXCEPT !.box_observe = n].box_observe = n
         /\ [notes EXCEPT !.outside = n] \in Noted
         /\ [notes EXCEPT !.outside = n].box_observe = notes.box_observe
  BY DEF AnswerTyped, Noted

LEMMA FilteredNotes ==
  ASSUME AnswerTyped, NEW excluded, NEW then,
         NEW counter \in {"ignored_persons", "ignored_boxes", "oversized_persons"},
         Filtered(excluded, counter, then)
  PROVE  notes' \in Noted /\ notes'.box_observe = notes.box_observe
<1>1. CASE Drops(excluded)
  <2> DEFINE n == LeftOutOf(Listed(reply.list) \ excluded)
  <2>1. notes' = [notes EXCEPT ![counter] = n]
    BY <1>1 DEF Filtered
  <2>2. n \in Nat
    BY <1>1, Taken DEF Drops, LeftOutOf
  <2> HIDE DEF n
  <2> QED
    BY <2>1, <2>2, NotedIs
<1>2. CASE ~Drops(excluded)
  BY <1>2, NotedIs DEF Filtered
<1> QED
  BY <1>1, <1>2

LEMMA FiltersStep ==
  ASSUME AnswerInv, ApplyIgnoreZones \/ ApplyIgnoreBoxes \/ ApplyMaxPersonBox
  PROVE  AnswerInv'
<1>0. AnswerTyped /\ IgnoreZone \in SUBSET Places /\ IgnoreBox \in SUBSET Places /\ Oversized \in SUBSET Places
  BY AnswerAssumption DEF AnswerInv
<1>1. CASE ApplyIgnoreZones
  <2>1. /\ awaits = "ignore_zones" /\ Filtered(IgnoreZone, "ignored_persons", "ignore_boxes")
        /\ awaits' = "ignore_boxes" /\ observing' = observing
    BY <1>1 DEF ApplyIgnoreZones, Filtered
  <2>2. notes' \in Noted /\ notes'.box_observe = notes.box_observe
    BY <1>0, <2>1, FilteredNotes
  <2>3. notes.box_observe = 0
    BY <2>1 DEF AnswerInv, ObservedInv
  <2>4. ObservedInv' /\ VehicleInv'
    BY <2>1, <2>2, <2>3 DEF ObservedInv, VehicleInv
  <2>5. \A p \in Places : p \in Left' <=> p \in Left /\ p \notin IgnoreZone
    BY <2>1 DEF Left
  <2>6. awaits \in Filtering /\ awaits' \in Filtering
    BY <2>1 DEF Filtering
  <2> QED
    BY <1>0, <2>1, <2>2, <2>4, <2>5, <2>6, FilteredStep
<1>2. CASE ApplyIgnoreBoxes
  <2>1. /\ awaits = "ignore_boxes" /\ Filtered(IgnoreBox, "ignored_boxes", "max_person_box")
        /\ awaits' = "max_person_box" /\ observing' = observing
    BY <1>2 DEF ApplyIgnoreBoxes, Filtered
  <2>2. notes' \in Noted /\ notes'.box_observe = notes.box_observe
    BY <1>0, <2>1, FilteredNotes
  <2>3. notes.box_observe = 0
    BY <2>1 DEF AnswerInv, ObservedInv
  <2>4. ObservedInv' /\ VehicleInv'
    BY <2>1 DEF ObservedInv, VehicleInv
  <2>5. \A p \in Places : p \in Left' <=> p \in Left /\ p \notin IgnoreBox
    BY <2>1, <2>2, <2>3 DEF Left
  <2>6. awaits \in Filtering /\ awaits' \in Filtering
    BY <2>1 DEF Filtering
  <2> QED
    BY <1>0, <2>1, <2>2, <2>4, <2>5, <2>6, FilteredStep
<1>3. CASE ApplyMaxPersonBox
  <2>1. /\ awaits = "max_person_box" /\ Filtered(Oversized, "oversized_persons", "alert_zones")
        /\ awaits' = "alert_zones" /\ observing' = observing
    BY <1>3 DEF ApplyMaxPersonBox, Filtered
  <2>2. notes' \in Noted /\ notes'.box_observe = notes.box_observe
    BY <1>0, <2>1, FilteredNotes
  <2>4. ObservedInv' /\ VehicleInv'
    BY <2>1 DEF ObservedInv, VehicleInv
  <2>5. \A p \in Places : p \in Left' <=> p \in Left /\ p \notin Oversized
    BY <2>1, <2>2 DEF Left
  <2>6. awaits \in Filtering /\ awaits' \in Filtering
    BY <2>1 DEF Filtering
  <2> QED
    BY <1>0, <2>1, <2>2, <2>4, <2>5, <2>6, FilteredStep
<1> QED
  BY <1>1, <1>2, <1>3

(* A step that leaves the answer as it is keeps who is left in it.              *)
LEMMA NotedStep ==
  ASSUME AnswerInv, awaits \in Filtering, awaits' \in Filtering,
         observing' = observing, used' = used, served' = served, reply' = reply,
         notes' \in Noted, ObservedInv', VehicleInv',
         reply.list # NoList =>
           \A p \in Places : IF p \in Left' THEN p \in Left ELSE p \in Left => reply.list[p] = 0
  PROVE  AnswerInv'
<1>1. reply' \in AnswerReplies /\ reply'.person <= reply.person
  BY DEF AnswerInv, AnswerTyped, AnswerReplies
<1>2. reply.list # NoList =>
        /\ \A p \in Places : reply.list[p] = IF p \in Left THEN served.list[p] ELSE 0
        /\ Agrees(reply)
        /\ Unequal => Boxed(reply)
  BY DEF AnswerInv, ServedInv
<1>3. ASSUME reply.list # NoList, NEW p \in Places
      PROVE  reply'.list[p] = IF p \in Left' THEN served.list[p] ELSE 0
  BY <1>2, <1>3
<1>4. reply.list # NoList => Agrees(reply') /\ (Unequal => Boxed(reply'))
  BY <1>2
<1> QED
  BY <1>1, <1>3, <1>4, StillServed

LEMMA ObserveIgnoreBoxesStep ==
  ASSUME AnswerInv, ObserveIgnoreBoxes
  PROVE  AnswerInv'
<1> DEFINE n == IF Drops(IgnoreBox) THEN Cardinality(Listed(reply.list) \cap IgnoreBox) ELSE 0
<1>1. /\ awaits = "ignore_boxes" /\ awaits' = "max_person_box" /\ observing' = observing
      /\ used' = used /\ served' = served /\ reply' = reply /\ notes' = [notes EXCEPT !.box_observe = n]
  BY DEF ObserveIgnoreBoxes
<1>2. AnswerTyped /\ reply \in AnswerReplies
  BY DEF AnswerInv, AnswerTyped
<1>3. n \in Nat /\ (n = 0 => ~Drops(IgnoreBox))
  BY <1>2, Taken DEF Drops
<1>4. n = 0 /\ reply.list # NoList => \A p \in Places : p \in IgnoreBox => reply.list[p] = 0
  <2> SUFFICES ASSUME n = 0, reply.list # NoList, NEW p \in Places, p \in IgnoreBox PROVE reply.list[p] = 0
    OBVIOUS
  <2>1. reply.list[p] \in Nat
    BY <1>2 DEF AnswerReplies, Lists
  <2>2. ~Drops(IgnoreBox)
    BY <1>3
  <2>3. Listed(reply.list) \cap IgnoreBox = {}
    BY <2>2 DEF Drops
  <2> QED
    BY <2>1, <2>3 DEF Listed
<1> HIDE DEF n
<1>5. notes' \in Noted /\ notes'.box_observe = n
  BY <1>1, <1>2, <1>3, NotedIs
<1>6. \A p \in Places : p \in Left' <=> p \in Left /\ (p \notin IgnoreBox \/ n > 0)
  BY <1>1, <1>5 DEF Left
<1>7. reply.list # NoList =>
        \A p \in Places : IF p \in Left' THEN p \in Left ELSE p \in Left => reply.list[p] = 0
  BY <1>3, <1>4, <1>6
<1>8. ObservedInv' /\ VehicleInv' /\ awaits \in Filtering /\ awaits' \in Filtering
  BY <1>1 DEF ObservedInv, VehicleInv, Filtering
<1> QED
  BY <1>1, <1>5, <1>7, <1>8, NotedStep

(* What the observe mode counts as outside is a number.                         *)
LEMMA OutsideIs ==
  ASSUME AnswerTyped
  PROVE  (IF Drops(Places \ AlertZone) THEN LeftOutOf(AlertZone) ELSE 0) \in Nat
<1>1. CASE Drops(Places \ AlertZone)
  BY <1>1, Taken DEF Drops, LeftOutOf
<1> QED
  BY <1>1

LEMMA ObserveAlertZonesStep ==
  ASSUME AnswerInv, ObserveAlertZones
  PROVE  AnswerInv'
<1> DEFINE n == IF Drops(Places \ AlertZone) THEN LeftOutOf(AlertZone) ELSE 0
<1>1. /\ awaits = "alert_zones" /\ awaits' = "verdict" /\ observing' = observing /\ observing
      /\ used' = used /\ served' = served /\ reply' = reply /\ notes' = [notes EXCEPT !.outside = n]
  BY DEF ObserveAlertZones
<1>2. AnswerTyped /\ n \in Nat
  BY OutsideIs DEF AnswerInv
<1> HIDE DEF n
<1>3. notes' \in Noted /\ notes'.box_observe = notes.box_observe
  BY <1>1, <1>2, NotedIs
<1>4. \A p \in Places : p \in Left' <=> p \in Left
  BY <1>1, <1>3 DEF Left
<1>5. ObservedInv' /\ VehicleInv' /\ awaits \in Filtering /\ awaits' \in Filtering
  BY <1>1 DEF ObservedInv, VehicleInv, Filtering
<1> QED
  BY <1>1, <1>3, <1>4, <1>5, NotedStep

LEMMA SubjectScoreStep ==
  ASSUME AnswerInv, SubjectScore
  PROVE  AnswerInv'
<1> DEFINE n == PersonCount(reply)
<1>1. /\ awaits = "verdict" /\ awaits' = "nothing" /\ observing' = observing
      /\ used' = used /\ served' = served /\ reply' = reply /\ notes' = [notes EXCEPT !.persons = n]
  BY DEF SubjectScore
<1>2. n \in Nat \cup {-1}
  <2> DEFINE S == {p \in Places : reply.list[p] >= Host}
  <2>1. IsFiniteSet(S)
    BY AnswerAssumption, FS_Subset
  <2>2. Cardinality(S) \in Nat
    BY <2>1, FS_CardinalityType
  <2> QED
    BY <2>2 DEF PersonCount
<1> HIDE DEF n
<1>3. notes' \in Noted /\ notes'.box_observe = notes.box_observe
  BY <1>1, <1>2 DEF AnswerInv, AnswerTyped, Noted
<1>4. \A p \in Places : p \in Left' <=> p \in Left
  BY <1>1, <1>3 DEF Left
<1>5. VehicleInv'
  BY <1>1 DEF VehicleInv, AnswerInv
<1>6. ObservedInv' /\ awaits \in Filtering /\ awaits' \in Filtering
  BY <1>1 DEF ObservedInv, Filtering
<1> QED
  BY <1>1, <1>3, <1>4, <1>5, <1>6, NotedStep

LEMMA VehicleIs ==
  ASSUME NEW r \in AnswerReplies
  PROVE  /\ VehicleInZones(r) \in AnswerReplies
         /\ VehicleInZones(r).person = r.person /\ VehicleInZones(r).list = r.list
         /\ VehicleInZones(r).box = r.box
         /\ VehicleInZones(r).vehicle > 0 => VehicleInZones(r).vehicleAt \in AlertZone
  BY DEF VehicleInZones, AnswerReplies

LEMMA ApplyAlertZonesStep ==
  ASSUME AnswerInv, ApplyAlertZones
  PROVE  AnswerInv'
<1> DEFINE n == IF Drops(Places \ AlertZone) THEN LeftOutOf(AlertZone) ELSE 0
           r == IF Drops(Places \ AlertZone) THEN InAlertZones(reply) ELSE reply
           kept == Listed(reply.list) \cap AlertZone
<1>1. /\ awaits = "alert_zones" /\ awaits' = "verdict" /\ observing' = observing /\ ~observing
      /\ used' = used /\ served' = served /\ reply' = VehicleInZones(r) /\ notes' = [notes EXCEPT !.outside = n]
  BY DEF ApplyAlertZones
<1>2. AnswerTyped /\ n \in Nat /\ reply \in AnswerReplies
  BY OutsideIs DEF AnswerInv, AnswerTyped
<1>3. reply.list # NoList =>
        /\ \A p \in Places : reply.list[p] = IF p \in Left THEN served.list[p] ELSE 0
        /\ Agrees(reply)
        /\ Unequal => Boxed(reply)
  BY <1>1 DEF AnswerInv, ServedInv, Filtering
<1>4. /\ r \in AnswerReplies /\ r.person <= reply.person /\ (r.list = NoList <=> reply.list = NoList)
      /\ reply.list # NoList =>
           /\ Agrees(r) /\ (Unequal => Boxed(r))
           /\ \A p \in Places : r.list[p] = IF p \in AlertZone THEN reply.list[p] ELSE 0
  <2>1. CASE Drops(Places \ AlertZone)
    <3>1. reply.list # NoList /\ reply.list \in Lists
      BY <1>2, <2>1 DEF Drops, AnswerReplies
    <3>2. /\ InAlertZones(reply) \in AnswerReplies /\ InAlertZones(reply).list = Only(reply.list, kept)
          /\ InAlertZones(reply).person <= reply.person
          /\ Agrees(InAlertZones(reply)) /\ Boxed(InAlertZones(reply))
      BY <1>2, <1>3, <3>1, LeavesInZones
    <3>3. /\ Only(reply.list, kept) \in Lists
          /\ \A p \in Places : Only(reply.list, kept)[p] = IF p \in kept THEN reply.list[p] ELSE 0
      <4> HIDE DEF kept
      <4> QED
        BY <3>1, OnlyIs
    <3>4. Only(reply.list, kept) # NoList
      BY <3>3, NoListIsNone
    <3>5. ASSUME NEW p \in Places
          PROVE  Only(reply.list, kept)[p] = IF p \in AlertZone THEN reply.list[p] ELSE 0
      <4>1. reply.list[p] \in Nat
        BY <3>1 DEF Lists
      <4> QED
        BY <3>3, <4>1 DEF Listed
    <3>6. r = InAlertZones(reply)
      BY <2>1
    <3> HIDE DEF r, kept
    <3> QED
      BY <3>1, <3>2, <3>4, <3>5, <3>6
  <2>2. CASE ~Drops(Places \ AlertZone)
    <3>1. r = reply
      BY <2>2
    <3>2. r.person <= reply.person
      BY <1>2, <3>1 DEF AnswerReplies
    <3>3. ASSUME reply.list # NoList, NEW p \in Places
          PROVE  reply.list[p] = IF p \in AlertZone THEN reply.list[p] ELSE 0
      <4>1. reply.list[p] \in Nat
        BY <1>2, <3>3 DEF AnswerReplies, Lists
      <4>2. Listed(reply.list) \cap (Places \ AlertZone) = {}
        BY <2>2, <3>3 DEF Drops
      <4> QED
        BY <4>1, <4>2 DEF Listed
    <3> HIDE DEF r
    <3> QED
      BY <1>2, <1>3, <3>1, <3>2, <3>3
  <2> QED
    BY <2>1, <2>2
<1> HIDE DEF r, n
<1>5. /\ reply' \in AnswerReplies /\ reply'.person = r.person /\ reply'.list = r.list /\ reply'.box = r.box
      /\ reply'.vehicle > 0 => reply'.vehicleAt \in AlertZone
  BY <1>1, <1>4, VehicleIs
<1>6. notes' \in Noted /\ notes'.box_observe = notes.box_observe
  BY <1>1, <1>2, NotedIs
<1>7. \A p \in Places : p \in Left' <=> p \in Left /\ p \in AlertZone
  BY <1>1, <1>6 DEF Left
<1>8. ASSUME reply.list # NoList
      PROVE  /\ \A p \in Places : reply'.list[p] = IF p \in Left' THEN served.list[p] ELSE 0
             /\ Agrees(reply')
             /\ Unequal => Boxed(reply')
  <2>1. Agrees(reply') /\ (Unequal => Boxed(reply'))
    BY <1>4, <1>5, <1>8 DEF Agrees, Boxed
  <2>2. \A p \in Places : reply'.list[p] = IF p \in Left' THEN served.list[p] ELSE 0
    BY <1>3, <1>4, <1>5, <1>7, <1>8
  <2> QED
    BY <2>1, <2>2
<1>9. ObservedInv' /\ VehicleInv' /\ awaits \in Filtering /\ awaits' \in Filtering
  BY <1>1, <1>5 DEF ObservedInv, VehicleInv, Filtering
<1>10. reply'.person <= reply.person /\ (reply'.list = NoList <=> reply.list = NoList)
  BY <1>4, <1>5
<1> QED
  BY <1>1, <1>5, <1>6, <1>8, <1>9, <1>10, StillServed

LEMMA AnswerStep ==
  ASSUME AnswerInv, [AnswerNext]_answerVars
  PROVE  AnswerInv'
<1>1. ASSUME NEW found \in FullFrames, NEW tile \in Confidences, NEW v \in {0, Host},
             NEW at \in Places \cup {Nowhere}, ScoresFrame(found, tile, v, at)
      PROVE  AnswerInv'
  BY <1>1, ScoresFrameStep
<1>2. ASSUME NEW shadow \in ShadowReplies, JoinsShadow(shadow)
      PROVE  AnswerInv'
  BY <1>2, JoinsShadowStep
<1>3. CASE ServesPrimary
  BY <1>3, ServesPrimaryStep
<1>4. CASE ApplyIgnoreZones \/ ApplyIgnoreBoxes \/ ApplyMaxPersonBox
  BY <1>4, FiltersStep
<1>5. CASE ObserveIgnoreBoxes
  BY <1>5, ObserveIgnoreBoxesStep
<1>6. CASE ApplyAlertZones
  BY <1>6, ApplyAlertZonesStep
<1>7. CASE ObserveAlertZones
  BY <1>7, ObserveAlertZonesStep
<1>8. CASE SubjectScore
  BY <1>8, SubjectScoreStep
<1>9. CASE UNCHANGED answerVars
  <2>1. UNCHANGED <<observing, awaits, reply, used, served, notes>>
    BY <1>9 DEF answerVars
  <2> QED
    BY <2>1 DEF AnswerInv, AnswerTyped, ScoredInv, ObservedInv, ServedInv, VehicleInv, Left, Unequal,
                Agrees, Boxed
<1> QED
  BY <1>1, <1>2, <1>3, <1>4, <1>5, <1>6, <1>7, <1>8, <1>9 DEF AnswerNext

LEMMA AnswerTypes ==
  ASSUME AnswerInv
  PROVE  AnswerTypeOK /\ AnswerIsOfACounted /\ BoxIsOfAKept
<1>1. AnswerTypeOK
  BY DEF AnswerInv, AnswerTyped, AnswerTypeOK, AnswerReplies, Lists
<1>2. ASSUME awaits = "nothing"
      PROVE  /\ Agrees(served) /\ reply.person <= served.person
             /\ used = "neither" => served.person < Host
             /\ reply.list = NoList <=> served.list = NoList
             /\ reply.list # NoList =>
                  /\ \A p \in Places : reply.list[p] = IF p \in Left THEN served.list[p] ELSE 0
                  /\ Agrees(reply)
                  /\ reply.person < Host => \A p \in Left : served.list[p] < Host
                  /\ Unequal => Boxed(reply)
  BY <1>2 DEF AnswerInv, ServedInv, Filtering
<1>3. reply.person \in Nat /\ served.person \in Nat /\ served.list \in Lists \cup {NoList}
  BY DEF AnswerInv, AnswerTyped, AnswerReplies
<1>4. AnswerIsOfACounted
  <2> SUFFICES ASSUME awaits = "nothing"
               PROVE  /\ served.list # NoList =>
                           (reply.person >= Host
                              <=> \E p \in Places : Counts(p) /\ served.list[p] >= Host)
                      /\ reply.person <= served.person
                      /\ used = "neither" => reply.person < Host
                      /\ reply.vehicle > 0 => observing \/ reply.vehicleAt \in AlertZone
    BY DEF AnswerIsOfACounted
  <2>1. \A p \in Places : Counts(p) <=> p \in Left
    BY DEF Counts, Left
  <2>2. reply.person <= served.person
    BY <1>2
  <2>3. used = "neither" => reply.person < Host
    BY <1>2, <1>3, HostNumbers
  <2>4. reply.vehicle > 0 => observing \/ reply.vehicleAt \in AlertZone
    BY DEF AnswerInv, VehicleInv
  <2>5. ASSUME served.list # NoList, reply.person >= Host
        PROVE  \E p \in Places : Counts(p) /\ served.list[p] >= Host
    <3>1. PICK p \in Places : reply.list[p] = reply.person
      BY <1>2, <2>5 DEF Agrees
    <3>2. p \in Left /\ served.list[p] = reply.person
      BY <1>2, <1>3, <2>5, <3>1, HostNumbers
    <3> QED
      BY <2>1, <2>5, <3>2
  <2>6. ASSUME served.list # NoList, NEW p \in Places, Counts(p), served.list[p] >= Host
        PROVE  reply.person >= Host
    <3>1. p \in Left
      BY <2>1, <2>6
    <3>2. served.list[p] \in Nat
      BY <1>3, <2>6 DEF Lists
    <3>3. ~(reply.person < Host)
      BY <1>2, <2>6, <3>1, <3>2, HostNumbers
    <3> QED
      BY <1>3, <3>3, HostNumbers
  <2> QED
    BY <2>2, <2>3, <2>4, <2>5, <2>6
<1>5. BoxIsOfAKept
  <2> SUFFICES ASSUME awaits = "nothing", reply.list # NoList, reply.person >= Host,
                      \A p, q \in Listed(served.list) : served.list[p] = served.list[q] => p = q
               PROVE  reply.box \in Places /\ reply.list[reply.box] = reply.person
    BY DEF BoxIsOfAKept
  <2>1. served.list \in Lists
    BY <1>2, <1>3
  <2>2. \A p \in Places : served.list[p] \in Nat
    BY <2>1 DEF Lists
  <2>3. Unequal
    BY <2>2 DEF Unequal, Listed
  <2> QED
    BY <1>2, <2>3 DEF Boxed
<1> QED
  BY <1>1, <1>4, <1>5

(* The score that decides and the box that is drawn are of a person the filters  *)
(* leave, whichever of the two models found it (scorer_service.py, scorer.py).   *)
THEOREM AnswerIsOfACountedCorrect == AnswerSpec => [](AnswerTypeOK /\ AnswerIsOfACounted /\ BoxIsOfAKept)
<1>1. AnswerInit => AnswerInv
  BY AnswerInitInv
<1>2. AnswerInv /\ [AnswerNext]_answerVars => AnswerInv'
  BY AnswerStep
<1>3. AnswerInv => AnswerTypeOK /\ AnswerIsOfACounted /\ BoxIsOfAKept
  BY AnswerTypes
<1> QED
  BY <1>1, <1>2, <1>3, PTL DEF AnswerSpec
----------------------------------------------------------------------------
(* A clip's best frame *)

(* What the property reads, as functions of the clip.                          *)
ScoredIn(fs) == {n \in DOMAIN fs : ~(fs[n] = NoAnswer)}
ConfirmedIn(fs) == {n \in ScoredIn(fs) : fs[n] >= Threshold}
BelowIn(cf, n) ==
  {m \in 1..Len(cf) : cf[m].detail < cf[n].detail \/ (cf[m].detail = cf[n].detail /\ m < n)}
AtIn(cf, k) == cf[CHOOSE n \in 1..Len(cf) : Cardinality(BelowIn(cf, n)) = k].detail
TwiceIn(cf) ==
  IF Len(cf) % 2 = 1 THEN 2 * AtIn(cf, Len(cf) \div 2)
  ELSE AtIn(cf, Len(cf) \div 2 - 1) + AtIn(cf, Len(cf) \div 2)
SteadyIn(cf, n) == Len(cf) < 3 \/ 5 * cf[n].detail >= TwiceIn(cf)

Deserved(cf, fs, pk) ==
  /\ pk.kind = "unscored" => \A n \in DOMAIN fs : fs[n] = NoAnswer
  /\ pk.kind \in {"drop", "below"} =>
       ScoredIn(fs) # {} /\ \A n \in ScoredIn(fs) : fs[n] < Threshold
  /\ pk.kind = "send" =>
       /\ pk.image \in ConfirmedIn(fs)
       /\ SteadyIn(cf, pk.image) \/ \A n \in ConfirmedIn(fs) : ~SteadyIn(cf, n)
       /\ \A n \in ConfirmedIn(fs) :
            (/\ pk.by \in {"largest", "tallest"} /\ n # pk.image
             /\ SteadyIn(cf, n) = SteadyIn(cf, pk.image) /\ cf[n].face = cf[pk.image].face
             /\ Unmeasured \notin {cf[n].blur, cf[pk.image].blur, cf[n].size})
            => cf[pk.image].blur <= 3 * cf[n].blur

PickTyped ==
  /\ clipAt \in {"cutting", "rescoring", "choosing", "done"}
  /\ clipFrames \in Seq(Shots)
  /\ frameScores \in [1..Len(clipFrames) -> Scores \cup {NoAnswer}]
PickInv ==
  /\ PickTyped
  /\ clipAt # "cutting" => clipFrames # <<>>
  /\ clipAt # "done" => picked = Undecided
  /\ clipAt = "done" => Deserved(clipFrames, frameScores, picked)

LEMMA TwiceIs == TwiceMedian = TwiceIn(clipFrames)
  BY DEF TwiceMedian, TwiceIn, AtIn, BelowIn, Detail

LEMMA PickTypes == PickInv => PickDeserved
<1> SUFFICES ASSUME PickInv PROVE PickDeserved
  OBVIOUS
<1>1. CASE clipAt = "done"
  <2>1. Deserved(clipFrames, frameScores, picked)
    BY <1>1 DEF PickInv
  <2>2. Scored = ScoredIn(frameScores) /\ Confirmed = ConfirmedIn(frameScores)
    BY DEF Scored, Confirmed, ScoredIn, ConfirmedIn, FrameFailed
  <2>3. \A n : (Len(clipFrames) < 3 \/ 5 * Detail(n) >= TwiceMedian) <=> SteadyIn(clipFrames, n)
    BY TwiceIs DEF SteadyIn, Detail
  <2>4. picked.kind = "unscored" => \A n \in DOMAIN frameScores : FrameFailed(n)
    BY <2>1 DEF Deserved, FrameFailed
  <2>5. picked.kind \in {"drop", "below"} =>
          Scored # {} /\ \A n \in Scored : frameScores[n] < Threshold
    BY <2>1, <2>2 DEF Deserved
  <2> DEFINE steady(n) == Len(clipFrames) < 3 \/ 5 * Detail(n) >= TwiceMedian
             image == picked.image
  <2>6. ASSUME picked.kind = "send"
        PROVE  /\ image \in Confirmed
               /\ steady(image) \/ \A n \in Confirmed : ~steady(n)
    <3>1. /\ image \in ConfirmedIn(frameScores)
          /\ SteadyIn(clipFrames, image) \/ \A n \in ConfirmedIn(frameScores) : ~SteadyIn(clipFrames, n)
      BY <2>1, <2>6 DEF Deserved
    <3> HIDE DEF image, steady
    <3>2. \A n : steady(n) <=> SteadyIn(clipFrames, n)
      BY <2>3 DEF steady
    <3> QED
      BY <2>2, <3>1, <3>2
  <2>7. ASSUME picked.kind = "send", NEW n \in Confirmed,
               picked.by \in {"largest", "tallest"}, n # image,
               steady(n) = steady(image), clipFrames[n].face = clipFrames[image].face,
               Unmeasured \notin {Blur(n), Blur(image), Size(n)}
        PROVE  Blur(image) <= 3 * Blur(n)
    <3>1. n \in ConfirmedIn(frameScores)
      BY <2>2
    <3>2. SteadyIn(clipFrames, n) = SteadyIn(clipFrames, image)
      <4>1. SteadyIn(clipFrames, n) \in BOOLEAN /\ SteadyIn(clipFrames, image) \in BOOLEAN
        BY DEF SteadyIn
      <4>2. SteadyIn(clipFrames, n) <=> SteadyIn(clipFrames, image)
        BY <2>3, <2>7
      <4> QED
        BY <4>1, <4>2
    <3> QED
      BY <2>1, <2>7, <3>1, <3>2 DEF Deserved, Blur, Size
  <2>8. picked.kind = "send" =>
          \A n \in Confirmed :
            (/\ picked.by \in {"largest", "tallest"} /\ n # image
             /\ steady(n) = steady(image) /\ clipFrames[n].face = clipFrames[image].face
             /\ Unmeasured \notin {Blur(n), Blur(image), Size(n)})
            => Blur(image) <= 3 * Blur(n)
    BY <2>7
  <2> QED
    BY <2>4, <2>5, <2>6, <2>8 DEF PickDeserved
<1>2. CASE clipAt # "done"
  <2>1. picked.kind = "none"
    BY <1>2 DEF PickInv, Undecided
  <2> QED
    BY <2>1 DEF PickDeserved
<1> QED
  BY <1>1, <1>2

(* The clip as it is chosen from.                                               *)
LEMMA ClipIs ==
  ASSUME PickTyped
  PROVE  /\ Len(clipFrames) \in Nat /\ DOMAIN frameScores = 1..Len(clipFrames)
         /\ \A n \in 1..Len(clipFrames) :
              /\ Detail(n) \in Nat /\ Blur(n) \in Nat \cup {-1} /\ Size(n) \in Nat \cup {-1}
              /\ Blur(n) \in Int /\ Size(n) \in Int
              /\ clipFrames[n].face \in BOOLEAN
              /\ frameScores[n] \in Nat \cup {-1} /\ frameScores[n] \in Int
         /\ IsFiniteSet(1..Len(clipFrames))
<1>1. clipFrames \in Seq(Shots) /\ Len(clipFrames) \in Nat
  BY DEF PickTyped
<1>2. \A n \in 1..Len(clipFrames) : clipFrames[n] \in Shots
  BY <1>1
<1>3. \A s \in Shots : /\ s.detail \in Nat /\ s.blur \in Nat \cup {-1} /\ s.size \in Nat \cup {-1}
                       /\ s.face \in BOOLEAN
  BY PickAssumption
<1>4. \A n \in 1..Len(clipFrames) :
              /\ Detail(n) \in Nat /\ Blur(n) \in Nat \cup {-1} /\ Size(n) \in Nat \cup {-1}
              /\ clipFrames[n].face \in BOOLEAN
  BY <1>2, <1>3 DEF Detail, Blur, Size
<1>5. \A n \in 1..Len(clipFrames) : frameScores[n] \in Nat \cup {-1}
  BY PickAssumption DEF PickTyped, NoAnswer
<1>6. DOMAIN frameScores = 1..Len(clipFrames)
  BY DEF PickTyped
<1>7. IsFiniteSet(1..Len(clipFrames))
  BY <1>1, FS_Interval
<1> QED
  BY <1>1, <1>4, <1>5, <1>6, <1>7

LEMMA FirstIs ==
  ASSUME PickTyped, NEW C \in SUBSET (1..Len(clipFrames)), C # {}
  PROVE  First(C) \in C
<1>1. IsFiniteSet(C)
  BY ClipIs, FS_Subset
<1>2. \A n \in C : frameScores[n] \in Int /\ n \in Nat
  BY ClipIs
<1> DEFINE f == [n \in C |-> frameScores[n]]
<1>3. \E x \in C : \A y \in C : frameScores[y] <= frameScores[x]
  <2>1. f \in [C -> Int]
    BY <1>2
  <2> HIDE DEF f
  <2>2. \E x \in C : \A y \in C : f[y] <= f[x]
    BY <1>1, <2>1, GreatestOf
  <2> QED
    BY <2>2 DEF f
<1> DEFINE M == {m \in C : \A n \in C : frameScores[n] <= frameScores[m]}
<1>4. M \subseteq Nat /\ M # {}
  BY <1>2, <1>3
<1>5. PICK m \in M : \A n \in M : m <= n
  <2> HIDE DEF M
  <2> QED
    BY <1>4, LeastNat
<1>6. ASSUME NEW n \in C PROVE Ahead(m, n)
  <2>1. frameScores[n] <= frameScores[m] /\ frameScores[n] \in Int /\ frameScores[m] \in Int
    BY <1>2
  <2>2. CASE frameScores[m] > frameScores[n]
    BY <2>2 DEF Ahead
  <2>3. CASE frameScores[m] = frameScores[n]
    <3>1. n \in M
      BY <1>5, <2>3
    <3> QED
      BY <1>5, <2>3, <3>1 DEF Ahead
  <2> QED
    BY <2>1, <2>2, <2>3
<1>7. \E x \in C : \A n \in C : Ahead(x, n)
  BY <1>6
<1> QED
  BY <1>7 DEF First

LEMMA SharpestIs ==
  ASSUME PickTyped, NEW C \in SUBSET (1..Len(clipFrames)), C # {}
  PROVE  /\ Sharpest(C) \in C
         /\ \A n \in C : Blur(n) # Unmeasured =>
              Blur(Sharpest(C)) # Unmeasured /\ Blur(Sharpest(C)) <= Blur(n)
<1> DEFINE measured == {n \in C : Blur(n) # Unmeasured}
           best == {m \in measured : \A n \in measured : Blur(m) <= Blur(n)}
<1>1. CASE measured = {}
  <2>1. Sharpest(C) = First(C)
    BY <1>1 DEF Sharpest
  <2> QED
    BY <1>1, <2>1, FirstIs
<1>2. CASE measured # {}
  <2>1. Sharpest(C) = First(best)
    BY <1>2 DEF Sharpest
  <2>2. \A n \in measured : Blur(n) \in Nat
    BY ClipIs DEF Unmeasured
  <2> DEFINE B == {Blur(n) : n \in measured}
  <2>3. B \subseteq Nat /\ B # {}
    BY <1>2, <2>2
  <2>4. \E b \in B : \A c \in B : b <= c
    <3> HIDE DEF B
    <3> QED
      BY <2>3, LeastNat
  <2>5. best # {} /\ best \in SUBSET (1..Len(clipFrames))
    <3>1. PICK b \in B : \A c \in B : b <= c
      BY <2>4
    <3>2. PICK m \in measured : b = Blur(m)
      BY <3>1
    <3>3. \A n \in measured : Blur(m) <= Blur(n)
      BY <3>1, <3>2
    <3> QED
      BY <3>2, <3>3
  <2>6. First(best) \in best
    <3> HIDE DEF best
    <3> QED
      BY <2>5, FirstIs
  <2> QED
    BY <2>1, <2>6
<1> QED
  BY <1>1, <1>2

LEMMA SharpEnoughIs ==
  ASSUME PickTyped, NEW C \in SUBSET (1..Len(clipFrames)), C # {}
  PROVE  /\ SharpEnough(C) \in SUBSET C /\ SharpEnough(C) # {}
         /\ \A m \in SharpEnough(C), n \in C :
              Blur(n) # Unmeasured => Blur(m) <= 3 * Blur(n)
<1> DEFINE blurs == {Blur(n) : n \in C} \ {Unmeasured}
<1>1. CASE blurs = {}
  BY <1>1 DEF SharpEnough
<1>2. CASE blurs # {}
  <2>1. SharpEnough(C) = {n \in C : Blur(n) # Unmeasured /\ \A b \in blurs : Blur(n) <= 3 * b}
    BY <1>2 DEF SharpEnough
  <2>2. PICK n \in C : Blur(n) # Unmeasured
    BY <1>2
  <2> DEFINE s == Sharpest(C)
  <2>3. s \in C /\ Blur(s) # Unmeasured /\ \A m \in C : Blur(m) # Unmeasured => Blur(s) <= Blur(m)
    BY <2>2, SharpestIs
  <2>4. \A m \in C : Blur(m) # Unmeasured => Blur(m) \in Nat
    BY ClipIs DEF Unmeasured
  <2> HIDE DEF s
  <2>5. ASSUME NEW m \in C, Blur(m) # Unmeasured PROVE Blur(s) <= 3 * Blur(m)
    <3> DEFINE x == Blur(s)
               y == Blur(m)
    <3>1. x \in Nat /\ y \in Nat /\ x <= y
      BY <2>3, <2>4, <2>5
    <3> HIDE DEF x, y
    <3>2. x <= 3 * y
      BY <3>1
    <3> QED
      BY <3>2 DEF x, y
  <2>6. s \in SharpEnough(C)
    BY <2>1, <2>3, <2>5
  <2>7. \A m \in C : Blur(m) # Unmeasured => Blur(m) \in blurs
    OBVIOUS
  <2> QED
    BY <2>1, <2>6, <2>7
<1> QED
  BY <1>1, <1>2

LEMMA BiggestIs ==
  ASSUME PickTyped, NEW C \in SUBSET (1..Len(clipFrames)), C # {}
  PROVE  Biggest(C) \in C
<1>1. IsFiniteSet(C)
  BY ClipIs, FS_Subset
<1> DEFINE f == [n \in C |-> Size(n)]
           top == {m \in C : \A n \in C : Size(m) >= Size(n)}
<1>2. \A n \in C : Size(n) \in Int
  BY ClipIs
<1>3. \E x \in C : \A y \in C : f[y] <= f[x]
  <2>1. f \in [C -> Int]
    BY <1>2
  <2> HIDE DEF f
  <2> QED
    BY <1>1, <2>1, GreatestOf
<1>4. top # {} /\ top \in SUBSET (1..Len(clipFrames))
  BY <1>2, <1>3
<1>5. Biggest(C) = First(top)
  BY DEF Biggest
<1>6. First(top) \in top
  <2> HIDE DEF top
  <2> QED
    BY <1>4, FirstIs
<1> QED
  BY <1>5, <1>6

(* Neither pick prefers a frame to one three times as sharp.                    *)
LEMMA PickIs ==
  ASSUME PickTyped, NEW C \in SUBSET (1..Len(clipFrames)), C # {},
         NEW image \in {Largest(C), Tallest(C)}
  PROVE  /\ image \in C
         /\ \A n \in C : Blur(n) # Unmeasured /\ Blur(image) # Unmeasured => Blur(image) <= 3 * Blur(n)
<1> DEFINE E == SharpEnough(C)
           clear == {n \in E : ~clipFrames[n].edge}
<1>1. E \in SUBSET C /\ E # {}
  BY SharpEnoughIs
<1>2. PICK pool \in SUBSET E, gain \in {110, 125} : pool # {} /\ image = Gains(C, pool, gain)
  <2>1. CASE image = Largest(C)
    BY <1>1, <2>1 DEF Largest
  <2>2. CASE image = Tallest(C)
    <3>1. image = Gains(C, IF clear = {} THEN E ELSE clear, 110)
      BY <2>2 DEF Tallest
    <3> QED
      BY <1>1, <3>1
  <2> QED
    BY <2>1, <2>2
<1>3. image \in {Biggest(pool), Sharpest(C)}
  BY <1>2 DEF Gains
<1>4. pool \in SUBSET (1..Len(clipFrames))
  BY <1>1
<1>5. CASE image = Biggest(pool)
  <2>1. image \in pool
    BY <1>2, <1>4, <1>5, BiggestIs
  <2> QED
    BY <1>1, <2>1, SharpEnoughIs
<1>6. CASE image = Sharpest(C)
  <2>1. image \in C
    BY <1>6, SharpestIs
  <2>2. ASSUME NEW n \in C, Blur(n) # Unmeasured PROVE Blur(image) <= 3 * Blur(n)
    <3> DEFINE x == Blur(image)
               y == Blur(n)
    <3>1. x <= y /\ x # Unmeasured /\ y # Unmeasured
      BY <1>6, <2>2, SharpestIs
    <3>2. x \in Nat /\ y \in Nat
      BY <2>1, <3>1, ClipIs DEF Unmeasured
    <3> HIDE DEF x, y
    <3>3. x <= 3 * y
      BY <3>1, <3>2
    <3> QED
      BY <3>3 DEF x, y
  <2> QED
    BY <2>1, <2>2
<1> QED
  BY <1>3, <1>5, <1>6

(* Every place in the order of the clip's details is some frame's.              *)
LEMMA RankReached ==
  ASSUME PickTyped, NEW k \in Nat, k < Len(clipFrames)
  PROVE  \E n \in 1..Len(clipFrames) : Cardinality(BelowIn(clipFrames, n)) = k
<1> DEFINE N == Len(clipFrames)
           d(n) == clipFrames[n].detail
           below(n) == {m \in 1..N : d(m) < d(n) \/ (d(m) = d(n) /\ m < n)}
           r == [n \in 1..N |-> Cardinality(below(n))]
<1>1. N \in Nat /\ IsFiniteSet(1..N) /\ \A n \in 1..N : d(n) \in Nat
  BY ClipIs DEF Detail
<1>2. \A n \in 1..N : below(n) = BelowIn(clipFrames, n)
  BY DEF BelowIn
<1> HIDE DEF N, d
<1>3. Cardinality(1..N) = N /\ IsFiniteSet(0..N - 1) /\ Cardinality(0..N - 1) = N
  <2>1. N \in Int /\ N - 1 \in Int /\ 0 \in Int /\ 1 \in Int
    BY <1>1
  <2>2. Cardinality(1..N) = (IF 1 > N THEN 0 ELSE N - 1 + 1)
    BY <2>1, FS_Interval
  <2>3. IsFiniteSet(0..N - 1) /\ Cardinality(0..N - 1) = (IF 0 > N - 1 THEN 0 ELSE (N - 1) - 0 + 1)
    BY <2>1, FS_Interval
  <2> QED
    BY <1>1, <2>2, <2>3
<1>4. ASSUME NEW n \in 1..N
      PROVE  IsFiniteSet(below(n)) /\ Cardinality(below(n)) \in Nat /\ Cardinality(below(n)) \in 0..N - 1
  <2> DEFINE B == below(n)
             A == (1..N) \ {n}
  <2>1. B \in SUBSET A
    BY <1>1
  <2>2. IsFiniteSet(A) /\ Cardinality(A) = N - 1
    BY <1>1, <1>3, FS_RemoveElement
  <2> HIDE DEF A, B
  <2>3. IsFiniteSet(B) /\ Cardinality(B) \in Nat /\ Cardinality(B) <= N - 1
    BY <2>1, <2>2, FS_Subset, FS_CardinalityType
  <2>4. Cardinality(B) \in 0..N - 1
    BY <1>1, <2>3
  <2> QED
    BY <2>3, <2>4 DEF B
<1>5. ASSUME NEW m \in 1..N, NEW n \in 1..N, m \in below(n)
      PROVE  Cardinality(below(m)) # Cardinality(below(n))
  <2> DEFINE A == below(m)
             B == below(n)
  <2>1. A \in SUBSET B /\ m \in B /\ m \notin A
    BY <1>1, <1>5
  <2>2. IsFiniteSet(B)
    BY <1>4
  <2> HIDE DEF A, B
  <2>3. Cardinality(A) # Cardinality(B)
    BY <2>1, <2>2, FS_Subset
  <2> QED
    BY <2>3 DEF A, B
<1>6. ASSUME NEW m \in 1..N, NEW n \in 1..N, m # n PROVE Cardinality(below(m)) # Cardinality(below(n))
  <2>1. m \in below(n) \/ n \in below(m)
    BY <1>1, <1>6
  <2> HIDE DEF below
  <2> QED
    BY <1>5, <2>1
<1>7. r \in [1..N -> 0..N - 1] /\ \A m, n \in 1..N : r[m] = r[n] => m = n
  <2> HIDE DEF below
  <2> QED
    BY <1>4, <1>6
<1> HIDE DEF r
<1>8. r \in Injection(1..N, 0..N - 1)
  BY <1>7 DEF Injection, IsInjective
<1>9. r \in Surjection(1..N, 0..N - 1)
  BY <1>3, <1>8, FS_Injection
<1>10. k \in 0..N - 1
  BY <1>1 DEF N
<1>11. \E n \in 1..N : r[n] = k
  BY <1>9, <1>10 DEF Surjection
<1> QED
  BY <1>2, <1>11 DEF r, N

LEMMA MedianIs ==
  ASSUME PickTyped, clipFrames # <<>>
  PROVE  TwiceMedian \in Nat
<1> DEFINE N == Len(clipFrames)
<1>1. N \in Nat /\ N > 0
  BY DEF PickTyped
<1>2. ASSUME NEW k \in Nat, k < N PROVE AtIn(clipFrames, k) \in Nat
  <2>1. \E n \in 1..N : Cardinality(BelowIn(clipFrames, n)) = k
    BY <1>2, RankReached
  <2> DEFINE c == CHOOSE n \in 1..N : Cardinality(BelowIn(clipFrames, n)) = k
  <2>2. c \in 1..N
    BY <2>1
  <2> HIDE DEF c
  <2>3. clipFrames[c].detail \in Nat
    BY <2>2, ClipIs DEF Detail
  <2> QED
    BY <2>3 DEF AtIn, c
<1> DEFINE h == N \div 2
<1> HIDE DEF N
<1>3. h \in Nat /\ h < N /\ (N % 2 # 1 => h - 1 \in Nat /\ h - 1 < N)
  BY <1>1
<1> HIDE DEF h
<1>4. AtIn(clipFrames, h) \in Nat
  BY <1>2, <1>3
<1>5. CASE N % 2 = 1
  <2>1. TwiceIn(clipFrames) = 2 * AtIn(clipFrames, h)
    BY <1>5 DEF TwiceIn, h, N
  <2> QED
    BY <1>4, <2>1, TwiceIs
<1>6. CASE N % 2 # 1
  <2>1. TwiceIn(clipFrames) = AtIn(clipFrames, h - 1) + AtIn(clipFrames, h)
    BY <1>6 DEF TwiceIn, h, N
  <2>2. AtIn(clipFrames, h - 1) \in Nat
    BY <1>2, <1>3, <1>6
  <2> QED
    BY <1>4, <2>1, <2>2, TwiceIs
<1> QED
  BY <1>5, <1>6

(* A frame is smeared exactly when it is not steady.                            *)
LEMMA SmearedIs ==
  ASSUME PickTyped, clipFrames # <<>>, NEW n \in 1..Len(clipFrames)
  PROVE  n \in Smeared <=> ~SteadyIn(clipFrames, n)
<1>1. Len(clipFrames) \in Nat /\ Detail(n) \in Nat /\ TwiceMedian \in Nat
  BY ClipIs, MedianIs
<1> DEFINE t == TwiceMedian
           x == Detail(n)
           len == Len(clipFrames)
<1>2. Smeared = IF len < 3 THEN {} ELSE {m \in 1..len : 10 * Detail(m) < 2 * t}
  BY DEF Smeared
<1>3. SteadyIn(clipFrames, n) <=> len < 3 \/ 5 * x >= t
  BY TwiceIs DEF SteadyIn, Detail
<1>4. n \in Smeared <=> ~(len < 3) /\ 10 * x < 2 * t
  BY <1>2
<1> HIDE DEF t, x, len
<1>5. 10 * x < 2 * t <=> ~(5 * x >= t)
  BY <1>1 DEF t, x
<1> QED
  BY <1>3, <1>4, <1>5

LEMMA PreferringIs ==
  ASSUME NEW C, NEW P
  PROVE  /\ Preferring(C, P) \in SUBSET C
         /\ C # {} => Preferring(C, P) # {}
         /\ C \cap P # {} => Preferring(C, P) = C \cap P
         /\ C \cap P = {} => Preferring(C, P) = C
  BY DEF Preferring

(* Who competes: a confirmed frame like the one chosen competes too.            *)
LEMMA HopefulsIs ==
  ASSUME PickTyped, clipFrames # <<>>, Confirmed # {}, NEW preferFace \in BOOLEAN
  PROVE  /\ Hopefuls(preferFace) \in SUBSET Confirmed /\ Hopefuls(preferFace) # {}
         /\ Confirmed \in SUBSET (1..Len(clipFrames))
         /\ \A image \in Hopefuls(preferFace) :
              /\ SteadyIn(clipFrames, image) \/ \A n \in Confirmed : ~SteadyIn(clipFrames, n)
              /\ \A n \in Confirmed :
                   (/\ SteadyIn(clipFrames, n) = SteadyIn(clipFrames, image)
                    /\ clipFrames[n].face = clipFrames[image].face
                    /\ Size(n) # Unmeasured)
                   => n \in Hopefuls(preferFace)
<1> DEFINE N == Len(clipFrames)
           U == (1..N) \ Smeared
           steady == Preferring(Confirmed, U)
           F == {n \in steady : clipFrames[n].face /\ Size(n) # Unmeasured}
           H == Hopefuls(preferFace)
<1>1. Confirmed \in SUBSET (1..N)
  BY ClipIs DEF Confirmed, Scored
<1>2. steady \in SUBSET Confirmed /\ steady # {}
  BY PreferringIs
<1>3. H = IF preferFace THEN Preferring(steady, F) ELSE steady
  BY DEF Hopefuls
<1>4. \A n \in 1..N : n \in Smeared <=> ~SteadyIn(clipFrames, n)
  BY SmearedIs
<1>5. \A n \in Confirmed, m \in steady :
        /\ SteadyIn(clipFrames, m) \/ ~SteadyIn(clipFrames, n)
        /\ SteadyIn(clipFrames, n) = SteadyIn(clipFrames, m) => n \in steady
  <2>1. CASE Confirmed \cap U = {}
    <3>1. steady = Confirmed
      BY <2>1, PreferringIs
    <3> QED
      BY <1>1, <1>4, <2>1, <3>1
  <2>2. CASE Confirmed \cap U # {}
    <3>1. steady = Confirmed \cap U
      BY <2>2, PreferringIs
    <3> QED
      BY <1>1, <1>4, <3>1
  <2> QED
    BY <2>1, <2>2
<1> HIDE DEF steady, U
<1>6. H \in SUBSET steady /\ H # {}
  <2> HIDE DEF H, F
  <2> QED
    BY <1>2, <1>3, PreferringIs
<1>7. \A n \in steady, m \in H :
        clipFrames[n].face = clipFrames[m].face /\ Size(n) # Unmeasured => n \in H
  <2>1. CASE ~preferFace
    BY <1>3, <2>1
  <2>2. CASE preferFace /\ steady \cap F = {}
    <3>1. H = steady
      <4> HIDE DEF F, H
      <4> QED
        BY <1>3, <2>2, PreferringIs
    <3> QED
      BY <3>1
  <2>3. CASE preferFace /\ steady \cap F # {}
    <3>1. H = steady \cap F
      <4> HIDE DEF F, H
      <4> QED
        BY <1>3, <2>3, PreferringIs
    <3> HIDE DEF H
    <3> QED
      BY <3>1
  <2> QED
    BY <2>1, <2>2, <2>3
<1> HIDE DEF H
<1>8. \A image \in H :
              /\ SteadyIn(clipFrames, image) \/ \A n \in Confirmed : ~SteadyIn(clipFrames, n)
              /\ \A n \in Confirmed :
                   (/\ SteadyIn(clipFrames, n) = SteadyIn(clipFrames, image)
                    /\ clipFrames[n].face = clipFrames[image].face
                    /\ Size(n) # Unmeasured)
                   => n \in H
  BY <1>5, <1>6, <1>7
<1> QED
  BY <1>1, <1>2, <1>6, <1>8 DEF H, N

LEMMA PickInitInv ==
  ASSUME PickInit
  PROVE  PickInv
<1>1. clipAt = "cutting" /\ clipFrames = <<>> /\ frameScores = <<>> /\ picked = Undecided
  BY DEF PickInit
<1>2. frameScores \in [1..Len(clipFrames) -> Scores \cup {NoAnswer}]
  BY <1>1
<1> QED
  BY <1>1, <1>2 DEF PickInv, PickTyped

LEMMA CutStep ==
  ASSUME PickInv, NEW shot \in Shots, NEW answer \in Scores \cup {NoAnswer}, FrameCut(shot, answer)
  PROVE  PickInv'
<1>1. /\ clipAt = "cutting" /\ clipFrames' = Append(clipFrames, shot)
      /\ frameScores' = Append(frameScores, answer) /\ clipAt' = clipAt /\ picked' = picked
  BY DEF FrameCut
<1>2. clipFrames \in Seq(Shots) /\ Len(clipFrames) \in Nat
      /\ frameScores \in [1..Len(clipFrames) -> Scores \cup {NoAnswer}]
  BY DEF PickInv, PickTyped
<1>3. frameScores \in Seq(Scores \cup {NoAnswer}) /\ Len(frameScores) = Len(clipFrames)
  BY <1>2, SeqDef
<1>4. clipFrames' \in Seq(Shots) /\ Len(clipFrames') = Len(clipFrames) + 1
  BY <1>1, <1>2
<1>5. frameScores' \in Seq(Scores \cup {NoAnswer}) /\ Len(frameScores') = Len(frameScores) + 1
  BY <1>1, <1>3
<1>6. frameScores' \in [1..Len(frameScores') -> Scores \cup {NoAnswer}]
  BY <1>5
<1>7. frameScores' \in [1..Len(clipFrames') -> Scores \cup {NoAnswer}]
  BY <1>3, <1>4, <1>5, <1>6
<1> QED
  BY <1>1, <1>4, <1>7 DEF PickInv, PickTyped

LEMMA EndsStep ==
  ASSUME PickInv, CuttingEnds
  PROVE  PickInv'
<1>1. /\ clipAt = "cutting" /\ clipFrames # <<>> /\ clipAt' \in {"rescoring", "choosing"}
      /\ clipFrames' = clipFrames /\ frameScores' = frameScores /\ picked' = picked
  BY DEF CuttingEnds
<1> QED
  BY <1>1 DEF PickInv, PickTyped

LEMMA RescoredStep ==
  ASSUME PickInv, NEW again \in [DOMAIN frameScores -> Scores \cup {NoAnswer}], Rescored(again)
  PROVE  PickInv'
<1>1. /\ clipAt = "rescoring" /\ clipAt' = "choosing" /\ clipFrames' = clipFrames /\ picked' = picked
      /\ frameScores' = [n \in DOMAIN frameScores |-> IF FrameFailed(n) THEN again[n] ELSE frameScores[n]]
  BY DEF Rescored
<1>2. frameScores \in [1..Len(clipFrames) -> Scores \cup {NoAnswer}]
  BY DEF PickInv, PickTyped
<1>3. frameScores' \in [1..Len(clipFrames) -> Scores \cup {NoAnswer}]
  BY <1>1, <1>2
<1> QED
  BY <1>1, <1>3 DEF PickInv, PickTyped

(* What was decided, if the clip deserves it, is kept.                          *)
LEMMA DecidedStep ==
  ASSUME PickInv, clipAt = "choosing", NEW kind, NEW image, NEW by, Decided(kind, image, by),
         Deserved(clipFrames, frameScores, [kind |-> kind, image |-> image, by |-> by])
  PROVE  PickInv'
<1>1. /\ picked' = [kind |-> kind, image |-> image, by |-> by] /\ clipAt' = "done"
      /\ clipFrames' = clipFrames /\ frameScores' = frameScores
  BY DEF Decided
<1>2. Deserved(clipFrames', frameScores', picked')
  BY <1>1
<1> QED
  BY <1>1, <1>2 DEF PickInv, PickTyped

LEMMA UnscoredStep ==
  ASSUME PickInv, PassesUnscored
  PROVE  PickInv'
<1>1. clipAt = "choosing" /\ Scored = {} /\ Decided("unscored", 1, "none")
  BY DEF PassesUnscored, Outage
<1>2. \A n \in DOMAIN frameScores : frameScores[n] = NoAnswer
  BY <1>1 DEF Scored, FrameFailed
<1>3. Deserved(clipFrames, frameScores, [kind |-> "unscored", image |-> 1, by |-> "none"])
  BY <1>2 DEF Deserved
<1> QED
  BY <1>1, <1>3, DecidedStep

LEMMA NobodyStep ==
  ASSUME PickInv, NEW keepBelow \in BOOLEAN, NobodyConfirmed(keepBelow)
  PROVE  PickInv'
<1>1. clipAt = "choosing" /\ Scored # {} /\ Confirmed = {}
  BY DEF NobodyConfirmed, Outage
<1>2. PICK kind \in {"drop", "below"} : \E image, by : Decided(kind, image, by)
  BY DEF NobodyConfirmed
<1>3. PICK image, by : Decided(kind, image, by)
  BY <1>2
<1>4. ScoredIn(frameScores) = Scored
  BY DEF Scored, ScoredIn, FrameFailed
<1>5. ASSUME NEW n \in Scored PROVE frameScores[n] < Threshold
  <2>1. frameScores[n] \in Int /\ Threshold \in Int
    BY ClipIs, PickAssumption DEF PickInv, Scored
  <2> QED
    BY <1>1, <2>1 DEF Confirmed
<1>6. Deserved(clipFrames, frameScores, [kind |-> kind, image |-> image, by |-> by])
  BY <1>1, <1>2, <1>4, <1>5 DEF Deserved
<1> QED
  BY <1>1, <1>3, <1>6, DecidedStep

LEMMA PickedStep ==
  ASSUME PickInv, NEW pick \in {"sharpest", "largest", "tallest"}, NEW preferFace \in BOOLEAN,
         PickedFrame(pick, preferFace)
  PROVE  PickInv'
<1> DEFINE C == Hopefuls(preferFace)
           boxed == \A n \in C : Size(n) # Unmeasured
           by == IF boxed THEN pick ELSE "sharpest"
           image == CASE by = "largest" -> Largest(C)
                      [] by = "tallest" -> Tallest(C)
                      [] by = "sharpest" -> Sharpest(C)
<1>1. clipAt = "choosing" /\ Confirmed # {} /\ Decided("send", image, by)
  BY DEF PickedFrame
<1>2. PickTyped /\ clipFrames # <<>>
  BY <1>1 DEF PickInv
<1>3. /\ C \in SUBSET Confirmed /\ C # {} /\ Confirmed \in SUBSET (1..Len(clipFrames))
      /\ \A i \in C :
              /\ SteadyIn(clipFrames, i) \/ \A n \in Confirmed : ~SteadyIn(clipFrames, n)
              /\ \A n \in Confirmed :
                   (/\ SteadyIn(clipFrames, n) = SteadyIn(clipFrames, i)
                    /\ clipFrames[n].face = clipFrames[i].face
                    /\ Size(n) # Unmeasured)
                   => n \in C
  BY <1>1, <1>2, HopefulsIs
<1>4. by \in {"sharpest", "largest", "tallest"}
  OBVIOUS
<1>5. /\ by = "largest" => image = Largest(C)
      /\ by = "tallest" => image = Tallest(C)
      /\ by = "sharpest" => image = Sharpest(C)
  <2> HIDE DEF by, C
  <2> QED
    OBVIOUS
<1> HIDE DEF C, by, image
<1>6. C \in SUBSET (1..Len(clipFrames))
  BY <1>3
<1>7. /\ image \in C
      /\ by \in {"largest", "tallest"} =>
           \A n \in C : Blur(n) # Unmeasured /\ Blur(image) # Unmeasured => Blur(image) <= 3 * Blur(n)
  <2>1. CASE by \in {"largest", "tallest"}
    <3>1. image \in {Largest(C), Tallest(C)}
      BY <1>5, <2>1
    <3> QED
      BY <1>2, <1>3, <1>6, <3>1, PickIs
  <2>2. CASE by = "sharpest"
    <3>1. Sharpest(C) \in C
      BY <1>2, <1>3, <1>6, SharpestIs
    <3> QED
      BY <1>5, <2>2, <3>1
  <2> QED
    BY <1>4, <2>1, <2>2
<1>8. Confirmed = ConfirmedIn(frameScores)
  BY DEF Scored, Confirmed, ScoredIn, ConfirmedIn, FrameFailed
<1>9. ASSUME NEW n \in Confirmed, by \in {"largest", "tallest"},
             SteadyIn(clipFrames, n) = SteadyIn(clipFrames, image),
             clipFrames[n].face = clipFrames[image].face,
             Unmeasured \notin {clipFrames[n].blur, clipFrames[image].blur, clipFrames[n].size}
      PROVE  clipFrames[image].blur <= 3 * clipFrames[n].blur
  <2>1. n \in C
    BY <1>3, <1>7, <1>9 DEF Size
  <2> QED
    BY <1>7, <1>9, <2>1 DEF Blur
<1> DEFINE pk == [kind |-> "send", image |-> image, by |-> by]
<1>10. pk.kind = "send" /\ pk.image = image /\ pk.by = by
  OBVIOUS
<1>11. /\ image \in ConfirmedIn(frameScores)
       /\ SteadyIn(clipFrames, image) \/ \A n \in ConfirmedIn(frameScores) : ~SteadyIn(clipFrames, n)
  BY <1>3, <1>7, <1>8
<1> HIDE DEF pk
<1>12. Deserved(clipFrames, frameScores, pk)
  BY <1>8, <1>9, <1>10, <1>11 DEF Deserved
<1> QED
  BY <1>1, <1>12, DecidedStep DEF pk

LEMMA PickStep ==
  ASSUME PickInv, [PickNext]_pickVars
  PROVE  PickInv'
<1>1. ASSUME NEW shot \in Shots, NEW answer \in Scores \cup {NoAnswer}, FrameCut(shot, answer)
      PROVE  PickInv'
  BY <1>1, CutStep
<1>2. CASE CuttingEnds
  BY <1>2, EndsStep
<1>3. ASSUME NEW again \in [DOMAIN frameScores -> Scores \cup {NoAnswer}], Rescored(again)
      PROVE  PickInv'
  BY <1>3, RescoredStep
<1>4. CASE PassesUnscored
  BY <1>4, UnscoredStep
<1>5. ASSUME NEW keepBelow \in BOOLEAN, NobodyConfirmed(keepBelow)
      PROVE  PickInv'
  BY <1>5, NobodyStep
<1>6. ASSUME NEW pick \in {"sharpest", "largest", "tallest"}, NEW preferFace \in BOOLEAN,
             PickedFrame(pick, preferFace)
      PROVE  PickInv'
  BY <1>6, PickedStep
<1>7. CASE UNCHANGED pickVars
  <2>1. UNCHANGED <<clipAt, clipFrames, frameScores, picked>>
    BY <1>7 DEF pickVars
  <2> QED
    BY <2>1 DEF PickInv, PickTyped
<1> QED
  BY <1>1, <1>2, <1>3, <1>4, <1>5, <1>6, <1>7 DEF PickNext

(* A clip ends as its frames deserve: the photo is of its best scored frames,    *)
(* picked by the quality asked for (daemon.py, recclip.py).                      *)
THEOREM PickDeservedCorrect == PickSpec => []PickDeserved
<1>1. PickInit => PickInv
  BY PickInitInv
<1>2. PickInv /\ [PickNext]_pickVars => PickInv'
  BY PickStep
<1> QED
  BY <1>1, <1>2, PickTypes, PTL DEF PickSpec
----------------------------------------------------------------------------
(* Matching two cameras *)

Pairing(cs, ss, c, s) == cs[c] <= ss[s] + PairWindow /\ ss[s] <= cs[c] + PairWindow
ReachedFrom(cs, ss, C) == {s \in DOMAIN ss : \E c \in C : Pairing(cs, ss, c, s)}
Spare(cs, ss, C) == Cardinality(C) - Cardinality(ReachedFrom(cs, ss, C))

\* The camera observations walked so far hold a set that explains every one left
\* unmatched: it can reach only shadow observations walked so far, and too few.
Explained ==
  \E C \in SUBSET (1..cameraIndex - 1) :
    /\ ReachedFrom(cameraSaw, shadowSaw, C) \subseteq 1..shadowIndex - 1
    /\ Spare(cameraSaw, shadowSaw, C) >= (cameraIndex - 1) - Cardinality(pairs)

\* Since the last shadow observation that was skipped every one was paired; the
\* camera observations before it explain those unmatched until then.
SinceSkip ==
  \E k \in 1..cameraIndex, b \in 1..shadowIndex :
    /\ \A c \in DOMAIN cameraSaw, s \in DOMAIN shadowSaw :
         c >= k /\ Pairing(cameraSaw, shadowSaw, c, s) => s >= b
    /\ \E C \in SUBSET (1..k - 1) :
         /\ ReachedFrom(cameraSaw, shadowSaw, C) \subseteq 1..b - 1
         /\ Spare(cameraSaw, shadowSaw, C) >= (k - 1) - (Cardinality(pairs) - (shadowIndex - b))

MatchTyped ==
  /\ cameraSaw \in Timelines /\ shadowSaw \in Timelines
  /\ cameraIndex \in 1..Len(cameraSaw) + 1 /\ shadowIndex \in 1..Len(shadowSaw) + 1
  /\ pairs \subseteq (1..cameraIndex - 1) \X (1..shadowIndex - 1)
PairsInv ==
  /\ \A p, q \in pairs : p # q => p[1] # q[1] /\ p[2] # q[2]
  /\ \A p \in pairs : Pairing(cameraSaw, shadowSaw, p[1], p[2])

MatchInv == MatchTyped /\ PairsInv /\ Explained /\ SinceSkip

LEMMA TimelineIs ==
  ASSUME NEW t \in Timelines
  PROVE  /\ Len(t) \in Nat /\ DOMAIN t = 1..Len(t)
         /\ \A i \in 1..Len(t) : t[i] \in Nat
         /\ \A i, j \in 1..Len(t) : i <= j => t[i] <= t[j]
<1>1. PICK n \in 0..Longest : t \in [1..n -> 0..LastSecond]
  BY DEF Timelines
<1>2. n \in Nat /\ LastSecond \in Nat /\ 0..LastSecond \subseteq Nat
  BY MatchAssumption
<1>3. t \in Seq(Nat)
  <2>1. t \in [1..n -> Nat]
    BY <1>1, <1>2
  <2> QED
    BY <1>2, <2>1, SeqDef
<1>4. Len(t) \in Nat /\ DOMAIN t = 1..Len(t) /\ \A i \in 1..Len(t) : t[i] \in Nat
  BY <1>3
<1>5. \A i, j \in DOMAIN t : i < j => t[i] <= t[j]
  BY DEF Timelines
<1>6. ASSUME NEW i \in 1..Len(t), NEW j \in 1..Len(t), i <= j PROVE t[i] <= t[j]
  <2>1. CASE i = j
    BY <1>4, <2>1
  <2>2. CASE i < j
    BY <1>4, <1>5, <2>2
  <2> QED
    BY <1>4, <1>6, <2>1, <2>2
<1> QED
  BY <1>4, <1>6

LEMMA ReachedIs ==
  ASSUME NEW cs, NEW ss \in Timelines, NEW C
  PROVE  /\ ReachedFrom(cs, ss, C) \subseteq 1..Len(ss)
         /\ IsFiniteSet(ReachedFrom(cs, ss, C)) /\ Cardinality(ReachedFrom(cs, ss, C)) \in Nat
<1>1. DOMAIN ss = 1..Len(ss) /\ Len(ss) \in Nat
  BY TimelineIs
<1>2. ReachedFrom(cs, ss, C) \subseteq 1..Len(ss)
  BY <1>1 DEF ReachedFrom
<1>3. IsFiniteSet(1..Len(ss))
  BY <1>1, FS_Interval
<1> QED
  BY <1>2, <1>3, FS_Subset, FS_CardinalityType

(* Numbers below a bound, counted.                                              *)
LEMMA UpTo ==
  ASSUME NEW n \in Nat, NEW C \in SUBSET (1..n)
  PROVE  IsFiniteSet(C) /\ Cardinality(C) \in Nat /\ Cardinality(C) <= n
<1>1. IsFiniteSet(1..n) /\ Cardinality(1..n) = n
  BY FS_Interval
<1> QED
  BY <1>1, FS_Subset, FS_CardinalityType

(* One to one into a set: as many as the set has at most.                       *)
LEMMA OneToOne ==
  ASSUME NEW S, NEW T, IsFiniteSet(T), NEW f \in [S -> T],
         \A x, y \in S : f[x] = f[y] => x = y
  PROVE  IsFiniteSet(S) /\ Cardinality(S) \in Nat /\ Cardinality(S) <= Cardinality(T)
<1>1. f \in Injection(S, T)
  BY DEF Injection, IsInjective
<1> QED
  BY <1>1, FS_Injection, FS_CardinalityType

(* No pairing can match more than what a set of camera observations allows.     *)
LEMMA NoMoreThan ==
  ASSUME NEW cs \in Timelines, NEW ss \in Timelines, NEW P, P \subseteq (1..Len(cs)) \X (1..Len(ss)),
         \A p, q \in P : p # q => p[1] # q[1] /\ p[2] # q[2],
         \A p \in P : Pairing(cs, ss, p[1], p[2]),
         NEW C \in SUBSET (1..Len(cs))
  PROVE  /\ IsFiniteSet(P) /\ Cardinality(P) \in Nat
         /\ Spare(cs, ss, C) <= Len(cs) - Cardinality(P)
<1> DEFINE P1 == {p \in P : p[1] \in C}
           P2 == {p \in P : p[1] \notin C}
           R == ReachedFrom(cs, ss, C)
           D == (1..Len(cs)) \ C
<1>1. Len(cs) \in Nat /\ Len(ss) \in Nat /\ DOMAIN ss = 1..Len(ss)
  BY TimelineIs
<1>2. IsFiniteSet(R) /\ Cardinality(R) \in Nat
  BY ReachedIs
<1>3. IsFiniteSet(P1) /\ Cardinality(P1) \in Nat /\ Cardinality(P1) <= Cardinality(R)
  <2> DEFINE f == [p \in P1 |-> p[2]]
  <2>1. ASSUME NEW p \in P1 PROVE p[2] \in R
    <3>1. p[1] \in C /\ p[2] \in 1..Len(ss) /\ Pairing(cs, ss, p[1], p[2])
      OBVIOUS
    <3> QED
      BY <1>1, <3>1 DEF ReachedFrom
  <2>2. f \in [P1 -> R]
    BY <2>1
  <2>3. \A x, y \in P1 : f[x] = f[y] => x = y
    OBVIOUS
  <2> HIDE DEF f, P1, R
  <2> QED
    BY <1>2, <2>2, <2>3, OneToOne
<1>4. IsFiniteSet(C) /\ Cardinality(C) \in Nat /\ IsFiniteSet(D) /\ Cardinality(D) = Len(cs) - Cardinality(C)
  <2>1. IsFiniteSet(1..Len(cs)) /\ Cardinality(1..Len(cs)) = Len(cs)
    <3> DEFINE n == Len(cs)
    <3>1. n \in Nat /\ n \in Int /\ 1 \in Int
      BY <1>1
    <3> HIDE DEF n
    <3>2. IsFiniteSet(1..n) /\ Cardinality(1..n) = n
      BY <3>1, FS_Interval
    <3> QED
      BY <3>2 DEF n
  <2>2. IsFiniteSet(C) /\ Cardinality(C) \in Nat /\ IsFiniteSet(D) /\ Cardinality(D) \in Nat
    <3>1. D \in SUBSET (1..Len(cs))
      OBVIOUS
    <3> HIDE DEF D
    <3> QED
      BY <1>1, <3>1, UpTo
  <2>3. C \cup D = 1..Len(cs) /\ C \cap D = {}
    OBVIOUS
  <2> HIDE DEF D
  <2>4. Cardinality(C \cup D) = Cardinality(C) + Cardinality(D) - Cardinality(C \cap D)
    BY <2>2, FS_Union
  <2>5. Cardinality(C \cap D) = 0
    BY <2>3, FS_EmptySet
  <2> QED
    <3>1. Cardinality(C \cup D) = Len(cs)
      BY <2>1, <2>3
    <3>2. Len(cs) = Cardinality(C) + Cardinality(D)
      BY <2>2, <2>4, <2>5, <3>1
    <3> QED
      BY <1>1, <2>2, <3>2
<1>5. IsFiniteSet(P2) /\ Cardinality(P2) \in Nat /\ Cardinality(P2) <= Cardinality(D)
  <2> DEFINE f == [p \in P2 |-> p[1]]
  <2>1. f \in [P2 -> D]
    OBVIOUS
  <2>2. \A x, y \in P2 : f[x] = f[y] => x = y
    OBVIOUS
  <2> HIDE DEF f, P2, D
  <2> QED
    BY <1>4, <2>1, <2>2, OneToOne
<1>6. P = P1 \cup P2 /\ P1 \cap P2 = {}
  OBVIOUS
<1> HIDE DEF P1, P2, R, D
<1>7. IsFiniteSet(P) /\ Cardinality(P) = Cardinality(P1) + Cardinality(P2)
  <2>1. IsFiniteSet(P1 \cup P2) /\ Cardinality(P1 \cup P2) = Cardinality(P1) + Cardinality(P2) - Cardinality(P1 \cap P2)
    BY <1>3, <1>5, FS_Union
  <2>2. Cardinality(P1 \cap P2) = 0
    BY <1>6, FS_EmptySet
  <2> QED
    BY <1>3, <1>5, <1>6, <2>1, <2>2
<1>8. Spare(cs, ss, C) = Cardinality(C) - Cardinality(R)
  BY DEF Spare, R
<1> QED
  BY <1>1, <1>2, <1>3, <1>4, <1>5, <1>7, <1>8

(* Everything since the last skip joins the set that explains.                  *)
LEMMA Widened ==
  ASSUME NEW cs \in Timelines, NEW ss \in Timelines,
         NEW k \in Nat, NEW m \in Nat, 1 <= k, k <= m + 1, m <= Len(cs),
         NEW b \in Nat, NEW j \in Nat, 1 <= b, b <= j,
         NEW C \in SUBSET (1..k - 1), ReachedFrom(cs, ss, C) \subseteq 1..b - 1,
         \A c \in k..m, s \in DOMAIN ss : Pairing(cs, ss, c, s) => s \in b..j - 1
  PROVE  /\ C \cup (k..m) \in SUBSET (1..m)
         /\ ReachedFrom(cs, ss, C \cup (k..m)) \subseteq 1..j - 1
         /\ Spare(cs, ss, C \cup (k..m)) >= Spare(cs, ss, C) + (m - k + 1) - (j - b)
<1> DEFINE W == k..m
           R == ReachedFrom(cs, ss, C)
           I == b..j - 1
           Z == ReachedFrom(cs, ss, C \cup W)
<1>1. IsFiniteSet(C) /\ Cardinality(C) \in Nat
  <2>1. k - 1 \in Nat
    OBVIOUS
  <2> QED
    BY <2>1, UpTo
<1>2. IsFiniteSet(W) /\ Cardinality(W) = m - k + 1
  <2>1. IsFiniteSet(k..m) /\ Cardinality(k..m) = IF k > m THEN 0 ELSE m - k + 1
    BY FS_Interval
  <2>2. k > m => m - k + 1 = 0
    OBVIOUS
  <2> QED
    BY <2>1, <2>2
<1>3. C \cap W = {} /\ C \cup W \in SUBSET (1..m)
  OBVIOUS
<1>4. IsFiniteSet(R) /\ Cardinality(R) \in Nat /\ IsFiniteSet(Z) /\ Cardinality(Z) \in Nat
  BY ReachedIs
<1>5. IsFiniteSet(I) /\ Cardinality(I) = j - b
  <2>1. j - 1 \in Int /\ IsFiniteSet(b..j - 1) /\ Cardinality(b..j - 1) = IF b > j - 1 THEN 0 ELSE (j - 1) - b + 1
    BY FS_Interval
  <2>2. b > j - 1 => j - b = 0
    OBVIOUS
  <2> QED
    BY <2>1, <2>2
<1>6. Z \subseteq R \cup I /\ R \subseteq 1..b - 1
  BY DEF ReachedFrom
<1>7. Z \subseteq 1..j - 1
  <2>1. I \subseteq 1..j - 1 /\ 1..b - 1 \subseteq 1..j - 1
    OBVIOUS
  <2> HIDE DEF Z, R, I
  <2> QED
    BY <1>6, <2>1
<1>8. Spare(cs, ss, C) = Cardinality(C) - Cardinality(R) /\ Spare(cs, ss, C \cup W) = Cardinality(C \cup W) - Cardinality(Z)
  BY DEF Spare
<1> HIDE DEF W, R, I, Z
<1>9. Cardinality(C \cup W) = Cardinality(C) + (m - k + 1)
  <2>1. Cardinality(C \cup W) = Cardinality(C) + Cardinality(W) - Cardinality(C \cap W)
    BY <1>1, <1>2, FS_Union
  <2>2. Cardinality(C \cap W) = 0
    BY <1>3, FS_EmptySet
  <2> QED
    BY <1>1, <1>2, <2>1, <2>2
<1>10. Cardinality(Z) <= Cardinality(R) + (j - b)
  <2>1. IsFiniteSet(R \cup I) /\ Cardinality(R \cup I) = Cardinality(R) + Cardinality(I) - Cardinality(R \cap I)
    BY <1>4, <1>5, FS_Union
  <2>2. Cardinality(R \cap I) \in Nat
    BY <1>4, FS_Intersection, FS_CardinalityType
  <2>3. Cardinality(Z) <= Cardinality(R \cup I)
    BY <1>6, <2>1, FS_Subset
  <2> QED
    BY <1>4, <1>5, <2>1, <2>2, <2>3
<1>11. Spare(cs, ss, C \cup W) >= Spare(cs, ss, C) + (m - k + 1) - (j - b)
  BY <1>1, <1>4, <1>8, <1>9, <1>10
<1> QED
  BY <1>3, <1>7, <1>11 DEF W, Z

LEMMA MatchInitInv ==
  ASSUME MatchInit
  PROVE  MatchInv
<1>1. /\ cameraSaw \in Timelines /\ shadowSaw \in Timelines
      /\ cameraIndex = 1 /\ shadowIndex = 1 /\ pairs = {}
  BY DEF MatchInit
<1>2. Len(cameraSaw) \in Nat /\ Len(shadowSaw) \in Nat
  BY <1>1, TimelineIs
<1>3. MatchTyped /\ PairsInv
  BY <1>1, <1>2 DEF MatchTyped, PairsInv
<1>4. ReachedFrom(cameraSaw, shadowSaw, {}) = {}
  BY DEF ReachedFrom
<1>5. Spare(cameraSaw, shadowSaw, {}) = 0 /\ Cardinality(pairs) = 0
  BY <1>1, <1>4, FS_EmptySet DEF Spare
<1>6. Explained
  BY <1>1, <1>4, <1>5 DEF Explained
<1>7. SinceSkip
  <2>1. \A c \in DOMAIN cameraSaw, s \in DOMAIN shadowSaw : s >= 1
    BY <1>1, TimelineIs
  <2>2. \E C \in SUBSET (1..1 - 1) :
         /\ ReachedFrom(cameraSaw, shadowSaw, C) \subseteq 1..1 - 1
         /\ Spare(cameraSaw, shadowSaw, C) >= (1 - 1) - (Cardinality(pairs) - (shadowIndex - 1))
    BY <1>1, <1>4, <1>5
  <2>3. 1 \in 1..cameraIndex /\ 1 \in 1..shadowIndex
    BY <1>1
  <2> QED
    BY <2>1, <2>2, <2>3 DEF SinceSkip
<1> QED
  BY <1>3, <1>6, <1>7 DEF MatchInv

LEMMA Fingers ==
  ASSUME MatchTyped
  PROVE  /\ Len(cameraSaw) \in Nat /\ Len(shadowSaw) \in Nat
         /\ DOMAIN cameraSaw = 1..Len(cameraSaw) /\ DOMAIN shadowSaw = 1..Len(shadowSaw)
         /\ cameraIndex \in Nat /\ 1 <= cameraIndex /\ cameraIndex <= Len(cameraSaw) + 1
         /\ shadowIndex \in Nat /\ 1 <= shadowIndex /\ shadowIndex <= Len(shadowSaw) + 1
         /\ \A i \in 1..Len(cameraSaw) : cameraSaw[i] \in Nat
         /\ \A i \in 1..Len(shadowSaw) : shadowSaw[i] \in Nat
         /\ \A i, j \in 1..Len(cameraSaw) : i <= j => cameraSaw[i] <= cameraSaw[j]
         /\ \A i, j \in 1..Len(shadowSaw) : i <= j => shadowSaw[i] <= shadowSaw[j]
<1>1. cameraSaw \in Timelines /\ shadowSaw \in Timelines
  BY DEF MatchTyped
<1>2. Len(cameraSaw) \in Nat /\ Len(shadowSaw) \in Nat
  BY <1>1, TimelineIs
<1>3. /\ cameraIndex \in Nat /\ 1 <= cameraIndex /\ cameraIndex <= Len(cameraSaw) + 1
      /\ shadowIndex \in Nat /\ 1 <= shadowIndex /\ shadowIndex <= Len(shadowSaw) + 1
  BY <1>2 DEF MatchTyped
<1> QED
  BY <1>1, <1>2, <1>3, TimelineIs

LEMMA PairsCounted ==
  ASSUME MatchTyped, PairsInv, NEW C \in SUBSET (1..Len(cameraSaw))
  PROVE  /\ IsFiniteSet(pairs) /\ Cardinality(pairs) \in Nat
         /\ Spare(cameraSaw, shadowSaw, C) <= Len(cameraSaw) - Cardinality(pairs)
         /\ Spare(cameraSaw, shadowSaw, C) \in Int
<1>1. cameraSaw \in Timelines /\ shadowSaw \in Timelines
  BY DEF MatchTyped
<1>2. pairs \subseteq (1..Len(cameraSaw)) \X (1..Len(shadowSaw))
  <2>1. 1..cameraIndex - 1 \subseteq 1..Len(cameraSaw) /\ 1..shadowIndex - 1 \subseteq 1..Len(shadowSaw)
    BY Fingers
  <2> QED
    BY <2>1 DEF MatchTyped
<1>3. Spare(cameraSaw, shadowSaw, C) \in Int
  <2>1. Cardinality(C) \in Nat
    BY Fingers, UpTo
  <2>2. Cardinality(ReachedFrom(cameraSaw, shadowSaw, C)) \in Nat
    BY <1>1, ReachedIs
  <2> QED
    BY <2>1, <2>2 DEF Spare
<1>4. /\ \A p, q \in pairs : p # q => p[1] # q[1] /\ p[2] # q[2]
      /\ \A p \in pairs : Pairing(cameraSaw, shadowSaw, p[1], p[2])
  BY DEF PairsInv
<1> QED
  BY <1>1, <1>2, <1>3, <1>4, NoMoreThan

LEMMA PairsFinite ==
  ASSUME MatchTyped, PairsInv
  PROVE  IsFiniteSet(pairs) /\ Cardinality(pairs) \in Nat
<1>1. {} \in SUBSET (1..Len(cameraSaw))
  OBVIOUS
<1> QED
  BY <1>1, PairsCounted

(* A camera observation that is too early for the shadow observation in turn    *)
(* reaches only those before it.                                                *)
LEMMA CameraSkips ==
  ASSUME MatchInv, CameraSkipped
  PROVE  MatchInv'
<1>0. /\ cameraIndex <= Len(cameraSaw) /\ shadowIndex <= Len(shadowSaw)
      /\ cameraSaw[cameraIndex] + PairWindow < shadowSaw[shadowIndex]
      /\ cameraIndex' = cameraIndex + 1 /\ cameraSaw' = cameraSaw /\ shadowSaw' = shadowSaw
      /\ shadowIndex' = shadowIndex /\ pairs' = pairs
  BY DEF CameraSkipped, Walking, TooEarly, CameraTime, ShadowTime, sawVars
<1>1. MatchTyped /\ PairsInv /\ PairWindow \in Nat /\ cameraSaw \in Timelines /\ shadowSaw \in Timelines
  BY MatchAssumption DEF MatchInv, MatchTyped
<1>2. Cardinality(pairs) \in Nat
  BY <1>1, PairsFinite
<1>3. MatchTyped'
  <2>1. cameraIndex' \in 1..Len(cameraSaw) + 1
    BY <1>0, <1>1, Fingers
  <2>2. 1..cameraIndex - 1 \subseteq 1..cameraIndex' - 1
    BY <1>0, <1>1, Fingers
  <2>3. pairs' \subseteq (1..cameraIndex' - 1) \X (1..shadowIndex' - 1)
    BY <1>0, <1>1, <2>2 DEF MatchTyped
  <2> QED
    BY <1>0, <1>1, <2>1, <2>3 DEF MatchTyped
<1>4. PairsInv'
  BY <1>0, <1>1 DEF PairsInv
<1>5. PICK k \in 1..cameraIndex, b \in 1..shadowIndex :
        /\ \A c \in DOMAIN cameraSaw, s \in DOMAIN shadowSaw :
             c >= k /\ Pairing(cameraSaw, shadowSaw, c, s) => s >= b
        /\ \E C \in SUBSET (1..k - 1) :
             /\ ReachedFrom(cameraSaw, shadowSaw, C) \subseteq 1..b - 1
             /\ Spare(cameraSaw, shadowSaw, C) >= (k - 1) - (Cardinality(pairs) - (shadowIndex - b))
  BY DEF MatchInv, SinceSkip
<1>6. PICK C \in SUBSET (1..k - 1) :
             /\ ReachedFrom(cameraSaw, shadowSaw, C) \subseteq 1..b - 1
             /\ Spare(cameraSaw, shadowSaw, C) >= (k - 1) - (Cardinality(pairs) - (shadowIndex - b))
  BY <1>5
<1>7. k \in Nat /\ 1 <= k /\ k <= cameraIndex /\ b \in Nat /\ 1 <= b /\ b <= shadowIndex
      /\ cameraIndex \in Nat /\ shadowIndex \in Nat
  BY <1>1, Fingers
<1>8. \A c \in k..cameraIndex, s \in DOMAIN shadowSaw :
        Pairing(cameraSaw, shadowSaw, c, s) => s \in b..shadowIndex - 1
  <2> SUFFICES ASSUME NEW c \in k..cameraIndex, NEW s \in DOMAIN shadowSaw,
                      Pairing(cameraSaw, shadowSaw, c, s)
               PROVE  s \in b..shadowIndex - 1
    OBVIOUS
  <2>1. c \in 1..Len(cameraSaw) /\ s \in 1..Len(shadowSaw) /\ cameraIndex \in 1..Len(cameraSaw)
        /\ shadowIndex \in 1..Len(shadowSaw) /\ c <= cameraIndex /\ c >= k
    BY <1>0, <1>1, <1>7, Fingers
  <2>2. s >= b
    BY <1>1, <1>5, <2>1, Fingers
  <2>3. cameraSaw[c] <= cameraSaw[cameraIndex] /\ shadowSaw[s] <= cameraSaw[c] + PairWindow
    BY <1>1, <2>1, Fingers DEF Pairing
  <2>4. cameraSaw[c] \in Nat /\ cameraSaw[cameraIndex] \in Nat /\ shadowSaw[s] \in Nat /\ shadowSaw[shadowIndex] \in Nat
    BY <1>1, <2>1, Fingers
  <2>5. shadowSaw[s] < shadowSaw[shadowIndex]
    <3> DEFINE x == cameraSaw[c]
               y == cameraSaw[cameraIndex]
               u == shadowSaw[s]
               v == shadowSaw[shadowIndex]
    <3>1. x \in Nat /\ y \in Nat /\ u \in Nat /\ v \in Nat /\ PairWindow \in Nat
      BY <1>1, <2>4
    <3>2. x <= y /\ u <= x + PairWindow /\ y + PairWindow < v
      BY <1>0, <2>3
    <3> HIDE DEF x, y, u, v
    <3>3. u < v
      BY <3>1, <3>2
    <3> QED
      BY <3>3 DEF u, v
  <2>6. ~(shadowIndex <= s)
    <3> SUFFICES ASSUME shadowIndex <= s PROVE FALSE
      OBVIOUS
    <3>1. shadowSaw[shadowIndex] <= shadowSaw[s]
      BY <1>1, <2>1, Fingers
    <3> QED
      BY <2>4, <2>5, <3>1
  <2> QED
    BY <1>7, <2>1, <2>2, <2>6
<1>9. Explained'
  <2> DEFINE D == C \cup (k..cameraIndex)
             x == Spare(cameraSaw, shadowSaw, C)
             y == Spare(cameraSaw, shadowSaw, D)
             n == Cardinality(pairs)
  <2>1. k <= cameraIndex + 1
    BY <1>7
  <2>2. /\ D \in SUBSET (1..cameraIndex) /\ ReachedFrom(cameraSaw, shadowSaw, D) \subseteq 1..shadowIndex - 1
        /\ y >= x + (cameraIndex - k + 1) - (shadowIndex - b)
    <3>1. /\ k \in Nat /\ cameraIndex \in Nat /\ 1 <= k /\ k <= cameraIndex + 1 /\ cameraIndex <= Len(cameraSaw)
          /\ b \in Nat /\ shadowIndex \in Nat /\ 1 <= b /\ b <= shadowIndex
          /\ C \in SUBSET (1..k - 1) /\ ReachedFrom(cameraSaw, shadowSaw, C) \subseteq 1..b - 1
          /\ cameraSaw \in Timelines /\ shadowSaw \in Timelines
      BY <1>0, <1>1, <1>6, <1>7, <2>1
    <3>2. /\ C \cup (k..cameraIndex) \in SUBSET (1..cameraIndex)
          /\ ReachedFrom(cameraSaw, shadowSaw, C \cup (k..cameraIndex)) \subseteq 1..shadowIndex - 1
          /\ Spare(cameraSaw, shadowSaw, C \cup (k..cameraIndex))
               >= Spare(cameraSaw, shadowSaw, C) + (cameraIndex - k + 1) - (shadowIndex - b)
      <4> HIDE DEF D, x, y
      <4> QED
        BY <1>8, <3>1, Widened
    <3> QED
      BY <3>2
  <2>3. x >= (k - 1) - (n - (shadowIndex - b)) /\ n \in Nat
    BY <1>2, <1>6
  <2>4. C \in SUBSET (1..Len(cameraSaw)) /\ D \in SUBSET (1..Len(cameraSaw))
    BY <1>0, <1>1, <1>7, <2>2, Fingers
  <2>5. x \in Int /\ y \in Int
    <3> HIDE DEF D
    <3> QED
      BY <1>1, <2>4, PairsCounted
  <2> HIDE DEF D, x, y, n
  <2>6. y >= cameraIndex - n
    BY <1>7, <2>2, <2>3, <2>5
  <2>7. cameraIndex' - 1 = cameraIndex
    BY <1>0, <1>7
  <2>8. D \in SUBSET (1..cameraIndex' - 1) /\ y >= (cameraIndex' - 1) - n
    BY <2>2, <2>6, <2>7
  <2>9. /\ ReachedFrom(cameraSaw', shadowSaw', D) \subseteq 1..shadowIndex' - 1
        /\ Spare(cameraSaw', shadowSaw', D) >= (cameraIndex' - 1) - Cardinality(pairs')
    BY <1>0, <2>2, <2>8 DEF y, n
  <2> QED
    BY <2>8, <2>9 DEF Explained
<1>10. SinceSkip'
  <2>1. k \in 1..cameraIndex'
    BY <1>0, <1>7
  <2> QED
    BY <1>0, <1>5, <2>1 DEF SinceSkip
<1> QED
  BY <1>3, <1>4, <1>9, <1>10 DEF MatchInv

(* A shadow observation that is too early for the camera observation in turn is *)
(* too early for those that follow.                                             *)
LEMMA ShadowSkips ==
  ASSUME MatchInv, ShadowSkipped
  PROVE  MatchInv'
<1>0. /\ cameraIndex <= Len(cameraSaw) /\ shadowIndex <= Len(shadowSaw)
      /\ shadowSaw[shadowIndex] + PairWindow < cameraSaw[cameraIndex]
      /\ shadowIndex' = shadowIndex + 1 /\ cameraSaw' = cameraSaw /\ shadowSaw' = shadowSaw
      /\ cameraIndex' = cameraIndex /\ pairs' = pairs
  BY DEF ShadowSkipped, Walking, TooEarly, CameraTime, ShadowTime, sawVars
<1>1. MatchTyped /\ PairsInv /\ PairWindow \in Nat /\ cameraSaw \in Timelines /\ shadowSaw \in Timelines
  BY MatchAssumption DEF MatchInv, MatchTyped
<1>2. Cardinality(pairs) \in Nat
  BY <1>1, PairsFinite
<1>7. cameraIndex \in Nat /\ shadowIndex \in Nat /\ 1 <= cameraIndex /\ 1 <= shadowIndex
  BY <1>1, Fingers
<1>3. MatchTyped'
  <2>1. shadowIndex' \in 1..Len(shadowSaw) + 1
    BY <1>0, <1>1, Fingers
  <2>2. 1..shadowIndex - 1 \subseteq 1..shadowIndex' - 1
    BY <1>0, <1>7
  <2>3. pairs' \subseteq (1..cameraIndex' - 1) \X (1..shadowIndex' - 1)
    BY <1>0, <1>1, <2>2 DEF MatchTyped
  <2> QED
    BY <1>0, <1>1, <2>1, <2>3 DEF MatchTyped
<1>4. PairsInv'
  BY <1>0, <1>1 DEF PairsInv
<1>5. PICK C \in SUBSET (1..cameraIndex - 1) :
        /\ ReachedFrom(cameraSaw, shadowSaw, C) \subseteq 1..shadowIndex - 1
        /\ Spare(cameraSaw, shadowSaw, C) >= (cameraIndex - 1) - Cardinality(pairs)
  BY DEF MatchInv, Explained
<1>6. ReachedFrom(cameraSaw', shadowSaw', C) \subseteq 1..shadowIndex' - 1
  <2>1. 1..shadowIndex - 1 \subseteq 1..shadowIndex' - 1
    BY <1>0, <1>7
  <2> QED
    BY <1>0, <1>5, <2>1
<1>9. Explained'
  BY <1>0, <1>5, <1>6 DEF Explained
<1>8. \A c \in DOMAIN cameraSaw, s \in DOMAIN shadowSaw :
        c >= cameraIndex /\ Pairing(cameraSaw, shadowSaw, c, s) => s >= shadowIndex'
  <2> SUFFICES ASSUME NEW c \in DOMAIN cameraSaw, NEW s \in DOMAIN shadowSaw,
                      c >= cameraIndex, Pairing(cameraSaw, shadowSaw, c, s)
               PROVE  s >= shadowIndex'
    OBVIOUS
  <2>1. c \in 1..Len(cameraSaw) /\ s \in 1..Len(shadowSaw) /\ cameraIndex \in 1..Len(cameraSaw)
        /\ shadowIndex \in 1..Len(shadowSaw)
    BY <1>0, <1>1, <1>7, Fingers
  <2>2. c \in Nat /\ s \in Nat
    BY <1>1, <2>1, Fingers
  <2>3. cameraSaw[cameraIndex] <= cameraSaw[c] /\ cameraSaw[c] <= shadowSaw[s] + PairWindow
    BY <1>1, <1>7, <2>1, <2>2, Fingers DEF Pairing
  <2>4. cameraSaw[c] \in Nat /\ cameraSaw[cameraIndex] \in Nat /\ shadowSaw[s] \in Nat /\ shadowSaw[shadowIndex] \in Nat
    BY <1>1, <2>1, Fingers
  <2>5. shadowSaw[shadowIndex] < shadowSaw[s]
    BY <1>0, <1>1, <2>3, <2>4
  <2>6. ~(s <= shadowIndex)
    <3> SUFFICES ASSUME s <= shadowIndex PROVE FALSE
      OBVIOUS
    <3>1. shadowSaw[s] <= shadowSaw[shadowIndex]
      BY <1>1, <2>1, Fingers
    <3> QED
      BY <2>4, <2>5, <3>1
  <2> QED
    BY <1>0, <1>7, <2>2, <2>6
<1>10. SinceSkip'
  <2>1. cameraIndex \in 1..cameraIndex' /\ shadowIndex' \in 1..shadowIndex'
    BY <1>0, <1>7
  <2>2. Cardinality(pairs') - (shadowIndex' - shadowIndex') = Cardinality(pairs')
    BY <1>0, <1>2, <1>7
  <2>3. Spare(cameraSaw', shadowSaw', C) >= (cameraIndex - 1) - (Cardinality(pairs') - (shadowIndex' - shadowIndex'))
    BY <1>0, <1>5, <2>2
  <2>4. \A c \in DOMAIN cameraSaw', s \in DOMAIN shadowSaw' :
          c >= cameraIndex /\ Pairing(cameraSaw', shadowSaw', c, s) => s >= shadowIndex'
    BY <1>0, <1>8
  <2> QED
    BY <1>5, <1>6, <2>1, <2>3, <2>4 DEF SinceSkip
<1> QED
  BY <1>3, <1>4, <1>9, <1>10 DEF MatchInv

LEMMA Pairs ==
  ASSUME MatchInv, Paired
  PROVE  MatchInv'
<1> DEFINE new == <<cameraIndex, shadowIndex>>
<1>0. /\ cameraIndex <= Len(cameraSaw) /\ shadowIndex <= Len(shadowSaw)
      /\ ~(cameraSaw[cameraIndex] + PairWindow < shadowSaw[shadowIndex])
      /\ ~(shadowSaw[shadowIndex] + PairWindow < cameraSaw[cameraIndex])
      /\ pairs' = pairs \cup {new}
      /\ cameraIndex' = cameraIndex + 1 /\ shadowIndex' = shadowIndex + 1
      /\ cameraSaw' = cameraSaw /\ shadowSaw' = shadowSaw
  BY DEF Paired, Walking, TooEarly, CameraTime, ShadowTime, sawVars
<1>1. MatchTyped /\ PairsInv /\ PairWindow \in Nat /\ cameraSaw \in Timelines /\ shadowSaw \in Timelines
  BY MatchAssumption DEF MatchInv, MatchTyped
<1>7. cameraIndex \in Nat /\ shadowIndex \in Nat /\ 1 <= cameraIndex /\ 1 <= shadowIndex
  BY <1>1, Fingers
<1>a. \A p \in pairs : p[1] \in 1..cameraIndex - 1 /\ p[2] \in 1..shadowIndex - 1 /\ p = <<p[1], p[2]>>
  BY <1>1 DEF MatchTyped
<1>b. \A p \in pairs : p[1] # cameraIndex /\ p[2] # shadowIndex
  BY <1>7, <1>a
<1>2. /\ IsFiniteSet(pairs) /\ Cardinality(pairs) \in Nat /\ Cardinality(pairs') = Cardinality(pairs) + 1
  <2>1. IsFiniteSet(pairs) /\ Cardinality(pairs) \in Nat
    BY <1>1, PairsFinite
  <2>2. new \notin pairs
    BY <1>b
  <2> HIDE DEF new
  <2> QED
    BY <1>0, <2>1, <2>2, FS_AddElement
<1>3. MatchTyped'
  <2>1. cameraIndex' \in 1..Len(cameraSaw) + 1 /\ shadowIndex' \in 1..Len(shadowSaw) + 1
    BY <1>0, <1>1, Fingers
  <2>2. /\ 1..shadowIndex - 1 \subseteq 1..shadowIndex' - 1 /\ 1..cameraIndex - 1 \subseteq 1..cameraIndex' - 1
        /\ cameraIndex \in 1..cameraIndex' - 1 /\ shadowIndex \in 1..shadowIndex' - 1
    BY <1>0, <1>7
  <2>3. pairs' \subseteq (1..cameraIndex' - 1) \X (1..shadowIndex' - 1)
    BY <1>0, <1>1, <2>2 DEF MatchTyped
  <2> QED
    BY <1>0, <1>1, <2>1, <2>3 DEF MatchTyped
<1>4. PairsInv'
  <2>1. Pairing(cameraSaw, shadowSaw, cameraIndex, shadowIndex)
    <3>1. cameraIndex \in 1..Len(cameraSaw) /\ shadowIndex \in 1..Len(shadowSaw)
      BY <1>0, <1>1, <1>7, Fingers
    <3>2. cameraSaw[cameraIndex] \in Nat /\ shadowSaw[shadowIndex] \in Nat
      BY <1>1, <3>1, Fingers
    <3> QED
      BY <1>0, <1>1, <3>2 DEF Pairing
  <2>2. new[1] = cameraIndex /\ new[2] = shadowIndex
    OBVIOUS
  <2> HIDE DEF new
  <2>3. \A p \in pairs' : Pairing(cameraSaw, shadowSaw, p[1], p[2])
    BY <1>0, <1>1, <2>1, <2>2 DEF PairsInv
  <2>4. \A p, q \in pairs' : p # q => p[1] # q[1] /\ p[2] # q[2]
    BY <1>0, <1>1, <1>b, <2>2 DEF PairsInv
  <2> QED
    BY <1>0, <2>3, <2>4 DEF PairsInv
<1>9. Explained'
  <2>1. PICK C \in SUBSET (1..cameraIndex - 1) :
        /\ ReachedFrom(cameraSaw, shadowSaw, C) \subseteq 1..shadowIndex - 1
        /\ Spare(cameraSaw, shadowSaw, C) >= (cameraIndex - 1) - Cardinality(pairs)
    BY DEF MatchInv, Explained
  <2>2. /\ 1..shadowIndex - 1 \subseteq 1..shadowIndex' - 1 /\ 1..cameraIndex - 1 \subseteq 1..cameraIndex' - 1
    BY <1>0, <1>7
  <2>3. (cameraIndex' - 1) - Cardinality(pairs') = (cameraIndex - 1) - Cardinality(pairs)
    BY <1>0, <1>2, <1>7
  <2>4. /\ C \in SUBSET (1..cameraIndex' - 1)
        /\ ReachedFrom(cameraSaw', shadowSaw', C) \subseteq 1..shadowIndex' - 1
        /\ Spare(cameraSaw', shadowSaw', C) >= (cameraIndex' - 1) - Cardinality(pairs')
    BY <1>0, <2>1, <2>2, <2>3
  <2> QED
    BY <2>4 DEF Explained
<1>10. SinceSkip'
  <2>1. PICK k \in 1..cameraIndex, b \in 1..shadowIndex :
        /\ \A c \in DOMAIN cameraSaw, s \in DOMAIN shadowSaw :
             c >= k /\ Pairing(cameraSaw, shadowSaw, c, s) => s >= b
        /\ \E C \in SUBSET (1..k - 1) :
             /\ ReachedFrom(cameraSaw, shadowSaw, C) \subseteq 1..b - 1
             /\ Spare(cameraSaw, shadowSaw, C) >= (k - 1) - (Cardinality(pairs) - (shadowIndex - b))
    BY DEF MatchInv, SinceSkip
  <2>2. k \in 1..cameraIndex' /\ b \in 1..shadowIndex'
    BY <1>0, <1>7
  <2>3. Cardinality(pairs') - (shadowIndex' - b) = Cardinality(pairs) - (shadowIndex - b)
    <3> DEFINE n == Cardinality(pairs)
               m == Cardinality(pairs')
    <3>1. n \in Nat /\ m = n + 1 /\ shadowIndex' = shadowIndex + 1 /\ b \in Nat /\ shadowIndex \in Nat
      BY <1>0, <1>2, <1>7
    <3> HIDE DEF n, m
    <3>2. m - (shadowIndex' - b) = n - (shadowIndex - b)
      BY <3>1
    <3> QED
      BY <3>2 DEF n, m
  <2>4. /\ \A c \in DOMAIN cameraSaw', s \in DOMAIN shadowSaw' :
             c >= k /\ Pairing(cameraSaw', shadowSaw', c, s) => s >= b
        /\ \E C \in SUBSET (1..k - 1) :
             /\ ReachedFrom(cameraSaw', shadowSaw', C) \subseteq 1..b - 1
             /\ Spare(cameraSaw', shadowSaw', C) >= (k - 1) - (Cardinality(pairs') - (shadowIndex' - b))
    BY <1>0, <2>1, <2>3
  <2> QED
    BY <2>2, <2>4 DEF SinceSkip
<1> QED
  BY <1>3, <1>4, <1>9, <1>10 DEF MatchInv

LEMMA MatchStep ==
  ASSUME MatchInv, [MatchNext]_matchVars
  PROVE  MatchInv'
<1>1. CASE CameraSkipped
  BY <1>1, CameraSkips
<1>2. CASE ShadowSkipped
  BY <1>2, ShadowSkips
<1>3. CASE Paired
  BY <1>3, Pairs
<1>4. CASE UNCHANGED matchVars
  <2>1. UNCHANGED <<cameraSaw, shadowSaw, cameraIndex, shadowIndex, pairs>>
    BY <1>4 DEF matchVars, sawVars
  <2> QED
    BY <2>1 DEF MatchInv, MatchTyped, PairsInv, Explained, SinceSkip
<1> QED
  BY <1>1, <1>2, <1>3, <1>4 DEF MatchNext

(* When the walk is over, what was left unmatched cannot be matched.            *)
LEMMA WalkOver ==
  ASSUME MatchInv, ~Walking
  PROVE  \E C \in SUBSET (1..Len(cameraSaw)) :
           Spare(cameraSaw, shadowSaw, C) >= Len(cameraSaw) - Cardinality(pairs)
<1>1. MatchTyped /\ PairsInv /\ cameraSaw \in Timelines /\ shadowSaw \in Timelines
  BY DEF MatchInv, MatchTyped
<1>2. /\ cameraIndex \in Nat /\ 1 <= cameraIndex /\ cameraIndex <= Len(cameraSaw) + 1
      /\ shadowIndex \in Nat /\ 1 <= shadowIndex /\ shadowIndex <= Len(shadowSaw) + 1
      /\ Len(cameraSaw) \in Nat /\ Len(shadowSaw) \in Nat
      /\ DOMAIN cameraSaw = 1..Len(cameraSaw) /\ DOMAIN shadowSaw = 1..Len(shadowSaw)
  BY <1>1, Fingers
<1>3. CASE ~(cameraIndex <= Len(cameraSaw))
  <2>1. cameraIndex = Len(cameraSaw) + 1
    BY <1>2, <1>3
  <2>2. cameraIndex - 1 = Len(cameraSaw)
    BY <1>2, <2>1
  <2> QED
    BY <2>2 DEF MatchInv, Explained
<1>4. CASE cameraIndex <= Len(cameraSaw) /\ ~(shadowIndex <= Len(shadowSaw))
  <2> DEFINE N == Len(cameraSaw)
             n == Cardinality(pairs)
  <2>1. shadowIndex = Len(shadowSaw) + 1
    BY <1>2, <1>4
  <2>2. PICK k \in 1..cameraIndex, b \in 1..shadowIndex :
          /\ \A c \in DOMAIN cameraSaw, s \in DOMAIN shadowSaw :
               c >= k /\ Pairing(cameraSaw, shadowSaw, c, s) => s >= b
          /\ \E C \in SUBSET (1..k - 1) :
               /\ ReachedFrom(cameraSaw, shadowSaw, C) \subseteq 1..b - 1
               /\ Spare(cameraSaw, shadowSaw, C) >= (k - 1) - (Cardinality(pairs) - (shadowIndex - b))
    BY DEF MatchInv, SinceSkip
  <2>3. PICK C \in SUBSET (1..k - 1) :
               /\ ReachedFrom(cameraSaw, shadowSaw, C) \subseteq 1..b - 1
               /\ Spare(cameraSaw, shadowSaw, C) >= (k - 1) - (Cardinality(pairs) - (shadowIndex - b))
    BY <2>2
  <2> DEFINE D == C \cup (k..Len(cameraSaw))
             x == Spare(cameraSaw, shadowSaw, C)
             y == Spare(cameraSaw, shadowSaw, D)
  <2>4. k \in Nat /\ b \in Nat /\ 1 <= k /\ 1 <= b /\ k <= cameraIndex /\ b <= shadowIndex
    BY <1>2
  <2>5. ASSUME NEW c \in k..Len(cameraSaw), NEW s \in DOMAIN shadowSaw,
               Pairing(cameraSaw, shadowSaw, c, s)
        PROVE  s \in b..shadowIndex - 1
    <3>1. c \in DOMAIN cameraSaw /\ c >= k /\ s \in 1..Len(shadowSaw)
      BY <1>2, <2>4
    <3>2. s >= b
      BY <2>2, <2>5, <3>1
    <3> QED
      BY <1>2, <2>1, <2>4, <3>1, <3>2
  <2>6. /\ D \in SUBSET (1..Len(cameraSaw))
        /\ y >= x + (N - k + 1) - (shadowIndex - b)
    <3>1. /\ k \in Nat /\ N \in Nat /\ 1 <= k /\ k <= N + 1 /\ N <= Len(cameraSaw)
          /\ b \in Nat /\ shadowIndex \in Nat /\ 1 <= b /\ b <= shadowIndex
          /\ C \in SUBSET (1..k - 1) /\ ReachedFrom(cameraSaw, shadowSaw, C) \subseteq 1..b - 1
          /\ cameraSaw \in Timelines /\ shadowSaw \in Timelines
      BY <1>1, <1>2, <1>4, <2>3, <2>4
    <3>2. \A c \in k..N, s \in DOMAIN shadowSaw :
            Pairing(cameraSaw, shadowSaw, c, s) => s \in b..shadowIndex - 1
      BY <2>5
    <3>3. /\ C \cup (k..N) \in SUBSET (1..N)
          /\ ReachedFrom(cameraSaw, shadowSaw, C \cup (k..N)) \subseteq 1..shadowIndex - 1
          /\ Spare(cameraSaw, shadowSaw, C \cup (k..N))
               >= Spare(cameraSaw, shadowSaw, C) + (N - k + 1) - (shadowIndex - b)
      <4> HIDE DEF D, x, y, N
      <4> QED
        BY <3>1, <3>2, Widened
    <3> QED
      BY <3>3
  <2>7. C \in SUBSET (1..Len(cameraSaw))
    BY <1>2, <1>4, <2>4
  <2>8. x \in Int /\ y \in Int /\ n \in Nat /\ N \in Nat
    <3> HIDE DEF D
    <3> QED
      BY <1>1, <1>2, <2>6, <2>7, PairsCounted
  <2>9. x >= (k - 1) - (n - (shadowIndex - b))
    BY <2>3
  <2> HIDE DEF x, y, n, N, D
  <2>10. y >= N - n
    BY <1>2, <2>4, <2>6, <2>8, <2>9
  <2> QED
    BY <2>6, <2>10 DEF y, n, N
<1> QED
  BY <1>3, <1>4 DEF Walking

LEMMA MatchTypes == MatchInv => MatchIsLargest
<1> SUFFICES ASSUME MatchInv PROVE MatchIsLargest
  OBVIOUS
<1>1. MatchTyped /\ PairsInv /\ cameraSaw \in Timelines /\ shadowSaw \in Timelines
  BY DEF MatchInv, MatchTyped
<1>2. \A p, q \in pairs : p # q => p[1] # q[1] /\ p[2] # q[2]
  BY <1>1 DEF PairsInv
<1>3. \A p \in pairs : Compatible(p[1], p[2])
  BY <1>1 DEF PairsInv, Pairing, Compatible
<1>4. ASSUME ~Walking PROVE Cardinality(pairs) = LargestMatching
  <2> DEFINE N == Len(cameraSaw)
             n == Cardinality(pairs)
             spare(C) == Cardinality(C) - Cardinality(Reachable(C))
             deficits == {spare(C) : C \in {D \in SUBSET DOMAIN cameraSaw :
                                              Cardinality(D) >= Cardinality(Reachable(D))}}
  <2>1. N \in Nat /\ DOMAIN cameraSaw = 1..N /\ n \in Nat
    BY <1>1, Fingers, PairsFinite
  <2>2. \A C : Reachable(C) = ReachedFrom(cameraSaw, shadowSaw, C)
    BY DEF Reachable, ReachedFrom, Compatible, Pairing
  <2>3. ASSUME NEW C \in SUBSET (1..N)
        PROVE  /\ Cardinality(C) \in Nat /\ Cardinality(Reachable(C)) \in Nat
               /\ spare(C) = Spare(cameraSaw, shadowSaw, C) /\ spare(C) \in Int /\ spare(C) <= N - n
    <3>1. Cardinality(C) \in Nat
      BY <2>1, UpTo
    <3>2. Cardinality(Reachable(C)) \in Nat
      BY <1>1, <2>2, ReachedIs
    <3>3. spare(C) = Spare(cameraSaw, shadowSaw, C)
      BY <2>2 DEF Spare
    <3>4. Spare(cameraSaw, shadowSaw, C) <= N - n /\ Spare(cameraSaw, shadowSaw, C) \in Int
      BY <1>1, PairsCounted
    <3> QED
      BY <3>1, <3>2, <3>3, <3>4
  <2>4. PICK C \in SUBSET (1..N) : Spare(cameraSaw, shadowSaw, C) >= N - n
    BY <1>4, WalkOver
  <2>5. spare(C) = N - n
    <3> DEFINE x == spare(C)
    <3>1. x \in Int /\ x <= N - n /\ x >= N - n
      BY <2>3, <2>4
    <3> HIDE DEF x, N, n
    <3>2. x = N - n
      BY <2>1, <3>1
    <3> QED
      BY <3>2 DEF x
  <2>6. spare({}) <= N - n /\ spare({}) = 0
    <3>1. {} \in SUBSET (1..N) /\ Reachable({}) = {} /\ Cardinality({}) = 0
      BY FS_EmptySet DEF Reachable
    <3> QED
      BY <2>3, <3>1
  <2>7. Cardinality(C) >= Cardinality(Reachable(C))
    <3> DEFINE a == Cardinality(C)
               r == Cardinality(Reachable(C))
    <3>1. a \in Nat /\ r \in Nat /\ a - r = N - n /\ N - n >= 0
      BY <2>1, <2>3, <2>5, <2>6
    <3> HIDE DEF a, r, N, n
    <3>2. a >= r
      BY <2>1, <3>1
    <3> QED
      BY <3>2 DEF a, r
  <2>8. spare(C) \in deficits
    BY <2>1, <2>7
  <2>9. \A e \in deficits : e \in Int /\ e <= N - n
    BY <2>1, <2>3
  <2> HIDE DEF deficits, spare, N, n
  <2>10. (CHOOSE d \in deficits : \A e \in deficits : e <= d) = N - n
    <3>1. N - n \in deficits /\ \A e \in deficits : e <= N - n
      BY <2>5, <2>8, <2>9
    <3> DEFINE m == CHOOSE d \in deficits : \A e \in deficits : e <= d
    <3>2. m \in deficits /\ \A e \in deficits : e <= m
      BY <3>1
    <3> HIDE DEF m
    <3>3. m \in Int /\ N - n \in Int /\ m <= N - n /\ N - n <= m
      BY <2>1, <2>9, <3>1, <3>2
    <3>4. m = N - n
      BY <3>3
    <3> QED
      BY <3>4 DEF m
  <2>11. LargestMatching = N - (CHOOSE d \in deficits : \A e \in deficits : e <= d)
    BY DEF LargestMatching, deficits, spare, N
  <2>12. LargestMatching = n
    <3>1. LargestMatching = N - (N - n)
      BY <2>10, <2>11
    <3> QED
      BY <2>1, <3>1
  <2> QED
    BY <2>12 DEF n
<1> QED
  BY <1>2, <1>3, <1>4 DEF MatchIsLargest

(* The walk over the two timelines matches each event once, within the window,   *)
(* and no pairing matches more, for timelines of any length (ledger.py).         *)
THEOREM MatchIsLargestCorrect == MatchSpec => []MatchIsLargest
<1>1. MatchInit => MatchInv
  BY MatchInitInv
<1>2. MatchInv /\ [MatchNext]_matchVars => MatchInv'
  BY MatchStep
<1> QED
  BY <1>1, <1>2, MatchTypes, PTL DEF MatchSpec
----------------------------------------------------------------------------
(* Incidents *)

WalkFrames == [ts : Nat, id : VisitIds \cup {NoId}, label : Labels, source : Sources]
VisitRecords == [id : VisitIds \cup {NoId}, frames : SUBSET Nat, last : Nat]

VisitsTyped ==
  /\ walk \in Seq(WalkFrames) /\ visits \in Seq(VisitRecords)
  /\ byId \in [VisitIds -> Nat] /\ visitNow \in Nat
SortedInv == \A m, n \in 1..Len(walk) : m <= n => walk[m].ts <= walk[n].ts

\* The incidents share the frames out among them.
SharedInv ==
  /\ \A v \in 1..Len(visits) : visits[v].frames \subseteq 1..Len(walk) /\ visits[v].frames # {}
  /\ \A n \in 1..Len(walk) : \E v \in 1..Len(visits) : n \in visits[v].frames
  /\ \A v, w \in 1..Len(visits) : v # w => visits[v].frames \cap visits[w].frames = {}

\* An incident's id is that of its frames that name one, and leads back to it.
NamedInv ==
  /\ \A v \in 1..Len(visits) : \A n \in visits[v].frames :
       walk[n].id # NoId => walk[n].id = visits[v].id
  /\ \A v \in 1..Len(visits) : visits[v].id # NoId => byId[visits[v].id] = v
  /\ \A i \in VisitIds : byId[i] # 0 => byId[i] \in 1..Len(visits) /\ visits[byId[i]].id = i

\* The incident of the last frame ends with it, and none ends later.
NowInv ==
  /\ walk = <<>> => visitNow = 0 /\ visits = <<>>
  /\ walk # <<>> =>
       /\ visitNow \in 1..Len(visits) /\ Len(walk) \in visits[visitNow].frames
       /\ visits[visitNow].last = walk[Len(walk)].ts
       /\ \A v \in 1..Len(visits) : visits[v].last <= walk[Len(walk)].ts

Together(vs, m, n) == \E v \in 1..Len(vs) : m \in vs[v].frames /\ n \in vs[v].frames
NextTo ==
  \A n \in 1..Len(walk) :
    n > 1 /\ walk[n].id = NoId =>
      (Together(visits, n - 1, n) <=> walk[n].ts - walk[n - 1].ts <= VisitGap)

VisitsInv == VisitsTyped /\ SortedInv /\ SharedInv /\ NamedInv /\ NowInv /\ NextTo

LEMMA VisitSizes ==
  ASSUME VisitsTyped
  PROVE  /\ Len(walk) \in Nat /\ Len(visits) \in Nat
         /\ DOMAIN walk = 1..Len(walk) /\ DOMAIN visits = 1..Len(visits)
         /\ walk # <<>> <=> Len(walk) > 0
         /\ \A n \in 1..Len(walk) : walk[n] \in WalkFrames /\ walk[n].ts \in Nat
         /\ \A v \in 1..Len(visits) : visits[v] \in VisitRecords /\ visits[v].last \in Nat
<1>1. walk \in Seq(WalkFrames) /\ visits \in Seq(VisitRecords)
  BY DEF VisitsTyped
<1>2. /\ Len(walk) \in Nat /\ Len(visits) \in Nat
      /\ DOMAIN walk = 1..Len(walk) /\ DOMAIN visits = 1..Len(visits)
  BY <1>1
<1>3. walk # <<>> <=> Len(walk) > 0
  BY <1>1, EmptySeq
<1>4. \A n \in 1..Len(walk) : walk[n] \in WalkFrames
  BY <1>1
<1>5. \A v \in 1..Len(visits) : visits[v] \in VisitRecords
  BY <1>1
<1>6. \A w \in WalkFrames : w.ts \in Nat
  BY DEF WalkFrames
<1>7. \A w \in VisitRecords : w.last \in Nat
  BY DEF VisitRecords
<1> QED
  BY <1>2, <1>3, <1>4, <1>5, <1>6, <1>7

LEMMA VisitTypes == VisitsInv => VisitsAreWhole
<1> SUFFICES ASSUME VisitsInv PROVE VisitsAreWhole
  OBVIOUS
<1>1. VisitsTyped /\ SortedInv /\ SharedInv /\ NamedInv /\ NowInv /\ NextTo
  BY DEF VisitsInv
<1>2. /\ Len(walk) \in Nat /\ Len(visits) \in Nat
      /\ DOMAIN walk = 1..Len(walk) /\ DOMAIN visits = 1..Len(visits)
      /\ \A n \in 1..Len(walk) : walk[n] \in WalkFrames /\ walk[n].ts \in Nat
  BY <1>1, VisitSizes
<1>3. UNION {visits[v].frames : v \in DOMAIN visits} = DOMAIN walk
  <2>1. \A v \in DOMAIN visits : visits[v].frames \subseteq DOMAIN walk
    BY <1>1, <1>2 DEF SharedInv
  <2>2. \A n \in DOMAIN walk : \E v \in DOMAIN visits : n \in visits[v].frames
    BY <1>1, <1>2 DEF SharedInv
  <2> QED
    BY <2>1, <2>2
<1>4. \A v, w \in DOMAIN visits : v # w => visits[v].frames \cap visits[w].frames = {}
  BY <1>1, <1>2 DEF SharedInv
<1>5. ASSUME NEW m \in DOMAIN walk, NEW n \in DOMAIN walk, walk[m].id # NoId, walk[n].id # NoId
      PROVE  SameVisit(m, n) <=> walk[m].id = walk[n].id
  <2>1. ASSUME SameVisit(m, n) PROVE walk[m].id = walk[n].id
    <3>1. PICK v \in DOMAIN visits : {m, n} \subseteq visits[v].frames
      BY <2>1 DEF SameVisit
    <3>2. walk[m].id = visits[v].id /\ walk[n].id = visits[v].id
      BY <1>1, <1>2, <1>5, <3>1 DEF NamedInv
    <3> QED
      BY <3>2
  <2>2. ASSUME walk[m].id = walk[n].id PROVE SameVisit(m, n)
    <3>1. PICK v \in 1..Len(visits) : m \in visits[v].frames
      BY <1>1, <1>2 DEF SharedInv
    <3>2. PICK w \in 1..Len(visits) : n \in visits[w].frames
      BY <1>1, <1>2 DEF SharedInv
    <3>3. walk[m].id = visits[v].id /\ walk[n].id = visits[w].id
      BY <1>1, <1>2, <1>5, <3>1, <3>2 DEF NamedInv
    <3>4. byId[visits[v].id] = v /\ byId[visits[w].id] = w
      BY <1>1, <1>5, <3>3 DEF NamedInv
    <3>5. v = w
      BY <2>2, <3>3, <3>4
    <3> QED
      BY <1>2, <3>1, <3>2, <3>5 DEF SameVisit
  <2> QED
    BY <2>1, <2>2
<1>6. ASSUME NEW n \in DOMAIN walk, n > 1, walk[n].id = NoId
      PROVE  SameVisit(n - 1, n) <=> walk[n].ts - walk[n - 1].ts <= VisitGap
  <2>1. SameVisit(n - 1, n) <=> Together(visits, n - 1, n)
    BY <1>2 DEF SameVisit, Together
  <2> QED
    BY <1>1, <1>2, <1>6, <2>1 DEF NextTo
<1>7. \A v \in MissedVisits : \A n \in visits[v].frames : walk[n].source # "delivered"
  BY DEF MissedVisits, Alerted, Delivered
<1>8. ASSUME NEW v \in FalseAlarms, NEW n \in visits[v].frames PROVE walk[n].label # "person"
  <2> DEFINE labels == {walk[i].label : i \in visits[v].frames} \ {"unlabeled"}
  <2>1. Status(visits[v]) = "no_person"
    BY DEF FalseAlarms
  <2>2. "person" \notin labels
    <3> SUFFICES ASSUME "person" \in labels PROVE FALSE
      OBVIOUS
    <3>1. Status(visits[v]) = "person"
      BY DEF Status
    <3> QED
      BY <2>1, <3>1
  <2> QED
    BY <2>2
<1>9. ASSUME NEW v \in DOMAIN visits, Alerted(visits[v]) PROVE Delay(visits[v]) >= 0
  <2> DEFINE F == visits[v].frames
             D == Delivered(visits[v])
             first == Earliest(F)
             alertAt == Earliest(D)
  <2>1. F \subseteq 1..Len(walk) /\ D \subseteq F /\ D # {} /\ F # {}
    BY <1>1, <1>2, <1>9 DEF SharedInv, Delivered, Alerted
  <2>2. F \subseteq Nat /\ D \subseteq Nat
    BY <1>2, <2>1
  <2> HIDE DEF F, D
  <2>3. first \in F /\ \A n \in F : first <= n
    <3>1. \E n \in F : \A m \in F : n <= m
      BY <2>1, <2>2, LeastNat
    <3> QED
      BY <3>1 DEF Earliest
  <2>4. alertAt \in D
    <3>1. \E n \in D : \A m \in D : n <= m
      BY <2>1, <2>2, LeastNat
    <3> QED
      BY <3>1 DEF Earliest
  <2>5. Delay(visits[v]) = walk[alertAt].ts - walk[first].ts
    BY DEF Delay, D, F
  <2> HIDE DEF alertAt, first
  <2>6. first <= alertAt /\ first \in 1..Len(walk) /\ alertAt \in 1..Len(walk)
    BY <2>1, <2>3, <2>4
  <2>7. walk[first].ts <= walk[alertAt].ts /\ walk[first].ts \in Nat /\ walk[alertAt].ts \in Nat
    BY <1>1, <1>2, <2>6 DEF SortedInv
  <2> QED
    BY <2>5, <2>7
<1> QED
  BY <1>3, <1>4, <1>5, <1>6, <1>7, <1>8, <1>9 DEF VisitsAreWhole

LEMMA VisitsInitInv ==
  ASSUME VisitsInit
  PROVE  VisitsInv
<1>1. walk = <<>> /\ visits = <<>> /\ byId = [i \in VisitIds |-> 0] /\ visitNow = 0
  BY DEF VisitsInit
<1>2. Len(walk) = 0 /\ Len(visits) = 0
  BY <1>1
<1>3. VisitsTyped
  BY <1>1 DEF VisitsTyped
<1>4. SortedInv /\ SharedInv /\ NowInv /\ NextTo
  BY <1>1, <1>2 DEF SortedInv, SharedInv, NowInv, NextTo
<1>5. NamedInv
  BY <1>1, <1>2 DEF NamedInv
<1> QED
  BY <1>3, <1>4, <1>5 DEF VisitsInv

(* The walk grows by a frame no earlier than the last.                          *)
LEMMA WalkGrows ==
  ASSUME VisitsInv, NEW f \in WalkFrames, walk # <<>> => walk[Len(walk)].ts <= f.ts,
         walk' = Append(walk, f)
  PROVE  /\ walk' \in Seq(WalkFrames) /\ Len(walk') = Len(walk) + 1 /\ walk' # <<>>
         /\ \A n \in 1..Len(walk) : walk'[n] = walk[n]
         /\ walk'[Len(walk) + 1] = f /\ walk'[Len(walk')] = f
         /\ 1..Len(walk') = (1..Len(walk)) \cup {Len(walk) + 1}
         /\ SortedInv'
<1>1. VisitsTyped /\ SortedInv
  BY DEF VisitsInv
<1>2. walk \in Seq(WalkFrames) /\ Len(walk) \in Nat
  BY <1>1 DEF VisitsTyped
<1>3. walk' \in Seq(WalkFrames) /\ Len(walk') = Len(walk) + 1 /\ walk' # <<>>
  BY <1>2
<1>4. \A n \in 1..Len(walk) : walk'[n] = walk[n]
  BY <1>2
<1>5. walk'[Len(walk) + 1] = f
  BY <1>2
<1>6. 1..Len(walk') = (1..Len(walk)) \cup {Len(walk) + 1}
  BY <1>2, <1>3
<1>7. SortedInv'
  <2> SUFFICES ASSUME NEW m \in 1..Len(walk'), NEW n \in 1..Len(walk'), m <= n
               PROVE  walk'[m].ts <= walk'[n].ts
    BY DEF SortedInv
  <2>0. f.ts \in Nat /\ \A i \in 1..Len(walk) : walk[i].ts \in Nat
    BY <1>1, VisitSizes DEF WalkFrames
  <2>1. CASE n \in 1..Len(walk)
    <3>1. m \in 1..Len(walk)
      BY <1>2, <2>1
    <3> QED
      BY <1>1, <1>4, <2>1, <3>1 DEF SortedInv
  <2>2. CASE n = Len(walk) + 1 /\ m \in 1..Len(walk)
    <3>1. Len(walk) \in 1..Len(walk) /\ walk # <<>> /\ m <= Len(walk)
      BY <1>2, <2>2
    <3>2. walk[m].ts <= walk[Len(walk)].ts /\ walk[Len(walk)].ts <= f.ts
      BY <1>1, <2>2, <3>1 DEF SortedInv
    <3>3. walk[m].ts <= f.ts
      BY <2>0, <2>2, <3>1, <3>2
    <3> QED
      BY <1>4, <1>5, <2>2, <3>3
  <2>3. CASE n = Len(walk) + 1 /\ m = Len(walk) + 1
    BY <1>5, <2>0, <2>3
  <2> QED
    BY <1>6, <2>1, <2>2, <2>3
<1> QED
  BY <1>3, <1>4, <1>5, <1>6, <1>7

(* A frame put into an incident, an old one or a new one, keeps the invariant. *)
LEMMA FramePlaced ==
  ASSUME VisitsInv, NEW f \in WalkFrames, walk # <<>> => walk[Len(walk)].ts <= f.ts,
         walk' = Append(walk, f), NEW at \in Nat, NEW old, NEW was, NEW now,
         visits' \in Seq(VisitRecords),
         \/ /\ at \in 1..Len(visits) /\ Len(visits') = Len(visits)
            /\ old = visits[at].frames /\ was = visits[at].id
         \/ /\ at = Len(visits) + 1 /\ Len(visits') = Len(visits) + 1
            /\ old = {} /\ was = NoId,
         \A v \in 1..Len(visits) : v # at => visits'[v] = visits[v],
         at \in 1..Len(visits'),
         visits'[at] = [id |-> now, frames |-> old \cup {Len(walk) + 1}, last |-> f.ts],
         now = IF f.id # NoId THEN f.id ELSE was,
         byId' = IF f.id = NoId THEN byId ELSE [byId EXCEPT ![f.id] = at],
         visitNow' = at,
         f.id # NoId => was \in {NoId, f.id} /\ byId[f.id] \in {0, at},
         f.id = NoId =>
           /\ NearCurrent(f) => at = visitNow
           /\ ~NearCurrent(f) => at = Len(visits) + 1,
         NoId \notin VisitIds
  PROVE  VisitsInv'
<1> DEFINE L == Len(walk)
           V == Len(visits)
<1>1. VisitsTyped /\ SortedInv /\ SharedInv /\ NamedInv /\ NowInv /\ NextTo
  BY DEF VisitsInv
<1>2. /\ L \in Nat /\ V \in Nat /\ (walk # <<>> <=> L > 0)
      /\ \A n \in 1..L : walk[n] \in WalkFrames /\ walk[n].ts \in Nat
      /\ \A v \in 1..V : visits[v] \in VisitRecords /\ visits[v].last \in Nat
  BY <1>1, VisitSizes
<1>3. /\ walk' \in Seq(WalkFrames) /\ Len(walk') = L + 1 /\ walk' # <<>>
      /\ \A n \in 1..L : walk'[n] = walk[n]
      /\ walk'[L + 1] = f /\ walk'[Len(walk')] = f
      /\ 1..Len(walk') = (1..L) \cup {L + 1}
      /\ SortedInv'
  BY WalkGrows
<1>4. f.ts \in Nat /\ f.id \in VisitIds \cup {NoId}
  BY DEF WalkFrames
<1>5. VisitsTyped'
  <2>1. byId' \in [VisitIds -> Nat]
    BY <1>1, <1>4 DEF VisitsTyped
  <2> QED
    BY <1>3, <2>1 DEF VisitsTyped
<1>6. /\ visits'[at].id = now /\ visits'[at].frames = old \cup {L + 1} /\ visits'[at].last = f.ts
  OBVIOUS
<1>7. \A v \in 1..Len(visits') : v = at \/ (v # at /\ v \in 1..V /\ visits'[v] = visits[v])
  BY <1>2
<1>8. 1..V \subseteq 1..Len(visits')
  BY <1>2
<1>9. \A v \in 1..V : L + 1 \notin visits[v].frames
  BY <1>1, <1>2 DEF SharedInv
<1>10. old \subseteq 1..L /\ (at \in 1..V => old = visits[at].frames /\ was = visits[at].id)
       /\ \A v \in 1..V : v # at => visits[v].frames \cap old = {}
  BY <1>1, <1>2 DEF SharedInv
<1>11. at \in 1..V \/ (at = V + 1 /\ at \notin 1..V /\ old = {} /\ was = NoId)
  BY <1>2
<1> HIDE DEF L, V
<1>12. L = Len(walk) /\ V = Len(visits)
  BY DEF L, V
<1>13. SharedInv'
  <2>1. ASSUME NEW v \in 1..Len(visits')
        PROVE  visits'[v].frames \subseteq 1..Len(walk') /\ visits'[v].frames # {}
    <3>1. CASE v = at
      BY <1>3, <1>6, <1>10, <3>1
    <3>2. CASE v # at
      <4>1. v \in 1..V /\ visits'[v] = visits[v]
        BY <1>7, <3>2
      <4> QED
        BY <1>1, <1>3, <1>12, <4>1 DEF SharedInv
    <3> QED
      BY <3>1, <3>2
  <2>2. ASSUME NEW n \in 1..Len(walk') PROVE \E v \in 1..Len(visits') : n \in visits'[v].frames
    <3>1. CASE n = L + 1
      BY <1>6, <3>1
    <3>2. CASE n \in 1..L
      <4>1. PICK v \in 1..V : n \in visits[v].frames
        BY <1>1, <1>12, <3>2 DEF SharedInv
      <4>2. v \in 1..Len(visits') /\ n \in visits'[v].frames
        <5>1. CASE v = at
          BY <1>6, <1>10, <1>8, <4>1, <5>1
        <5>2. CASE v # at
          BY <1>8, <1>12, <4>1, <5>2
        <5> QED
          BY <5>1, <5>2
      <4> QED
        BY <4>2
    <3> QED
      BY <1>3, <3>1, <3>2
  <2>3. ASSUME NEW v \in 1..Len(visits'), NEW w \in 1..Len(visits'), v # w
        PROVE  visits'[v].frames \cap visits'[w].frames = {}
    <3>1. CASE v # at /\ w # at
      <4>1. v \in 1..V /\ w \in 1..V /\ visits'[v] = visits[v] /\ visits'[w] = visits[w]
        BY <1>7, <3>1
      <4> QED
        BY <1>1, <1>12, <2>3, <4>1 DEF SharedInv
    <3>2. CASE v = at
      <4>1. w \in 1..V /\ w # at /\ visits'[w] = visits[w]
        BY <1>7, <2>3, <3>2
      <4> QED
        BY <1>6, <1>9, <1>10, <3>2, <4>1
    <3>3. CASE w = at
      <4>1. v \in 1..V /\ v # at /\ visits'[v] = visits[v]
        BY <1>7, <2>3, <3>3
      <4> QED
        BY <1>6, <1>9, <1>10, <3>3, <4>1
    <3> QED
      BY <3>1, <3>2, <3>3
  <2> QED
    BY <2>1, <2>2, <2>3 DEF SharedInv
<1>14. NamedInv'
  <2>1. ASSUME NEW v \in 1..Len(visits'), NEW n \in visits'[v].frames, walk'[n].id # NoId
        PROVE  walk'[n].id = visits'[v].id
    <3>1. CASE v # at
      <4>1. v \in 1..V /\ visits'[v] = visits[v]
        BY <1>7, <3>1
      <4>2. n \in visits[v].frames /\ n \in 1..L
        BY <1>1, <1>12, <2>1, <4>1 DEF SharedInv
      <4>3. walk'[n] = walk[n] /\ walk[n].id # NoId
        BY <1>3, <2>1, <4>2
      <4>4. walk[n].id = visits[v].id
        BY <1>1, <1>12, <4>1, <4>2, <4>3 DEF NamedInv
      <4> QED
        BY <4>1, <4>3, <4>4
    <3>2. CASE v = at /\ n = L + 1
      BY <1>3, <1>6, <2>1, <3>2
    <3>3. CASE v = at /\ n \in old
      <4>1. at \in 1..V /\ old = visits[at].frames /\ was = visits[at].id /\ n \in 1..L
        BY <1>10, <1>11, <3>3
      <4>2. walk'[n] = walk[n] /\ walk[n].id # NoId
        BY <1>3, <2>1, <4>1
      <4>3. walk[n].id = was
        BY <1>1, <1>12, <3>3, <4>1, <4>2 DEF NamedInv
      <4> QED
        BY <1>6, <3>3, <4>2, <4>3
    <3> QED
      BY <1>6, <2>1, <3>1, <3>2, <3>3
  <2>2. ASSUME NEW v \in 1..Len(visits'), visits'[v].id # NoId
        PROVE  byId'[visits'[v].id] = v
    <3>1. CASE v # at
      <4>1. v \in 1..V /\ visits'[v] = visits[v] /\ v # 0
        BY <1>7, <3>1
      <4>2. byId[visits[v].id] = v
        BY <1>1, <1>12, <2>2, <4>1 DEF NamedInv
      <4>3. CASE f.id = NoId
        BY <4>1, <4>2, <4>3
      <4>4. CASE f.id # NoId
        <5>1. visits[v].id # f.id
          BY <3>1, <4>1, <4>2, <4>4
        <5>2. visits[v].id \in VisitIds
          BY <1>2, <1>12, <2>2, <4>1 DEF VisitRecords
        <5> QED
          BY <1>1, <4>1, <4>2, <4>4, <5>1, <5>2 DEF VisitsTyped
      <4> QED
        BY <4>3, <4>4
    <3>2. CASE v = at /\ f.id # NoId
      BY <1>1, <1>4, <1>6, <3>2 DEF VisitsTyped
    <3>3. CASE v = at /\ f.id = NoId
      <4>1. was # NoId /\ visits'[v].id = was
        BY <1>6, <2>2, <3>3
      <4>2. at \in 1..V /\ was = visits[at].id
        BY <1>10, <1>11, <4>1
      <4>3. byId[visits[at].id] = at
        BY <1>1, <1>12, <4>1, <4>2 DEF NamedInv
      <4> QED
        BY <3>3, <4>1, <4>2, <4>3
    <3> QED
      BY <3>1, <3>2, <3>3
  <2>3. ASSUME NEW i \in VisitIds, byId'[i] # 0
        PROVE  byId'[i] \in 1..Len(visits') /\ visits'[byId'[i]].id = i
    <3>1. CASE f.id # NoId /\ i = f.id
      <4>1. byId'[i] = at
        BY <1>1, <1>4, <3>1 DEF VisitsTyped
      <4> QED
        BY <1>6, <3>1, <4>1
    <3>2. CASE ~(f.id # NoId /\ i = f.id)
      <4>1. byId'[i] = byId[i]
        BY <1>1, <1>4, <3>2 DEF VisitsTyped
      <4>2. byId[i] \in 1..V /\ visits[byId[i]].id = i
        BY <1>1, <1>12, <2>3, <4>1 DEF NamedInv
      <4>3. CASE byId[i] # at
        BY <1>8, <1>12, <4>1, <4>2, <4>3
      <4>4. CASE byId[i] = at
        <5>1. was = i
          BY <1>10, <4>2, <4>4
        <5>2. f.id = NoId
          BY <3>2, <5>1
        <5> QED
          BY <1>6, <1>8, <4>1, <4>2, <4>4, <5>1, <5>2
      <4> QED
        BY <4>3, <4>4
    <3> QED
      BY <3>1, <3>2
  <2> QED
    BY <2>1, <2>2, <2>3 DEF NamedInv
<1>15. NowInv'
  <2>1. ASSUME NEW v \in 1..Len(visits') PROVE visits'[v].last <= f.ts
    <3>1. CASE v = at
      BY <1>4, <1>6, <3>1
    <3>2. CASE v # at
      <4>1. v \in 1..V /\ visits'[v] = visits[v]
        BY <1>7, <3>2
      <4>2. walk # <<>>
        <5>1. walk = <<>> => V = 0
          BY <1>1, <1>12 DEF NowInv
        <5> QED
          BY <1>2, <4>1, <5>1
      <4>3. visits[v].last <= walk[L].ts /\ walk[L].ts <= f.ts
        BY <1>1, <1>12, <4>1, <4>2 DEF NowInv
      <4>5. L \in 1..L
        BY <1>2, <4>2
      <4>4. visits[v].last \in Nat /\ walk[L].ts \in Nat
        BY <1>2, <4>1, <4>5
      <4> QED
        BY <1>4, <4>1, <4>3, <4>4
    <3> QED
      BY <3>1, <3>2
  <2>2. visitNow' \in 1..Len(visits') /\ Len(walk') \in visits'[visitNow'].frames
        /\ visits'[visitNow'].last = f.ts
    BY <1>3, <1>6
  <2> QED
    BY <1>3, <2>1, <2>2 DEF NowInv
<1>16. NextTo'
  <2> SUFFICES ASSUME NEW n \in 1..Len(walk'), n > 1, walk'[n].id = NoId
               PROVE  (\E v \in 1..Len(visits') : n - 1 \in visits'[v].frames /\ n \in visits'[v].frames)
                        <=> walk'[n].ts - walk'[n - 1].ts <= VisitGap
    BY DEF NextTo, Together
  <2>0. n - 1 \in 1..L /\ walk'[n - 1] = walk[n - 1]
    BY <1>2, <1>3
  <2>1. CASE n \in 1..L
    <3>1. walk'[n] = walk[n]
      BY <1>3, <2>1
    <3>2. (\E v \in 1..V : n - 1 \in visits[v].frames /\ n \in visits[v].frames)
             <=> walk[n].ts - walk[n - 1].ts <= VisitGap
      BY <1>1, <1>12, <2>1, <3>1 DEF NextTo, Together
    <3>3. n # L + 1 /\ n - 1 # L + 1
      BY <1>2, <2>1
    <3>4. \A v \in 1..V : n - 1 \in visits'[v].frames <=> n - 1 \in visits[v].frames
      BY <1>6, <1>10, <1>12, <3>3
    <3>5. \A v \in 1..V : n \in visits'[v].frames <=> n \in visits[v].frames
      BY <1>6, <1>10, <1>12, <3>3
    <3>6. \A v \in 1..Len(visits') : v \in 1..V \/ n \notin visits'[v].frames
      BY <1>6, <1>7, <1>11, <3>3
    <3> QED
      BY <1>8, <2>0, <3>1, <3>2, <3>4, <3>5, <3>6
  <2>2. CASE n = L + 1
    <3>1. walk'[n] = f /\ f.id = NoId /\ n - 1 = L /\ L \in 1..L /\ walk # <<>>
      BY <1>2, <1>3, <2>0, <2>2
    <3>2. visitNow \in 1..V /\ L \in visits[visitNow].frames /\ visits[visitNow].last = walk[L].ts
      BY <1>1, <1>12, <3>1 DEF NowInv
    <3>3. NearCurrent(f) <=> f.ts - walk[L].ts <= VisitGap
      BY <1>12, <3>2 DEF NearCurrent
    <3>4. CASE NearCurrent(f)
      <4>1. at = visitNow
        BY <3>1, <3>4
      <4>2. L \in visits'[at].frames /\ L + 1 \in visits'[at].frames
        BY <1>6, <1>10, <3>2, <4>1
      <4> QED
        BY <2>0, <2>2, <3>1, <3>3, <3>4, <4>2
    <3>5. CASE ~NearCurrent(f)
      <4>1. at = V + 1 /\ old = {}
        BY <1>12, <1>11, <1>2, <3>1, <3>5
      <4>2. ASSUME NEW v \in 1..Len(visits'), L \in visits'[v].frames, L + 1 \in visits'[v].frames
            PROVE  FALSE
        <5>1. CASE v = at
          <6>1. L \in {L + 1}
            BY <1>6, <4>1, <4>2, <5>1
          <6> QED
            BY <1>2, <6>1
        <5>2. CASE v # at
          BY <1>7, <1>9, <4>2, <5>2
        <5> QED
          BY <5>1, <5>2
      <4> QED
        BY <2>0, <2>2, <3>1, <3>3, <3>5, <4>2
    <3> QED
      BY <3>4, <3>5
  <2> QED
    BY <1>3, <2>1, <2>2
<1> QED
  BY <1>3, <1>5, <1>13, <1>14, <1>15, <1>16 DEF VisitsInv

(* VisitOf finds the incident of a frame: the one its id leads to, or the last *)
(* one when the frame is close and may join it, or none.                        *)
LEMMA VisitsStep ==
  ASSUME VisitsInv, [VisitsNext]_visitVars
  PROVE  VisitsInv'
<1>1. CASE UNCHANGED visitVars
  <2>1. walk' = walk /\ visits' = visits /\ byId' = byId /\ visitNow' = visitNow
    BY <1>1 DEF visitVars
  <2> QED
    BY <2>1 DEF VisitsInv, VisitsTyped, SortedInv, SharedInv, NamedInv, NowInv, NextTo, Together
<1>2. ASSUME NEW f \in WalkFrames, FrameWalked(f) PROVE VisitsInv'
  <2> DEFINE n == VisitOf(f)
             V == Len(visits)
             at == IF n = 0 THEN V + 1 ELSE n
             L1 == Len(walk) + 1
             fresh == [id |-> f.id, frames |-> {L1}, last |-> f.ts]
  <2>1. VisitsTyped /\ SharedInv /\ NamedInv /\ NowInv /\ NoId \notin VisitIds
    BY VisitAssumption DEF VisitsInv, NoId
  <2>2. /\ Len(walk) \in Nat /\ V \in Nat
        /\ (walk # <<>> <=> Len(walk) > 0)
        /\ \A i \in 1..Len(walk) : walk[i].ts \in Nat
        /\ \A v \in 1..V : visits[v] \in VisitRecords /\ visits[v].last \in Nat
    BY <2>1, VisitSizes
  <2>3. f.ts \in Nat /\ f.id \in VisitIds \cup {NoId}
    BY DEF WalkFrames
  <2>4. /\ walk # <<>> => walk[Len(walk)].ts <= f.ts
        /\ walk' = Append(walk, f)
        /\ visits' = IF n = 0 THEN Append(visits, fresh) ELSE [visits EXCEPT ![n] = With(@, f)]
        /\ byId' = IF f.id = NoId THEN byId ELSE [byId EXCEPT ![f.id] = at]
        /\ visitNow' = at
    BY <1>2 DEF FrameWalked
  <2>5. NearCurrent(f) => visitNow \in 1..V /\ visitNow # 0
    <3>1. NearCurrent(f) => visitNow # 0
      BY DEF NearCurrent
    <3>2. visitNow # 0 => visitNow \in 1..V
      BY <2>1 DEF NowInv
    <3> QED
      BY <3>1, <3>2
  <2>6. \A i \in VisitIds : byId[i] # 0 => byId[i] \in 1..V /\ visits[byId[i]].id = i
    BY <2>1 DEF NamedInv
  <2>7. /\ n = 0 \/ n \in 1..V
        /\ f.id # NoId /\ n # 0 => visits[n].id \in {NoId, f.id} /\ byId[f.id] \in {0, n}
        /\ f.id # NoId /\ n = 0 => byId[f.id] = 0
        /\ f.id = NoId /\ NearCurrent(f) => n = visitNow /\ n # 0
        /\ f.id = NoId /\ ~NearCurrent(f) => n = 0
    <3>1. CASE f.id = NoId
      BY <2>5, <3>1 DEF VisitOf
    <3>2. CASE f.id # NoId /\ byId[f.id] # 0
      <4>1. n = byId[f.id] /\ f.id \in VisitIds
        BY <2>3, <3>2 DEF VisitOf
      <4> QED
        BY <2>6, <3>2, <4>1
    <3>3. CASE f.id # NoId /\ byId[f.id] = 0
      <4>1. n = IF Adopts(f) THEN visitNow ELSE 0
        BY <3>3 DEF VisitOf
      <4>2. Adopts(f) => visitNow \in 1..V /\ visitNow # 0 /\ visits[visitNow].id = NoId
        BY <2>5 DEF Adopts
      <4> QED
        BY <3>3, <4>1, <4>2
    <3> QED
      BY <3>1, <3>2, <3>3
  <2>8. visits \in Seq(VisitRecords) /\ walk \in Seq(WalkFrames) /\ L1 \in Nat
    BY <2>1, <2>2 DEF VisitsTyped
  <2> HIDE DEF n
  <2>9. CASE n = 0
    <3>1. fresh \in VisitRecords
      BY <2>3, <2>8 DEF VisitRecords
    <3>2. visits' = Append(visits, fresh) /\ at = V + 1
      BY <2>4, <2>9
    <3> HIDE DEF fresh
    <3>3. /\ visits' \in Seq(VisitRecords) /\ Len(visits') = V + 1
          /\ visits'[V + 1] = fresh
          /\ \A v \in 1..V : visits'[v] = visits[v]
      BY <2>2, <2>8, <3>1, <3>2, AppendProperties
    <3>4. at \in Nat /\ at \in 1..Len(visits')
      BY <2>2, <3>2, <3>3
    <3>5. visits'[at] = [id |-> f.id, frames |-> {} \cup {Len(walk) + 1}, last |-> f.ts]
      BY <3>2, <3>3 DEF fresh
    <3>6. f.id = IF f.id # NoId THEN f.id ELSE NoId
      OBVIOUS
    <3>7. /\ f.id # NoId => NoId \in {NoId, f.id} /\ byId[f.id] \in {0, at}
          /\ f.id = NoId => (NearCurrent(f) => at = visitNow) /\ (~NearCurrent(f) => at = V + 1)
      BY <2>7, <2>9, <3>2
    <3> DEFINE old == {}
               was == NoId
               now == f.id
    <3> HIDE DEF at
    <3>8. /\ f \in WalkFrames /\ at \in Nat /\ NoId \notin VisitIds
          /\ walk # <<>> => walk[Len(walk)].ts <= f.ts
          /\ walk' = Append(walk, f) /\ visits' \in Seq(VisitRecords)
          /\ \/ /\ at \in 1..Len(visits) /\ Len(visits') = Len(visits)
                /\ old = visits[at].frames /\ was = visits[at].id
             \/ /\ at = Len(visits) + 1 /\ Len(visits') = Len(visits) + 1
                /\ old = {} /\ was = NoId
          /\ \A v \in 1..Len(visits) : v # at => visits'[v] = visits[v]
          /\ at \in 1..Len(visits')
          /\ visits'[at] = [id |-> now, frames |-> old \cup {Len(walk) + 1}, last |-> f.ts]
          /\ now = IF f.id # NoId THEN f.id ELSE was
          /\ byId' = IF f.id = NoId THEN byId ELSE [byId EXCEPT ![f.id] = at]
          /\ visitNow' = at
          /\ f.id # NoId => was \in {NoId, f.id} /\ byId[f.id] \in {0, at}
          /\ f.id = NoId => /\ NearCurrent(f) => at = visitNow
                            /\ ~NearCurrent(f) => at = Len(visits) + 1
      BY <1>2, <2>1, <2>4, <3>2, <3>3, <3>4, <3>5, <3>6, <3>7
    <3> HIDE DEF old, was, now
    <3> QED
      BY <3>8, FramePlaced
  <2>10. CASE n # 0
    <3>1. n \in 1..V /\ at = n /\ n \in Nat
      BY <2>2, <2>7, <2>10
    <3> DEFINE was == visits[n].id
               old == visits[n].frames
               now == IF f.id # NoId THEN f.id ELSE was
               joined == [id |-> now, frames |-> old \cup {L1}, last |-> f.ts]
    <3>2. visits[n].last <= f.ts
      <4>1. walk # <<>>
        <5>1. walk = <<>> => visits = <<>>
          BY <2>1 DEF NowInv
        <5>2. visits # <<>>
          BY <2>2, <3>1
        <5> QED
          BY <5>1, <5>2
      <4>2. visits[n].last <= walk[Len(walk)].ts /\ walk[Len(walk)].ts <= f.ts
        BY <2>1, <2>4, <3>1, <4>1 DEF NowInv
      <4>3. Len(walk) \in 1..Len(walk)
        BY <2>2, <4>1
      <4>4. visits[n].last \in Nat /\ walk[Len(walk)].ts \in Nat
        BY <2>2, <3>1, <4>3
      <4> QED
        BY <2>3, <4>2, <4>4
    <3>3. With(visits[n], f) = joined
      <4>1. (IF visits[n].last > f.ts THEN visits[n].last ELSE f.ts) = f.ts
        BY <2>2, <2>3, <3>1, <3>2
      <4> QED
        BY <4>1 DEF With
    <3>4. joined \in VisitRecords
      <4>1. was \in VisitIds \cup {NoId} /\ old \in SUBSET Nat
        BY <2>2, <3>1 DEF VisitRecords
      <4> QED
        BY <2>3, <2>8, <4>1 DEF VisitRecords
    <3> HIDE DEF joined
    <3>5. visits' = [visits EXCEPT ![n] = joined]
      BY <2>4, <2>10, <3>3
    <3>6. visits' \in Seq(VisitRecords) /\ Len(visits') = V
      BY <2>8, <3>1, <3>4, <3>5
    <3>7. visits'[n] = joined /\ \A v \in 1..V : v # n => visits'[v] = visits[v]
      BY <2>8, <3>1, <3>5
    <3>8. /\ f.id # NoId => was \in {NoId, f.id} /\ byId[f.id] \in {0, n}
          /\ f.id = NoId => (NearCurrent(f) => n = visitNow) /\ (~NearCurrent(f) => n = V + 1)
      BY <2>7, <2>10
    <3>9. visits'[n] = [id |-> now, frames |-> old \cup {Len(walk) + 1}, last |-> f.ts]
      BY <3>7 DEF joined
    <3>10. /\ byId' = IF f.id = NoId THEN byId ELSE [byId EXCEPT ![f.id] = n]
           /\ visitNow' = n
      BY <2>4, <3>1
    <3>11. old = visits[n].frames /\ was = visits[n].id /\ now = IF f.id # NoId THEN f.id ELSE was
      OBVIOUS
    <3> HIDE DEF was, old, now
    <3>12. /\ f \in WalkFrames /\ n \in Nat /\ NoId \notin VisitIds
           /\ walk # <<>> => walk[Len(walk)].ts <= f.ts
           /\ walk' = Append(walk, f) /\ visits' \in Seq(VisitRecords)
           /\ n \in 1..Len(visits) /\ Len(visits') = Len(visits)
           /\ old = visits[n].frames /\ was = visits[n].id
           /\ \A v \in 1..Len(visits) : v # n => visits'[v] = visits[v]
           /\ n \in 1..Len(visits')
           /\ visits'[n] = [id |-> now, frames |-> old \cup {Len(walk) + 1}, last |-> f.ts]
           /\ now = IF f.id # NoId THEN f.id ELSE was
           /\ byId' = IF f.id = NoId THEN byId ELSE [byId EXCEPT ![f.id] = n]
           /\ visitNow' = n
           /\ f.id # NoId => was \in {NoId, f.id} /\ byId[f.id] \in {0, n}
           /\ f.id = NoId => /\ NearCurrent(f) => n = visitNow
                             /\ ~NearCurrent(f) => n = Len(visits) + 1
      BY <1>2, <2>1, <2>4, <3>1, <3>6, <3>7, <3>8, <3>9, <3>10, <3>11
    <3> QED
      BY <3>12, FramePlaced
  <2> QED
    BY <2>9, <2>10
<1>3. ASSUME VisitsNext PROVE VisitsInv'
  <2>1. PICK f \in [ts : 0..LastFrameAt, id : VisitIds \cup {NoId}, label : Labels,
                     source : Sources] : FrameWalked(f)
    BY <1>3 DEF VisitsNext
  <2>2. f \in WalkFrames
    BY VisitAssumption DEF WalkFrames
  <2> QED
    BY <1>2, <2>1, <2>2
<1> QED
  BY <1>1, <1>3

(* The incidents divide the walked frames as ids and gaps say, and neither a   *)
(* missed visit nor a false alarm nor a delay is reported that the frames do   *)
(* not bear out (labeling.py, group_incidents and summarize_incident).         *)
THEOREM VisitsAreWholeCorrect == VisitsSpec => []VisitsAreWhole
<1>1. VisitsInv /\ [VisitsNext]_visitVars => VisitsInv'
  BY VisitsStep
<1> QED
  BY <1>1, VisitsInitInv, VisitTypes, PTL DEF VisitsSpec

----------------------------------------------------------------------------
(* The parts beside each other *)

HouseInv ==
  /\ NoticesInv /\ ScorerInv /\ ServiceInv /\ LedgerInv /\ MatchInv /\ SceneInv
  /\ AnswerInv /\ PickInv /\ ShotInv /\ LabelInv /\ VisitsInv /\ BridgeInv /\ PushInv

(* Each part starts in its own initial states. *)
LEMMA HouseInitInv == HouseInit => HouseInv
<1> SUFFICES ASSUME HouseInit PROVE HouseInv
  OBVIOUS
<1>1. /\ NoticesInit /\ ScorerInit /\ ServiceInit /\ LedgerInit /\ MatchInit /\ SceneInit
      /\ AnswerInit /\ PickInit /\ ShotInit /\ LabelInit /\ VisitsInit /\ BridgeInit /\ PushInit
  BY DEF HouseInit
<1> QED
  BY <1>1, NoticesInitInv, ScorerInitInv, ServiceInitInv, LedgerInitInv, MatchInitInv,
     SceneInitInv, AnswerInitInv, PickInitInv, ShotInitInv, LabelInitInv, VisitsInitInv,
     BridgeInitInv, PushInitInv DEF HouseInv

(* A step of the whole is for each part a step of its own, or leaves it alone.  *)
LEMMA HouseSteps ==
  ASSUME [HouseNext]_HouseVars
  PROVE  /\ [NoticesNext]_noticesVars /\ [ScorerNext]_scorerVars /\ [ServiceNext]_serviceVars
         /\ [LedgerNext]_ledgerVars /\ [MatchNext]_matchVars /\ [SceneNext]_sceneVars
         /\ [AnswerNext]_answerVars /\ [PickNext]_pickVars /\ [ShotNext]_shotVars
         /\ [LabelNext]_labelVars /\ [VisitsNext]_visitVars /\ [BridgeNext]_bridgeVars
         /\ [PushNext]_pushVars
<1>1. CASE HouseNext
  BY <1>1 DEF HouseNext
<1>2. CASE UNCHANGED HouseVars
  BY <1>2 DEF HouseVars
<1> QED
  BY <1>1, <1>2

LEMMA HouseStep == HouseInv /\ [HouseNext]_HouseVars => HouseInv'
<1> SUFFICES ASSUME HouseInv, [HouseNext]_HouseVars PROVE HouseInv'
  OBVIOUS
<1>1. NoticesInv' /\ ScorerInv' /\ ServiceInv' /\ LedgerInv'
  BY HouseSteps, NoticesStep, ScorerStep, ServiceStep, LedgerStep DEF HouseInv
<1>2. SceneInv' /\ ShotInv' /\ PushInv' /\ BridgeInv'
  BY HouseSteps, SceneStep, ShotStep, PushStep, BridgeStep DEF HouseInv
<1>3. LabelInv' /\ AnswerInv' /\ PickInv' /\ MatchInv' /\ VisitsInv'
  BY HouseSteps, LabelStep, AnswerStep, PickStep, MatchStep, VisitsStep DEF HouseInv
<1> QED
  BY <1>1, <1>2, <1>3 DEF HouseInv

(* Whatever the parts promise of every state in their invariants, the whole     *)
(* keeps.                                                                       *)
LEMMA HouseKeeps == HouseSpec => []HouseInv
  BY HouseInitInv, HouseStep, PTL DEF HouseSpec

(* Every variable of the parts stays in its type, all steps taken together:     *)
(* queues within their limits, counters within their attempts.                  *)
THEOREM HouseTypeCorrect == HouseSpec => []HouseTypeOK
<1>1. HouseInv => HouseTypeOK
  BY NoticesTypes, ScorerTypes, ServiceTypes, LedgerTypes, SceneTypes, AnswerTypes, BridgeTypes,
     PushTypes DEF HouseInv, HouseTypeOK
<1> QED
  BY <1>1, HouseKeeps, PTL

(* Whoever was told that a service or a camera is down is owed the good news     *)
(* across restarts, and the scorers the pool believes down are those told of    *)
(* (daemon.py, the outage watch; scorer.py, the pool's health reports).          *)
THEOREM OutagesAreOwedCorrect == HouseSpec => []OutagesAreOwed
<1>1. HouseInv => OutagesAreOwed
  BY NoticesTypes, ScorerTypes DEF HouseInv, OutagesAreOwed
<1> QED
  BY <1>1, HouseKeeps, PTL

(* What was asked or sent is not asked or sent again, and not dropped: a frame   *)
(* the ensemble passes on, a scene two views saw, one photo's message, a visit  *)
(* a pushing camera showed (scorer_service.py, scene.py, daemon.py, reolink.py). *)
THEOREM DoneOnceCorrect == HouseSpec => []DoneOnce
<1>1. HouseInv => DoneOnce
  BY ServiceTypes, SceneTypes, ShotTypes, PushTypes DEF HouseInv, DoneOnce
<1> QED
  BY <1>1, HouseKeeps, PTL

(* The ledger's clean-up takes nothing young, whoever writes meanwhile, and an   *)
(* undo gives back exactly the label it took (ledger.py, labeling.py).           *)
THEOREM KeepsWhatItShouldCorrect == HouseSpec => []KeepsWhatItShould
<1>1. HouseInv => KeepsWhatItShould
  BY LedgerTypes, LabelTypes DEF HouseInv, KeepsWhatItShould
<1> QED
  BY <1>1, HouseKeeps, PTL

(* The verdict and the box are of a person that counts, and the clip's frame is  *)
(* the one that deserves it (scorer_service.py, scorer.py, recclip.py).          *)
THEOREM RightPhotoCorrect == HouseSpec => []RightPhoto
<1>1. HouseInv => RightPhoto
  BY AnswerTypes, PickTypes DEF HouseInv, RightPhoto
<1> QED
  BY <1>1, HouseKeeps, PTL

(* What is reported agrees with what happened: the matching is the largest, the  *)
(* incidents are whole, the service's counters agree with its answers, and the   *)
(* broker keeps the daemon's own view (ledger.py, labeling.py, scorer_service.py, *)
(* mqtt.py).                                                                     *)
THEOREM ReportsAddUpCorrect == HouseSpec => []ReportsAddUp
<1>1. HouseInv => ReportsAddUp
  BY MatchTypes, VisitTypes, ServiceTypes, BridgeTypes DEF HouseInv, ReportsAddUp
<1> QED
  BY <1>1, HouseKeeps, PTL

=============================================================================
