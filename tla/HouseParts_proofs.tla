--------------------------- MODULE HouseParts_proofs ---------------------------
(* Proofs about what the daemon tells and keeps: the notices of outages, the    *)
(* clients of the scorer and its service, the ledger, the scenes, the photo of  *)
(* an alert, the cameras that push and the MQTT bridge; for any number of       *)
(* services, threads, events, places in a queue and disturbances.               *)
EXTENDS Notices, Scorer, Service, Ledger, Scene, Shot, Push, Bridge,
        FiniteSetTheorems, SequenceTheorems, WellFoundedInduction, TLAPS

----------------------------------------------------------------------------
(* Numbers and sequences *)

(* Every set of numbers that is not empty has a least one.                     *)
LEMMA LeastNat ==
  ASSUME NEW T, T \subseteq Nat, T # {}
  PROVE  \E x \in T : \A y \in T : x <= y
<1> DEFINE F == {0..x : x \in T}
<1>1. IsWellFoundedOn(StrictSubsetOrdering(Nat), FiniteSubsetsOf(Nat))
  BY FS_StrictSubsetOrderingWellFounded
<1>2. F \subseteq FiniteSubsetsOf(Nat)
  <2>1. ASSUME NEW x \in T PROVE 0..x \in FiniteSubsetsOf(Nat)
    <3>1. x \in Int /\ 0 \in Int /\ 0..x \subseteq Nat
      OBVIOUS
    <3>2. IsFiniteSet(0..x)
      BY <3>1, FS_Interval
    <3> QED
      BY <3>1, <3>2 DEF FiniteSubsetsOf
  <2> QED
    BY <2>1
<1>3. F # {}
  OBVIOUS
<1>4. PICK X \in F : \A Y \in F : ~ (<<Y, X>> \in StrictSubsetOrdering(Nat))
  BY <1>1, <1>2, <1>3, WFMin
<1>5. PICK x \in T : X = 0..x
  BY <1>4
<1>6. ASSUME NEW y \in T, ~(x <= y) PROVE FALSE
  <2>1. 0..y \in F /\ 0..y \subseteq X /\ 0..y # X /\ X \subseteq Nat /\ 0..y \subseteq Nat
    <3>1. x \in 0..x /\ ~(x \in 0..y)
      BY <1>6
    <3> QED
      BY <3>1, <1>5, <1>6
  <2> QED
    BY <2>1, <1>4 DEF StrictSubsetOrdering
<1> QED
  BY <1>6

(* And one that has a bound has a greatest.                                    *)
LEMMA GreatestNat ==
  ASSUME NEW T, NEW b \in Nat, T \subseteq 0..b, T # {}
  PROVE  \E x \in T : \A y \in T : y <= x
<1> DEFINE U == {b - x : x \in T}
<1>1. U \subseteq Nat /\ U # {}
  <2>1. \A x \in T : x \in 0..b /\ b - x \in Nat
    OBVIOUS
  <2> QED
    BY <2>1
<1>2. PICK u \in U : \A v \in U : u <= v
  BY <1>1, LeastNat
<1>3. PICK x \in T : u = b - x
  BY <1>2
<1>4. ASSUME NEW y \in T PROVE y <= x
  <2>1. u <= b - y
    BY <1>2
  <2> QED
    BY <1>3, <2>1
<1> QED
  BY <1>4

(* What is in a sequence, and that it is there once.                           *)
Within(q, x) == \E n \in 1..Len(q) : q[n] = x
OnceEach(q) == \A i, j \in 1..Len(q) : q[i] = q[j] => i = j

LEMMA WithinConcat ==
  ASSUME NEW S, NEW q \in Seq(S), NEW r \in Seq(S)
  PROVE  /\ q \o r \in Seq(S)
         /\ \A x : Within(q \o r, x) <=> Within(q, x) \/ Within(r, x)
         /\ OnceEach(q) /\ OnceEach(r) /\ (\A x : ~(Within(q, x) /\ Within(r, x))) => OnceEach(q \o r)
<1> DEFINE c == q \o r
<1>1. /\ c \in Seq(S) /\ Len(c) = Len(q) + Len(r) /\ Len(q) \in Nat /\ Len(r) \in Nat
      /\ \A i \in 1..(Len(q) + Len(r)) : c[i] = IF i <= Len(q) THEN q[i] ELSE r[i - Len(q)]
  BY ConcatProperties
<1> HIDE DEF c
<1>2. /\ \A i \in 1..Len(q) : i \in 1..Len(c) /\ c[i] = q[i]
      /\ \A i \in 1..Len(r) : Len(q) + i \in 1..Len(c) /\ c[Len(q) + i] = r[i]
      /\ \A i \in 1..Len(c) : \/ i \in 1..Len(q) /\ c[i] = q[i]
                              \/ i - Len(q) \in 1..Len(r) /\ c[i] = r[i - Len(q)]
  <2>1. \A i \in 1..Len(q) : i \in 1..Len(c) /\ c[i] = q[i]
    BY <1>1
  <2>2. \A i \in 1..Len(r) : Len(q) + i \in 1..Len(c) /\ c[Len(q) + i] = r[i]
    <3> TAKE i \in 1..Len(r)
    <3>1. Len(q) + i \in 1..(Len(q) + Len(r)) /\ ~(Len(q) + i <= Len(q)) /\ (Len(q) + i) - Len(q) = i
      BY <1>1
    <3> QED
      BY <1>1, <3>1
  <2>3. \A i \in 1..Len(c) : \/ i \in 1..Len(q) /\ c[i] = q[i]
                             \/ i - Len(q) \in 1..Len(r) /\ c[i] = r[i - Len(q)]
    <3> TAKE i \in 1..Len(c)
    <3>1. i \in 1..(Len(q) + Len(r))
      BY <1>1
    <3>2. CASE i <= Len(q)
      <4>1. i \in 1..Len(q)
        BY <1>1, <3>1, <3>2
      <4>2. c[i] = q[i]
        BY <2>1, <4>1
      <4> QED
        BY <4>1, <4>2
    <3>3. CASE ~(i <= Len(q))
      <4>1. i - Len(q) \in 1..Len(r)
        BY <1>1, <3>1, <3>3
      <4> QED
        BY <1>1, <3>1, <3>3, <4>1
    <3> QED
      BY <3>2, <3>3
  <2> QED
    BY <2>1, <2>2, <2>3
<1>3. \A x : Within(c, x) <=> Within(q, x) \/ Within(r, x)
  BY <1>2 DEF Within
<1>4. ASSUME OnceEach(q), OnceEach(r), \A x : ~(Within(q, x) /\ Within(r, x)) PROVE OnceEach(c)
  <2> SUFFICES ASSUME NEW i \in 1..Len(c), NEW j \in 1..Len(c), c[i] = c[j] PROVE i = j
    BY DEF OnceEach
  <2>1. CASE i \in 1..Len(q) /\ c[i] = q[i] /\ j \in 1..Len(q) /\ c[j] = q[j]
    BY <1>4, <2>1 DEF OnceEach
  <2>2. CASE /\ i - Len(q) \in 1..Len(r) /\ c[i] = r[i - Len(q)]
             /\ j - Len(q) \in 1..Len(r) /\ c[j] = r[j - Len(q)]
    <3>1. i - Len(q) = j - Len(q)
      BY <1>4, <2>2 DEF OnceEach
    <3> QED
      BY <1>1, <3>1
  <2>3. CASE i \in 1..Len(q) /\ c[i] = q[i] /\ j - Len(q) \in 1..Len(r) /\ c[j] = r[j - Len(q)]
    BY <1>4, <2>3 DEF Within
  <2>4. CASE i - Len(q) \in 1..Len(r) /\ c[i] = r[i - Len(q)] /\ j \in 1..Len(q) /\ c[j] = q[j]
    BY <1>4, <2>4 DEF Within
  <2> QED
    BY <1>2, <2>1, <2>2, <2>3, <2>4
<1> QED
  BY <1>1, <1>3, <1>4 DEF c

LEMMA WithinSubSeq ==
  ASSUME NEW S, NEW q \in Seq(S), NEW m \in 1..(Len(q) + 1), NEW n \in 0..Len(q)
  PROVE  /\ SubSeq(q, m, n) \in Seq(S)
         /\ \A x : Within(SubSeq(q, m, n), x) <=> \E k \in m..n : q[k] = x
         /\ OnceEach(q) => OnceEach(SubSeq(q, m, n))
<1> DEFINE s == SubSeq(q, m, n)
<1>1. /\ s \in Seq(S) /\ Len(s) = IF m <= n THEN n - m + 1 ELSE 0
      /\ \A i \in 1..(n - m + 1) : s[i] = q[m + i - 1]
      /\ Len(q) \in Nat /\ m \in Int /\ n \in Int
  <2>1. m \in Int /\ n \in Int /\ \A i \in m..n : q[i] \in S
    OBVIOUS
  <2> QED
    BY <2>1, SubSeqProperties
<1> HIDE DEF s
<1>2. /\ \A i \in 1..Len(s) : m + i - 1 \in m..n /\ s[i] = q[m + i - 1] /\ m + i - 1 \in 1..Len(q)
      /\ \A k \in m..n : k - m + 1 \in 1..Len(s) /\ s[k - m + 1] = q[k]
  <2>1. \A i \in 1..Len(s) : i \in 1..(n - m + 1)
    BY <1>1
  <2>2. \A i \in 1..Len(s) : m + i - 1 \in m..n /\ m + i - 1 \in 1..Len(q)
    BY <1>1
  <2>3. \A k \in m..n : k - m + 1 \in 1..Len(s) /\ k - m + 1 \in 1..(n - m + 1) /\ m + (k - m + 1) - 1 = k
    BY <1>1
  <2> QED
    BY <1>1, <2>1, <2>2, <2>3
<1>3. \A x : Within(s, x) <=> \E k \in m..n : q[k] = x
  BY <1>2 DEF Within
<1>4. ASSUME OnceEach(q), NEW i \in 1..Len(s), NEW j \in 1..Len(s), s[i] = s[j] PROVE i = j
  <2>1. m + i - 1 = m + j - 1
    BY <1>2, <1>4 DEF OnceEach
  <2> QED
    BY <1>1, <2>1
<1> QED
  BY <1>1, <1>3, <1>4 DEF s, OnceEach

(* Of finitely many, one is as large as any other.                             *)
LEMMA GreatestOf ==
  ASSUME NEW S, IsFiniteSet(S), S # {}, NEW f \in [S -> Int]
  PROVE  \E x \in S : \A y \in S : f[y] <= f[x]
<1> DEFINE above(p) == {q \in S : f[q] > f[p]}
           C == {Cardinality(above(p)) : p \in S}
<1>1. \A p \in S : f[p] \in Int
  OBVIOUS
<1>2. \A p \in S : IsFiniteSet(above(p)) /\ Cardinality(above(p)) \in Nat
  BY <1>1, FS_Subset, FS_CardinalityType
<1>3. C \subseteq Nat /\ C # {}
  BY <1>1, <1>2
<1>4. PICK c \in C : \A d \in C : c <= d
  <2> HIDE DEF C
  <2> QED
    BY <1>3, LeastNat
<1>5. PICK p \in S : c = Cardinality(above(p))
  BY <1>4
<1>6. ASSUME NEW q \in S, ~(f[q] <= f[p]) PROVE FALSE
  <2>1. q \in above(p) /\ q \notin above(q) /\ above(q) \subseteq above(p)
    BY <1>1, <1>6
  <2>2. above(q) # above(p)
    BY <2>1
  <2>3. Cardinality(above(q)) <= Cardinality(above(p)) /\ Cardinality(above(q)) # Cardinality(above(p))
    <3> DEFINE A == above(q)
               B == above(p)
    <3>1. IsFiniteSet(B) /\ A \in SUBSET B /\ A # B
      BY <1>2, <2>1, <2>2
    <3> HIDE DEF A, B
    <3>2. Cardinality(A) <= Cardinality(B) /\ Cardinality(A) # Cardinality(B)
      BY <3>1, FS_Subset
    <3> QED
      BY <3>2 DEF A, B
  <2>4. c <= Cardinality(above(q))
    BY <1>4
  <2> HIDE DEF above
  <2> QED
    BY <1>2, <1>5, <2>3, <2>4
<1> QED
  BY <1>6
----------------------------------------------------------------------------
(* The notices of outages *)

Sinces == {"no", "young", "due"}
OutageTypes == [since : Sinces, alerted : BOOLEAN, pending : BOOLEAN]
EventTypes == [since : Sinces, alerted : BOOLEAN, restarted : BOOLEAN]
StallTypes == [since : Sinces, alerted : BOOLEAN]
AnnouncedTypes == [Switches -> {"none", "well", "bad"}]
RestoredTypes == [said : {"none", "well", "bad"}, owed : BOOLEAN, recent : BOOLEAN]

WorldTyped ==
  /\ pings \in BOOLEAN /\ logins \in BOOLEAN /\ muted \in BOOLEAN /\ roomy \in BOOLEAN
  /\ answers \in {"none", "ok", "fail"}
  /\ reads \in [Switches -> {"unread", "well", "bad"}]
  /\ person \in {"unread", "well", "bad", "restored"}
MemoryTyped ==
  /\ outage \in OutageTypes /\ event \in EventTypes /\ announced \in AnnouncedTypes
  /\ restored \in RestoredTypes /\ stalled \in StallTypes /\ warned \in BOOLEAN
FilesTyped ==
  /\ health \in [outage : OutageTypes, event : EventTypes]
  /\ runtime \in [announced : AnnouncedTypes, restored : RestoredTypes, old : BOOLEAN]
HeardTyped ==
  /\ told \in [Kinds -> {"well", "bad"}] /\ budget \in 0..Changes
  /\ unwritten \subseteq Kinds /\ lost \subseteq Kinds

(* What the files hold that a last word of "bad" will be taken back by after a   *)
(* restart: all of it, but for what was delivered since the file was written.    *)
FileOwes(k) ==
  \/ k = "outage" /\ (health.outage.alerted \/ health.outage.pending)
  \/ k = "events" /\ health.event.alerted
  \/ k = "person" /\ (runtime.restored.said = "bad" \/ runtime.restored.owed)
  \/ k \in Switches /\ runtime.announced[k] = "bad"
FilesOwe ==
  \A k \in HealthKinds \cup RuntimeKinds :
    told[k] = "bad" => k \in lost \cup unwritten \/ FileOwes(k)
HistoryInv == HeardTyped /\ BadNewsIsOwed /\ FilesOwe

NoticesInv == WorldTyped /\ MemoryTyped /\ FilesTyped /\ HistoryInv

LEMMA NoticesTypes == NoticesInv => NoticesTypeOK /\ BadNewsIsOwed
<1> SUFFICES ASSUME NoticesInv PROVE NoticesTypeOK /\ BadNewsIsOwed
  OBVIOUS
<1>1. {pings, logins, muted, roomy, warned} \subseteq BOOLEAN
  BY DEF NoticesInv, HistoryInv, WorldTyped, MemoryTyped
<1>2. /\ outage \in OutageTypes /\ event \in EventTypes /\ announced \in AnnouncedTypes
      /\ restored \in RestoredTypes /\ stalled \in StallTypes
  BY DEF NoticesInv, HistoryInv, MemoryTyped
<1> QED
  BY <1>1, <1>2 DEF NoticesInv, HistoryInv, NoticesTypeOK, WorldTyped, HeardTyped, OutageTypes, EventTypes,
     AnnouncedTypes, RestoredTypes, StallTypes, Sinces

LEMMA NoticesInitInv == NoticesInit => NoticesInv
<1> SUFFICES ASSUME NoticesInit PROVE NoticesInv
  OBVIOUS
<1> USE DEF NoticesInit
<1>1. WorldTyped
  BY DEF WorldTyped
<1>2. NoOutage \in OutageTypes /\ NoFailure \in EventTypes /\ NoPerson \in RestoredTypes
      /\ NoStall \in StallTypes
  BY DEF NoOutage, OutageTypes, NoFailure, EventTypes, NoPerson, RestoredTypes, NoStall,
         StallTypes, Sinces
<1>3. NothingAnnounced \in AnnouncedTypes
  BY DEF AnnouncedTypes, NothingAnnounced
<1>4. MemoryTyped /\ FilesTyped
  BY <1>2, <1>3 DEF MemoryTyped, FilesTyped
<1>5. HeardTyped
  BY NoticesAssumption DEF HeardTyped
<1>6. BadNewsIsOwed /\ FilesOwe
  BY DEF BadNewsIsOwed, FilesOwe, HealthKinds, RuntimeKinds, Kinds, Alarms
<1> QED
  BY <1>1, <1>4, <1>5, <1>6 DEF NoticesInv, HistoryInv

(* What a notice does to the history: the last word and the account of it.     *)
LEMMA NoticeHeard ==
  ASSUME HeardTyped, NEW kind \in Kinds, NEW sends \in BOOLEAN, NEW taken \in SendAnswers,
         NEW what, sends => what \in {"well", "bad"}, Heard(kind, sends, taken, what)
  PROVE  /\ HeardTyped'
         /\ \A k \in Kinds : k # kind => told'[k] = told[k] /\ (k \in lost => k \in lost')
         /\ sends /\ taken => told'[kind] = what /\ kind \in unwritten'
         /\ ~(sends /\ taken) => told'[kind] = told[kind] /\ lost' = lost
         /\ unwritten \subseteq unwritten'
<1> USE DEF Heard, HeardTyped
<1>1. told' \in [Kinds -> {"well", "bad"}]
  OBVIOUS
<1>2. lost' \subseteq Kinds /\ unwritten' \subseteq Kinds /\ unwritten \subseteq unwritten'
  OBVIOUS
<1>3. budget' \in 0..Changes
  <2>1. CASE budget > 0
    BY <2>1, NoticesAssumption
  <2>2. CASE ~(budget > 0)
    <3>1. taken = TRUE
      BY <2>2 DEF SendAnswers
    <3> QED
      BY <3>1
  <2> QED
    BY <2>1, <2>2
<1>4. \A k \in Kinds : k # kind => told'[k] = told[k] /\ (k \in lost => k \in lost')
  OBVIOUS
<1>5. sends /\ taken => told'[kind] = what /\ kind \in unwritten'
  OBVIOUS
<1>6. ~(sends /\ taken) => told'[kind] = told[kind] /\ lost' = lost
  OBVIOUS
<1> QED
  BY <1>1, <1>2, <1>3, <1>4, <1>5, <1>6

(* A notice keeps the promise when bad news that goes out is owed its end, and    *)
(* nothing is owed less than before unless good news went out.                 *)
LEMMA NoticeKept ==
  ASSUME NoticesInv, NEW kind \in Kinds, NEW sends \in BOOLEAN, NEW taken \in SendAnswers,
         NEW what, sends => what \in {"well", "bad"}, Heard(kind, sends, taken, what),
         UNCHANGED noticeFiles,
         \A k \in Kinds : k # kind => (Owed(k) => Owed(k)'),
         sends /\ taken /\ what = "bad" => Owed(kind)',
         ~(sends /\ taken) /\ Owed(kind) => Owed(kind)'
  PROVE  HistoryInv'
<1>1. /\ HeardTyped'
      /\ \A k \in Kinds : k # kind => told'[k] = told[k] /\ (k \in lost => k \in lost')
      /\ sends /\ taken => told'[kind] = what /\ kind \in unwritten'
      /\ ~(sends /\ taken) => told'[kind] = told[kind] /\ lost' = lost
      /\ unwritten \subseteq unwritten'
  BY NoticeHeard DEF NoticesInv, HistoryInv
<1>2. ASSUME NEW k \in Kinds, told'[k] = "bad" PROVE k \in lost' \/ Owed(k)'
  BY <1>1, <1>2 DEF NoticesInv, HistoryInv, BadNewsIsOwed
<1>3. BadNewsIsOwed'
  BY <1>2 DEF BadNewsIsOwed
<1>4. FilesOwe'
  <2>1. \A k \in Kinds : FileOwes(k) => FileOwes(k)'
    BY DEF FileOwes, noticeFiles
  <2>2. HealthKinds \cup RuntimeKinds \subseteq Kinds
    BY DEF HealthKinds, RuntimeKinds, Kinds, Alarms
  <2>3. ASSUME NEW k \in HealthKinds \cup RuntimeKinds, told'[k] = "bad"
        PROVE  k \in lost' \cup unwritten' \/ FileOwes(k)'
    <3>1. k \in Kinds
      BY <2>2
    <3>2. CASE k = kind /\ sends /\ taken
      BY <1>1, <3>2
    <3>3. CASE ~(k = kind /\ sends /\ taken)
      <4>1. told[k] = "bad" /\ (k \in lost => k \in lost')
        BY <1>1, <2>3, <3>1, <3>3
      <4>2. k \in lost \cup unwritten \/ FileOwes(k)
        BY <4>1 DEF NoticesInv, HistoryInv, FilesOwe
      <4> QED
        BY <1>1, <2>1, <3>1, <4>1, <4>2
    <3> QED
      BY <3>2, <3>3
  <2> QED
    BY <2>3 DEF FilesOwe
<1> QED
  BY <1>1, <1>3, <1>4 DEF HistoryInv

(* A step that tells nobody anything and forgets nothing.                      *)
LEMMA NothingHeard ==
  ASSUME NoticesInv, told' = told, unwritten' = unwritten, lost' = lost, budget' \in 0..Changes,
         \A k \in Kinds : Owed(k) => Owed(k)',
         \A k \in Kinds : FileOwes(k) => FileOwes(k)'
  PROVE  HistoryInv'
<1>1. HealthKinds \cup RuntimeKinds \subseteq Kinds
  BY DEF HealthKinds, RuntimeKinds, Kinds, Alarms
<1>2. HeardTyped' /\ BadNewsIsOwed'
  BY DEF NoticesInv, HistoryInv, BadNewsIsOwed, HeardTyped
<1>3. FilesOwe'
  BY <1>1 DEF NoticesInv, HistoryInv, FilesOwe
<1> QED
  BY <1>2, <1>3 DEF HistoryInv

LEMMA FilesStill == UNCHANGED noticeFiles => \A k \in Kinds : FileOwes(k) => FileOwes(k)'
BY DEF noticeFiles, FileOwes

LEMMA BeganTyped == \A s \in Sinces : Began(s) \in Sinces
BY DEF Began, Sinces

LEMMA OutageWatched == NoticesInv /\ WatchOutage => NoticesInv'
<1> SUFFICES ASSUME NoticesInv, WatchOutage PROVE NoticesInv'
  OBVIOUS
<1>0. /\ HeardTyped /\ outage \in OutageTypes /\ "outage" \in Kinds
      /\ outage.alerted \in BOOLEAN /\ outage.pending \in BOOLEAN /\ outage.since \in Sinces
  BY DEF NoticesInv, HistoryInv, MemoryTyped, Kinds, Alarms, OutageTypes
<1>u. UNCHANGED noticeFiles
  BY DEF WatchOutage
<1>1. WorldTyped'
  BY DEF NoticesInv, HistoryInv, WorldTyped, WatchOutage, worldVars
<1>2. FilesTyped'
  BY DEF NoticesInv, HistoryInv, FilesTyped, WatchOutage, noticeFiles
<1>3. \A k \in Kinds : k # "outage" => (Owed(k) => Owed(k)')
  BY DEF WatchOutage, Owed
<1>4. outage' \in OutageTypes /\ HistoryInv'
  <2>1. CASE UNCHANGED <<outage, heardVars>>
    <3>1. outage' = outage /\ told' = told /\ unwritten' = unwritten /\ lost' = lost /\ budget' = budget
      BY <2>1 DEF heardVars
    <3>2. Owed("outage") => Owed("outage")'
      BY <3>1 DEF Owed, Switches
    <3>3. \A k \in Kinds : Owed(k) => Owed(k)'
      BY <1>3, <3>2
    <3>4. budget' \in 0..Changes
      BY <1>0, <3>1 DEF HeardTyped
    <3> QED
      BY <1>u, <1>0, <3>1, <3>3, <3>4, NothingHeard, FilesStill
  <2>2. ASSUME NEW taken \in SendAnswers, Back, outage' = OutageOver(taken),
               Heard("outage", outage.pending \/ outage.alerted, taken, "well")
        PROVE  outage' \in OutageTypes /\ HistoryInv'
    <3> DEFINE sends == outage.pending \/ outage.alerted
    <3>0. sends \in BOOLEAN /\ taken \in BOOLEAN
      BY <1>0, <2>2 DEF SendAnswers
    <3>1. outage' = [since |-> "no", alerted |-> FALSE, pending |-> sends /\ ~taken]
      BY <2>2 DEF OutageOver, NoOutage
    <3>2. outage' \in OutageTypes
      BY <3>0, <3>1 DEF OutageTypes, Sinces
    <3>3. ~(sends /\ taken) /\ Owed("outage") => Owed("outage")'
      <4>1. Owed("outage") => sends
        BY DEF Owed, Switches
      <4>2. outage'.pending => Owed("outage")'
        BY DEF Owed
      <4> QED
        BY <4>1, <4>2, <3>0, <3>1
    <3> QED
      BY <1>u, <1>0, <1>3, <2>2, <3>0, <3>2, <3>3, NoticeKept
  <2>3. ASSUME NEW taken \in SendAnswers,
               outage' = [since |-> Began(outage.since), pending |-> outage.pending,
                          alerted |-> outage.alerted
                                        \/ ((outage.since = "due" /\ ~outage.alerted) /\ taken)],
               Heard("outage", outage.since = "due" /\ ~outage.alerted, taken, "bad")
        PROVE  outage' \in OutageTypes /\ HistoryInv'
    <3> DEFINE sends == outage.since = "due" /\ ~outage.alerted
    <3>0. sends \in BOOLEAN /\ taken \in BOOLEAN
      BY <1>0, <2>3 DEF SendAnswers
    <3>1. outage' \in OutageTypes
      BY <1>0, <2>3, <3>0, BeganTyped DEF OutageTypes
    <3>2. /\ outage.alerted \/ outage.pending => outage'.alerted \/ outage'.pending
          /\ sends /\ taken => outage'.alerted
      BY <2>3
    <3>3. /\ Owed("outage") => outage.alerted \/ outage.pending
          /\ outage'.alerted \/ outage'.pending => Owed("outage")'
      BY DEF Owed, Switches
    <3> QED
      BY <1>u, <1>0, <1>3, <2>3, <3>0, <3>1, <3>2, <3>3, NoticeKept
  <2> QED
    BY <2>1, <2>2, <2>3 DEF WatchOutage
<1>5. MemoryTyped'
  BY <1>4 DEF NoticesInv, HistoryInv, MemoryTyped, WatchOutage
<1> QED
  BY <1>1, <1>2, <1>4, <1>5 DEF NoticesInv, HistoryInv

LEMMA EventsWatched == NoticesInv /\ WatchEvents => NoticesInv'
<1> SUFFICES ASSUME NoticesInv, WatchEvents PROVE NoticesInv'
  OBVIOUS
<1>0. /\ HeardTyped /\ event \in EventTypes /\ "events" \in Kinds
      /\ event.alerted \in BOOLEAN /\ event.restarted \in BOOLEAN /\ event.since \in Sinces
  BY DEF NoticesInv, HistoryInv, MemoryTyped, Kinds, Alarms, EventTypes
<1>u. UNCHANGED noticeFiles
  BY DEF WatchEvents
<1>1. WorldTyped'
  BY DEF NoticesInv, HistoryInv, WorldTyped, WatchEvents, worldVars
<1>2. FilesTyped'
  BY DEF NoticesInv, HistoryInv, FilesTyped, WatchEvents, noticeFiles
<1>3. \A k \in Kinds : k # "events" => (Owed(k) => Owed(k)')
  BY DEF WatchEvents, Owed
<1>a. /\ Owed("events") <=> event.alerted
      /\ Owed("events")' <=> event'.alerted
  BY DEF Owed, Switches
<1>4. event' \in EventTypes /\ HistoryInv'
  <2>1. ASSUME UNCHANGED heardVars, event' \in EventTypes, event'.alerted = event.alerted
        PROVE  event' \in EventTypes /\ HistoryInv'
    <3>1. told' = told /\ unwritten' = unwritten /\ lost' = lost /\ budget' = budget
      BY <2>1 DEF heardVars
    <3>2. \A k \in Kinds : Owed(k) => Owed(k)'
      BY <1>3, <1>a, <2>1
    <3>3. budget' \in 0..Changes
      BY <1>0, <3>1 DEF HeardTyped
    <3> QED
      BY <1>u, <1>0, <2>1, <3>1, <3>2, <3>3, NothingHeard, FilesStill
  <2>2. CASE UNCHANGED <<event, heardVars>>
    BY <1>0, <2>1, <2>2 DEF heardVars
  <2>3. CASE /\ event' = IF event.alerted THEN event ELSE [event EXCEPT !.since = "no"]
             /\ UNCHANGED heardVars
    <3>1. event' \in EventTypes /\ event'.alerted = event.alerted
      BY <1>0, <2>3 DEF EventTypes, Sinces
    <3> QED
      BY <2>1, <2>3, <3>1
  <2>4. ASSUME NEW taken \in SendAnswers, NEW reboot \in BOOLEAN,
               event' = [since |-> Began(event.since),
                         alerted |-> event.alerted
                                       \/ ((event.since = "due" /\ ~event.alerted) /\ taken),
                         restarted |-> event.restarted \/ (event.since = "due" /\ reboot)],
               Heard("events", event.since = "due" /\ ~event.alerted, taken, "bad")
        PROVE  event' \in EventTypes /\ HistoryInv'
    <3> DEFINE sends == event.since = "due" /\ ~event.alerted
    <3>0. sends \in BOOLEAN /\ taken \in BOOLEAN
      BY <1>0, <2>4 DEF SendAnswers
    <3>1. event' \in EventTypes
      BY <1>0, <2>4, <3>0, BeganTyped DEF EventTypes
    <3>2. (event.alerted => event'.alerted) /\ (sends /\ taken => event'.alerted)
      BY <2>4
    <3> QED
      BY <1>u, <1>0, <1>3, <1>a, <2>4, <3>0, <3>1, <3>2, NoticeKept
  <2>5. ASSUME NEW taken \in SendAnswers,
               event' = [NoFailure EXCEPT !.alerted = event.alerted /\ ~taken],
               Heard("events", event.alerted, taken, "well")
        PROVE  event' \in EventTypes /\ HistoryInv'
    <3>0. taken \in BOOLEAN
      BY <2>5 DEF SendAnswers
    <3>1. event' = [since |-> "no", alerted |-> event.alerted /\ ~taken, restarted |-> FALSE]
      BY <2>5 DEF NoFailure
    <3>2. event' \in EventTypes
      BY <1>0, <3>0, <3>1 DEF EventTypes, Sinces
    <3>3. ~(event.alerted /\ taken) /\ event.alerted => event'.alerted
      BY <1>0, <3>0, <3>1
    <3> QED
      BY <1>u, <1>0, <1>3, <1>a, <2>5, <3>0, <3>2, <3>3, NoticeKept
  <2> QED
    BY <2>2, <2>3, <2>4, <2>5 DEF WatchEvents
<1>5. MemoryTyped'
  BY <1>4 DEF NoticesInv, HistoryInv, MemoryTyped, WatchEvents
<1> QED
  BY <1>1, <1>2, <1>4, <1>5 DEF NoticesInv, HistoryInv

(* What a save, done or failed, does to the history.                             *)
LEMMA SavedTyped ==
  ASSUME HeardTyped, NEW kinds, NEW done \in SendAnswers, Saved(kinds, done),
         told' = told, lost' = lost
  PROVE  HeardTyped'
<1>1. unwritten' \subseteq Kinds
  BY DEF HeardTyped, Saved
<1>2. budget' \in 0..Changes
  <2>1. CASE budget > 0
    BY <2>1, NoticesAssumption DEF HeardTyped, Saved
  <2>2. CASE ~(budget > 0)
    BY <2>2 DEF HeardTyped, Saved, SendAnswers
  <2> QED
    BY <2>1, <2>2
<1> QED
  BY <1>1, <1>2 DEF HeardTyped

LEMMA HealthFileKept == NoticesInv /\ HealthFileSaved => NoticesInv'
<1> SUFFICES ASSUME NoticesInv, HealthFileSaved PROVE NoticesInv'
  OBVIOUS
<1>0. HeardTyped /\ MemoryTyped /\ FilesTyped /\ BadNewsIsOwed /\ FilesOwe
  BY DEF NoticesInv, HistoryInv
<1>1. WorldTyped' /\ MemoryTyped'
  BY DEF NoticesInv, WorldTyped, MemoryTyped, HealthFileSaved, worldVars, memoryVars
<1>2. PICK done \in SendAnswers :
        /\ health' = IF done THEN [outage |-> outage, event |-> event] ELSE health
        /\ Saved(HealthKinds, done)
  BY DEF HealthFileSaved
<1>3. FilesTyped'
  BY <1>0, <1>2 DEF FilesTyped, MemoryTyped, HealthFileSaved
<1>4. \A k \in Kinds : Owed(k) => Owed(k)'
  BY DEF HealthFileSaved, memoryVars, Owed
<1>5. told' = told /\ lost' = lost /\ runtime' = runtime
  BY DEF HealthFileSaved
<1>6. HeardTyped' /\ BadNewsIsOwed'
  BY <1>0, <1>2, <1>4, <1>5, SavedTyped DEF BadNewsIsOwed
<1>7. ASSUME NEW k \in HealthKinds \cup RuntimeKinds, told'[k] = "bad"
      PROVE  k \in lost' \cup unwritten' \/ FileOwes(k)'
  <2>1. k \in lost \cup unwritten \/ FileOwes(k)
    BY <1>0, <1>5, <1>7 DEF FilesOwe
  <2>2. CASE ~done
    <3>1. health' = health /\ unwritten' = unwritten
      BY <1>2, <2>2 DEF Saved
    <3> QED
      BY <1>5, <2>1, <3>1 DEF FileOwes
  <2>3. CASE done
    <3>1. health' = [outage |-> outage, event |-> event] /\ unwritten' = unwritten \ HealthKinds
      BY <1>2, <2>3 DEF Saved
    <3>2. CASE k \in HealthKinds
      <4>1. k \in lost \/ Owed(k)
        BY <1>0, <1>5, <1>7, <3>2 DEF BadNewsIsOwed, HealthKinds, Kinds, Alarms
      <4>2. Owed(k) => FileOwes(k)'
        BY <3>1, <3>2 DEF Owed, FileOwes, HealthKinds, Switches
      <4> QED
        BY <1>5, <4>1, <4>2
    <3>3. CASE k \notin HealthKinds
      <4>1. FileOwes(k) => FileOwes(k)'
        BY <1>5, <3>3 DEF FileOwes, HealthKinds
      <4> QED
        BY <1>5, <2>1, <3>1, <3>3, <4>1
    <3> QED
      BY <3>2, <3>3
  <2> QED
    BY <2>2, <2>3
<1>8. FilesOwe'
  BY <1>7 DEF FilesOwe
<1> QED
  BY <1>1, <1>3, <1>6, <1>8 DEF NoticesInv, HistoryInv

LEMMA RuntimeFileKept == NoticesInv /\ RuntimeFileSaved => NoticesInv'
<1> SUFFICES ASSUME NoticesInv, RuntimeFileSaved PROVE NoticesInv'
  OBVIOUS
<1>0. HeardTyped /\ MemoryTyped /\ FilesTyped /\ BadNewsIsOwed /\ FilesOwe
  BY DEF NoticesInv, HistoryInv
<1>1. WorldTyped' /\ MemoryTyped'
  BY DEF NoticesInv, WorldTyped, MemoryTyped, RuntimeFileSaved, worldVars, memoryVars
<1>2. PICK done \in SendAnswers :
        /\ Saved(RuntimeKinds, done)
        /\ done => runtime' = Snapshot \/ (UpToDate(runtime) /\ runtime' = runtime)
        /\ ~done => runtime' = runtime
  <2>1. TRUE \in SendAnswers
    BY DEF SendAnswers
  <2>2. CASE UpToDate(runtime) /\ runtime' = runtime /\ Saved(RuntimeKinds, TRUE)
    BY <2>1, <2>2
  <2>3. ASSUME NEW done \in SendAnswers, Saved(RuntimeKinds, done),
               runtime' = IF done THEN Snapshot ELSE runtime
        PROVE  /\ done => runtime' = Snapshot \/ (UpToDate(runtime) /\ runtime' = runtime)
               /\ ~done => runtime' = runtime
    BY <2>3, Zenon
  <2> QED
    BY <2>2, <2>3 DEF RuntimeFileSaved
<1>3. Snapshot \in [announced : AnnouncedTypes, restored : RestoredTypes, old : BOOLEAN]
  BY <1>0 DEF Snapshot, MemoryTyped
<1>4. FilesTyped'
  <2>1. runtime' \in {runtime, Snapshot}
    BY <1>2 DEF SendAnswers
  <2>2. health' = health
    BY DEF RuntimeFileSaved
  <2> QED
    BY <1>0, <1>3, <2>1, <2>2 DEF FilesTyped
<1>5. \A k \in Kinds : Owed(k) => Owed(k)'
  BY DEF RuntimeFileSaved, memoryVars, Owed
<1>6. told' = told /\ lost' = lost /\ health' = health
  BY DEF RuntimeFileSaved
<1>7. HeardTyped' /\ BadNewsIsOwed'
  BY <1>0, <1>2, <1>5, <1>6, SavedTyped DEF BadNewsIsOwed
<1>8. ASSUME NEW k \in HealthKinds \cup RuntimeKinds, told'[k] = "bad"
      PROVE  k \in lost' \cup unwritten' \/ FileOwes(k)'
  <2>1. k \in lost \cup unwritten \/ FileOwes(k)
    BY <1>0, <1>6, <1>8 DEF FilesOwe
  <2>2. CASE ~done
    <3>1. runtime' = runtime /\ unwritten' = unwritten
      BY <1>2, <2>2 DEF Saved
    <3> QED
      BY <1>6, <2>1, <3>1 DEF FileOwes
  <2>3. CASE done
    <3>1. /\ runtime'.announced = announced /\ runtime'.restored = restored
          /\ unwritten' = unwritten \ RuntimeKinds
      BY <1>2, <2>3 DEF Saved, Snapshot, UpToDate
    <3>2. CASE k \in RuntimeKinds
      <4>1. k \in lost \/ Owed(k)
        BY <1>0, <1>6, <1>8, <3>2 DEF BadNewsIsOwed, RuntimeKinds, Kinds, Alarms
      <4>2. Owed(k) => FileOwes(k)'
        BY <3>1, <3>2 DEF Owed, FileOwes, RuntimeKinds, Switches
      <4> QED
        BY <1>6, <4>1, <4>2
    <3>3. CASE k \notin RuntimeKinds
      <4>1. FileOwes(k) => FileOwes(k)'
        BY <1>6, <3>3 DEF FileOwes, RuntimeKinds
      <4> QED
        BY <1>6, <2>1, <3>1, <3>3, <4>1
    <3> QED
      BY <3>2, <3>3
  <2> QED
    BY <2>2, <2>3 DEF SendAnswers
<1>9. FilesOwe'
  BY <1>8 DEF FilesOwe
<1> QED
  BY <1>1, <1>4, <1>7, <1>9 DEF NoticesInv, HistoryInv

LEMMA SwitchesTold == NoticesInv /\ SwitchNotices => NoticesInv'
<1> SUFFICES ASSUME NoticesInv, SwitchNotices PROVE NoticesInv'
  OBVIOUS
<1>0. /\ HeardTyped /\ announced \in AnnouncedTypes /\ Switches \subseteq Kinds
      /\ reads \in [Switches -> {"unread", "well", "bad"}]
  BY DEF NoticesInv, HistoryInv, MemoryTyped, WorldTyped, Kinds
<1>1. WorldTyped' /\ FilesTyped'
  BY DEF NoticesInv, HistoryInv, WorldTyped, FilesTyped, SwitchNotices, worldVars, noticeFiles
<1>2. PICK failed \in {{}} \cup (IF budget > 0 THEN {{k} : k \in Switches} ELSE {}) :
        LET news == {k \in Switches : News(reads[k], announced[k])}
        IN /\ failed \subseteq news
           /\ announced' = [k \in Switches |-> SwitchNoted(reads[k], announced[k], k \notin failed)]
           /\ told' = [k \in Kinds |-> IF k \in news \ failed THEN reads[k] ELSE told[k]]
           /\ unwritten' = unwritten \cup (news \ failed)
           /\ lost' = lost \ (news \ failed)
           /\ budget' = IF failed = {} THEN budget ELSE budget - 1
  BY DEF SwitchNotices
<1> DEFINE news == {k \in Switches : News(reads[k], announced[k])}
<1>3. announced' \in AnnouncedTypes
  BY <1>0, <1>2 DEF AnnouncedTypes, SwitchNoted
<1>4. MemoryTyped'
  BY <1>3 DEF NoticesInv, HistoryInv, MemoryTyped, SwitchNotices
<1>5. \A k \in news : reads[k] \in {"well", "bad"}
  BY <1>0 DEF News
<1>6. HeardTyped'
  <2>1. told' \in [Kinds -> {"well", "bad"}]
    BY <1>0, <1>2, <1>5 DEF HeardTyped
  <2>2. lost' \subseteq Kinds /\ unwritten' \subseteq Kinds
    BY <1>0, <1>2 DEF HeardTyped
  <2>3. budget' \in 0..Changes
    <3>1. CASE failed = {}
      BY <1>0, <1>2, <3>1 DEF HeardTyped
    <3>2. CASE failed # {}
      <4>1. budget > 0
        BY <1>2, <3>2
      <4> QED
        BY <1>0, <1>2, <3>2, <4>1, NoticesAssumption DEF HeardTyped
    <3> QED
      BY <3>1, <3>2
  <2> QED
    BY <2>1, <2>2, <2>3 DEF HeardTyped
<1>7. \A k \in Kinds \ Switches : Owed(k) => Owed(k)'
  BY DEF SwitchNotices, Owed
<1>a. \A k \in Switches : (announced[k] = "bad" <=> Owed(k)) /\ (announced'[k] = "bad" <=> Owed(k)')
  BY DEF Owed, Switches
<1>8. ASSUME NEW k \in Kinds, told'[k] = "bad" PROVE k \in lost' \/ Owed(k)'
  <2>1. CASE k \notin Switches
    <3>1. told[k] = "bad" /\ (k \in lost => k \in lost')
      BY <1>0, <1>2, <1>8, <2>1
    <3> QED
      BY <2>1, <3>1, <1>7 DEF NoticesInv, HistoryInv, BadNewsIsOwed
  <2>2. CASE k \in news \ failed
    <3>1. reads[k] = "bad" /\ announced'[k] = reads[k]
      BY <1>2, <1>8, <2>2 DEF SwitchNoted, News
    <3> QED
      BY <1>a, <2>2, <3>1
  <2>3. CASE k \in Switches /\ k \notin news \ failed
    <3>1. told[k] = "bad" /\ (k \in lost => k \in lost')
      BY <1>2, <1>8, <2>3
    <3>2. announced[k] = "bad" => announced'[k] = "bad"
      BY <1>0, <1>2, <2>3 DEF SwitchNoted, News
    <3> QED
      BY <1>a, <2>3, <3>1, <3>2 DEF NoticesInv, HistoryInv, BadNewsIsOwed
  <2> QED
    BY <2>1, <2>2, <2>3
<1>9. BadNewsIsOwed'
  BY <1>8 DEF BadNewsIsOwed
<1>b. ASSUME NEW k \in HealthKinds \cup RuntimeKinds, told'[k] = "bad"
      PROVE  k \in lost' \cup unwritten' \/ FileOwes(k)'
  <2>0. k \in Kinds
    BY DEF HealthKinds, RuntimeKinds, Kinds, Alarms
  <2>1. CASE k \in news \ failed
    BY <1>2, <2>1
  <2>2. CASE k \notin news \ failed
    <3>1. told[k] = "bad"
      BY <1>2, <1>b, <2>0, <2>2
    <3>2. k \in lost \cup unwritten \/ FileOwes(k)
      BY <3>1 DEF NoticesInv, HistoryInv, FilesOwe
    <3>3. FileOwes(k) => FileOwes(k)'
      BY DEF SwitchNotices, noticeFiles, FileOwes
    <3> QED
      BY <1>2, <2>2, <3>2, <3>3
  <2> QED
    BY <2>1, <2>2
<1>c. FilesOwe'
  BY <1>b DEF FilesOwe
<1> QED
  BY <1>1, <1>4, <1>6, <1>9, <1>c DEF NoticesInv, HistoryInv

LEMMA PersonTold == NoticesInv /\ PersonNotice => NoticesInv'
<1> SUFFICES ASSUME NoticesInv, PersonNotice PROVE NoticesInv'
  OBVIOUS
<1>0. /\ HeardTyped /\ restored \in RestoredTypes /\ "person" \in Kinds
      /\ restored.said \in {"none", "well", "bad"} /\ restored.owed \in BOOLEAN
      /\ restored.recent \in BOOLEAN
      /\ person \in {"unread", "well", "bad", "restored"}
  BY DEF NoticesInv, HistoryInv, MemoryTyped, WorldTyped, Kinds, Alarms, RestoredTypes
<1>u. UNCHANGED noticeFiles
  BY DEF PersonNotice
<1>1. WorldTyped' /\ FilesTyped'
  BY DEF NoticesInv, HistoryInv, WorldTyped, FilesTyped, PersonNotice, worldVars, noticeFiles
<1>2. \A k \in Kinds : k # "person" => (Owed(k) => Owed(k)')
  BY DEF PersonNotice, Owed
<1>3. /\ Owed("person") <=> restored.said = "bad" \/ restored.owed
      /\ Owed("person")' <=> restored'.said = "bad" \/ restored'.owed
  BY DEF Owed, Switches
<1>4. restored' \in RestoredTypes /\ HistoryInv'
  <2>1. ASSUME HeldBack, restored' = [restored EXCEPT !.said = "well"], UNCHANGED heardVars
        PROVE  restored' \in RestoredTypes /\ HistoryInv'
    <3>1. told' = told /\ unwritten' = unwritten /\ lost' = lost /\ budget' = budget /\ budget \in 0..Changes
      BY <1>0, <2>1 DEF heardVars, HeardTyped
    <3>2. restored' \in RestoredTypes
      BY <1>0, <2>1 DEF RestoredTypes
    <3>3. ~Owed("person")
      BY <1>3, <2>1 DEF HeldBack
    <3>4. \A k \in Kinds : Owed(k) => Owed(k)'
      BY <1>2, <3>3
    <3> QED
      BY <1>u, <3>1, <3>2, <3>4, NothingHeard, FilesStill
  <2>2. ASSUME NEW taken \in SendAnswers,
               restored' = [said |-> "well", owed |-> ~taken, recent |-> restored.recent \/ taken],
               Heard("person", TRUE, taken, "well")
        PROVE  restored' \in RestoredTypes /\ HistoryInv'
    <3>0. taken \in BOOLEAN
      BY <2>2 DEF SendAnswers
    <3>1. restored' \in RestoredTypes
      BY <1>0, <2>2, <3>0 DEF RestoredTypes
    <3>2. ~taken => restored'.owed
      BY <2>2
    <3> QED
      BY <1>u, <1>0, <1>2, <1>3, <2>2, <3>0, <3>1, <3>2, NoticeKept
  <2>3. ASSUME NEW taken \in SendAnswers, person # "restored",
               ~(person = "well" /\ restored.owed),
               restored' = [restored EXCEPT !.said = SwitchNoted(person, @, taken)],
               Heard("person", News(person, restored.said), taken, person)
        PROVE  restored' \in RestoredTypes /\ HistoryInv'
    <3> DEFINE sends == News(person, restored.said)
    <3>0. taken \in BOOLEAN /\ sends \in BOOLEAN
      BY <2>3 DEF SendAnswers, News
    <3>1. sends => person \in {"well", "bad"}
      BY <1>0, <2>3 DEF News
    <3>2. /\ SwitchNoted(person, restored.said, taken) \in {"none", "well", "bad"}
          /\ sends /\ taken => SwitchNoted(person, restored.said, taken) = person
          /\ ~(sends /\ taken) /\ restored.said = "bad"
               => SwitchNoted(person, restored.said, taken) = "bad"
      BY <1>0, <2>3 DEF SwitchNoted, News
    <3>3. /\ restored' \in RestoredTypes /\ restored'.owed = restored.owed
          /\ restored'.said = SwitchNoted(person, restored.said, taken)
      BY <1>0, <2>3, <3>2 DEF RestoredTypes
    <3>4. sends /\ taken /\ person = "bad" => Owed("person")'
      BY <1>3, <3>2, <3>3
    <3>5. ~(sends /\ taken) /\ Owed("person") => Owed("person")'
      BY <1>3, <3>2, <3>3
    <3> QED
      BY <1>u, <1>0, <1>2, <2>3, <3>0, <3>1, <3>3, <3>4, <3>5, NoticeKept
  <2> QED
    BY <2>1, <2>2, <2>3 DEF PersonNotice
<1>5. MemoryTyped'
  BY <1>4 DEF NoticesInv, HistoryInv, MemoryTyped, PersonNotice
<1> QED
  BY <1>1, <1>4, <1>5 DEF NoticesInv, HistoryInv

LEMMA DiskTold == NoticesInv /\ DiskNotice => NoticesInv'
<1> SUFFICES ASSUME NoticesInv, DiskNotice PROVE NoticesInv'
  OBVIOUS
<1>0. /\ HeardTyped /\ warned \in BOOLEAN /\ roomy \in BOOLEAN /\ "disk" \in Kinds
  BY DEF NoticesInv, HistoryInv, MemoryTyped, WorldTyped, Kinds, Alarms
<1>u. UNCHANGED noticeFiles
  BY DEF DiskNotice
<1>1. WorldTyped' /\ FilesTyped'
  BY DEF NoticesInv, HistoryInv, WorldTyped, FilesTyped, DiskNotice, worldVars, noticeFiles
<1>2. \A k \in Kinds : k # "disk" => (Owed(k) => Owed(k)')
  BY DEF DiskNotice, Owed
<1>3. (Owed("disk") <=> warned) /\ (Owed("disk")' <=> warned')
  BY DEF Owed, Switches
<1>4. PICK taken \in SendAnswers :
        /\ warned' = IF warned = roomy /\ taken THEN ~warned ELSE warned
        /\ Heard("disk", warned = roomy, taken, IF roomy THEN "well" ELSE "bad")
  BY DEF DiskNotice
<1> DEFINE sends == warned = roomy
           what == IF roomy THEN "well" ELSE "bad"
<1>5. /\ taken \in BOOLEAN /\ sends \in BOOLEAN /\ what \in {"well", "bad"}
      /\ what = "bad" <=> ~roomy
  BY <1>0 DEF SendAnswers
<1>6. /\ warned' \in BOOLEAN
      /\ sends /\ taken /\ what = "bad" => warned'
      /\ ~(sends /\ taken) /\ warned => warned'
  <2>1. warned' \in BOOLEAN
    BY <1>0, <1>4
  <2>2. ~(sends /\ taken) /\ warned => warned'
    BY <1>4
  <2>3. ASSUME sends, taken, what = "bad" PROVE warned'
    <3>1. ~roomy
      BY <1>5, <2>3
    <3>2. ~warned
      BY <1>0, <2>3, <3>1
    <3>3. warned' = ~warned
      BY <1>4, <2>3
    <3> QED
      BY <3>2, <3>3
  <2> QED
    BY <2>1, <2>2, <2>3
<1>7. HistoryInv'
  <2>1. Heard("disk", sends, taken, what)
    BY <1>4
  <2> HIDE DEF sends, what
  <2> QED
    BY <1>u, <1>0, <1>2, <1>3, <1>5, <1>6, <2>1, NoticeKept
<1>8. MemoryTyped'
  BY <1>6 DEF NoticesInv, HistoryInv, MemoryTyped, DiskNotice
<1> QED
  BY <1>1, <1>7, <1>8 DEF NoticesInv, HistoryInv

LEMMA StallWatched == NoticesInv /\ WatchStall => NoticesInv'
<1> SUFFICES ASSUME NoticesInv, WatchStall PROVE NoticesInv'
  OBVIOUS
<1>0. /\ HeardTyped /\ stalled \in StallTypes /\ stalled.since \in Sinces
      /\ stalled.alerted \in BOOLEAN /\ "stall" \in Kinds
  BY DEF NoticesInv, HistoryInv, MemoryTyped, Kinds, Alarms, StallTypes
<1>u. UNCHANGED noticeFiles
  BY DEF WatchStall
<1>1. WorldTyped' /\ FilesTyped'
  BY DEF NoticesInv, HistoryInv, WorldTyped, FilesTyped, WatchStall, worldVars, noticeFiles
<1>2. (\A k \in Kinds : Owed(k) => Owed(k)') /\ Owed("stall")'
  BY DEF WatchStall, Owed
<1>3. stalled' \in StallTypes /\ HistoryInv'
  <2>1. ASSUME NEW taken \in SendAnswers, stalled' = NoStall,
               Heard("stall", stalled.alerted, taken, "well")
        PROVE  stalled' \in StallTypes /\ HistoryInv'
    <3>1. stalled' \in StallTypes
      BY <2>1 DEF NoStall, StallTypes, Sinces
    <3> QED
      BY <1>u, <1>0, <1>2, <2>1, <3>1, NoticeKept
  <2>2. ASSUME NEW taken \in SendAnswers,
               stalled' = [since |-> Began(stalled.since),
                           alerted |-> stalled.alerted
                                         \/ ((stalled.since = "due" /\ ~stalled.alerted) /\ taken)],
               Heard("stall", stalled.since = "due" /\ ~stalled.alerted, taken, "bad")
        PROVE  stalled' \in StallTypes /\ HistoryInv'
    <3>0. taken \in BOOLEAN
      BY <2>2 DEF SendAnswers
    <3>1. stalled' \in StallTypes
      BY <1>0, <2>2, <3>0, BeganTyped DEF StallTypes
    <3>2. (stalled.since = "due" /\ ~stalled.alerted) \in BOOLEAN
      OBVIOUS
    <3> QED
      BY <1>u, <1>0, <1>2, <2>2, <3>1, <3>2, NoticeKept
  <2> QED
    BY <2>1, <2>2 DEF WatchStall
<1>4. MemoryTyped'
  BY <1>3 DEF NoticesInv, HistoryInv, MemoryTyped, WatchStall
<1> QED
  BY <1>1, <1>3, <1>4 DEF NoticesInv, HistoryInv

LEMMA TickRaised == NoticesInv /\ TickRaises => NoticesInv'
<1> SUFFICES ASSUME NoticesInv, TickRaises PROVE NoticesInv'
  OBVIOUS
<1>u. UNCHANGED noticeFiles
  BY DEF TickRaises
<1>1. WorldTyped' /\ MemoryTyped' /\ FilesTyped'
  BY DEF NoticesInv, HistoryInv, WorldTyped, MemoryTyped, FilesTyped, TickRaises, worldVars, memoryVars,
         noticeFiles
<1>2. told' = told /\ unwritten' = unwritten /\ lost' = lost /\ budget' \in 0..Changes
  BY NoticesAssumption DEF TickRaises, NoticesInv, HistoryInv, HeardTyped
<1>3. \A k \in Kinds : Owed(k) => Owed(k)'
  BY DEF TickRaises, memoryVars, Owed
<1> QED
  BY <1>u, <1>1, <1>2, <1>3, NothingHeard, FilesStill DEF NoticesInv, HistoryInv

LEMMA TickStarted == NoticesInv /\ TickStarts => NoticesInv'
<1> SUFFICES ASSUME NoticesInv, TickStarts PROVE NoticesInv'
  OBVIOUS
<1>u. UNCHANGED noticeFiles
  BY DEF TickStarts
<1>1. WorldTyped' /\ MemoryTyped' /\ FilesTyped'
  BY DEF NoticesInv, HistoryInv, WorldTyped, MemoryTyped, FilesTyped, TickStarts, worldVars, memoryVars,
         noticeFiles
<1>2. told' = told /\ unwritten' = unwritten /\ lost' = lost /\ budget' \in 0..Changes
  BY NoticesAssumption DEF TickStarts, NoticesInv, HistoryInv, HeardTyped, heardVars
<1>3. \A k \in Kinds : Owed(k) => Owed(k)'
  BY DEF TickStarts, memoryVars, Owed
<1> QED
  BY <1>u, <1>1, <1>2, <1>3, NothingHeard, FilesStill DEF NoticesInv, HistoryInv

LEMMA GrownDue == NoticesInv /\ GrowsDue => NoticesInv'
<1> SUFFICES ASSUME NoticesInv, GrowsDue PROVE NoticesInv'
  OBVIOUS
<1>0. /\ health' = health
      /\ \/ runtime' = runtime
         \/ runtime' = [runtime EXCEPT !.restored.recent = FALSE]
         \/ runtime' = [runtime EXCEPT !.old = TRUE]
  BY DEF GrowsDue
<1>1. WorldTyped' /\ FilesTyped' /\ \A k \in Kinds : FileOwes(k) => FileOwes(k)'
  <2>1. FilesTyped
    BY DEF NoticesInv
  <2>2. runtime.restored \in RestoredTypes /\ runtime.announced \in AnnouncedTypes
    BY <2>1 DEF FilesTyped
  <2> DEFINE fine(r) == /\ r.restored.said = runtime.restored.said
                         /\ r.restored.owed = runtime.restored.owed
                         /\ r.announced = runtime.announced
                         /\ r \in [announced : AnnouncedTypes, restored : RestoredTypes,
                                    old : BOOLEAN]
  <2>a. fine(runtime)
    BY <2>1, <2>2 DEF FilesTyped
  <2>b. fine([runtime EXCEPT !.old = TRUE])
    BY <2>1, <2>2 DEF FilesTyped
  <2>c. fine([runtime EXCEPT !.restored.recent = FALSE])
    <3> DEFINE quiet == [runtime.restored EXCEPT !.recent = FALSE]
    <3>1. quiet \in RestoredTypes /\ quiet.said = runtime.restored.said
          /\ quiet.owed = runtime.restored.owed
      BY <2>2 DEF RestoredTypes
    <3>2. [runtime EXCEPT !.restored.recent = FALSE] = [runtime EXCEPT !.restored = quiet]
      BY <2>1 DEF FilesTyped
    <3> HIDE DEF quiet
    <3> QED
      BY <2>1, <2>2, <3>1, <3>2 DEF FilesTyped
  <2>3. fine(runtime')
    <3> HIDE DEF fine
    <3> QED
      BY <1>0, <2>a, <2>b, <2>c
  <2>4. FilesTyped' /\ \A k \in Kinds : FileOwes(k) => FileOwes(k)'
    BY <1>0, <2>1, <2>3 DEF FilesTyped, FileOwes
  <2>5. WorldTyped'
    BY DEF NoticesInv, WorldTyped, GrowsDue, worldVars
  <2> QED
    BY <2>4, <2>5
<1>2. MemoryTyped
  BY DEF NoticesInv, HistoryInv
<1>3. /\ outage' \in OutageTypes /\ outage'.alerted = outage.alerted
      /\ outage'.pending = outage.pending
  BY <1>2 DEF GrowsDue, MemoryTyped, OutageTypes, Sinces
<1>4. event' \in EventTypes /\ event'.alerted = event.alerted
  BY <1>2 DEF GrowsDue, MemoryTyped, EventTypes, Sinces
<1>5. stalled' \in StallTypes
  BY <1>2 DEF GrowsDue, MemoryTyped, StallTypes, Sinces
<1>6. /\ restored' \in RestoredTypes /\ restored'.said = restored.said
      /\ restored'.owed = restored.owed
  BY <1>2 DEF GrowsDue, MemoryTyped, RestoredTypes
<1>7. MemoryTyped'
  BY <1>3, <1>4, <1>5, <1>6 DEF NoticesInv, HistoryInv, MemoryTyped, GrowsDue
<1>8. told' = told /\ unwritten' = unwritten /\ lost' = lost /\ budget' \in 0..Changes
  BY DEF GrowsDue, NoticesInv, HistoryInv, HeardTyped, heardVars
<1>9. \A k \in Kinds : Owed(k) => Owed(k)'
  BY <1>3, <1>4, <1>6 DEF GrowsDue, Owed
<1> QED
  BY <1>1, <1>7, <1>8, <1>9, NothingHeard DEF NoticesInv, HistoryInv

LEMMA WorldChanged == NoticesInv /\ WorldChanges => NoticesInv'
<1> SUFFICES ASSUME NoticesInv, WorldChanges PROVE NoticesInv'
  OBVIOUS
<1>u. UNCHANGED noticeFiles
  BY DEF WorldChanges
<1>1. MemoryTyped' /\ FilesTyped'
  BY DEF NoticesInv, HistoryInv, MemoryTyped, FilesTyped, WorldChanges, memoryVars, noticeFiles
<1>2. WorldTyped'
  <2>1. WorldTyped
    BY DEF NoticesInv, HistoryInv
  <2>2. pings' \in BOOLEAN /\ logins' \in BOOLEAN /\ muted' \in BOOLEAN /\ roomy' \in BOOLEAN
    BY <2>1 DEF WorldChanges, WorldTyped
  <2>3. answers' \in {"none", "ok", "fail"} /\ person' \in {"unread", "well", "bad", "restored"}
    BY <2>1 DEF WorldChanges, WorldTyped
  <2>4. reads' \in [Switches -> {"unread", "well", "bad"}]
    BY <2>1 DEF WorldChanges, WorldTyped
  <2> QED
    BY <2>2, <2>3, <2>4 DEF WorldTyped
<1>3. told' = told /\ unwritten' = unwritten /\ lost' = lost /\ budget' \in 0..Changes
  BY NoticesAssumption DEF WorldChanges, NoticesInv, HistoryInv, HeardTyped
<1>4. \A k \in Kinds : Owed(k) => Owed(k)'
  BY DEF WorldChanges, memoryVars, Owed
<1> QED
  BY <1>u, <1>1, <1>2, <1>3, <1>4, NothingHeard, FilesStill DEF NoticesInv, HistoryInv

(* Memory is what the files kept, and they owe all bad news that the restart does *)
(* not forget.                                                                   *)
LEMMA NoticesCrashed == NoticesInv /\ NoticesCrash => NoticesInv'
<1> SUFFICES ASSUME NoticesInv, NoticesCrash PROVE NoticesInv'
  OBVIOUS
<1>0. HeardTyped /\ MemoryTyped /\ FilesTyped /\ BadNewsIsOwed /\ FilesOwe
  BY DEF NoticesInv, HistoryInv
<1>1. PICK file \in {runtime, Snapshot}, longDown \in BOOLEAN :
        LET old == file.old \/ longDown
        IN /\ runtime' = [file EXCEPT !.old = old]
           /\ announced' = IF old THEN NothingAnnounced ELSE file.announced
           /\ restored' = IF old THEN NoPerson ELSE file.restored
           /\ lost' = lost \cup {k \in RestartForgets(file, old) : told[k] = "bad"}
  BY DEF NoticesCrash
<1> DEFINE old == file.old \/ longDown
<1>2. /\ file \in [announced : AnnouncedTypes, restored : RestoredTypes, old : BOOLEAN]
      /\ file.announced \in AnnouncedTypes /\ file.restored \in RestoredTypes
      /\ old \in BOOLEAN
  <2>1. Snapshot \in [announced : AnnouncedTypes, restored : RestoredTypes, old : BOOLEAN]
    BY <1>0 DEF Snapshot, MemoryTyped
  <2>2. file \in [announced : AnnouncedTypes, restored : RestoredTypes, old : BOOLEAN]
    BY <1>0, <2>1 DEF FilesTyped
  <2> QED
    BY <2>2
<1>3. /\ health' = health /\ outage' = health.outage /\ event' = health.event
      /\ told' = told /\ unwritten' = {}
  BY DEF NoticesCrash
<1>4. WorldTyped'
  BY DEF NoticesInv, WorldTyped, NoticesCrash, worldVars
<1>5. FilesTyped'
  BY <1>0, <1>1, <1>2, <1>3 DEF FilesTyped
<1>6. MemoryTyped'
  <2>1. /\ NoStall \in StallTypes /\ NothingAnnounced \in AnnouncedTypes
        /\ NoPerson \in RestoredTypes
    BY DEF NoStall, StallTypes, Sinces, NothingAnnounced, AnnouncedTypes, NoPerson, RestoredTypes
  <2>2. announced' \in AnnouncedTypes /\ restored' \in RestoredTypes
    BY <1>1, <1>2, <2>1
  <2>3. health.outage \in OutageTypes /\ health.event \in EventTypes
    BY <1>0 DEF FilesTyped
  <2>4. stalled' = NoStall /\ warned' = FALSE
    BY DEF NoticesCrash
  <2> QED
    BY <1>3, <2>1, <2>2, <2>3, <2>4 DEF MemoryTyped
<1>7. lost' = lost \cup {k \in RestartForgets(file, old) : told[k] = "bad"}
  BY <1>1
<1>8. HeardTyped'
  <2>1. RestartForgets(file, old) \subseteq Kinds
    BY <1>0 DEF RestartForgets, HeardTyped, RuntimeKinds, Kinds, Alarms
  <2>2. budget' \in 0..Changes
    BY <1>0, NoticesAssumption DEF NoticesCrash, HeardTyped
  <2> HIDE DEF old
  <2> QED
    BY <1>0, <1>3, <1>7, <2>1, <2>2 DEF HeardTyped
<1>9. ASSUME NEW k \in HealthKinds \cup RuntimeKinds, told'[k] = "bad", k \notin lost'
      PROVE  FileOwes(k)' /\ Owed(k)'
  <2>1. told[k] = "bad" /\ k \notin lost /\ k \notin RestartForgets(file, old)
    BY <1>3, <1>7, <1>9
  <2>2. k \in Kinds
    BY DEF HealthKinds, RuntimeKinds, Kinds, Alarms
  <2>3. CASE k \in HealthKinds
    <3>1. k \notin unwritten
      BY <2>1, <2>3 DEF RestartForgets, HealthKinds, RuntimeKinds, Switches
    <3>2. FileOwes(k)
      BY <1>0, <2>1, <3>1 DEF FilesOwe
    <3> QED
      BY <1>3, <2>3, <3>2 DEF FileOwes, Owed, HealthKinds, Switches
  <2>4. CASE k \in RuntimeKinds
    <3>1. ~old /\ (k \notin unwritten \/ UpToDate(file))
      BY <2>1, <2>4 DEF RestartForgets
    <3>2. runtime'.announced = file.announced /\ runtime'.restored = file.restored
      BY <1>1, <1>2
    <3>3. announced' = file.announced /\ restored' = file.restored
      BY <1>1, <3>1
    <3>4. \/ k = "person" /\ (file.restored.said = "bad" \/ file.restored.owed)
          \/ k \in Switches /\ file.announced[k] = "bad"
      <4>1. CASE UpToDate(file)
        <5>1. Owed(k)
          BY <1>0, <2>1, <2>2 DEF BadNewsIsOwed
        <5> QED
          BY <2>4, <4>1, <5>1 DEF UpToDate, Owed, RuntimeKinds, Switches
      <4>2. CASE ~UpToDate(file)
        <5>1. file = runtime /\ k \notin unwritten
          BY <3>1, <4>2 DEF UpToDate, Snapshot
        <5>2. FileOwes(k)
          BY <1>0, <2>1, <5>1 DEF FilesOwe
        <5> QED
          BY <2>4, <5>1, <5>2 DEF FileOwes, RuntimeKinds, Switches
      <4> QED
        BY <4>1, <4>2
    <3> HIDE DEF old
    <3> QED
      BY <3>2, <3>3, <3>4 DEF FileOwes, Owed
  <2> QED
    BY <2>3, <2>4
<1>10. BadNewsIsOwed'
  <2>1. ASSUME NEW k \in Kinds, told'[k] = "bad", k \notin lost' PROVE Owed(k)'
    <3>1. CASE k \in HealthKinds \cup RuntimeKinds
      BY <1>9, <2>1, <3>1
    <3>2. CASE k = "disk"
      <4>1. k \in lost'
        BY <1>3, <1>7, <2>1, <3>2 DEF RestartForgets
      <4> QED
        BY <2>1, <4>1
    <3>3. CASE k = "stall"
      BY <3>3 DEF Owed
    <3> QED
      BY <3>1, <3>2, <3>3 DEF Kinds, Alarms, HealthKinds, RuntimeKinds
  <2> QED
    BY <2>1 DEF BadNewsIsOwed
<1>11. FilesOwe'
  BY <1>9 DEF FilesOwe
<1> QED
  BY <1>4, <1>5, <1>6, <1>8, <1>10, <1>11 DEF NoticesInv, HistoryInv

LEMMA NoticesStep == NoticesInv /\ [NoticesNext]_noticesVars => NoticesInv'
<1> SUFFICES ASSUME NoticesInv, [NoticesNext]_noticesVars PROVE NoticesInv'
  OBVIOUS
<1>1. CASE UNCHANGED noticesVars
  BY <1>1 DEF NoticesInv, HistoryInv, noticesVars, worldVars, memoryVars, noticeFiles, heardVars, WorldTyped,
     MemoryTyped, FilesTyped, HeardTyped, BadNewsIsOwed, Owed, FilesOwe, FileOwes
<1>2. CASE NoticesTick
  BY <1>2, OutageWatched, EventsWatched, HealthFileKept, SwitchesTold, PersonTold, DiskTold,
     RuntimeFileKept, StallWatched DEF NoticesTick
<1>3. CASE TickStarts \/ TickRaises \/ GrowsDue \/ WorldChanges \/ NoticesCrash
  BY <1>3, TickStarted, TickRaised, GrownDue, WorldChanged, NoticesCrashed
<1> QED
  BY <1>1, <1>2, <1>3 DEF NoticesNext

(* Whatever is sent, refused or raised, and wherever the daemon restarts: while  *)
(* the operator's last word is bad news, what makes the daemon send the good     *)
(* news later is held (watchdogs of daemon.py).                                  *)
THEOREM BadNewsIsOwedCorrect == NoticesSpec => [](NoticesTypeOK /\ BadNewsIsOwed)
<1> QED
  BY NoticesInitInv, NoticesStep, NoticesTypes, PTL DEF NoticesSpec
----------------------------------------------------------------------------
(* The scorer's clients *)

Conditions == {"up", "hung", "dead"}
Asks == [step : {"idle"}] \cup [step : {"request"}, url : Candidates]
          \cup [step : {"probing"}, from : Candidates, left : Seq(Candidates)]
          \cup [step : {"found"}, from : Candidates, to : Candidates]
ReportTypes == [url : Candidates, healthy : BOOLEAN]

PoolTyped ==
  /\ condition \in [Candidates -> Conditions] /\ changes \in 0..ServiceChanges
  /\ active \in Candidates /\ chosen \in Candidates
  /\ misses \in 0..(FailThreshold - 1) /\ recheck \in BOOLEAN
AsksTyped == asking \in [ScoreThreads -> Asks]
ProbesTyped ==
  /\ believed \in [Candidates -> BOOLEAN]
  /\ failedRounds \in [Candidates -> 0..ProbeFails]
  /\ healthRound = NoRound \/ healthRound \in [Candidates -> BOOLEAN]
  /\ reports \subseteq ReportTypes
  /\ waitingDown \subseteq Candidates /\ downTold \subseteq Candidates

(* A transition is reported as the probe thread believes it, none while a round *)
(* is being gathered, and until it is reported the notices are of the belief    *)
(* before it.                                                                  *)
ToReport == {r.url : r \in reports}
NoticesFollow ==
  /\ healthRound # NoRound => reports = {}
  /\ \A r \in reports : r.healthy = believed[r.url]
  /\ waitingDown \cap downTold = {}
  /\ \A c \in Candidates : c \in waitingDown \cup downTold <=> (believed[c] <=> c \in ToReport)

ScorerInv == PoolTyped /\ AsksTyped /\ ProbesTyped /\ NoticesFollow

LEMMA ScorerTypes == ScorerInv => ScorerTypeOK /\ WatchKnowsDown
<1> SUFFICES ASSUME ScorerInv PROVE ScorerTypeOK /\ WatchKnowsDown
  OBVIOUS
<1>1. \A t \in ScoreThreads : asking[t].step \in {"idle", "request", "probing", "found"}
  BY DEF ScorerInv, AsksTyped, Asks
<1>2. ScorerTypeOK
  BY <1>1 DEF ScorerInv, PoolTyped, ProbesTyped, ScorerTypeOK, Conditions, ReportTypes
<1>3. WatchKnowsDown
  <2>1. waitingDown \cup downTold \subseteq Candidates
    BY DEF ScorerInv, ProbesTyped
  <2>2. ASSUME reports = {}
        PROVE  waitingDown \cup downTold = {c \in Candidates : ~believed[c]}
    <3>1. \A c \in Candidates : c \in waitingDown \cup downTold <=> ~believed[c]
      BY <2>2 DEF ScorerInv, ProbesTyped, NoticesFollow, ToReport
    <3> QED
      BY <2>1, <3>1
  <2> QED
    BY <2>2 DEF ScorerInv, NoticesFollow, WatchKnowsDown
<1> QED
  BY <1>2, <1>3

LEMMA ZeroIsCandidate == 0 \in Candidates /\ Candidates \subseteq Nat
  BY ScorerAssumption DEF Candidates

LEMMA OthersTyped == \A c \in Candidates : Others(c) \in Seq(Candidates)
<1> SUFFICES ASSUME NEW c \in Candidates PROVE Others(c) \in Seq(Candidates)
  OBVIOUS
<1>1. \A step \in 1..(Services - 1) : (c + step) % Services \in Candidates
  BY ScorerAssumption DEF Candidates
<1>2. Services - 1 \in Nat
  BY ScorerAssumption
<1> QED
  BY <1>1, <1>2 DEF Others

LEMMA ScorerInitInv == ScorerInit => ScorerInv
<1> SUFFICES ASSUME ScorerInit PROVE ScorerInv
  OBVIOUS
<1> USE DEF ScorerInit
<1>1. PoolTyped
  BY ScorerAssumption, ZeroIsCandidate DEF PoolTyped, Conditions
<1>2. AsksTyped
  BY DEF AsksTyped, Asks, Resting
<1>3. ProbesTyped
  BY ScorerAssumption DEF ProbesTyped
<1>4. NoticesFollow
  BY DEF NoticesFollow, ToReport
<1> QED
  BY <1>1, <1>2, <1>3, <1>4 DEF ScorerInv

(* What leaves the probe thread and the notices alone keeps their part.        *)
LEMMA ScorerFrame ==
  ASSUME ScorerInv, UNCHANGED <<probeVars, noticeVars>>, PoolTyped', AsksTyped'
  PROVE  ScorerInv'
<1>1. /\ believed' = believed /\ failedRounds' = failedRounds /\ healthRound' = healthRound
      /\ reports' = reports /\ waitingDown' = waitingDown /\ downTold' = downTold
  BY DEF probeVars, noticeVars
<1> QED
  BY <1>1 DEF ScorerInv, ProbesTyped, NoticesFollow, ToReport

LEMMA PoolThen ==
  ASSUME ScorerInv, condition' = condition, changes' = changes,
         \/ UNCHANGED poolVars
         \/ \E c \in Candidates : SwitchTo(c)
         \/ ReturnsToPrimary
  PROVE  PoolTyped'
<1>0. PoolTyped
  BY DEF ScorerInv
<1>1. CASE UNCHANGED poolVars
  BY <1>0, <1>1 DEF PoolTyped, poolVars
<1>2. ASSUME NEW c \in Candidates, SwitchTo(c) PROVE PoolTyped'
  <2>1. active' = c /\ misses' = 0 /\ recheck' = FALSE /\ chosen' = c
    BY <1>2 DEF SwitchTo
  <2>2. 0 \in 0..(FailThreshold - 1)
    BY ScorerAssumption
  <2> QED
    BY <1>0, <2>1, <2>2 DEF PoolTyped
<1>3. CASE ReturnsToPrimary
  <2>1. CASE HealthOk(0)
    BY <1>2, <1>3, <2>1, ZeroIsCandidate DEF ReturnsToPrimary
  <2>2. CASE ~HealthOk(0)
    BY <1>0, <1>3, <2>2 DEF ReturnsToPrimary, PoolTyped
  <2> QED
    BY <2>1, <2>2
<1> QED
  BY <1>1, <1>2, <1>3

LEMMA AskThen ==
  ASSUME ScorerInv, NEW t \in ScoreThreads, NEW a \in Asks,
         asking' = [asking EXCEPT ![t] = a]
  PROVE  AsksTyped'
  BY DEF ScorerInv, AsksTyped

LEMMA RestingAsks == Resting \in Asks
  BY DEF Resting, Asks

LEMMA ScoreBegan == ASSUME NEW t \in ScoreThreads, ScorerInv, ScoreBegins(t) PROVE ScorerInv'
<1>0. /\ ReturnsToPrimary \/ UNCHANGED poolVars
      /\ asking' = [asking EXCEPT ![t] = [step |-> "request", url |-> active']]
      /\ UNCHANGED <<condition, changes, probeVars, noticeVars>>
  BY DEF ScoreBegins
<1>1. PoolTyped'
  BY <1>0, PoolThen
<1>2. [step |-> "request", url |-> active'] \in Asks
  BY <1>1 DEF PoolTyped, Asks
<1> QED
  BY <1>0, <1>1, <1>2, AskThen, ScorerFrame

LEMMA ScoreWasAnswered ==
  ASSUME NEW t \in ScoreThreads, ScorerInv, ScoreAnswered(t) PROVE ScorerInv'
<1>0. /\ misses' \in {0, misses} /\ asking' = [asking EXCEPT ![t] = Resting]
      /\ UNCHANGED <<condition, changes, active, recheck, chosen, probeVars, noticeVars>>
  BY DEF ScoreAnswered
<1>1. PoolTyped'
  BY <1>0, ScorerAssumption DEF ScorerInv, PoolTyped
<1> QED
  BY <1>0, <1>1, RestingAsks, AskThen, ScorerFrame

LEMMA ScoreHasFailed ==
  ASSUME NEW t \in ScoreThreads, ScorerInv, ScoreFails(t) PROVE ScorerInv'
<1> DEFINE probing == [step |-> "probing", from |-> active, left |-> Others(active)]
<1>0. /\ UNCHANGED <<condition, changes, active, recheck, chosen, probeVars, noticeVars>>
      /\ \/ misses' = misses /\ asking' = [asking EXCEPT ![t] = Resting]
         \/ misses' = 0 /\ asking' = [asking EXCEPT ![t] = probing]
         \/ misses' = misses + 1 /\ ~Reached /\ asking' = [asking EXCEPT ![t] = Resting]
  BY DEF ScoreFails
<1>1. PoolTyped'
  BY <1>0, ScorerAssumption DEF ScorerInv, PoolTyped, Reached
<1>2. probing \in Asks
  BY OthersTyped DEF ScorerInv, PoolTyped, Asks
<1>3. AsksTyped'
  BY <1>0, <1>2, RestingAsks, AskThen
<1> QED
  BY <1>0, <1>1, <1>3, ScorerFrame

LEMMA CandidateWasTried ==
  ASSUME NEW t \in ScoreThreads, ScorerInv, CandidateTried(t) PROVE ScorerInv'
<1> DEFINE p == asking[t]
           found == [step |-> "found", from |-> p.from, to |-> Head(p.left)]
           next == [step |-> "probing", from |-> p.from, left |-> Tail(p.left)]
<1>0. /\ UNCHANGED <<condition, changes, probeVars, noticeVars>> /\ UNCHANGED poolVars
      /\ p.step = "probing"
      /\ \/ asking' = [asking EXCEPT ![t] = Resting]
         \/ p.left # <<>> /\ asking' = [asking EXCEPT ![t] = found]
         \/ p.left # <<>> /\ asking' = [asking EXCEPT ![t] = next]
  BY DEF CandidateTried
<1>1. PoolTyped'
  BY <1>0, PoolThen
<1>2. p.from \in Candidates /\ p.left \in Seq(Candidates)
  <2>1. p \in Asks
    BY DEF ScorerInv, AsksTyped
  <2> QED
    BY <1>0, <2>1 DEF Asks
<1>3. p.left # <<>> => found \in Asks /\ next \in Asks
  <2>1. p.left # <<>> => Head(p.left) \in Candidates /\ Tail(p.left) \in Seq(Candidates)
    BY <1>2
  <2> QED
    BY <1>2, <2>1 DEF Asks
<1>4. AsksTyped'
  BY <1>0, <1>3, RestingAsks, AskThen
<1> QED
  BY <1>0, <1>1, <1>4, ScorerFrame

LEMMA HasFailedOver == ASSUME NEW t \in ScoreThreads, ScorerInv, FailsOver(t) PROVE ScorerInv'
<1>0. /\ asking[t].step = "found"
      /\ UNCHANGED <<condition, changes, probeVars, noticeVars>>
      /\ SwitchTo(asking[t].to) \/ UNCHANGED poolVars
      /\ asking' = [asking EXCEPT ![t] = Resting]
  BY DEF FailsOver
<1>1. asking[t].to \in Candidates
  <2>1. asking[t] \in Asks
    BY DEF ScorerInv, AsksTyped
  <2> QED
    BY <1>0, <2>1 DEF Asks
<1>2. PoolTyped'
  BY <1>0, <1>1, PoolThen
<1> QED
  BY <1>0, <1>2, RestingAsks, AskThen, ScorerFrame

LEMMA RecheckElapsed == ScorerInv /\ RecheckElapses => ScorerInv'
<1> SUFFICES ASSUME ScorerInv, RecheckElapses PROVE ScorerInv'
  OBVIOUS
<1>1. PoolTyped' /\ AsksTyped'
  BY DEF RecheckElapses, ScorerInv, PoolTyped, AsksTyped
<1> QED
  BY <1>1, ScorerFrame DEF RecheckElapses

LEMMA RoundWasGathered == ScorerInv /\ RoundGathered => ScorerInv'
<1> SUFFICES ASSUME ScorerInv, RoundGathered PROVE ScorerInv'
  OBVIOUS
<1>1. PoolTyped' /\ AsksTyped'
  BY DEF RoundGathered, ScorerInv, PoolTyped, AsksTyped, poolVars
<1>2. healthRound' \in [Candidates -> BOOLEAN]
  BY DEF RoundGathered, HealthOk
<1> QED
  BY <1>1, <1>2 DEF RoundGathered, ScorerInv, ProbesTyped, NoticesFollow, ToReport, noticeVars

LEMMA RoundWasApplied == ScorerInv /\ RoundApplied => ScorerInv'
<1> SUFFICES ASSUME ScorerInv, RoundApplied PROVE ScorerInv'
  OBVIOUS
<1> DEFINE rounds == [c \in Candidates |-> IF healthRound[c] THEN 0
                   ELSE IF failedRounds[c] < ProbeFails THEN failedRounds[c] + 1
                                                        ELSE ProbeFails]
           alive == [c \in Candidates |-> healthRound[c] \/ (believed[c] /\ rounds[c] < ProbeFails)]
           living == {c \in Candidates : alive[c]}
<1>0. /\ healthRound # NoRound /\ healthRound' = NoRound
      /\ failedRounds' = rounds /\ believed' = alive
      /\ reports' = {[url |-> c, healthy |-> alive[c]] : c \in {d \in Candidates : alive[d] # believed[d]}}
      /\ IF living # {} /\ LeastOf(living) # active THEN SwitchTo(LeastOf(living))
                                                    ELSE UNCHANGED poolVars
      /\ UNCHANGED <<condition, changes, asking, noticeVars>>
  BY DEF RoundApplied
<1>1. healthRound \in [Candidates -> BOOLEAN] /\ reports = {}
  BY <1>0 DEF ScorerInv, ProbesTyped, NoticesFollow
<1>2. rounds \in [Candidates -> 0..ProbeFails]
  BY <1>1, ScorerAssumption DEF ScorerInv, ProbesTyped
<1>3. alive \in [Candidates -> BOOLEAN]
  BY <1>1 DEF ScorerInv, ProbesTyped
<1>4. PoolTyped'
  <2>1. ASSUME living # {} PROVE LeastOf(living) \in Candidates
    <3>1. living \subseteq Nat /\ living \subseteq Candidates
      BY ZeroIsCandidate
    <3>2. \E x \in living : \A y \in living : x <= y
      BY <2>1, <3>1, LeastNat
    <3>3. LeastOf(living) \in living
      BY <3>2 DEF LeastOf
    <3> QED
      BY <3>1, <3>3
  <2> HIDE DEF living
  <2> QED
    BY <1>0, <2>1, PoolThen
<1>5. AsksTyped'
  BY <1>0 DEF ScorerInv, AsksTyped
<1> HIDE DEF rounds, alive, living
<1>6. ProbesTyped'
  BY <1>0, <1>2, <1>3 DEF ScorerInv, ProbesTyped, ReportTypes, noticeVars
<1>7. NoticesFollow'
  <2>1. \A c \in Candidates : c \in ToReport' <=> alive[c] # believed[c]
    <3> DEFINE asReport(d) == [url |-> d, healthy |-> alive[d]]
    <3>1. \A d : asReport(d).url = d
      OBVIOUS
    <3>2. reports' = {asReport(d) : d \in {e \in Candidates : alive[e] # believed[e]}}
      BY <1>0
    <3> HIDE DEF asReport
    <3>3. ToReport' = {d \in Candidates : alive[d] # believed[d]}
      BY <3>1, <3>2 DEF ToReport
    <3> QED
      BY <3>3
  <2>2. \A c \in Candidates : c \in waitingDown \cup downTold <=> ~believed[c]
    BY <1>1 DEF ScorerInv, NoticesFollow, ToReport, ProbesTyped
  <2>3. \A c \in Candidates : c \in waitingDown \cup downTold <=> (alive[c] <=> c \in ToReport')
    BY <1>3, <2>1, <2>2 DEF ScorerInv, ProbesTyped
  <2>4. \A r \in reports' : r.healthy = believed'[r.url]
    BY <1>0
  <2> QED
    BY <1>0, <2>3, <2>4 DEF ScorerInv, NoticesFollow, noticeVars
<1> QED
  BY <1>4, <1>5, <1>6, <1>7 DEF ScorerInv

LEMMA WasReported == ScorerInv /\ Reported => ScorerInv'
<1> SUFFICES ASSUME ScorerInv, Reported PROVE ScorerInv'
  OBVIOUS
<1> DEFINE r == NextReport
<1>0. /\ reports # {} /\ reports' = reports \ {r}
      /\ waitingDown' = IF r.healthy \/ r.url \in downTold THEN waitingDown \ {r.url}
                                                           ELSE waitingDown \cup {r.url}
      /\ downTold' = IF r.healthy THEN downTold \ {r.url} ELSE downTold
      /\ UNCHANGED <<condition, changes, poolVars, believed, failedRounds, healthRound, asking>>
  BY DEF Reported
<1>1. r \in reports
  <2>1. ToReport \subseteq Nat /\ ToReport # {}
    BY <1>0, ZeroIsCandidate DEF ScorerInv, ProbesTyped, ReportTypes, ToReport
  <2>2. \E x \in ToReport : \A y \in ToReport : x <= y
    BY <2>1, LeastNat
  <2>3. \E q \in reports : \A p \in reports : q.url <= p.url
    BY <2>2 DEF ToReport
  <2> QED
    BY <2>3 DEF NextReport
<1> HIDE DEF r
<1>2. /\ r \in ReportTypes /\ r.url \in Candidates /\ r.healthy \in BOOLEAN
      /\ r.healthy = believed[r.url]
  BY <1>1 DEF ScorerInv, ProbesTyped, NoticesFollow, ReportTypes
<1>3. PoolTyped' /\ AsksTyped'
  BY <1>0 DEF ScorerInv, PoolTyped, AsksTyped, poolVars
<1>4. ProbesTyped'
  BY <1>0, <1>2 DEF ScorerInv, ProbesTyped
<1>5. ToReport' = ToReport \ {r.url}
  <2>1. \A q \in reports : q.url = r.url => q = r
    BY <1>1, <1>2 DEF ScorerInv, ProbesTyped, NoticesFollow, ReportTypes
  <2> QED
    BY <1>0, <1>1, <2>1 DEF ToReport
<1>6. r.url \in ToReport
  BY <1>1 DEF ToReport
<1>7. r.url \in waitingDown \cup downTold <=> r.healthy
  BY <1>2, <1>6 DEF ScorerInv, NoticesFollow
<1>8. \A c \in Candidates :
        c \in waitingDown' \cup downTold' <=> (believed[c] <=> c \in ToReport')
  <2>1. \A c \in Candidates : c # r.url =>
          (c \in waitingDown' \cup downTold' <=> c \in waitingDown \cup downTold)
    BY <1>0
  <2>2. r.url \in waitingDown' \cup downTold' <=> ~r.healthy
    BY <1>0, <1>2, <1>7
  <2>3. \A c \in Candidates : c \in waitingDown \cup downTold <=> (believed[c] <=> c \in ToReport)
    BY DEF ScorerInv, NoticesFollow
  <2> QED
    BY <1>2, <1>5, <2>1, <2>2, <2>3 DEF ScorerInv, ProbesTyped
<1>9. NoticesFollow'
  <2>1. waitingDown' \cap downTold' = {}
    BY <1>0 DEF ScorerInv, NoticesFollow
  <2>2. healthRound' # NoRound => reports' = {}
    BY <1>0 DEF ScorerInv, NoticesFollow
  <2>3. \A q \in reports' : q.healthy = believed'[q.url]
    BY <1>0 DEF ScorerInv, NoticesFollow
  <2> QED
    BY <1>0, <1>8, <2>1, <2>2, <2>3 DEF NoticesFollow
<1> QED
  BY <1>3, <1>4, <1>9 DEF ScorerInv

LEMMA DownWasAnnounced ==
  ASSUME NEW c \in Candidates, ScorerInv, DownAnnounced(c) PROVE ScorerInv'
<1>0. /\ c \in waitingDown /\ waitingDown' = waitingDown \ {c} /\ downTold' = downTold \cup {c}
      /\ UNCHANGED <<condition, changes, poolVars, probeVars, asking>>
  BY DEF DownAnnounced
<1>1. PoolTyped' /\ AsksTyped' /\ ProbesTyped'
  BY <1>0 DEF ScorerInv, PoolTyped, AsksTyped, ProbesTyped, poolVars, probeVars
<1>2. waitingDown' \cup downTold' = waitingDown \cup downTold
  BY <1>0
<1>3. ToReport' = ToReport
  BY <1>0 DEF ToReport, probeVars
<1>4. NoticesFollow'
  BY <1>0, <1>2, <1>3 DEF ScorerInv, NoticesFollow, probeVars
<1> QED
  BY <1>1, <1>4 DEF ScorerInv

LEMMA ServiceHasChanged ==
  ASSUME NEW c \in Candidates, NEW s \in Conditions, ScorerInv, ServiceChangesTo(c, s)
  PROVE  ScorerInv'
<1>1. PoolTyped' /\ AsksTyped'
  BY ScorerAssumption DEF ServiceChangesTo, ScorerInv, PoolTyped, AsksTyped, poolVars
<1> QED
  BY <1>1, ScorerFrame DEF ServiceChangesTo

LEMMA ScorerHasRestarted == ScorerInv /\ ScorerRestarts => ScorerInv'
<1> SUFFICES ASSUME ScorerInv, ScorerRestarts PROVE ScorerInv'
  OBVIOUS
<1> USE DEF ScorerRestarts
<1>1. PoolTyped'
  BY ScorerAssumption DEF ScorerInv, PoolTyped
<1>2. AsksTyped'
  BY RestingAsks DEF AsksTyped
<1>3. ProbesTyped'
  BY ScorerAssumption DEF ProbesTyped
<1>4. NoticesFollow'
  BY DEF NoticesFollow, ToReport
<1> QED
  BY <1>1, <1>2, <1>3, <1>4 DEF ScorerInv

LEMMA ScorerStep == ScorerInv /\ [ScorerNext]_scorerVars => ScorerInv'
<1> SUFFICES ASSUME ScorerInv, [ScorerNext]_scorerVars PROVE ScorerInv'
  OBVIOUS
<1>1. ASSUME NEW t \in ScoreThreads, Scoring(t) PROVE ScorerInv'
  BY <1>1, ScoreBegan, ScoreWasAnswered, ScoreHasFailed, CandidateWasTried, HasFailedOver
     DEF Scoring
<1>2. CASE RecheckElapses
  BY <1>2, RecheckElapsed
<1>3. CASE Probing
  BY <1>3, RoundWasGathered, RoundWasApplied, WasReported DEF Probing
<1>4. ASSUME NEW c \in Candidates, DownAnnounced(c) PROVE ScorerInv'
  BY <1>4, DownWasAnnounced
<1>5. ASSUME NEW c \in Candidates, NEW s \in {"up", "hung", "dead"}, ServiceChangesTo(c, s)
      PROVE  ScorerInv'
  BY <1>5, ServiceHasChanged DEF Conditions
<1>6. CASE ScorerRestarts
  BY <1>6, ScorerHasRestarted
<1>7. CASE UNCHANGED scorerVars
  <2>1. PoolTyped' /\ AsksTyped'
    BY <1>7 DEF scorerVars, poolVars, ScorerInv, PoolTyped, AsksTyped
  <2> QED
    BY <1>7, <2>1, ScorerFrame DEF scorerVars
<1> QED
  BY <1>1, <1>2, <1>3, <1>4, <1>5, <1>6, <1>7 DEF ScorerNext

(* The scorers the pool believes down are those announced or waiting to be,      *)
(* however rounds, requests and notices interleave (scorer.py).                  *)
THEOREM WatchKnowsDownCorrect == ScorerSpec => [](ScorerTypeOK /\ WatchKnowsDown)
<1>1. ScorerSpec => []ScorerInv
  BY ScorerInitInv, ScorerStep, PTL DEF ScorerSpec
<1> QED
  BY <1>1, ScorerTypes, PTL
----------------------------------------------------------------------------
(* The scorer service *)

HandlerSteps == {"idle", "reading", "waiting", "inferring", "joining", "replying", "handing"}
Results == {"none", "scores", "artifact", "error", "other"}
Outcomes == {"none", "usable", "error"}
Requests == [step : HandlerSteps, frame : 0..Uploads, result : Results, outcome : Outcomes]
ShadowItems == [frame : 1..Uploads, outcome : Outcomes]
Counts4 == [requests : Nat, completed : Nat, failed : Nat, successes : Nat, malformed : Nat]
Tallies == [sent : Nat, failed : Nat, dropped : Nat, throttled : Nat, unseen : Nat]

ServingTyped ==
  /\ ensemble \in BOOLEAN /\ uploads \in 0..Uploads
  /\ serving \in [Handlers -> Requests]
  /\ \A h \in Handlers : serving[h].frame <= uploads /\ (~Serving(h, "idle") => serving[h].frame >= 1)
  /\ inference \in Handlers \cup {Nobody}
  /\ calls \in [Handlers -> {"none", "running", "usable", "error"}]
  /\ asked \in [1..Uploads -> Nat] /\ stopsLeft \in 0..ServiceStops
RunnerTyped ==
  /\ shadowed \in Seq(ShadowItems) /\ Len(shadowed) <= ShadowQueue
  /\ sending \in ShadowItems \cup {NoItem}
  /\ tally \in Tallies /\ handed \in Nat

(* Where a request stands: the second service was called for it when the        *)
(* ensemble is configured, and its scores go on with an outcome.               *)
StepsInv ==
  \A h \in Handlers :
    /\ ensemble /\ serving[h].step \in {"waiting", "inferring", "joining"} => calls[h] # "none"
    /\ Serving(h, "joining") => ensemble
    /\ serving[h].step \in {"joining", "replying"} => serving[h].result # "none"
    /\ ensemble /\ (Serving(h, "handing") \/ (Serving(h, "replying") /\ serving[h].result = "scores"))
         => serving[h].outcome # "none"

(* A frame is at one place at a time, and those that may still be sent to the    *)
(* second service were not.                                                    *)
PlacesInv ==
  /\ \A h, g \in Handlers : ~Serving(h, "idle") /\ ~Serving(g, "idle") /\ h # g =>
       serving[h].frame # serving[g].frame
  /\ \A h \in Handlers, i \in 1..Len(shadowed) : ~Serving(h, "idle") =>
       serving[h].frame # shadowed[i].frame
  /\ \A i, j \in 1..Len(shadowed) : i # j => shadowed[i].frame # shadowed[j].frame
  /\ \A i \in 1..Len(shadowed) : shadowed[i].frame <= uploads
AskedInv ==
  /\ \A f \in 1..Uploads : asked[f] <= 1 /\ (f > uploads => asked[f] = 0)
  /\ \A h \in Handlers : Serving(h, "reading") \/ (~Serving(h, "idle") /\ ~ensemble) =>
       asked[serving[h].frame] = 0
  /\ \A i \in 1..Len(shadowed) :
       IF ensemble THEN shadowed[i].outcome # "none" ELSE asked[shadowed[i].frame] = 0

Sums(m) == m.completed = m.failed + m.successes + m.malformed
TallyTotal(t) == t.sent + t.failed + t.dropped + t.throttled + t.unseen
CountsInv ==
  /\ metrics \in Counts4 /\ metricsFile \in Counts4
  /\ Sums(metrics) /\ Sums(metricsFile)
  /\ metrics.requests >= metrics.completed + Cardinality(InFlight)
  /\ metricsFile.requests >= metricsFile.completed
  /\ handed = TallyTotal(tally) + Len(shadowed) + (IF sending = NoItem THEN 0 ELSE 1)
  /\ ensemble => /\ tally.unseen = 0 /\ tally.throttled = 0
                 /\ sending # NoItem => sending.outcome # "none"

ServiceInv == ServingTyped /\ RunnerTyped /\ StepsInv /\ PlacesInv /\ AskedInv /\ CountsInv

(* One more frame under any heading of the tally is one more in all.             *)
LEMMA TallyGrows ==
  ASSUME NEW t \in Tallies, NEW u,
         \/ u = [t EXCEPT !.sent = @ + 1]
         \/ u = [t EXCEPT !.failed = @ + 1]
         \/ u = [t EXCEPT !.dropped = @ + 1]
         \/ u = [t EXCEPT !.throttled = @ + 1]
         \/ u = [t EXCEPT !.unseen = @ + 1]
  PROVE  u \in Tallies /\ TallyTotal(t) \in Nat /\ TallyTotal(u) = TallyTotal(t) + 1
<1>1. t.sent \in Nat /\ t.failed \in Nat /\ t.dropped \in Nat /\ t.throttled \in Nat
      /\ t.unseen \in Nat
  BY DEF Tallies
<1>2. TallyTotal(t) \in Nat
  BY <1>1 DEF TallyTotal
<1>3. CASE u = [t EXCEPT !.sent = @ + 1]
  <2>1. /\ u \in Tallies /\ u.sent = t.sent + 1 /\ u.failed = t.failed
        /\ u.dropped = t.dropped /\ u.throttled = t.throttled /\ u.unseen = t.unseen
    BY <1>1, <1>3 DEF Tallies
  <2> QED
    BY <1>1, <1>2, <2>1 DEF TallyTotal
<1>4. CASE u = [t EXCEPT !.failed = @ + 1]
  <2>1. /\ u \in Tallies /\ u.sent = t.sent /\ u.failed = t.failed + 1
        /\ u.dropped = t.dropped /\ u.throttled = t.throttled /\ u.unseen = t.unseen
    BY <1>1, <1>4 DEF Tallies
  <2> QED
    BY <1>1, <1>2, <2>1 DEF TallyTotal
<1>5. CASE u = [t EXCEPT !.dropped = @ + 1]
  <2>1. /\ u \in Tallies /\ u.sent = t.sent /\ u.failed = t.failed
        /\ u.dropped = t.dropped + 1 /\ u.throttled = t.throttled /\ u.unseen = t.unseen
    BY <1>1, <1>5 DEF Tallies
  <2> QED
    BY <1>1, <1>2, <2>1 DEF TallyTotal
<1>6. CASE u = [t EXCEPT !.throttled = @ + 1]
  <2>1. /\ u \in Tallies /\ u.sent = t.sent /\ u.failed = t.failed
        /\ u.dropped = t.dropped /\ u.throttled = t.throttled + 1 /\ u.unseen = t.unseen
    BY <1>1, <1>6 DEF Tallies
  <2> QED
    BY <1>1, <1>2, <2>1 DEF TallyTotal
<1>7. CASE u = [t EXCEPT !.unseen = @ + 1]
  <2>1. /\ u \in Tallies /\ u.sent = t.sent /\ u.failed = t.failed
        /\ u.dropped = t.dropped /\ u.throttled = t.throttled /\ u.unseen = t.unseen + 1
    BY <1>1, <1>7 DEF Tallies
  <2> QED
    BY <1>1, <1>2, <2>1 DEF TallyTotal
<1> QED
  BY <1>3, <1>4, <1>5, <1>6, <1>7

LEMMA ServiceTypes == ServiceInv => ServiceTypeOK /\ FrameAskedOnce /\ ServiceCountsAddUp
<1> SUFFICES ASSUME ServiceInv PROVE ServiceTypeOK /\ FrameAskedOnce /\ ServiceCountsAddUp
  OBVIOUS
<1>1. \A h \in Handlers : serving[h].frame \in 0..uploads
  BY DEF ServiceInv, ServingTyped, Requests
<1>2. ServiceTypeOK
  BY <1>1 DEF ServiceInv, ServingTyped, RunnerTyped, ServiceTypeOK
<1>3. FrameAskedOnce
  BY DEF ServiceInv, AskedInv, FrameAskedOnce
<1>4. ServiceCountsAddUp
  <2>1. CountsInv /\ tally \in Tallies /\ Len(shadowed) \in Nat
    BY DEF ServiceInv, RunnerTyped
  <2>2. tally.unseen \in Nat /\ tally.throttled \in Nat
    BY <2>1 DEF Tallies
  <2> QED
    BY <2>1, <2>2 DEF CountsInv, Sums, TallyTotal, ServiceCountsAddUp
<1> QED
  BY <1>2, <1>3, <1>4

LEMMA ServiceInitInv == ServiceInit => ServiceInv
<1> SUFFICES ASSUME ServiceInit PROVE ServiceInv
  OBVIOUS
<1> USE DEF ServiceInit
<1>0. /\ Uploads \in Nat /\ ServiceStops \in Nat /\ ShadowQueue \in Nat
      /\ \A h \in Handlers : serving[h] = Unused
      /\ Unused \in Requests
  BY ServiceAssumption DEF Unused, Requests, HandlerSteps, Results, Outcomes
<1>1. ServingTyped
  BY <1>0 DEF ServingTyped, Serving, Unused
<1>2. RunnerTyped
  BY <1>0 DEF RunnerTyped, NoTally, Tallies
<1>3. StepsInv /\ PlacesInv /\ AskedInv
  BY <1>0 DEF StepsInv, PlacesInv, AskedInv, Serving, Unused
<1>4. InFlight = {} /\ Cardinality(InFlight) = 0
  <2>1. InFlight = {}
    BY <1>0 DEF InFlight, Unused
  <2> QED
    BY <2>1, FS_EmptySet
<1>5. CountsInv
  <2>1. NoCounts \in Counts4 /\ Sums(NoCounts) /\ NoCounts.requests = 0 /\ NoCounts.completed = 0
    BY DEF NoCounts, Counts4, Sums
  <2> QED
    BY <1>4, <2>1 DEF CountsInv, NoTally, TallyTotal
<1> QED
  BY <1>1, <1>2, <1>3, <1>5 DEF ServiceInv

(* One handler's request changes, the others' stay.                            *)
LEMMA RequestsThen ==
  ASSUME ServiceInv, NEW h \in Handlers, NEW r \in Requests,
         serving' = [serving EXCEPT ![h] = r]
  PROVE  /\ serving' \in [Handlers -> Requests] /\ serving'[h] = r
         /\ \A g \in Handlers : g # h => serving'[g] = serving[g]
         /\ IsFiniteSet(InFlight) /\ Cardinality(InFlight) \in Nat
         /\ Cardinality(InFlight') =
              Cardinality(InFlight)
                - (IF serving[h].step \notin {"idle", "handing"} THEN 1 ELSE 0)
                + (IF r.step \notin {"idle", "handing"} THEN 1 ELSE 0)
<1>1. serving \in [Handlers -> Requests] /\ IsFiniteSet(Handlers)
  BY ServiceAssumption DEF ServiceInv, ServingTyped
<1>2. /\ serving' \in [Handlers -> Requests] /\ serving'[h] = r
      /\ \A g \in Handlers : g # h => serving'[g] = serving[g]
  BY <1>1
<1>3. IsFiniteSet(InFlight) /\ Cardinality(InFlight) \in Nat
  <2>1. InFlight \in SUBSET Handlers
    BY DEF InFlight
  <2> QED
    BY <1>1, <2>1, FS_Subset, FS_CardinalityType
<1>4. Cardinality(InFlight') = Cardinality(InFlight)
                - (IF serving[h].step \notin {"idle", "handing"} THEN 1 ELSE 0)
                + (IF r.step \notin {"idle", "handing"} THEN 1 ELSE 0)
  <2> DEFINE was == serving[h].step \notin {"idle", "handing"}
             is == r.step \notin {"idle", "handing"}
  <2>1. /\ h \in InFlight <=> was
        /\ \A g : g \in InFlight' <=> (IF g = h THEN is ELSE g \in InFlight)
        /\ h \in Handlers
    BY <1>2 DEF InFlight
  <2> HIDE DEF was, is
  <2>2. CASE was /\ is
    <3>1. InFlight' = InFlight
      BY <2>1, <2>2
    <3> QED
      BY <1>3, <2>2, <3>1 DEF was, is
  <2>3. CASE ~was /\ ~is
    <3>1. InFlight' = InFlight
      BY <2>1, <2>3
    <3> QED
      BY <1>3, <2>3, <3>1 DEF was, is
  <2>4. CASE was /\ ~is
    <3>1. InFlight' = InFlight \ {h} /\ h \in InFlight
      BY <2>1, <2>4
    <3>2. Cardinality(InFlight') = Cardinality(InFlight) - 1
      BY <1>3, <3>1, FS_RemoveElement
    <3> QED
      BY <1>3, <2>4, <3>2 DEF was, is
  <2>5. CASE ~was /\ is
    <3>1. InFlight' = InFlight \cup {h} /\ h \notin InFlight
      BY <2>1, <2>5
    <3> QED
      BY <1>3, <2>5, <3>1, FS_AddElement DEF was, is
  <2> QED
    BY <2>2, <2>3, <2>4, <2>5
<1> QED
  BY <1>2, <1>3, <1>4
(* A request that goes on, or ends, is where it was and nowhere else.           *)
LEMMA RequestsPlaced ==
  ASSUME ServiceInv, NEW h \in Handlers, NEW r \in Requests,
         serving' = [serving EXCEPT ![h] = r], ~Serving(h, "idle"),
         r.step = "idle" \/ r.frame = serving[h].frame,
         uploads' = uploads, shadowed' = shadowed
  PROVE  /\ PlacesInv'
         /\ \A g \in Handlers : serving'[g].frame <= uploads' \/ (g = h /\ r.step = "idle")
         /\ \A g \in Handlers : serving'[g].step # "idle" =>
              /\ serving[g].step # "idle" /\ serving'[g].frame = serving[g].frame
              /\ serving'[g].frame >= 1
<1>1. /\ serving'[h] = r
      /\ \A g \in Handlers : g # h => serving'[g] = serving[g]
  BY RequestsThen
<1>2. ServingTyped /\ PlacesInv
  BY DEF ServiceInv
<1>3. \A g \in Handlers : serving'[g].step # "idle" =>
              /\ serving[g].step # "idle" /\ serving'[g].frame = serving[g].frame
              /\ serving'[g].frame >= 1
  BY <1>1, <1>2 DEF ServingTyped, Serving
<1>4. \A g \in Handlers : serving'[g].frame <= uploads' \/ (g = h /\ r.step = "idle")
  BY <1>1, <1>2 DEF ServingTyped
<1>5. PlacesInv'
  BY <1>2, <1>3 DEF PlacesInv, Serving
<1> QED
  BY <1>3, <1>4, <1>5

(* ... and asks nobody.                                                        *)
LEMMA RequestGoesOn ==
  ASSUME ServiceInv, NEW h \in Handlers, NEW r \in Requests,
         serving' = [serving EXCEPT ![h] = r], ~Serving(h, "idle"),
         r.step = "idle" \/ r.frame = serving[h].frame, r.step # "reading",
         r.frame \in 0..uploads,
         UNCHANGED <<ensemble, uploads, runnerVars, asked, stopsLeft>>,
         inference' \in Handlers \cup {Nobody},
         calls' \in [Handlers -> {"none", "running", "usable", "error"}]
  PROVE  ServingTyped' /\ RunnerTyped' /\ PlacesInv' /\ AskedInv'
<1>1. /\ PlacesInv'
      /\ \A g \in Handlers : serving'[g].frame <= uploads' \/ (g = h /\ r.step = "idle")
      /\ \A g \in Handlers : serving'[g].step # "idle" =>
           /\ serving[g].step # "idle" /\ serving'[g].frame = serving[g].frame
           /\ serving'[g].frame >= 1
  BY RequestsPlaced DEF runnerVars
<1>2. /\ serving' \in [Handlers -> Requests] /\ serving'[h] = r
      /\ \A g \in Handlers : g # h => serving'[g] = serving[g]
  BY RequestsThen
<1>3. /\ ensemble' = ensemble /\ uploads' = uploads /\ shadowed' = shadowed
      /\ sending' = sending /\ tally' = tally /\ handed' = handed
      /\ asked' = asked /\ stopsLeft' = stopsLeft
  BY DEF runnerVars
<1>4. ServingTyped /\ RunnerTyped /\ AskedInv
  BY DEF ServiceInv
<1>5. ServingTyped'
  <2>1. \A g \in Handlers : serving'[g].frame <= uploads'
    BY <1>1, <1>2, <1>3, <1>4 DEF ServingTyped
  <2>2. \A g \in Handlers : ~Serving(g, "idle")' => serving'[g].frame >= 1
    BY <1>1 DEF Serving
  <2> QED
    BY <2>1, <2>2, <1>2, <1>3, <1>4 DEF ServingTyped
<1>6. RunnerTyped'
  BY <1>3, <1>4 DEF RunnerTyped
<1>7. AskedInv'
  <2>1. ASSUME NEW g \in Handlers, Serving(g, "reading")' \/ (~Serving(g, "idle")' /\ ~ensemble')
        PROVE  asked'[serving'[g].frame] = 0
    <3>1. serving'[g].step # "idle"
      BY <2>1 DEF Serving
    <3>2. Serving(g, "reading") \/ (~Serving(g, "idle") /\ ~ensemble)
      BY <1>1, <1>2, <1>3, <2>1, <3>1 DEF Serving
    <3> QED
      BY <1>1, <1>3, <1>4, <3>1, <3>2 DEF AskedInv
  <2> QED
    BY <2>1, <1>3, <1>4 DEF AskedInv
<1> QED
  BY <1>1, <1>5, <1>6, <1>7

(* The counters when a request goes on uncounted, or is finished.              *)
LEMMA CountsStay ==
  ASSUME ServiceInv, NEW h \in Handlers, NEW r \in Requests,
         serving' = [serving EXCEPT ![h] = r], ensemble' = ensemble,
         serving[h].step \notin {"idle", "handing"}, r.step \notin {"idle", "handing"},
         UNCHANGED <<metrics, metricsFile, runnerVars>>
  PROVE  CountsInv'
<1>1. Cardinality(InFlight') = Cardinality(InFlight)
  <2>1. /\ Cardinality(InFlight) \in Nat
        /\ Cardinality(InFlight') =
            Cardinality(InFlight)
              - (IF serving[h].step \notin {"idle", "handing"} THEN 1 ELSE 0)
              + (IF r.step \notin {"idle", "handing"} THEN 1 ELSE 0)
    BY RequestsThen
  <2> QED
    BY <2>1
<1> QED
  BY <1>1 DEF ServiceInv, CountsInv, runnerVars

LEMMA CountedOnce ==
  ASSUME ServiceInv, NEW h \in Handlers, NEW r \in Requests,
         serving' = [serving EXCEPT ![h] = r], ensemble' = ensemble,
         serving[h].step \notin {"idle", "handing"}, r.step \in {"idle", "handing"},
         NEW result \in Results, result # "none", Finished(result),
         UNCHANGED runnerVars
  PROVE  CountsInv'
<1>1. /\ Cardinality(InFlight') = Cardinality(InFlight) - 1 /\ Cardinality(InFlight) \in Nat
  <2>1. /\ Cardinality(InFlight) \in Nat
        /\ Cardinality(InFlight') =
            Cardinality(InFlight)
              - (IF serving[h].step \notin {"idle", "handing"} THEN 1 ELSE 0)
              + (IF r.step \notin {"idle", "handing"} THEN 1 ELSE 0)
    BY RequestsThen
  <2> QED
    BY <2>1
<1>2. metrics \in Counts4 /\ Sums(metrics) /\ metrics.requests >= metrics.completed + Cardinality(InFlight)
  BY DEF ServiceInv, CountsInv
<1> DEFINE f == IF result = "error" THEN 1 ELSE 0
           s == IF result \in {"scores", "artifact"} THEN 1 ELSE 0
           m == IF result = "other" THEN 1 ELSE 0
<1>3. f \in Nat /\ s \in Nat /\ m \in Nat /\ f + s + m = 1
  BY DEF Results
<1>4. metrics' = [requests |-> metrics.requests, completed |-> metrics.completed + 1,
                  failed |-> metrics.failed + f, successes |-> metrics.successes + s,
                  malformed |-> metrics.malformed + m]
  BY DEF Finished
<1> HIDE DEF f, s, m
<1>5. /\ metrics.requests \in Nat /\ metrics.completed \in Nat /\ metrics.failed \in Nat
      /\ metrics.successes \in Nat /\ metrics.malformed \in Nat
  BY <1>2 DEF Counts4
<1>6. metrics' \in Counts4
  BY <1>3, <1>4, <1>5 DEF Counts4
<1>7. Sums(metrics')
  <2>1. metrics.completed = metrics.failed + metrics.successes + metrics.malformed
    BY <1>2 DEF Sums
  <2>2. metrics.completed + 1 = (metrics.failed + f) + (metrics.successes + s) + (metrics.malformed + m)
    BY <1>3, <1>5, <2>1
  <2> QED
    BY <1>4, <2>2 DEF Sums
<1>8. metrics'.requests >= metrics'.completed + Cardinality(InFlight')
  BY <1>1, <1>2, <1>4, <1>5
<1>9. metricsFile' \in Counts4 /\ Sums(metricsFile') /\ metricsFile'.requests >= metricsFile'.completed
  <2>1. CASE metricsFile' = metrics'
    <3>1. metrics'.requests >= metrics'.completed
      <4>1. Cardinality(InFlight') \in Int /\ Cardinality(InFlight') >= 0
        <5>1. h \in InFlight /\ IsFiniteSet(InFlight)
          BY RequestsThen DEF InFlight
        <5>2. Cardinality(InFlight) # 0
          BY <5>1, FS_EmptySet
        <5> QED
          BY <5>2, <1>1
      <4> QED
        BY <4>1, <1>8, <1>4, <1>5
    <3> QED
      BY <2>1, <3>1, <1>6, <1>7
  <2>2. CASE metricsFile' = metricsFile
    BY <2>2 DEF ServiceInv, CountsInv
  <2> QED
    BY <2>1, <2>2 DEF Finished
<1> QED
  BY <1>6, <1>7, <1>8, <1>9 DEF ServiceInv, CountsInv, runnerVars
Turned(h, step, result, ends) ==
  [step |-> step, frame |-> serving[h].frame, result |-> result, outcome |-> ends]

LEMMA TurnedTyped ==
  ASSUME ServiceInv, NEW h \in Handlers, NEW step \in HandlerSteps, NEW result \in Results,
         NEW ends \in Outcomes
  PROVE  /\ Turned(h, step, result, ends) \in Requests
         /\ Turned(h, step, result, ends).frame = serving[h].frame
         /\ serving[h].frame \in 0..uploads
         /\ Turned(h, step, result, ends).step = step
         /\ serving[h].result \in Results /\ serving[h].outcome \in Outcomes
         /\ serving[h].step \in HandlerSteps
<1>1. serving[h] \in Requests /\ serving[h].frame <= uploads
  BY DEF ServiceInv, ServingTyped
<1> QED
  BY <1>1 DEF Requests, Turned

LEMMA UnusedTyped ==
  Unused \in Requests /\ Unused.step = "idle" /\ Unused.frame = 0 /\ Unused.result = "none"
BY ServiceAssumption DEF Unused, Requests, HandlerSteps, Results, Outcomes

LEMMA RequestArrived == \A h \in Handlers : ServiceInv /\ Arrives(h) => ServiceInv'
<1> SUFFICES ASSUME NEW h \in Handlers, ServiceInv, Arrives(h) PROVE ServiceInv'
  OBVIOUS
<1> DEFINE r == [step |-> "reading", frame |-> uploads + 1, result |-> "none", outcome |-> "none"]
<1>0. /\ uploads' = uploads + 1 /\ uploads \in Nat /\ uploads' \in 0..Uploads /\ Uploads \in Nat
      /\ serving[h].step = "idle" /\ serving' = [serving EXCEPT ![h] = r]
      /\ metrics' = [metrics EXCEPT !.requests = @ + 1]
      /\ UNCHANGED <<ensemble, inference, calls, metricsFile, shadowed, sending, tally, handed,
                     asked, stopsLeft>>
  BY ServiceAssumption DEF Arrives, Serving, ServiceInv, ServingTyped, runnerVars
<1>1. r \in Requests
  BY <1>0 DEF Requests, HandlerSteps, Results, Outcomes
<1>2. /\ serving' \in [Handlers -> Requests] /\ serving'[h] = r
      /\ \A g \in Handlers : g # h => serving'[g] = serving[g]
  BY <1>0, <1>1, RequestsThen
<1>3. Cardinality(InFlight') = Cardinality(InFlight) + 1 /\ Cardinality(InFlight) \in Nat
  <2>1. /\ Cardinality(InFlight) \in Nat
        /\ Cardinality(InFlight') =
             Cardinality(InFlight)
               - (IF serving[h].step \notin {"idle", "handing"} THEN 1 ELSE 0)
               + (IF r.step \notin {"idle", "handing"} THEN 1 ELSE 0)
    BY <1>0, <1>1, RequestsThen
  <2>2. r.step = "reading"
    OBVIOUS
  <2> HIDE DEF r
  <2> QED
    BY <1>0, <2>1, <2>2
<1>4. /\ ServingTyped /\ RunnerTyped /\ StepsInv /\ PlacesInv /\ AskedInv /\ CountsInv
      /\ r.step = "reading" /\ r.frame = uploads + 1 /\ r.result = "none"
  BY DEF ServiceInv
<1> HIDE DEF r
<1>5. ServingTyped'
  <2>1. \A g \in Handlers : serving'[g].frame <= uploads' /\ (~Serving(g, "idle")' => serving'[g].frame >= 1)
    <3>1. \A g \in Handlers : g # h => serving'[g].frame \in Nat /\ serving'[g].frame <= uploads
      BY <1>2, <1>4 DEF ServingTyped, Requests
    <3> QED
      BY <1>0, <1>2, <1>4, <3>1 DEF ServingTyped, Serving
  <2> QED
    BY <1>0, <1>2, <1>4, <2>1 DEF ServingTyped
<1>6. RunnerTyped'
  BY <1>0, <1>4 DEF RunnerTyped
<1>7. StepsInv'
  BY <1>0, <1>2, <1>4 DEF StepsInv, Serving
<1>8. PlacesInv'
  <2>1. \A g \in Handlers : g # h => serving'[g].frame # uploads + 1
    BY <1>0, <1>2, <1>4 DEF ServingTyped, Requests
  <2>2. \A i \in 1..Len(shadowed) : shadowed[i] \in ShadowItems /\ shadowed[i].frame <= uploads
    BY <1>4 DEF RunnerTyped, PlacesInv
  <2>3. \A i \in 1..Len(shadowed) : shadowed[i].frame \in Nat /\ shadowed[i].frame <= uploads'
                                     /\ shadowed[i].frame # uploads + 1
    BY <1>0, <2>2 DEF ShadowItems
  <2> QED
    BY <1>0, <1>2, <1>4, <2>1, <2>3 DEF PlacesInv, Serving
<1>9. AskedInv'
  <2>1. uploads + 1 \in 1..Uploads /\ asked[uploads + 1] = 0
    BY <1>0, <1>4 DEF AskedInv
  <2>2. \A f \in 1..Uploads : asked'[f] <= 1 /\ (f > uploads' => asked'[f] = 0)
    BY <1>0, <1>4 DEF AskedInv
  <2> QED
    BY <1>0, <1>2, <1>4, <2>1, <2>2 DEF AskedInv, Serving
<1>10. CountsInv'
  <2>1. /\ metrics'.requests = metrics.requests + 1 /\ metrics'.completed = metrics.completed
        /\ Sums(metrics') /\ metrics' \in Counts4
        /\ metrics.requests \in Nat /\ metrics.completed \in Nat
    <3>1. metrics \in Counts4 /\ Sums(metrics)
      BY <1>4 DEF CountsInv
    <3>2. metrics' \in Counts4 /\ metrics'.requests = metrics.requests + 1
      BY <1>0, <3>1 DEF Counts4
    <3>3. /\ metrics'.completed = metrics.completed /\ metrics'.failed = metrics.failed
          /\ metrics'.successes = metrics.successes /\ metrics'.malformed = metrics.malformed
      BY <1>0, <3>1 DEF Counts4
    <3>4. metrics.requests \in Nat /\ metrics.completed \in Nat
      BY <3>1 DEF Counts4
    <3> QED
      BY <3>1, <3>2, <3>3, <3>4 DEF Sums
  <2>2. metrics'.requests >= metrics'.completed + Cardinality(InFlight')
    BY <1>3, <1>4, <2>1 DEF CountsInv
  <2> QED
    BY <1>0, <1>4, <2>1, <2>2 DEF CountsInv
<1> QED
  BY <1>5, <1>6, <1>7, <1>8, <1>9, <1>10 DEF ServiceInv

LEMMA RequestRejected == \A h \in Handlers : ServiceInv /\ Rejected(h) => ServiceInv'
<1> SUFFICES ASSUME NEW h \in Handlers, ServiceInv, Rejected(h) PROVE ServiceInv'
  OBVIOUS
<1>0. /\ serving[h].step = "reading" /\ serving' = [serving EXCEPT ![h] = Unused]
      /\ Finished("error") /\ inference' = inference /\ calls' = calls
      /\ UNCHANGED <<ensemble, uploads, runnerVars, asked, stopsLeft>>
      /\ UNCHANGED runnerVars
      /\ inference \in Handlers \cup {Nobody} /\ uploads \in Nat
      /\ calls \in [Handlers -> {"none", "running", "usable", "error"}]
  BY DEF Rejected, Serving, ServiceInv, ServingTyped
<1>1. ServingTyped' /\ RunnerTyped' /\ PlacesInv' /\ AskedInv'
  <2>1. /\ ~Serving(h, "idle") /\ Unused.frame \in 0..uploads /\ Unused.step # "reading"
        /\ inference' \in Handlers \cup {Nobody}
        /\ calls' \in [Handlers -> {"none", "running", "usable", "error"}]
    BY <1>0, UnusedTyped DEF Serving
  <2> QED
    BY <1>0, <2>1, UnusedTyped, RequestGoesOn
<1>2. CountsInv'
  BY <1>0, UnusedTyped, CountedOnce DEF Results
<1>3. StepsInv'
  <2>1. serving'[h] = Unused /\ \A g \in Handlers : g # h => serving'[g] = serving[g]
    BY <1>0, UnusedTyped, RequestsThen
  <2> QED
    BY <1>0, <2>1, UnusedTyped DEF ServiceInv, StepsInv, Serving
<1> QED
  BY <1>1, <1>2, <1>3 DEF ServiceInv

LEMMA RequestFilteredOut == \A h \in Handlers : ServiceInv /\ FilteredOut(h) => ServiceInv'
<1> SUFFICES ASSUME NEW h \in Handlers, ServiceInv, FilteredOut(h) PROVE ServiceInv'
  OBVIOUS
<1> DEFINE r == Turned(h, "replying", "artifact", "none")
<1>0. /\ serving[h].step = "reading" /\ serving' = [serving EXCEPT ![h] = r]
      /\ inference' = inference /\ calls' = calls
      /\ UNCHANGED <<ensemble, uploads, runnerVars, asked, stopsLeft>>
      /\ UNCHANGED <<metrics, metricsFile, runnerVars>>
      /\ inference \in Handlers \cup {Nobody}
      /\ calls \in [Handlers -> {"none", "running", "usable", "error"}]
  BY DEF FilteredOut, Turns, Turned, Serving, ServiceInv, ServingTyped
<1>a. /\ r \in Requests /\ r.frame = serving[h].frame /\ r.frame \in 0..uploads
      /\ r.step = "replying" /\ r.result = "artifact"
  <2>1. "replying" \in HandlerSteps /\ "artifact" \in Results /\ "none" \in Outcomes
    BY DEF HandlerSteps, Results, Outcomes
  <2>2. r.result = "artifact"
    BY DEF Turned
  <2> QED
    BY <2>1, <2>2, TurnedTyped
<1> HIDE DEF r
<1>1. ServingTyped' /\ RunnerTyped' /\ PlacesInv' /\ AskedInv'
  BY <1>0, <1>a, RequestGoesOn DEF Serving
<1>2. CountsInv'
  BY <1>0, <1>a, CountsStay
<1>3. StepsInv'
  <2>1. serving'[h] = r /\ \A g \in Handlers : g # h => serving'[g] = serving[g]
    BY <1>0, <1>a, RequestsThen
  <2> QED
    BY <1>0, <1>a, <2>1 DEF ServiceInv, StepsInv, Serving
<1> QED
  BY <1>1, <1>2, <1>3 DEF ServiceInv
LEMMA BodyWasRead == \A h \in Handlers : ServiceInv /\ BodyRead(h) => ServiceInv'
<1> SUFFICES ASSUME NEW h \in Handlers, ServiceInv, BodyRead(h) PROVE ServiceInv'
  OBVIOUS
<1> DEFINE r == Turned(h, "waiting", serving[h].result, serving[h].outcome)
           f == serving[h].frame
<1>0. /\ serving[h].step = "reading" /\ serving' = [serving EXCEPT ![h] = r]
      /\ UNCHANGED <<ensemble, uploads, inference, metrics, metricsFile, shadowed, sending, tally,
                     handed, stopsLeft>>
      /\ UNCHANGED <<metrics, metricsFile, runnerVars>>
      /\ IF ensemble THEN /\ calls' = [calls EXCEPT ![h] = "running"]
                          /\ asked' = [asked EXCEPT ![f] = @ + 1]
                     ELSE calls' = calls /\ asked' = asked
  BY DEF BodyRead, Step, Turns, Turned, Serving, runnerVars
<1>a. /\ r \in Requests /\ r.frame = serving[h].frame /\ r.step = "waiting"
      /\ f \in 0..uploads
  <2>1. "waiting" \in HandlerSteps /\ serving[h].result \in Results /\ serving[h].outcome \in Outcomes
    <3>1. serving[h] \in Requests
      BY DEF ServiceInv, ServingTyped
    <3> QED
      BY <3>1 DEF Requests, HandlerSteps
  <2> QED
    BY <2>1, TurnedTyped
<1> HIDE DEF r
<1>b. /\ ServingTyped /\ RunnerTyped /\ StepsInv /\ PlacesInv /\ AskedInv /\ ensemble \in BOOLEAN
      /\ asked \in [1..Uploads -> Nat] /\ uploads \in 0..Uploads /\ Uploads \in Nat
  BY ServiceAssumption DEF ServiceInv, ServingTyped
<1>c. f \in 1..Uploads /\ asked[f] = 0
  BY <1>0, <1>a, <1>b DEF AskedInv, ServingTyped, Serving
<1>d. /\ serving' \in [Handlers -> Requests] /\ serving'[h] = r
      /\ \A g \in Handlers : g # h => serving'[g] = serving[g]
  BY <1>0, <1>a, RequestsThen
<1>e. /\ PlacesInv'
      /\ \A g \in Handlers : serving'[g].frame <= uploads' \/ (g = h /\ r.step = "idle")
      /\ \A g \in Handlers : serving'[g].step # "idle" =>
           /\ serving[g].step # "idle" /\ serving'[g].frame = serving[g].frame
           /\ serving'[g].frame >= 1
  BY <1>0, <1>a, RequestsPlaced DEF Serving
<1>1. /\ asked' \in [1..Uploads -> Nat]
      /\ \A e \in 1..Uploads : e # f => asked'[e] = asked[e]
      /\ asked'[f] = IF ensemble THEN 1 ELSE 0
  BY <1>0, <1>b, <1>c
<1>2. calls' \in [Handlers -> {"none", "running", "usable", "error"}]
  BY <1>0, <1>b DEF ServingTyped
<1>3. ServingTyped'
  <2>1. \A g \in Handlers : serving'[g].frame <= uploads'
    BY <1>a, <1>e
  <2>2. \A g \in Handlers : ~Serving(g, "idle")' => serving'[g].frame >= 1
    BY <1>e DEF Serving
  <2> QED
    BY <2>1, <2>2, <1>0, <1>1, <1>2, <1>b, <1>d DEF ServingTyped
<1>4. RunnerTyped'
  BY <1>0, <1>b DEF RunnerTyped
<1>5. StepsInv'
  BY <1>0, <1>a, <1>b, <1>d DEF StepsInv, Serving, ServingTyped
<1>6. AskedInv'
  <2>1. \A e \in 1..Uploads : asked'[e] <= 1 /\ (e > uploads' => asked'[e] = 0)
    <3>1. asked'[f] <= 1 /\ ~(f > uploads')
      <4>1. asked'[f] \in {0, 1}
        BY <1>1
      <4>2. f \in Int /\ uploads \in Int /\ f <= uploads
        BY <1>a, <1>b
      <4> QED
        BY <1>0, <4>1, <4>2
    <3>2. \A e \in 1..Uploads : asked[e] <= 1 /\ (e > uploads => asked[e] = 0)
      BY <1>b DEF AskedInv
    <3> QED
      BY <1>0, <1>1, <3>1, <3>2
  <2>2. ASSUME NEW g \in Handlers, Serving(g, "reading")' \/ (~Serving(g, "idle")' /\ ~ensemble')
        PROVE  asked'[serving'[g].frame] = 0
    <3>1. CASE g = h
      <4>1. ~ensemble
        BY <1>0, <1>a, <1>d, <2>2, <3>1 DEF Serving
      <4> QED
        BY <1>1, <1>a, <1>d, <3>1, <4>1
    <3>2. CASE g # h
      <4>1. Serving(g, "reading") \/ (~Serving(g, "idle") /\ ~ensemble)
        BY <1>0, <1>d, <2>2, <3>2 DEF Serving
      <4>2. serving[g].frame # f /\ ~Serving(g, "idle") /\ serving[g].frame \in 1..Uploads
        <5>1. ~Serving(g, "idle") /\ ~Serving(h, "idle")
          BY <4>1, <1>0 DEF Serving
        <5>2. serving[g] \in Requests /\ serving[g].frame >= 1
          BY <5>1, <1>b DEF ServingTyped
        <5> QED
          BY <5>1, <5>2, <3>2, <1>b DEF PlacesInv, Requests
      <4> QED
        BY <1>1, <1>b, <1>d, <3>2, <4>1, <4>2 DEF AskedInv
    <3> QED
      BY <3>1, <3>2
  <2>3. ASSUME NEW i \in 1..Len(shadowed)
        PROVE  IF ensemble THEN shadowed[i].outcome # "none" ELSE asked'[shadowed[i].frame] = 0
    <3>1. CASE ensemble
      BY <1>b, <3>1 DEF AskedInv
    <3>2. CASE ~ensemble
      BY <1>0, <1>b, <3>2 DEF AskedInv
    <3> QED
      BY <3>1, <3>2
  <2> QED
    BY <2>1, <2>2, <2>3, <1>0 DEF AskedInv
<1>7. CountsInv'
  BY <1>0, <1>a, CountsStay
<1> QED
  BY <1>3, <1>4, <1>5, <1>6, <1>7, <1>e DEF ServiceInv

LEMMA InferenceTaken == \A h \in Handlers : ServiceInv /\ TakesInference(h) => ServiceInv'
<1> SUFFICES ASSUME NEW h \in Handlers, ServiceInv, TakesInference(h) PROVE ServiceInv'
  OBVIOUS
<1> DEFINE r == Turned(h, "inferring", serving[h].result, serving[h].outcome)
<1>0. /\ serving[h].step = "waiting" /\ serving' = [serving EXCEPT ![h] = r]
      /\ inference' = h /\ calls' = calls
      /\ UNCHANGED <<ensemble, uploads, runnerVars, asked, stopsLeft>>
      /\ UNCHANGED <<metrics, metricsFile, runnerVars>>
      /\ calls \in [Handlers -> {"none", "running", "usable", "error"}]
  BY DEF TakesInference, Step, Turns, Turned, Serving, ServiceInv, ServingTyped
<1>a. /\ r \in Requests /\ r.frame = serving[h].frame /\ r.frame \in 0..uploads
      /\ r.step = "inferring"
  <2>1. "inferring" \in HandlerSteps /\ serving[h].result \in Results /\ serving[h].outcome \in Outcomes
    <3>1. serving[h] \in Requests
      BY DEF ServiceInv, ServingTyped
    <3> QED
      BY <3>1 DEF Requests, HandlerSteps
  <2> QED
    BY <2>1, TurnedTyped
<1> HIDE DEF r
<1>1. ServingTyped' /\ RunnerTyped' /\ PlacesInv' /\ AskedInv'
  BY <1>0, <1>a, RequestGoesOn DEF Serving
<1>2. CountsInv'
  BY <1>0, <1>a, CountsStay
<1>3. StepsInv'
  <2>1. serving'[h] = r /\ \A g \in Handlers : g # h => serving'[g] = serving[g]
    BY <1>0, <1>a, RequestsThen
  <2> QED
    BY <1>0, <1>a, <2>1 DEF ServiceInv, StepsInv, Serving
<1> QED
  BY <1>1, <1>2, <1>3 DEF ServiceInv

LEMMA WasInferred ==
  \A h \in Handlers, result \in {"scores", "other", "error"} :
    ServiceInv /\ Inferred(h, result) => ServiceInv'
<1> SUFFICES ASSUME NEW h \in Handlers, NEW result \in {"scores", "other", "error"}, ServiceInv,
                    Inferred(h, result)
             PROVE  ServiceInv'
  OBVIOUS
<1> DEFINE next == IF ensemble /\ result # "error" THEN "joining" ELSE "replying"
           r == Turned(h, next, result, "none")
<1>0. /\ serving[h].step = "inferring" /\ serving' = [serving EXCEPT ![h] = r]
      /\ inference' = Nobody /\ calls' = calls
      /\ UNCHANGED <<ensemble, uploads, runnerVars, asked, stopsLeft>>
      /\ UNCHANGED <<metrics, metricsFile, runnerVars>>
      /\ calls \in [Handlers -> {"none", "running", "usable", "error"}]
  BY DEF Inferred, Turns, Turned, Serving, ServiceInv, ServingTyped
<1>n. /\ next \in {"joining", "replying"}
      /\ next = "joining" => ensemble
      /\ ensemble /\ result = "scores" => next = "joining"
  BY DEF ServiceInv, ServingTyped
<1>a. /\ r \in Requests /\ r.frame = serving[h].frame /\ r.frame \in 0..uploads
      /\ r.step = next /\ r.result = result
  <2>1. next \in HandlerSteps /\ result \in Results /\ "none" \in Outcomes
    BY <1>n DEF HandlerSteps, Results, Outcomes
  <2>2. r.result = result
    BY DEF Turned
  <2> HIDE DEF next
  <2> QED
    BY <2>1, <2>2, TurnedTyped
<1> HIDE DEF r, next
<1>1. ServingTyped' /\ RunnerTyped' /\ PlacesInv' /\ AskedInv'
  BY <1>0, <1>a, <1>n, RequestGoesOn DEF Serving
<1>2. CountsInv'
  BY <1>0, <1>a, <1>n, CountsStay
<1>3. StepsInv'
  <2>1. serving'[h] = r /\ \A g \in Handlers : g # h => serving'[g] = serving[g]
    BY <1>0, <1>a, RequestsThen
  <2> QED
    BY <1>0, <1>a, <1>n, <2>1 DEF ServiceInv, StepsInv, Serving
<1> QED
  BY <1>1, <1>2, <1>3 DEF ServiceInv

LEMMA SecondAnswered == \A h \in Handlers : ServiceInv /\ SecondAnswers(h) => ServiceInv'
<1> SUFFICES ASSUME NEW h \in Handlers, ServiceInv, SecondAnswers(h) PROVE ServiceInv'
  OBVIOUS
<1>0. /\ UNCHANGED <<ensemble, uploads, serving, inference, metrics, metricsFile, shadowed, sending,
                     tally, handed, asked, stopsLeft>>
      /\ calls' = [calls EXCEPT ![h] = "usable"] \/ calls' = [calls EXCEPT ![h] = "error"]
  BY DEF SecondAnswers, runnerVars
<1>1. /\ calls' \in [Handlers -> {"none", "running", "usable", "error"}]
      /\ \A g \in Handlers : calls[g] # "none" => calls'[g] # "none"
  BY <1>0 DEF ServiceInv, ServingTyped
<1>2. ServingTyped' /\ RunnerTyped'
  BY <1>0, <1>1 DEF ServiceInv, ServingTyped, RunnerTyped, Serving
<1>3. StepsInv'
  BY <1>0, <1>1 DEF ServiceInv, StepsInv, Serving
<1>4. PlacesInv' /\ AskedInv'
  BY <1>0 DEF ServiceInv, PlacesInv, AskedInv, Serving
<1>5. CountsInv'
  BY <1>0 DEF ServiceInv, CountsInv, InFlight
<1> QED
  BY <1>2, <1>3, <1>4, <1>5 DEF ServiceInv

LEMMA WasJoined == \A h \in Handlers : ServiceInv /\ Joined(h) => ServiceInv'
<1> SUFFICES ASSUME NEW h \in Handlers, ServiceInv, Joined(h) PROVE ServiceInv'
  OBVIOUS
<1> DEFINE out == IF calls[h] = "running" THEN "error" ELSE calls[h]
           r == Turned(h, "replying", serving[h].result, out)
<1>0. /\ serving[h].step = "joining" /\ serving' = [serving EXCEPT ![h] = r]
      /\ inference' = inference /\ calls' = calls
      /\ UNCHANGED <<ensemble, uploads, runnerVars, asked, stopsLeft>>
      /\ UNCHANGED <<metrics, metricsFile, runnerVars>>
      /\ calls \in [Handlers -> {"none", "running", "usable", "error"}]
      /\ inference \in Handlers \cup {Nobody}
  BY DEF Joined, Turns, Turned, Serving, ServiceInv, ServingTyped
<1>n. out \in {"usable", "error"} /\ serving[h].result # "none"
  <2>1. calls[h] # "none" /\ serving[h].result # "none"
    BY <1>0 DEF ServiceInv, StepsInv, Serving
  <2> QED
    BY <1>0, <2>1
<1>a. /\ r \in Requests /\ r.frame = serving[h].frame /\ r.frame \in 0..uploads
      /\ r.step = "replying" /\ r.result = serving[h].result /\ r.outcome = out
  <2>1. "replying" \in HandlerSteps /\ serving[h].result \in Results /\ out \in Outcomes
    <3>1. serving[h] \in Requests
      BY DEF ServiceInv, ServingTyped
    <3> HIDE DEF out
    <3> QED
      BY <3>1, <1>n DEF Requests, HandlerSteps, Outcomes
  <2>2. r.result = serving[h].result /\ r.outcome = out
    BY DEF Turned
  <2> HIDE DEF out
  <2> QED
    BY <2>1, <2>2, TurnedTyped
<1> HIDE DEF r, out
<1>1. ServingTyped' /\ RunnerTyped' /\ PlacesInv' /\ AskedInv'
  BY <1>0, <1>a, RequestGoesOn DEF Serving
<1>2. CountsInv'
  BY <1>0, <1>a, CountsStay
<1>3. StepsInv'
  <2>1. serving'[h] = r /\ \A g \in Handlers : g # h => serving'[g] = serving[g]
    BY <1>0, <1>a, RequestsThen
  <2> QED
    BY <1>0, <1>a, <1>n, <2>1 DEF ServiceInv, StepsInv, Serving
<1> QED
  BY <1>1, <1>2, <1>3 DEF ServiceInv

LEMMA WasReplied == \A h \in Handlers : ServiceInv /\ Replies(h) => ServiceInv'
<1> SUFFICES ASSUME NEW h \in Handlers, ServiceInv, Replies(h) PROVE ServiceInv'
  OBVIOUS
<1> DEFINE scored == serving[h].result = "scores"
           r == IF scored THEN Turned(h, "handing", serving[h].result, serving[h].outcome)
                ELSE Unused
<1>0. /\ serving[h].step = "replying" /\ serving' = [serving EXCEPT ![h] = r]
      /\ inference' = inference /\ calls' = calls /\ Finished(serving[h].result)
      /\ UNCHANGED <<ensemble, uploads, runnerVars, asked, stopsLeft>> /\ UNCHANGED runnerVars
      /\ calls \in [Handlers -> {"none", "running", "usable", "error"}]
      /\ inference \in Handlers \cup {Nobody} /\ uploads \in Nat
  BY DEF Replies, Step, Turns, Turned, Serving, ServiceInv, ServingTyped
<1>n. serving[h].result # "none" /\ serving[h].result \in Results
  <2>1. serving[h] \in Requests
    BY DEF ServiceInv, ServingTyped
  <2> QED
    BY <2>1, <1>0 DEF ServiceInv, StepsInv, Requests
<1>a. /\ r \in Requests /\ r.frame \in 0..uploads
      /\ r.step = "idle" \/ (r.step = "handing" /\ scored /\ r.frame = serving[h].frame
                              /\ r.outcome = serving[h].outcome)
  <2>1. CASE scored
    <3>1. "handing" \in HandlerSteps /\ serving[h].outcome \in Outcomes
      <4>1. serving[h] \in Requests
        BY DEF ServiceInv, ServingTyped
      <4> QED
        BY <4>1 DEF Requests, HandlerSteps
    <3>2. r = Turned(h, "handing", serving[h].result, serving[h].outcome)
      BY <2>1
    <3>3. r.outcome = serving[h].outcome
      BY <3>2 DEF Turned
    <3> QED
      BY <2>1, <3>1, <3>2, <3>3, <1>n, TurnedTyped
  <2>2. CASE ~scored
    BY <2>2, <1>0, UnusedTyped
  <2> QED
    BY <2>1, <2>2
<1> HIDE DEF r
<1>1. ServingTyped' /\ RunnerTyped' /\ PlacesInv' /\ AskedInv'
  <2>1. r.step = "idle" \/ r.frame = serving[h].frame
    BY <1>a
  <2>2. r.step # "reading" /\ ~Serving(h, "idle")
    BY <1>a, <1>0 DEF Serving
  <2>3. inference' \in Handlers \cup {Nobody}
        /\ calls' \in [Handlers -> {"none", "running", "usable", "error"}]
    BY <1>0
  <2> QED
    BY <1>0, <1>a, <2>1, <2>2, <2>3, RequestGoesOn
<1>2. CountsInv'
  <2>1. r.step \in {"idle", "handing"} /\ serving[h].step \notin {"idle", "handing"}
    BY <1>0, <1>a
  <2> QED
    BY <1>0, <1>a, <1>n, <2>1, CountedOnce
<1>3. StepsInv'
  <2>1. serving'[h] = r /\ \A g \in Handlers : g # h => serving'[g] = serving[g]
    BY <1>0, <1>a, RequestsThen
  <2> QED
    BY <1>0, <1>a, <2>1 DEF ServiceInv, StepsInv, Serving
<1> QED
  BY <1>1, <1>2, <1>3 DEF ServiceInv
(* The runner takes what the handler hands over, or counts why it does not.     *)
LEMMA WasHandedOver == \A h \in Handlers : ServiceInv /\ HandsOver(h) => ServiceInv'
<1> SUFFICES ASSUME NEW h \in Handlers, ServiceInv, HandsOver(h) PROVE ServiceInv'
  OBVIOUS
<1> DEFINE item == Item(h)
<1>0. /\ serving[h].step = "handing" /\ serving' = [serving EXCEPT ![h] = Unused]
      /\ handed' = handed + 1
      /\ UNCHANGED <<ensemble, uploads, inference, calls, metrics, metricsFile, sending, asked,
                     stopsLeft>>
  BY DEF HandsOver, Serving
<1>b. /\ ServingTyped /\ RunnerTyped /\ StepsInv /\ PlacesInv /\ AskedInv /\ CountsInv
      /\ serving[h] \in Requests /\ serving[h].frame \in 1..uploads
      /\ shadowed \in Seq(ShadowItems) /\ Len(shadowed) \in Nat
      /\ uploads \in 0..Uploads /\ Uploads \in Nat
  <2>1. serving[h] \in Requests /\ serving[h].frame <= uploads /\ serving[h].frame >= 1
    BY <1>0 DEF ServiceInv, ServingTyped, Serving
  <2> QED
    BY <2>1, ServiceAssumption DEF ServiceInv, ServingTyped, RunnerTyped, Requests
<1>i. /\ item \in ShadowItems /\ item.frame = serving[h].frame /\ item.outcome = serving[h].outcome
      /\ item = Item(h)
  BY <1>b DEF Item, ShadowItems, Requests
<1> HIDE DEF item
<1>q. \/ shadowed' = shadowed
      \/ shadowed' = Append(shadowed, item) /\ Len(shadowed) < ShadowQueue
  BY <1>i DEF HandsOver
<1>t. \/ /\ tally' = [tally EXCEPT !.throttled = @ + 1] /\ shadowed' = shadowed
      \/ /\ tally' = [tally EXCEPT !.dropped = @ + 1] /\ shadowed' = shadowed
      \/ /\ tally' = tally /\ shadowed' = Append(shadowed, item)
  BY <1>i DEF HandsOver
<1>s. /\ shadowed' \in Seq(ShadowItems) /\ Len(shadowed') <= ShadowQueue
      /\ \A i \in 1..Len(shadowed') :
           \/ i \in 1..Len(shadowed) /\ shadowed'[i] = shadowed[i]
           \/ i = Len(shadowed) + 1 /\ shadowed'[i] = item
  <2>1. CASE shadowed' = shadowed
    BY <2>1, <1>b DEF RunnerTyped
  <2>2. CASE shadowed' = Append(shadowed, item) /\ Len(shadowed) < ShadowQueue
    <3>1. /\ shadowed' \in Seq(ShadowItems) /\ Len(shadowed') = Len(shadowed) + 1
          /\ \A i \in 1..Len(shadowed) : shadowed'[i] = shadowed[i]
          /\ shadowed'[Len(shadowed) + 1] = item
      BY <1>b, <1>i, <2>2, AppendProperties
    <3>2. Len(shadowed') <= ShadowQueue
      BY <1>b, <2>2, <3>1, ServiceAssumption
    <3> QED
      BY <1>b, <3>1, <3>2
  <2> QED
    BY <1>q, <2>1, <2>2
<1>d. /\ serving' \in [Handlers -> Requests] /\ serving'[h] = Unused
      /\ \A g \in Handlers : g # h => serving'[g] = serving[g]
      /\ Cardinality(InFlight') = Cardinality(InFlight)
  <2>1. /\ serving' \in [Handlers -> Requests] /\ serving'[h] = Unused
        /\ \A g \in Handlers : g # h => serving'[g] = serving[g]
    BY <1>0, UnusedTyped, RequestsThen
  <2>2. InFlight' = InFlight
    BY <1>0, <2>1, UnusedTyped DEF InFlight
  <2> QED
    BY <2>1, <2>2
<1>1. ServingTyped'
  <2>1. \A g \in Handlers : serving'[g].frame <= uploads' /\ (~Serving(g, "idle")' => serving'[g].frame >= 1)
    <3>1. Unused.frame <= uploads /\ Unused.step = "idle"
      BY <1>b, UnusedTyped
    <3> QED
      BY <1>0, <1>b, <1>d, <3>1 DEF ServingTyped, Serving
  <2> QED
    BY <1>0, <1>b, <1>d, <2>1 DEF ServingTyped
<1>2. StepsInv'
  BY <1>0, <1>b, <1>d, UnusedTyped DEF StepsInv, Serving
<1>3. PlacesInv'
  <2>1. \A i \in 1..Len(shadowed) : shadowed[i].frame # serving[h].frame
    BY <1>b, <1>0 DEF PlacesInv, Serving
  <2>2. \A g \in Handlers : ~Serving(g, "idle")' =>
          /\ g # h /\ ~Serving(g, "idle") /\ serving'[g].frame = serving[g].frame
          /\ serving[g].frame # serving[h].frame
    BY <1>0, <1>b, <1>d, UnusedTyped DEF PlacesInv, Serving
  <2>3. \A g, k \in Handlers : ~Serving(g, "idle")' /\ ~Serving(k, "idle")' /\ g # k =>
          serving'[g].frame # serving'[k].frame
    BY <1>b, <2>2 DEF PlacesInv
  <2>4. ASSUME NEW g \in Handlers, NEW i \in 1..Len(shadowed'), ~Serving(g, "idle")'
        PROVE  serving'[g].frame # shadowed'[i].frame
    BY <1>b, <1>i, <1>s, <2>2, <2>4 DEF PlacesInv
  <2>5. ASSUME NEW i \in 1..Len(shadowed'), NEW j \in 1..Len(shadowed'), i # j
        PROVE  shadowed'[i].frame # shadowed'[j].frame
    BY <1>b, <1>i, <1>s, <2>1, <2>5 DEF PlacesInv
  <2>6. ASSUME NEW i \in 1..Len(shadowed') PROVE shadowed'[i].frame <= uploads'
    BY <1>0, <1>b, <1>i, <1>s DEF PlacesInv
  <2> QED
    BY <2>3, <2>4, <2>5, <2>6 DEF PlacesInv
<1>4. AskedInv'
  <2>1. \A f \in 1..Uploads : asked'[f] <= 1 /\ (f > uploads' => asked'[f] = 0)
    BY <1>0, <1>b DEF AskedInv
  <2>2. \A g \in Handlers : Serving(g, "reading")' \/ (~Serving(g, "idle")' /\ ~ensemble') =>
          asked'[serving'[g].frame] = 0
    BY <1>0, <1>b, <1>d, UnusedTyped DEF AskedInv, Serving
  <2>3. IF ensemble THEN item.outcome # "none" ELSE asked[item.frame] = 0
    BY <1>0, <1>b, <1>i DEF StepsInv, AskedInv, Serving
  <2>4. ASSUME NEW i \in 1..Len(shadowed')
        PROVE  IF ensemble THEN shadowed'[i].outcome # "none" ELSE asked[shadowed'[i].frame] = 0
    <3>1. CASE shadowed'[i] = item
      BY <2>3, <3>1
    <3>2. CASE i \in 1..Len(shadowed) /\ shadowed'[i] = shadowed[i]
      BY <3>2, <1>b DEF AskedInv
    <3> QED
      BY <1>s, <3>1, <3>2
  <2> QED
    BY <1>0, <2>1, <2>2, <2>4 DEF AskedInv
<1>5. RunnerTyped' /\ CountsInv'
  <2> DEFINE busy == IF sending = NoItem THEN 0 ELSE 1
  <2>1. /\ tally \in Tallies /\ handed \in Nat /\ handed' = handed + 1 /\ Len(shadowed) \in Nat
        /\ handed = TallyTotal(tally) + Len(shadowed) + busy
    BY <1>0, <1>b DEF RunnerTyped, CountsInv
  <2>2. busy \in Nat /\ sending' = sending
    BY <1>0
  <2>4. tally' \in Tallies /\ handed' = TallyTotal(tally') + Len(shadowed') + busy
    <3> HIDE DEF busy
    <3>1. CASE tally' # tally
      <4>1. shadowed' = shadowed /\ tally' \in Tallies
            /\ TallyTotal(tally) \in Nat /\ TallyTotal(tally') = TallyTotal(tally) + 1
        BY <1>t, <2>1, <3>1, TallyGrows
      <4>2. Len(shadowed') = Len(shadowed)
        BY <4>1
      <4> QED
        BY <2>1, <2>2, <4>1, <4>2
    <3>2. CASE tally' = tally
      <4>1. tally \in Tallies /\ TallyTotal(tally) \in Nat
        BY <2>1, TallyGrows
      <4>2. [tally EXCEPT !.throttled = @ + 1] # tally /\ [tally EXCEPT !.dropped = @ + 1] # tally
        <5>1. TallyTotal([tally EXCEPT !.throttled = @ + 1]) = TallyTotal(tally) + 1
          BY <2>1, TallyGrows
        <5>2. TallyTotal([tally EXCEPT !.dropped = @ + 1]) = TallyTotal(tally) + 1
          BY <2>1, TallyGrows
        <5> QED
          BY <4>1, <5>1, <5>2
      <4>3. shadowed' = Append(shadowed, item)
        BY <1>t, <3>2, <4>2
      <4>4. Len(shadowed') = Len(shadowed) + 1
        BY <1>b, <1>i, <4>3
      <4> QED
        BY <2>1, <2>2, <3>2, <4>1, <4>4
    <3> QED
      BY <3>1, <3>2
  <2>5. handed' \in Nat
    BY <2>1
  <2>6. RunnerTyped'
    BY <1>0, <1>b, <1>s, <2>4, <2>5 DEF RunnerTyped
  <2>7. ensemble => tally'.unseen = 0 /\ tally'.throttled = 0
    <3>1. ASSUME ensemble PROVE serving[h].outcome # "none"
      BY <1>0, <1>b, <3>1 DEF StepsInv, Serving
    <3>2. ASSUME ensemble
          PROVE  tally' = tally \/ tally' = [tally EXCEPT !.dropped = @ + 1]
      BY <3>1, <3>2 DEF HandsOver, Item
    <3>3. ensemble => tally.unseen = 0 /\ tally.throttled = 0
      BY <1>b DEF CountsInv
    <3> QED
      BY <2>1, <3>2, <3>3 DEF Tallies
  <2>8. CountsInv'
    <3>1. ensemble => (sending # NoItem => sending.outcome # "none")
      BY <1>b DEF CountsInv
    <3> QED
      BY <1>0, <1>b, <1>d, <2>2, <2>4, <2>7, <3>1 DEF CountsInv
  <2> QED
    BY <2>6, <2>8
<1> QED
  BY <1>1, <1>2, <1>3, <1>4, <1>5 DEF ServiceInv

LEMMA ShadowTaken == ServiceInv /\ ShadowTakes => ServiceInv'
<1> SUFFICES ASSUME ServiceInv, ShadowTakes PROVE ServiceInv'
  OBVIOUS
<1>0. /\ sending = NoItem /\ shadowed # <<>> /\ sending' = Head(shadowed)
      /\ shadowed' = Tail(shadowed)
      /\ UNCHANGED <<ensemble, uploads, serving, inference, calls, metrics, metricsFile, tally,
                     handed, stopsLeft>>
      /\ ServingTyped /\ RunnerTyped /\ StepsInv /\ PlacesInv /\ AskedInv /\ CountsInv
      /\ shadowed \in Seq(ShadowItems) /\ Len(shadowed) \in Nat
      /\ asked \in [1..Uploads -> Nat]
  BY DEF ShadowTakes, ServiceInv, RunnerTyped, ServingTyped
<1>1. /\ Head(shadowed) = shadowed[1] /\ shadowed[1] \in ShadowItems /\ Len(shadowed) >= 1
      /\ shadowed' \in Seq(ShadowItems) /\ Len(shadowed') = Len(shadowed) - 1
      /\ \A i \in 1..Len(shadowed') : shadowed'[i] = shadowed[i + 1] /\ i + 1 \in 1..Len(shadowed)
      /\ 1 \in 1..Len(shadowed)
  BY <1>0
<1> DEFINE f == shadowed[1].frame
<1>2. /\ f \in 1..Uploads /\ f <= uploads
      /\ \A i \in 1..Len(shadowed') : shadowed'[i].frame # f
      /\ \A h \in Handlers : ~Serving(h, "idle") => serving[h].frame # f
  <2>1. f \in 1..Uploads
    BY <1>1 DEF ShadowItems
  <2>2. \A i \in 1..Len(shadowed') : i + 1 # 1
    BY <1>1
  <2> QED
    BY <1>0, <1>1, <2>1, <2>2 DEF PlacesInv
<1>3. /\ asked' = IF shadowed[1].outcome = "none" THEN [asked EXCEPT ![f] = @ + 1] ELSE asked
  BY <1>1 DEF ShadowTakes
<1>4. shadowed[1].outcome = "none" => asked[f] = 0 /\ ~ensemble
  BY <1>0, <1>1 DEF AskedInv
<1>5. /\ asked' \in [1..Uploads -> Nat]
      /\ \A e \in 1..Uploads : e # f => asked'[e] = asked[e]
      /\ asked'[f] <= 1
  <2>1. asked[f] \in Nat /\ asked[f] <= 1
    BY <1>0, <1>2 DEF AskedInv
  <2>2. CASE shadowed[1].outcome = "none"
    BY <1>0, <1>2, <1>3, <1>4, <2>2
  <2>3. CASE shadowed[1].outcome # "none"
    BY <1>0, <1>2, <1>3, <2>1, <2>3
  <2> QED
    BY <2>2, <2>3
<1>6. ServingTyped'
  BY <1>0, <1>5 DEF ServingTyped, Serving
<1>7. StepsInv'
  BY <1>0 DEF StepsInv, Serving
<1>8. PlacesInv'
  <2>1. \A i, j \in 1..Len(shadowed') : i # j => i + 1 # j + 1
    BY <1>1
  <2> QED
    BY <1>0, <1>1, <2>1 DEF PlacesInv, Serving
<1>9. AskedInv'
  <2>1. \A e \in 1..Uploads : asked'[e] <= 1 /\ (e > uploads' => asked'[e] = 0)
    <3>1. ~(f > uploads)
      <4>1. f \in Int /\ uploads \in Int
        BY <1>0, <1>2 DEF ServingTyped
      <4> QED
        BY <4>1, <1>2
    <3>2. \A e \in 1..Uploads : asked[e] <= 1 /\ (e > uploads => asked[e] = 0)
      BY <1>0 DEF AskedInv
    <3> QED
      BY <1>0, <1>5, <3>1, <3>2
  <2>2. \A g \in Handlers : Serving(g, "reading")' \/ (~Serving(g, "idle")' /\ ~ensemble') =>
          asked'[serving'[g].frame] = 0
    <3> SUFFICES ASSUME NEW g \in Handlers,
                        Serving(g, "reading") \/ (~Serving(g, "idle") /\ ~ensemble)
                 PROVE  asked'[serving[g].frame] = 0
      BY <1>0 DEF Serving
    <3>1. ~Serving(g, "idle")
      BY DEF Serving
    <3>2. serving[g].frame # f /\ serving[g].frame \in 1..Uploads
      <4>1. serving[g] \in Requests /\ serving[g].frame >= 1
        BY <1>0, <3>1 DEF ServingTyped
      <4> QED
        BY <1>2, <3>1, <4>1 DEF Requests
    <3> QED
      BY <1>0, <1>5, <3>2 DEF AskedInv
  <2>3. ASSUME NEW i \in 1..Len(shadowed')
        PROVE  IF ensemble THEN shadowed'[i].outcome # "none" ELSE asked'[shadowed'[i].frame] = 0
    <3>1. /\ shadowed'[i] = shadowed[i + 1] /\ shadowed'[i].frame # f /\ i + 1 \in 1..Len(shadowed)
          /\ shadowed'[i].frame \in 1..Uploads
      <4>1. shadowed'[i] \in ShadowItems
        BY <1>1
      <4> QED
        BY <1>1, <1>2, <4>1 DEF ShadowItems
    <3>2. IF ensemble THEN shadowed[i + 1].outcome # "none" ELSE asked[shadowed[i + 1].frame] = 0
      BY <1>0, <3>1 DEF AskedInv
    <3> QED
      BY <1>5, <3>1, <3>2
  <2> QED
    BY <1>0, <2>1, <2>2, <2>3 DEF AskedInv
<1>10. RunnerTyped'
  <2>1. Len(shadowed') <= ShadowQueue
    BY <1>0, <1>1, ServiceAssumption DEF RunnerTyped
  <2> QED
    BY <1>0, <1>1, <2>1 DEF RunnerTyped
<1>11. CountsInv'
  <2>1. sending' # NoItem
    BY <1>0, <1>1, <1>2 DEF NoItem
  <2>2. InFlight' = InFlight
    BY <1>0 DEF InFlight
  <2>3. handed = TallyTotal(tally) + Len(shadowed) /\ TallyTotal(tally) \in Nat
    <3>1. tally \in Tallies /\ handed = TallyTotal(tally) + Len(shadowed) + 0
      BY <1>0 DEF CountsInv, RunnerTyped
    <3>2. TallyTotal(tally) \in Nat
      BY <3>1, TallyGrows
    <3> QED
      BY <1>0, <3>1, <3>2
  <2>4. ensemble => sending'.outcome # "none"
    BY <1>0, <1>1 DEF AskedInv
  <2>5. handed' = TallyTotal(tally') + Len(shadowed') + (IF sending' = NoItem THEN 0 ELSE 1)
    BY <1>0, <1>1, <2>1, <2>3
  <2> QED
    BY <1>0, <2>2, <2>4, <2>5 DEF CountsInv
<1> QED
  BY <1>6, <1>7, <1>8, <1>9, <1>10, <1>11 DEF ServiceInv

LEMMA ShadowWasDone == ServiceInv /\ ShadowDone => ServiceInv'
<1> SUFFICES ASSUME ServiceInv, ShadowDone PROVE ServiceInv'
  OBVIOUS
<1>0. /\ sending # NoItem /\ sending' = NoItem
      /\ UNCHANGED <<ensemble, uploads, serving, inference, calls, metrics, metricsFile, shadowed,
                     handed, asked, stopsLeft>>
      /\ ServingTyped /\ RunnerTyped /\ StepsInv /\ PlacesInv /\ AskedInv /\ CountsInv
      /\ tally \in Tallies /\ Len(shadowed) \in Nat
  BY DEF ShadowDone, ServiceInv, RunnerTyped
<1>1. ServingTyped' /\ StepsInv' /\ PlacesInv' /\ AskedInv'
  BY <1>0 DEF ServingTyped, StepsInv, PlacesInv, AskedInv, Serving
<1>2. handed = TallyTotal(tally) + Len(shadowed) + 1
  BY <1>0 DEF CountsInv
<1>3. \/ tally' = [tally EXCEPT !.sent = @ + 1]
      \/ tally' = [tally EXCEPT !.failed = @ + 1]
      \/ tally' = [tally EXCEPT !.unseen = @ + 1] /\ ~ensemble
  BY <1>0 DEF ShadowDone, CountsInv
<1>4. tally' \in Tallies /\ TallyTotal(tally) \in Nat /\ TallyTotal(tally') = TallyTotal(tally) + 1
  BY <1>0, <1>3, TallyGrows
<1>5. RunnerTyped'
  BY <1>0, <1>4 DEF RunnerTyped
<1>6. handed' = TallyTotal(tally') + Len(shadowed') + (IF sending' = NoItem THEN 0 ELSE 1)
  BY <1>0, <1>2, <1>4
<1>7. InFlight' = InFlight
  BY <1>0 DEF InFlight
<1>8. CountsInv'
  <2>1. ensemble => tally'.unseen = 0 /\ tally'.throttled = 0
    <3>1. ensemble => tally.unseen = 0 /\ tally.throttled = 0
      BY <1>0 DEF CountsInv
    <3> QED
      BY <1>0, <1>3, <3>1 DEF Tallies
  <2> QED
    BY <1>0, <1>6, <1>7, <2>1 DEF CountsInv
<1> QED
  BY <1>1, <1>5, <1>8 DEF ServiceInv

LEMMA ServiceWasStopped ==
  \A flushed \in BOOLEAN : ServiceInv /\ ServiceStopped(flushed) => ServiceInv'
<1> SUFFICES ASSUME NEW flushed \in BOOLEAN, ServiceInv, ServiceStopped(flushed)
             PROVE  ServiceInv'
  OBVIOUS
<1>0. /\ stopsLeft > 0 /\ stopsLeft' = stopsLeft - 1
      /\ metrics' \in {metrics, metricsFile} /\ metricsFile' = metrics'
      /\ serving' = [h \in Handlers |-> Unused] /\ inference' = Nobody
      /\ calls' = [h \in Handlers |-> "none"]
      /\ shadowed' = <<>> /\ sending' = NoItem /\ tally' = NoTally /\ handed' = 0
      /\ UNCHANGED <<ensemble, uploads, asked>>
      /\ ServingTyped /\ RunnerTyped /\ AskedInv /\ CountsInv
      /\ uploads \in 0..Uploads /\ Uploads \in Nat /\ ServiceStops \in Nat /\ ShadowQueue \in Nat
  BY ServiceAssumption DEF ServiceStopped, ServiceInv, ServingTyped
<1>1. \A h \in Handlers : serving'[h] = Unused
  BY <1>0
<1>2. ServingTyped'
  <2>1. stopsLeft' \in 0..ServiceStops
    BY <1>0 DEF ServingTyped
  <2>2. \A h \in Handlers : serving'[h].frame <= uploads' /\ (~Serving(h, "idle")' => serving'[h].frame >= 1)
    BY <1>0, <1>1, UnusedTyped DEF Serving
  <2> QED
    BY <1>0, <2>1, <2>2, UnusedTyped DEF ServingTyped
<1>3. RunnerTyped'
  BY <1>0 DEF RunnerTyped, NoTally, Tallies
<1>4. StepsInv' /\ PlacesInv'
  BY <1>0, <1>1, UnusedTyped DEF StepsInv, PlacesInv, Serving
<1>5. AskedInv'
  BY <1>0, <1>1, UnusedTyped DEF AskedInv, Serving
<1>6. CountsInv'
  <2>1. InFlight' = {}
    BY <1>1, UnusedTyped DEF InFlight
  <2>2. Cardinality(InFlight') = 0
    BY <2>1, FS_EmptySet
  <2>3. Cardinality(InFlight) \in Nat
    <3>1. InFlight \in SUBSET Handlers
      BY DEF InFlight
    <3> QED
      BY <3>1, ServiceAssumption, FS_Subset, FS_CardinalityType
  <2>4. /\ metrics' \in Counts4 /\ Sums(metrics')
        /\ metrics'.requests >= metrics'.completed
    <3>1. CASE metrics' = metrics
      <4>1. /\ metrics \in Counts4 /\ Sums(metrics)
            /\ metrics.requests >= metrics.completed + Cardinality(InFlight)
        BY <1>0 DEF CountsInv
      <4>2. metrics.requests \in Nat /\ metrics.completed \in Nat
        BY <4>1 DEF Counts4
      <4> QED
        BY <2>3, <3>1, <4>1, <4>2
    <3>2. CASE metrics' = metricsFile
      BY <3>2, <1>0 DEF CountsInv
    <3> QED
      BY <1>0, <3>1, <3>2
  <2>5. metrics'.completed \in Nat
    BY <2>4 DEF Counts4
  <2> QED
    BY <1>0, <2>2, <2>4, <2>5 DEF CountsInv, NoTally, TallyTotal
<1> QED
  BY <1>2, <1>3, <1>4, <1>5, <1>6 DEF ServiceInv

LEMMA ServiceStep == ServiceInv /\ [ServiceNext]_serviceVars => ServiceInv'
<1> SUFFICES ASSUME ServiceInv, [ServiceNext]_serviceVars PROVE ServiceInv'
  OBVIOUS
<1>1. CASE UNCHANGED serviceVars
  BY <1>1 DEF ServiceInv, serviceVars, runnerVars, ServingTyped, RunnerTyped, StepsInv, PlacesInv,
     AskedInv, CountsInv, Serving, InFlight
<1>2. ASSUME NEW h \in Handlers, Handling(h) PROVE ServiceInv'
  BY <1>2, RequestArrived, RequestRejected, RequestFilteredOut, BodyWasRead, InferenceTaken,
     WasInferred, SecondAnswered, WasJoined, WasReplied, WasHandedOver DEF Handling
<1>3. CASE ShadowTakes \/ ShadowDone \/ \E flushed \in BOOLEAN : ServiceStopped(flushed)
  BY <1>3, ShadowTaken, ShadowWasDone, ServiceWasStopped
<1> QED
  BY <1>1, <1>2, <1>3 DEF ServiceNext

(* A frame reaches the second service once at most, by a handler or the shadow's *)
(* worker, and the service's counters agree with its answers, for any number of  *)
(* handlers and uploads (scorer_service.py).                                     *)
THEOREM FrameAskedOnceCorrect ==
  ServiceSpec => [](ServiceTypeOK /\ FrameAskedOnce /\ ServiceCountsAddUp)
<1> QED
  BY ServiceInitInv, ServiceStep, ServiceTypes, PTL DEF ServiceSpec
----------------------------------------------------------------------------
(* The observation ledger *)

LineCountTypes == [dropped : Nat, errors : Nat, done : Nat]
LineTotal(c) == c.dropped + c.errors + c.done

LedgerTyped ==
  /\ day \in 0..LedgerDays /\ startOf \in [Events -> 0..(LedgerDays + 1)]
  /\ emitted \in Nat /\ lineQueue \in Seq(Rows) /\ Len(lineQueue) <= LineQueue
  /\ inHand \in Rows \cup {NoRow} /\ lineCounts \in LineCountTypes
  /\ rows \subseteq written /\ written \subseteq Rows
SweepInv ==
  /\ sweep.left \in Seq({"observations", "decisions", "scene_events"})
  /\ Len(sweep.left) <= 3 /\ sweep.before \in 0..Cutoff

(* An event a row tells of has begun, so its day is settled.                   *)
Begun(e) == startOf[e] <= day
BegunInv ==
  /\ \A r \in written : Begun(r.event)
  /\ \A i \in 1..Len(lineQueue) : Begun(lineQueue[i].event)
  /\ inHand # NoRow => Begun(inHand.event)
YoungInv == \A r \in written : startOf[r.event] + KeepDays >= day => r \in rows
LinesInv ==
  /\ emitted = LineTotal(lineCounts) + Unfinished
  /\ ledgerStop = "whole" => Unfinished = 0

LedgerInv == LedgerTyped /\ SweepInv /\ BegunInv /\ YoungInv /\ LinesInv

LEMMA CutoffTyped == LedgerTyped => Cutoff \in 0..LedgerDays /\ Cutoff <= day
  BY LedgerAssumption DEF LedgerTyped, Cutoff

LEMMA LedgerTypes == LedgerInv => LedgerTypeOK /\ LedgerKeepsYoung
<1> SUFFICES ASSUME LedgerInv PROVE LedgerTypeOK /\ LedgerKeepsYoung
  OBVIOUS
<1>1. LedgerTypeOK
  <2>1. Len(Tables) = 3
    BY DEF Tables
  <2>2. sweep.before \in 0..LedgerDays
    BY CutoffTyped, LedgerAssumption DEF LedgerInv, SweepInv
  <2> QED
    BY <2>1, <2>2 DEF LedgerInv, LedgerTyped, SweepInv, LedgerTypeOK
<1>2. lineCounts.dropped \in Nat /\ lineCounts.errors \in Nat /\ lineCounts.done \in Nat
  BY DEF LedgerInv, LedgerTyped, LineCountTypes
<1>3. LedgerKeepsYoung
  BY <1>2 DEF LedgerInv, YoungInv, LinesInv, LineTotal, LedgerKeepsYoung
<1> QED
  BY <1>1, <1>3

LEMMA LedgerInitInv == LedgerInit => LedgerInv
<1> SUFFICES ASSUME LedgerInit PROVE LedgerInv
  OBVIOUS
<1> USE DEF LedgerInit
<1>1. LedgerTyped
  BY LedgerAssumption DEF LedgerTyped, LineCountTypes
<1>2. SweepInv
  BY LedgerAssumption DEF SweepInv, NoSweep, Cutoff
<1>3. Unfinished = 0
  BY DEF Unfinished
<1>4. LinesInv
  BY <1>3 DEF LinesInv, LineTotal
<1> QED
  BY <1>1, <1>2, <1>4 DEF LedgerInv, BegunInv, YoungInv

(* One more under any heading of the counts is one more line in all.           *)
LEMMA LineTotalGrows ==
  ASSUME NEW c \in LineCountTypes, NEW d,
         \/ d = [c EXCEPT !.dropped = @ + 1]
         \/ d = [c EXCEPT !.errors = @ + 1]
         \/ d = [c EXCEPT !.done = @ + 1]
  PROVE  d \in LineCountTypes /\ LineTotal(c) \in Nat /\ LineTotal(d) = LineTotal(c) + 1
<1>1. c.dropped \in Nat /\ c.errors \in Nat /\ c.done \in Nat
  BY DEF LineCountTypes
<1>2. LineTotal(c) \in Nat
  BY <1>1 DEF LineTotal
<1>3. CASE d = [c EXCEPT !.dropped = @ + 1]
  <2>1. /\ d \in LineCountTypes /\ d.dropped = c.dropped + 1 /\ d.errors = c.errors
        /\ d.done = c.done
    BY <1>1, <1>3 DEF LineCountTypes
  <2> QED
    BY <1>1, <1>2, <2>1 DEF LineTotal
<1>4. CASE d = [c EXCEPT !.errors = @ + 1]
  <2>1. /\ d \in LineCountTypes /\ d.dropped = c.dropped /\ d.errors = c.errors + 1
        /\ d.done = c.done
    BY <1>1, <1>4 DEF LineCountTypes
  <2> QED
    BY <1>1, <1>2, <2>1 DEF LineTotal
<1>5. CASE d = [c EXCEPT !.done = @ + 1]
  <2>1. /\ d \in LineCountTypes /\ d.dropped = c.dropped /\ d.errors = c.errors
        /\ d.done = c.done + 1
    BY <1>1, <1>5 DEF LineCountTypes
  <2> QED
    BY <1>1, <1>2, <2>1 DEF LineTotal
<1> QED
  BY <1>3, <1>4, <1>5

LEMMA LineWasEmitted ==
  ASSUME NEW row \in Rows, NEW began \in 0..LedgerDays, LedgerInv, LineEmitted(row, began)
  PROVE  LedgerInv'
<1>0. /\ ledgerStop = "no" /\ ledgerStop' = "no" /\ day' = day /\ inHand' = inHand
      /\ rows' = rows /\ written' = written /\ sweep' = sweep
      /\ startOf' = [startOf EXCEPT ![row.event] = began]
      /\ emitted' = emitted + 1
      /\ \/ lineQueue' = Append(lineQueue, row) /\ Len(lineQueue) < LineQueue /\ lineCounts' = lineCounts
         \/ lineQueue' = lineQueue /\ lineCounts' = [lineCounts EXCEPT !.dropped = @ + 1]
      /\ IF startOf[row.event] <= day THEN began = startOf[row.event] ELSE began <= day
  BY DEF LineEmitted, Queued, rowVars
<1>t. /\ day \in 0..LedgerDays /\ startOf \in [Events -> 0..(LedgerDays + 1)] /\ emitted \in Nat
      /\ lineQueue \in Seq(Rows) /\ Len(lineQueue) \in Nat /\ Len(lineQueue) <= LineQueue
      /\ lineCounts \in LineCountTypes /\ row.event \in Events
      /\ written \subseteq Rows /\ inHand \in Rows \cup {NoRow}
      /\ LedgerDays \in Nat /\ LineQueue \in Nat
      /\ \A r \in Rows : r.event \in Events
  BY LedgerAssumption DEF LedgerInv, LedgerTyped, Rows
<1>1. /\ startOf' \in [Events -> 0..(LedgerDays + 1)]
      /\ startOf'[row.event] <= day
      /\ \A e \in Events : Begun(e) => startOf'[e] = startOf[e]
  BY <1>0, <1>t DEF Begun
<1>2. \A e \in Events : Begun(e) => Begun(e)'
  BY <1>0, <1>1 DEF Begun
<1>2a. LineTotal(lineCounts) \in Nat
  BY <1>t, LineTotalGrows
<1>2b. /\ lineQueue' \in Seq(Rows) /\ Len(lineQueue') <= LineQueue
       /\ \A i \in 1..Len(lineQueue') :
            lineQueue'[i] = row \/ (i \in 1..Len(lineQueue) /\ lineQueue'[i] = lineQueue[i])
  <2>1. CASE lineQueue' = Append(lineQueue, row) /\ Len(lineQueue) < LineQueue
    <3>1. /\ lineQueue' \in Seq(Rows) /\ Len(lineQueue') = Len(lineQueue) + 1
          /\ \A i \in 1..Len(lineQueue) : lineQueue'[i] = lineQueue[i]
          /\ lineQueue'[Len(lineQueue) + 1] = row
      BY <1>t, <2>1, AppendProperties
    <3>2. \A i \in 1..Len(lineQueue') : i \in 1..Len(lineQueue) \/ i = Len(lineQueue) + 1
      BY <1>t, <3>1
    <3>3. Len(lineQueue') <= LineQueue
      BY <1>t, <2>1, <3>1
    <3> QED
      BY <3>1, <3>2, <3>3
  <2>2. CASE lineQueue' = lineQueue
    BY <1>t, <2>2
  <2> QED
    BY <1>0, <2>1, <2>2
<1>3. /\ lineCounts' \in LineCountTypes /\ LineTotal(lineCounts') \in Nat
      /\ LineTotal(lineCounts') + Len(lineQueue') = LineTotal(lineCounts) + Len(lineQueue) + 1
  <2>1. CASE lineQueue' = Append(lineQueue, row) /\ lineCounts' = lineCounts
    <3>1. Len(lineQueue') = Len(lineQueue) + 1
      BY <1>t, <2>1, AppendProperties
    <3>2. LineTotal(lineCounts') = LineTotal(lineCounts)
      BY <2>1
    <3>3. LineTotal(lineCounts') + Len(lineQueue') = LineTotal(lineCounts) + Len(lineQueue) + 1
      BY <1>t, <1>2a, <3>1, <3>2
    <3> QED
      BY <1>t, <1>2a, <2>1, <3>2, <3>3
  <2>2. CASE lineQueue' = lineQueue /\ lineCounts' = [lineCounts EXCEPT !.dropped = @ + 1]
    <3>1. lineCounts' \in LineCountTypes /\ LineTotal(lineCounts') = LineTotal(lineCounts) + 1
      BY <1>t, <2>2, LineTotalGrows
    <3>2. Len(lineQueue') = Len(lineQueue)
      BY <2>2
    <3>3. LineTotal(lineCounts') + Len(lineQueue') = LineTotal(lineCounts) + Len(lineQueue) + 1
      BY <1>t, <1>2a, <3>1, <3>2
    <3> QED
      BY <1>2a, <3>1, <3>3
  <2> QED
    BY <1>0, <2>1, <2>2
<1>4. LedgerTyped'
  <2>1. emitted' \in Nat
    BY <1>0, <1>t
  <2> QED
    BY <1>0, <1>1, <1>2b, <1>3, <2>1 DEF LedgerInv, LedgerTyped
<1>5. SweepInv'
  BY <1>0 DEF LedgerInv, SweepInv, Cutoff
<1>6. BegunInv'
  <2>e. /\ \A r \in written : r.event \in Events
        /\ \A i \in 1..Len(lineQueue) : lineQueue[i].event \in Events
        /\ inHand # NoRow => inHand.event \in Events
    BY <1>t
  <2>o. /\ \A r \in written : Begun(r.event)
        /\ \A i \in 1..Len(lineQueue) : Begun(lineQueue[i].event)
        /\ inHand # NoRow => Begun(inHand.event)
    BY DEF LedgerInv, BegunInv
  <2>n. \A e \in Events : Begun(e) => startOf'[e] <= day'
    BY <1>2 DEF Begun
  <2>1. \A r \in written' : startOf'[r.event] <= day'
    BY <1>0, <2>e, <2>o, <2>n
  <2>2. \A i \in 1..Len(lineQueue') : startOf'[lineQueue'[i].event] <= day'
    <3>1. startOf'[row.event] <= day'
      BY <1>0, <1>1
    <3>2. \A i \in 1..Len(lineQueue) : startOf'[lineQueue[i].event] <= day'
      BY <2>e, <2>o, <2>n
    <3> QED
      BY <1>2b, <3>1, <3>2
  <2>3. inHand' # NoRow => startOf'[inHand'.event] <= day'
    BY <1>0, <2>e, <2>o, <2>n
  <2> QED
    BY <2>1, <2>2, <2>3 DEF BegunInv, Begun
<1>7. YoungInv'
  BY <1>0, <1>t, <1>1 DEF LedgerInv, YoungInv, BegunInv
<1>8. LinesInv'
  <2> DEFINE hand == IF inHand = NoRow THEN 0 ELSE 1
  <2>1. Unfinished = Len(lineQueue) + hand /\ Unfinished' = Len(lineQueue') + hand /\ hand \in Nat
    BY <1>0 DEF Unfinished
  <2> HIDE DEF hand
  <2>2. emitted = LineTotal(lineCounts) + Unfinished
    BY DEF LedgerInv, LinesInv
  <2>3. emitted' = LineTotal(lineCounts') + Unfinished'
    <3>1. emitted' = emitted + 1 /\ Len(lineQueue') \in Nat
      BY <1>0, <1>2b
    <3>2. emitted = LineTotal(lineCounts) + (Len(lineQueue) + hand)
      BY <2>1, <2>2
    <3>3. emitted' = LineTotal(lineCounts') + (Len(lineQueue') + hand)
      <4> DEFINE a == LineTotal(lineCounts)
                 b == LineTotal(lineCounts')
                 k == Len(lineQueue)
                 m == Len(lineQueue')
                 n == emitted'
      <4>1. a \in Int /\ b \in Int /\ hand \in Int /\ k \in Int /\ m \in Int /\ emitted \in Int
        BY <1>t, <1>2a, <1>3, <2>1, <3>1
      <4>2. b + m = a + k + 1
        BY <1>3
      <4>3. n = emitted + 1 /\ emitted = a + (k + hand)
        BY <3>1, <3>2
      <4> HIDE DEF a, b, k, m, n
      <4>4. n = b + (m + hand)
        BY <4>1, <4>2, <4>3
      <4> QED
        BY <4>4 DEF a, b, k, m, n
    <3> QED
      BY <2>1, <3>3
  <2> QED
    BY <1>0, <2>3 DEF LinesInv
<1> QED
  BY <1>4, <1>5, <1>6, <1>7, <1>8 DEF LedgerInv

LEMMA LineWasTaken == LedgerInv /\ LineTaken => LedgerInv'
<1> SUFFICES ASSUME LedgerInv, LineTaken PROVE LedgerInv'
  OBVIOUS
<1>0. /\ inHand = NoRow /\ lineQueue # <<>> /\ inHand' = Head(lineQueue)
      /\ lineQueue' = Tail(lineQueue)
      /\ day' = day /\ startOf' = startOf /\ emitted' = emitted /\ lineCounts' = lineCounts
      /\ rows' = rows /\ written' = written /\ sweep' = sweep /\ ledgerStop' = ledgerStop
      /\ lineQueue \in Seq(Rows) /\ Len(lineQueue) \in Nat /\ Len(lineQueue) <= LineQueue
      /\ LineQueue \in Nat
  BY LedgerAssumption DEF LineTaken, rowVars, LedgerInv, LedgerTyped
<1>1. /\ inHand' = lineQueue[1] /\ inHand' \in Rows /\ 1 \in 1..Len(lineQueue)
      /\ lineQueue' \in Seq(Rows) /\ Len(lineQueue') = Len(lineQueue) - 1
      /\ \A i \in 1..Len(lineQueue') : lineQueue'[i] = lineQueue[i + 1] /\ i + 1 \in 1..Len(lineQueue)
  BY <1>0
<1>2. inHand' # NoRow
  BY <1>1 DEF Rows, NoRow, Tables
<1>3. LedgerTyped'
  <2>1. Len(lineQueue') <= LineQueue
    BY <1>0, <1>1
  <2> QED
    BY <1>0, <1>1, <2>1 DEF LedgerInv, LedgerTyped
<1>4. SweepInv' /\ YoungInv'
  BY <1>0 DEF LedgerInv, SweepInv, YoungInv, Cutoff
<1>5. BegunInv'
  BY <1>0, <1>1 DEF LedgerInv, BegunInv, Begun
<1>6. LinesInv'
  <2>1. Unfinished = Len(lineQueue) /\ Unfinished' = Len(lineQueue)
    BY <1>0, <1>1, <1>2 DEF Unfinished
  <2> QED
    BY <1>0, <2>1 DEF LedgerInv, LinesInv
<1> QED
  BY <1>3, <1>4, <1>5, <1>6 DEF LedgerInv

LEMMA HandEmptied ==
  ASSUME LedgerInv, inHand # NoRow, inHand' = NoRow,
         UNCHANGED <<day, startOf, emitted, lineQueue, sweep, ledgerStop>>,
         \/ rowVars' = rowVars /\ lineCounts' = [lineCounts EXCEPT !.errors = @ + 1]
         \/ /\ rows' = rows \cup {inHand} /\ written' = written \cup {inHand}
            /\ lineCounts' = [lineCounts EXCEPT !.done = @ + 1]
  PROVE  LedgerInv'
<1>0. /\ lineCounts \in LineCountTypes /\ Len(lineQueue) \in Nat /\ inHand \in Rows
      /\ \/ rows' = rows /\ written' = written
         \/ rows' = rows \cup {inHand} /\ written' = written \cup {inHand}
  BY DEF LedgerInv, LedgerTyped, rowVars
<1>1. /\ lineCounts' \in LineCountTypes /\ LineTotal(lineCounts) \in Nat
      /\ LineTotal(lineCounts') = LineTotal(lineCounts) + 1
  BY <1>0, LineTotalGrows
<1>2. LedgerTyped'
  BY <1>0, <1>1 DEF LedgerInv, LedgerTyped
<1>3. SweepInv'
  BY DEF LedgerInv, SweepInv, Cutoff
<1>4. BegunInv' /\ YoungInv'
  BY <1>0 DEF LedgerInv, BegunInv, YoungInv, Begun
<1>5. LinesInv'
  <2>1. Unfinished = Len(lineQueue) + 1 /\ Unfinished' = Len(lineQueue)
    BY DEF Unfinished
  <2>2. emitted = LineTotal(lineCounts) + Unfinished
    BY DEF LedgerInv, LinesInv
  <2>3. emitted' = LineTotal(lineCounts') + Unfinished'
    BY <1>0, <1>1, <2>1, <2>2
  <2>4. ledgerStop # "whole"
    BY <1>0, <2>1 DEF LedgerInv, LinesInv
  <2> QED
    BY <2>3, <2>4 DEF LinesInv
<1> QED
  BY <1>2, <1>3, <1>4, <1>5 DEF LedgerInv

LEMMA RowWasWritten == LedgerInv /\ RowWritten => LedgerInv'
  BY HandEmptied DEF RowWritten

LEMMA RowWasRefused == LedgerInv /\ RowRefused => LedgerInv'
  BY HandEmptied DEF RowRefused, rowVars

(* A step of the sweep: its cutoff is none of the future's, and what it takes   *)
(* began before it.                                                            *)
LEMMA SweepThen ==
  ASSUME LedgerInv, UNCHANGED <<day, startOf, lineVars, written, ledgerStop>>, SweepInv',
         rows' \subseteq rows, \A r \in rows \ rows' : startOf[r.event] < sweep.before
  PROVE  LedgerInv'
<1>0. /\ day' = day /\ startOf' = startOf /\ emitted' = emitted /\ lineQueue' = lineQueue
      /\ inHand' = inHand /\ lineCounts' = lineCounts
  BY DEF lineVars
<1>1. LedgerTyped'
  BY <1>0 DEF LedgerInv, LedgerTyped
<1>2. BegunInv'
  BY <1>0 DEF LedgerInv, BegunInv, Begun
<1>3. LinesInv'
  BY <1>0 DEF LedgerInv, LinesInv, Unfinished
<1>4. YoungInv'
  <2> SUFFICES ASSUME NEW r \in written, startOf[r.event] + KeepDays >= day PROVE r \in rows'
    BY <1>0 DEF YoungInv
  <2>1. r \in rows
    BY DEF LedgerInv, YoungInv
  <2>2. r.event \in Events
    BY DEF LedgerInv, LedgerTyped, Rows
  <2>3. startOf[r.event] \in Nat /\ day \in Nat /\ KeepDays \in Nat
    BY <2>2, LedgerAssumption DEF LedgerInv, LedgerTyped
  <2>4. sweep.before \in Nat /\ sweep.before <= Cutoff
    BY CutoffTyped, LedgerAssumption DEF LedgerInv, SweepInv
  <2>5. ~(startOf[r.event] < sweep.before)
    BY <2>3, <2>4 DEF Cutoff
  <2> QED
    BY <2>1, <2>5
<1> QED
  BY <1>1, <1>2, <1>3, <1>4 DEF LedgerInv

LEMMA SweepHasStarted == LedgerInv /\ SweepStarts => LedgerInv'
<1> SUFFICES ASSUME LedgerInv, SweepStarts PROVE LedgerInv'
  OBVIOUS
<1>1. Cutoff' = Cutoff /\ Cutoff \in Nat
  BY CutoffTyped, LedgerAssumption DEF SweepStarts, Cutoff, LedgerInv
<1>2. SweepInv'
  BY <1>1 DEF SweepStarts, SweepInv, Tables
<1> QED
  BY <1>2, SweepThen DEF SweepStarts, rowVars

LEMMA SweepEndedEarly == LedgerInv /\ SweepEndsEarly => LedgerInv'
<1> SUFFICES ASSUME LedgerInv, SweepEndsEarly PROVE LedgerInv'
  OBVIOUS
<1>1. Cutoff' = Cutoff /\ Cutoff \in Nat
  BY CutoffTyped, LedgerAssumption DEF SweepEndsEarly, Cutoff, LedgerInv
<1>2. SweepInv'
  BY <1>1 DEF SweepEndsEarly, SweepInv, NoSweep
<1> QED
  BY <1>2, SweepThen DEF SweepEndsEarly, rowVars

LEMMA BatchWasDeleted == LedgerInv /\ BatchDeleted => LedgerInv'
<1> SUFFICES ASSUME LedgerInv, BatchDeleted PROVE LedgerInv'
  OBVIOUS
<1> DEFINE old == Swept(Head(sweep.left), sweep.before)
<1>0. /\ sweep.left # <<>> /\ UNCHANGED <<day, startOf, lineVars, written, ledgerStop>>
  BY DEF BatchDeleted
<1>1. PICK gone \in SUBSET old :
        /\ rows' = rows \ gone
        /\ \/ sweep' = sweep
           \/ sweep' = NoSweep
           \/ sweep' = [sweep EXCEPT !.left = Tail(@)]
  BY DEF BatchDeleted
<1>2. \A r \in rows \ rows' : startOf[r.event] < sweep.before
  BY <1>1 DEF Swept, Expired
<1>3. SweepInv'
  <2>1. Cutoff' = Cutoff /\ Cutoff \in Nat
    BY <1>0, CutoffTyped, LedgerAssumption DEF Cutoff, LedgerInv
  <2>2. CASE sweep' = sweep
    BY <2>1, <2>2 DEF LedgerInv, SweepInv
  <2>3. CASE sweep' = NoSweep
    BY <2>1, <2>3 DEF SweepInv, NoSweep
  <2>4. CASE sweep' = [sweep EXCEPT !.left = Tail(@)]
    <3>1. /\ sweep.left \in Seq({"observations", "decisions", "scene_events"})
          /\ Len(sweep.left) <= 3 /\ sweep.before \in 0..Cutoff
      BY DEF LedgerInv, SweepInv
    <3>2. /\ Tail(sweep.left) \in Seq({"observations", "decisions", "scene_events"})
          /\ Len(Tail(sweep.left)) <= 3
      BY <1>0, <3>1
    <3>3. sweep'.left = Tail(sweep.left) /\ sweep'.before = sweep.before
      BY <2>4
    <3> QED
      BY <2>1, <3>1, <3>2, <3>3 DEF SweepInv
  <2> QED
    BY <1>1, <2>2, <2>3, <2>4
<1> QED
  BY <1>0, <1>1, <1>2, <1>3, SweepThen

LEMMA DayHasPassed == LedgerInv /\ DayPasses => LedgerInv'
<1> SUFFICES ASSUME LedgerInv, DayPasses PROVE LedgerInv'
  OBVIOUS
<1>0. /\ day < LedgerDays /\ day' = day + 1 /\ startOf' = startOf /\ emitted' = emitted
      /\ lineQueue' = lineQueue /\ inHand' = inHand /\ lineCounts' = lineCounts
      /\ rows' = rows /\ written' = written /\ sweep' = sweep /\ ledgerStop' = ledgerStop
      /\ day \in 0..LedgerDays /\ LedgerDays \in Nat /\ KeepDays \in Nat
      /\ startOf \in [Events -> 0..(LedgerDays + 1)]
      /\ \A r \in Rows : r.event \in Events
  BY LedgerAssumption DEF DayPasses, lineVars, rowVars, LedgerInv, LedgerTyped, Rows
<1>1. LedgerTyped'
  BY <1>0 DEF LedgerInv, LedgerTyped
<1>2. SweepInv'
  <2>1. sweep.before \in 0..Cutoff /\ Cutoff \in Nat /\ Cutoff' \in Nat /\ Cutoff <= Cutoff'
    BY <1>0 DEF LedgerInv, SweepInv, Cutoff
  <2>2. sweep.before \in 0..Cutoff'
    BY <2>1
  <2> QED
    BY <1>0, <2>2 DEF LedgerInv, SweepInv
<1>3. \A e \in Events : Begun(e) => Begun(e)'
  BY <1>0 DEF Begun
<1>4. BegunInv'
  <2>1. \A i \in 1..Len(lineQueue) : lineQueue[i].event \in Events
    BY <1>0 DEF LedgerInv, LedgerTyped
  <2>2. inHand # NoRow => inHand.event \in Events
    BY <1>0 DEF LedgerInv, LedgerTyped
  <2>3. \A r \in written : r.event \in Events
    BY <1>0 DEF LedgerInv, LedgerTyped
  <2>o. /\ \A r \in written : Begun(r.event)
        /\ \A i \in 1..Len(lineQueue) : Begun(lineQueue[i].event)
        /\ inHand # NoRow => Begun(inHand.event)
    BY DEF LedgerInv, BegunInv
  <2>n. \A e \in Events : Begun(e) => startOf'[e] <= day'
    BY <1>3 DEF Begun
  <2>4. /\ \A r \in written' : startOf'[r.event] <= day'
        /\ \A i \in 1..Len(lineQueue') : startOf'[lineQueue'[i].event] <= day'
        /\ inHand' # NoRow => startOf'[inHand'.event] <= day'
    BY <1>0, <2>1, <2>2, <2>3, <2>o, <2>n
  <2> QED
    BY <2>4 DEF BegunInv, Begun
<1>5. YoungInv'
  <2> SUFFICES ASSUME NEW r \in written, startOf[r.event] + KeepDays >= day + 1 PROVE r \in rows
    BY <1>0 DEF YoungInv
  <2>1. startOf[r.event] \in Nat
    BY <1>0 DEF LedgerInv, LedgerTyped
  <2> QED
    BY <1>0, <2>1 DEF LedgerInv, YoungInv
<1>6. LinesInv'
  BY <1>0 DEF LedgerInv, LinesInv, Unfinished
<1> QED
  BY <1>1, <1>2, <1>4, <1>5, <1>6 DEF LedgerInv

LEMMA FlushHasStepped == LedgerInv /\ (FlushBegins \/ FlushEnds) => LedgerInv'
<1> SUFFICES ASSUME LedgerInv, FlushBegins \/ FlushEnds PROVE LedgerInv'
  OBVIOUS
<1>0. /\ day' = day /\ startOf' = startOf /\ emitted' = emitted
      /\ lineQueue' = lineQueue /\ inHand' = inHand /\ lineCounts' = lineCounts
      /\ rows' = rows /\ written' = written /\ sweep' = sweep
      /\ ledgerStop' = "whole" => Unfinished = 0
  BY DEF FlushBegins, FlushEnds, lineVars, rowVars
<1> QED
  BY <1>0 DEF LedgerInv, LedgerTyped, SweepInv, Cutoff, BegunInv, Begun, YoungInv, LinesInv,
     Unfinished

LEMMA LedgerStep == LedgerInv /\ [LedgerNext]_ledgerVars => LedgerInv'
<1> SUFFICES ASSUME LedgerInv, [LedgerNext]_ledgerVars PROVE LedgerInv'
  OBVIOUS
<1>1. CASE UNCHANGED ledgerVars
  BY <1>1 DEF ledgerVars, lineVars, rowVars, LedgerInv, LedgerTyped, SweepInv, Cutoff, BegunInv,
     Begun, YoungInv, LinesInv, Unfinished
<1>2. ASSUME NEW row \in Rows, NEW began \in 0..LedgerDays, LineEmitted(row, began)
      PROVE  LedgerInv'
  BY <1>2, LineWasEmitted
<1> QED
  BY <1>1, <1>2, LineWasTaken, RowWasWritten, RowWasRefused, SweepHasStarted, BatchWasDeleted,
     SweepEndedEarly, DayHasPassed, FlushHasStepped DEF LedgerNext

(* The retention takes no young row, whatever is written between its batches,    *)
(* and every line emitted is counted as dropped, failed or done (ledger.py).     *)
THEOREM LedgerKeepsYoungCorrect == LedgerSpec => [](LedgerTypeOK /\ LedgerKeepsYoung)
<1>1. LedgerSpec => []LedgerInv
  BY LedgerInitInv, LedgerStep, PTL DEF LedgerSpec
<1> QED
  BY <1>1, LedgerTypes, PTL
----------------------------------------------------------------------------
(* Scenes *)

Showings == [view : Views, type : {"motion", "person"}, at : 0..LastEvent, by : {"gate", "sd", "rescue"}]

\* Photo i no longer counts: another delivery up to place h pushed it out of the record.
PushedOut(i, h) ==
  \/ \E k \in (i + 1)..h : shown[k].by # "sd" /\ ~Near(shown[k].at, shown[i].at, 2 * SceneWindow)
  \/ Cardinality({k \in (i + 1)..h : shown[k].by # "sd"}) >= RecordLimit

SceneTyped ==
  /\ clock \in 0..LastEvent /\ shown \in Seq(Showings)
  /\ deliveries \subseteq 1..Len(shown) /\ Cardinality(deliveries) <= RecordLimit
  /\ \A n \in deliveries : shown[n].by # "sd"
RecordInv ==
  \A i \in 1..Len(shown) : shown[i].by # "sd" => i \in deliveries \/ PushedOut(i, Len(shown))
SceneToldInv ==
  \A i, j \in 1..Len(shown) :
    /\ i < j /\ shown[i].view # shown[j].view
    /\ Near(shown[i].at, shown[j].at, SceneWindow)
    /\ shown[j].type \in {"motion", shown[i].type}
    => \/ shown[i].by = "sd" \/ shown[j].by = "rescue"
       \/ PushedOut(i, j - 1)
SceneInv == SceneTyped /\ RecordInv /\ SceneToldInv

LEMMA BoundedFinite ==
  ASSUME NEW b \in Nat, NEW S, S \subseteq 1..b
  PROVE  IsFiniteSet(S) /\ Cardinality(S) \in Nat
<1>1. 1 \in Int /\ b \in Int
  OBVIOUS
<1>2. IsFiniteSet(1..b)
  BY <1>1, FS_Interval
<1>3. IsFiniteSet(S)
  BY <1>2, FS_Subset
<1> QED
  BY <1>3, FS_CardinalityType

(* The newest of a record are at most as many as it holds, and what it leaves   *)
(* out has that many after it.                                                  *)
LEMMA NewestIs ==
  ASSUME NEW b \in Nat, NEW S, S \subseteq 1..b
  PROVE  /\ Newest(S) \subseteq S /\ Cardinality(Newest(S)) <= RecordLimit
         /\ \A n \in S \ Newest(S) : Cardinality({m \in S : m > n}) >= RecordLimit
<1>1. RecordLimit \in Nat /\ RecordLimit >= 1
  BY SceneAssumption
<1>2. Newest(S) \subseteq S
  BY DEF Newest
<1>3. \A n \in S \ Newest(S) : Cardinality({m \in S : m > n}) >= RecordLimit
  <2> TAKE n \in S \ Newest(S)
  <2> DEFINE A == {m \in S : m > n}
  <2>1. Cardinality(A) \in Nat
    BY BoundedFinite
  <2>2. ~(Cardinality(A) < RecordLimit)
    BY DEF Newest
  <2> HIDE DEF A
  <2>3. Cardinality(A) >= RecordLimit
    BY <1>1, <2>1, <2>2
  <2> QED
    BY <2>3 DEF A
<1>4. Cardinality(Newest(S)) <= RecordLimit
  <2>1. CASE Newest(S) = {}
    BY <1>1, <2>1, FS_EmptySet
  <2>2. CASE Newest(S) # {}
    <3>1. Newest(S) \subseteq Nat
      <4>1. 1..b \subseteq Nat
        OBVIOUS
      <4> QED
        BY <1>2, <4>1
    <3>2. PICK n \in Newest(S) : \A m \in Newest(S) : n <= m
      BY <2>2, <3>1, LeastNat
    <3> DEFINE A == {m \in S : m > n}
    <3>3. Cardinality(A) < RecordLimit
      BY <3>2 DEF Newest
    <3>4. IsFiniteSet(A) /\ Cardinality(A) \in Nat
      BY BoundedFinite
    <3>5. Newest(S) \subseteq A \cup {n}
      BY <1>2, <3>1, <3>2
    <3> HIDE DEF A
    <3>6. IsFiniteSet(A \cup {n}) /\ Cardinality(A \cup {n}) <= Cardinality(A) + 1
          /\ Cardinality(A \cup {n}) \in Nat
      <4>1. /\ IsFiniteSet(A \cup {n})
            /\ Cardinality(A \cup {n}) = IF n \in A THEN Cardinality(A) ELSE Cardinality(A) + 1
        BY <3>4, FS_AddElement
      <4> QED
        BY <3>4, <4>1
    <3>7. Cardinality(Newest(S)) <= Cardinality(A \cup {n}) /\ Cardinality(Newest(S)) \in Nat
      BY <3>5, <3>6, FS_Subset, FS_CardinalityType
    <3> QED
      BY <1>1, <3>3, <3>4, <3>6, <3>7
  <2> QED
    BY <2>1, <2>2
<1> QED
  BY <1>2, <1>3, <1>4

LEMMA NearMirrors == \A s, t, d \in Int : Near(s, t, d) <=> Near(t, s, d)
  BY DEF Near

LEMMA SceneInitInv == SceneInit => SceneInv
<1> SUFFICES ASSUME SceneInit PROVE SceneInv
  OBVIOUS
<1>1. shown \in Seq(Showings) /\ Len(shown) = 0 /\ 1..Len(shown) = {}
  BY EmptySeq DEF SceneInit
<1>2. Cardinality(deliveries) <= RecordLimit
  BY FS_EmptySet, SceneAssumption DEF SceneInit
<1> QED
  BY <1>1, <1>2, SceneAssumption DEF SceneInit, SceneInv, SceneTyped, RecordInv, SceneToldInv

(* What a photo more on the phone leaves as it was.                            *)
LEMMA ShownGrows ==
  ASSUME SceneTyped, NEW d \in Showings, shown' = Append(shown, d)
  PROVE  /\ shown' \in Seq(Showings) /\ Len(shown) \in Nat /\ Len(shown') = Len(shown) + 1
         /\ \A n \in 1..Len(shown) : n \in 1..Len(shown') /\ shown'[n] = shown[n]
         /\ shown'[Len(shown) + 1] = d /\ Len(shown) + 1 \in 1..Len(shown')
         /\ \A n \in 1..Len(shown') : n \in 1..Len(shown) \/ n = Len(shown) + 1
         /\ \A i \in 1..Len(shown), h \in 0..Len(shown), g \in 0..Len(shown') :
              h <= g /\ PushedOut(i, h) => PushedOut(i, g)'
<1>1. /\ shown' \in Seq(Showings) /\ Len(shown) \in Nat /\ Len(shown') = Len(shown) + 1
      /\ \A n \in 1..Len(shown) : shown'[n] = shown[n]
      /\ shown'[Len(shown) + 1] = d
  BY AppendProperties, LenProperties DEF SceneTyped
<1>2. /\ \A n \in 1..Len(shown) : n \in 1..Len(shown')
      /\ Len(shown) + 1 \in 1..Len(shown')
      /\ \A n \in 1..Len(shown') : n \in 1..Len(shown) \/ n = Len(shown) + 1
  BY <1>1
<1>3. ASSUME NEW i \in 1..Len(shown), NEW h \in 0..Len(shown), NEW g \in 0..Len(shown'),
             h <= g, PushedOut(i, h)
      PROVE  PushedOut(i, g)'
  <2>1. \A k \in (i + 1)..h : k \in 1..Len(shown) /\ k \in (i + 1)..g
    BY <1>1, <1>3
  <2>2. shown'[i] = shown[i] /\ \A k \in (i + 1)..h : k \in (i + 1)..g /\ shown'[k] = shown[k]
    BY <1>1, <2>1
  <2>3. CASE \E k \in (i + 1)..h : shown[k].by # "sd" /\ ~Near(shown[k].at, shown[i].at, 2 * SceneWindow)
    <3>1. \E k \in (i + 1)..g : shown'[k].by # "sd" /\ ~Near(shown'[k].at, shown'[i].at, 2 * SceneWindow)
      BY <2>2, <2>3
    <3> QED
      BY <3>1 DEF PushedOut, Near
  <2>4. CASE Cardinality({k \in (i + 1)..h : shown[k].by # "sd"}) >= RecordLimit
    <3> DEFINE A == {k \in (i + 1)..h : shown[k].by # "sd"}
               B == {k \in (i + 1)..g : shown'[k].by # "sd"}
    <3>1. A \subseteq B
      BY <2>2
    <3>2. B \subseteq 1..Len(shown') /\ A \subseteq 1..Len(shown') /\ Len(shown') \in Nat
      BY <1>1, <1>2, <1>3, <2>1
    <3>3. Cardinality(A) >= RecordLimit
      BY <2>4
    <3> HIDE DEF A, B
    <3>4. IsFiniteSet(B) /\ Cardinality(B) \in Nat /\ Cardinality(A) \in Nat
      BY <3>2, BoundedFinite
    <3>5. Cardinality(A) <= Cardinality(B)
      BY <3>1, <3>4, FS_Subset
    <3>6. Cardinality(B) >= RecordLimit
      BY <3>3, <3>4, <3>5, SceneAssumption
    <3> QED
      BY <3>6 DEF B, PushedOut
  <2> QED
    BY <1>3, <2>3, <2>4 DEF PushedOut
<1> QED
  BY <1>1, <1>2, <1>3

(* A delivery that asked the gate is of no passage that the record holds.       *)
LEMMA ToldGrows ==
  ASSUME SceneInv, NEW d \in Showings, shown' = Append(shown, d),
         d.by # "rescue" => SceneAllows(d.view, d.type, d.at)
  PROVE  SceneToldInv'
<1>1. SceneTyped
  BY DEF SceneInv
<1>2. /\ shown' \in Seq(Showings) /\ Len(shown) \in Nat /\ Len(shown') = Len(shown) + 1
      /\ \A n \in 1..Len(shown) : n \in 1..Len(shown') /\ shown'[n] = shown[n]
      /\ shown'[Len(shown) + 1] = d /\ Len(shown) + 1 \in 1..Len(shown')
      /\ \A n \in 1..Len(shown') : n \in 1..Len(shown) \/ n = Len(shown) + 1
      /\ \A i \in 1..Len(shown), h \in 0..Len(shown), g \in 0..Len(shown') :
              h <= g /\ PushedOut(i, h) => PushedOut(i, g)'
  BY <1>1, ShownGrows
<1>3. ASSUME NEW i \in 1..Len(shown'), NEW j \in 1..Len(shown'),
             i < j, shown'[i].view # shown'[j].view,
             Near(shown'[i].at, shown'[j].at, SceneWindow),
             shown'[j].type \in {"motion", shown'[i].type},
             shown'[i].by # "sd", shown'[j].by # "rescue"
      PROVE  PushedOut(i, j - 1)'
  <2>1. i \in 1..Len(shown) /\ shown'[i] = shown[i] /\ j - 1 \in 0..Len(shown) /\ j - 1 \in 0..Len(shown')
    BY <1>2, <1>3
  <2>2. CASE j \in 1..Len(shown)
    <3>1. shown'[j] = shown[j]
      BY <1>2, <2>2
    <3>2. PushedOut(i, j - 1)
      BY <1>3, <2>1, <2>2, <3>1 DEF SceneInv, SceneToldInv
    <3> QED
      BY <1>2, <2>1, <3>2
  <2>3. CASE j = Len(shown) + 1
    <3>1. shown'[j] = d /\ j - 1 = Len(shown)
      BY <1>2, <2>3
    <3>2. SceneAllows(d.view, d.type, d.at)
      BY <1>3, <3>1
    <3>3. i \notin deliveries
      BY <1>3, <2>1, <3>1, <3>2 DEF SceneAllows
    <3>4. PushedOut(i, Len(shown))
      BY <1>3, <2>1, <3>3 DEF SceneInv, RecordInv
    <3> QED
      BY <1>2, <2>1, <3>1, <3>4
  <2> QED
    BY <1>2, <2>2, <2>3
<1> QED
  BY <1>3 DEF SceneToldInv

LEMMA RecordsStep ==
  ASSUME SceneInv, NEW d \in Showings, shown' = Append(shown, d), d.by # "sd",
         SceneRecords(d.at), clock' = clock
  PROVE  SceneTyped' /\ RecordInv'
<1>0. PICK b \in Nat : b = Len(shown) + 1
  BY LenProperties DEF SceneInv, SceneTyped
<1> DEFINE S == {n \in deliveries : Remembers(shown[n].at, d.at)} \cup {b}
<1>1. SceneTyped
  BY DEF SceneInv
<1>2. /\ shown' \in Seq(Showings) /\ Len(shown) \in Nat /\ Len(shown') = b /\ b = Len(shown) + 1
      /\ \A n \in 1..Len(shown) : n \in 1..b /\ shown'[n] = shown[n]
      /\ shown'[b] = d /\ b \in 1..b
      /\ \A n \in 1..b : n \in 1..Len(shown) \/ n = b
      /\ \A i \in 1..Len(shown), h \in 0..Len(shown), g \in 0..b :
              h <= g /\ PushedOut(i, h) => PushedOut(i, g)'
  BY <1>0, <1>1, ShownGrows
<1>3. deliveries' = Newest(S)
  BY <1>0 DEF SceneRecords
<1>4. S \subseteq 1..b /\ b \in Nat
  BY <1>1, <1>2 DEF SceneTyped
<1>5. \A n \in S : shown'[n].by # "sd"
  BY <1>1, <1>2 DEF SceneTyped
<1>6. \A n \in deliveries : n \in 1..Len(shown)
  BY <1>1 DEF SceneTyped
<1>7. \A n \in deliveries \ S : ~Remembers(shown[n].at, d.at)
  OBVIOUS
<1> HIDE DEF S
<1>8. /\ Newest(S) \subseteq S /\ Cardinality(Newest(S)) <= RecordLimit
      /\ \A n \in S \ Newest(S) : Cardinality({m \in S : m > n}) >= RecordLimit
  BY <1>4, NewestIs
<1>9. SceneTyped'
  <2>1. deliveries' \subseteq 1..Len(shown') /\ Cardinality(deliveries') <= RecordLimit
    BY <1>2, <1>3, <1>4, <1>8
  <2>2. \A n \in deliveries' : shown'[n].by # "sd"
    BY <1>3, <1>5, <1>8
  <2>3. clock' \in 0..LastEvent
    BY <1>1 DEF SceneTyped
  <2> QED
    BY <1>2, <2>1, <2>2, <2>3 DEF SceneTyped
<1>10. ASSUME NEW i \in 1..b, shown'[i].by # "sd", i \notin deliveries'
       PROVE  PushedOut(i, b)'
  <2>1. CASE i \in S
    <3> DEFINE A == {m \in S : m > i}
               B == {k \in (i + 1)..b : shown'[k].by # "sd"}
    <3>1. Cardinality(A) >= RecordLimit
      BY <1>3, <1>8, <1>10, <2>1
    <3>2. A \subseteq B
      <4> SUFFICES ASSUME NEW m \in S, m > i PROVE m \in (i + 1)..b /\ shown'[m].by # "sd"
        OBVIOUS
      <4>1. m \in 1..b
        BY <1>4
      <4>2. m \in (i + 1)..b
        BY <1>4, <4>1
      <4> QED
        BY <1>5, <4>2
    <3>3. B \subseteq 1..b /\ A \subseteq 1..b
      <4>1. i + 1 >= 1
        OBVIOUS
      <4>2. B \subseteq 1..b
        BY <1>4, <4>1
      <4> QED
        BY <1>4, <4>2
    <3> HIDE DEF A, B
    <3>4. IsFiniteSet(B) /\ Cardinality(B) \in Nat /\ Cardinality(A) \in Nat
      BY <1>4, <3>3, BoundedFinite
    <3>5. Cardinality(A) <= Cardinality(B)
      BY <3>2, <3>4, FS_Subset
    <3>6. Cardinality(B) >= RecordLimit
      BY <3>1, <3>4, <3>5, SceneAssumption
    <3> QED
      BY <3>6 DEF B, PushedOut
  <2>2. CASE i \notin S
    <3>0. i # b /\ i \in 1..Len(shown) /\ shown'[i] = shown[i]
      BY <1>2, <2>2 DEF S
    <3>1. CASE i \in deliveries
      <4>1. ~Remembers(shown[i].at, d.at)
        BY <1>7, <2>2, <3>1
      <4>2. shown[i].at \in Int /\ d.at \in Int /\ 2 * SceneWindow \in Int
        <5>1. shown[i] \in Showings
          BY <1>1, <3>0, ElementOfSeq DEF SceneTyped
        <5>2. shown[i].at \in 0..LastEvent /\ d.at \in 0..LastEvent
          BY <5>1 DEF Showings
        <5> QED
          BY <5>2, SceneAssumption
      <4>3. ~Near(d.at, shown[i].at, 2 * SceneWindow)
        BY <4>1, <4>2, NearMirrors DEF Remembers
      <4>4. b \in (i + 1)..b
        BY <1>2, <3>0
      <4>5. \E k \in (i + 1)..b : shown'[k].by # "sd" /\ ~Near(shown'[k].at, shown'[i].at, 2 * SceneWindow)
        BY <1>2, <3>0, <4>3, <4>4
      <4> QED
        BY <4>5 DEF PushedOut, Near
    <3>2. CASE i \notin deliveries
      <4>1. PushedOut(i, Len(shown))
        BY <1>10, <3>0, <3>2 DEF SceneInv, RecordInv
      <4>2. Len(shown) \in 0..Len(shown) /\ b \in 0..b /\ Len(shown) <= b
        BY <1>2
      <4> QED
        BY <1>2, <3>0, <4>1, <4>2
    <3> QED
      BY <3>1, <3>2
  <2> QED
    BY <2>1, <2>2
<1>11. RecordInv'
  BY <1>2, <1>10 DEF RecordInv
<1> QED
  BY <1>9, <1>11

LEMMA SdStep ==
  ASSUME SceneInv, NEW d \in Showings, shown' = Append(shown, d), d.by = "sd",
         deliveries' = deliveries, clock' = clock
  PROVE  SceneTyped' /\ RecordInv'
<1>1. SceneTyped
  BY DEF SceneInv
<1>2. /\ shown' \in Seq(Showings) /\ Len(shown) \in Nat /\ Len(shown') = Len(shown) + 1
      /\ \A n \in 1..Len(shown) : n \in 1..Len(shown') /\ shown'[n] = shown[n]
      /\ shown'[Len(shown) + 1] = d
      /\ \A n \in 1..Len(shown') : n \in 1..Len(shown) \/ n = Len(shown) + 1
      /\ \A i \in 1..Len(shown), h \in 0..Len(shown), g \in 0..Len(shown') :
              h <= g /\ PushedOut(i, h) => PushedOut(i, g)'
  BY <1>1, ShownGrows
<1>3. deliveries' \subseteq 1..Len(shown') /\ \A n \in deliveries' : shown'[n].by # "sd"
  BY <1>1, <1>2 DEF SceneTyped
<1>4. SceneTyped'
  BY <1>1, <1>2, <1>3 DEF SceneTyped
<1>5. ASSUME NEW i \in 1..Len(shown'), shown'[i].by # "sd", i \notin deliveries'
      PROVE  PushedOut(i, Len(shown))'
  <2>1. i \in 1..Len(shown) /\ shown'[i] = shown[i]
    BY <1>2, <1>5
  <2>2. PushedOut(i, Len(shown))
    BY <1>5, <2>1 DEF SceneInv, RecordInv
  <2>3. Len(shown) \in 0..Len(shown) /\ Len(shown') \in 0..Len(shown') /\ Len(shown) <= Len(shown')
    BY <1>2
  <2> QED
    BY <1>2, <2>1, <2>2, <2>3
<1>6. RecordInv'
  BY <1>2, <1>5 DEF RecordInv
<1> QED
  BY <1>4, <1>6

(* Deliveries have an order, with a first and a last of any of them.            *)
LEMMA PlacesTyped ==
  ASSUME SceneTyped
  PROVE  /\ Len(shown) \in Nat /\ LastEvent \in Nat
         /\ \A n \in deliveries : n \in 1..Len(shown) /\ shown[n].at \in 0..LastEvent
<1>1. \A n \in 1..Len(shown) : shown[n].at \in 0..LastEvent
  <2> TAKE n \in 1..Len(shown)
  <2>1. shown[n] \in Showings
    BY ElementOfSeq DEF SceneTyped
  <2> QED
    BY <2>1 DEF Showings
<1> QED
  BY <1>1, LenProperties, SceneAssumption DEF SceneTyped

LEMMA FirstViewIs ==
  ASSUME SceneTyped, NEW S, S \subseteq deliveries, S # {}
  PROVE  FirstOf(S) \in S /\ \A n \in S : InOrder(FirstOf(S), n)
<1>1. /\ Len(shown) \in Nat /\ LastEvent \in Nat
      /\ \A n \in S : n \in 1..Len(shown) /\ shown[n].at \in 0..LastEvent
  BY PlacesTyped
<1> DEFINE T == {shown[n].at : n \in S}
<1>2. T \subseteq Nat /\ T # {}
  BY <1>1
<1>3. PICK x \in T : \A y \in T : x <= y
  <2> HIDE DEF T
  <2> QED
    BY <1>2, LeastNat
<1> DEFINE U == {n \in S : shown[n].at = x}
<1>4. U \subseteq Nat /\ U # {}
  BY <1>1, <1>3
<1>5. PICK m \in U : \A n \in U : m <= n
  <2> HIDE DEF U
  <2> QED
    BY <1>4, LeastNat
<1>6. m \in S /\ shown[m].at = x
  BY <1>5
<1>7. ASSUME NEW n \in S PROVE InOrder(m, n)
  <2>1. x <= shown[n].at /\ x \in Int /\ shown[n].at \in Int
    BY <1>1, <1>3
  <2>2. CASE shown[n].at = x
    BY <1>5, <1>6, <2>2 DEF InOrder
  <2>3. CASE shown[n].at # x
    BY <1>6, <2>1, <2>3 DEF InOrder
  <2> QED
    BY <2>2, <2>3
<1> QED
  BY <1>6, <1>7 DEF FirstOf

LEMMA FinalIs ==
  ASSUME SceneTyped, NEW S, S \subseteq deliveries, S # {}
  PROVE  FinalOf(S) \in S /\ \A n \in S : InOrder(n, FinalOf(S))
<1>1. /\ Len(shown) \in Nat /\ LastEvent \in Nat
      /\ \A n \in S : n \in 0..Len(shown) /\ shown[n].at \in 0..LastEvent
  BY PlacesTyped
<1> DEFINE T == {shown[n].at : n \in S}
<1>2. T \subseteq 0..LastEvent /\ T # {}
  BY <1>1
<1>3. PICK x \in T : \A y \in T : y <= x
  <2> HIDE DEF T
  <2> QED
    BY <1>1, <1>2, GreatestNat
<1> DEFINE U == {n \in S : shown[n].at = x}
<1>4. U \subseteq 0..Len(shown) /\ U # {}
  BY <1>1, <1>3
<1>5. PICK m \in U : \A n \in U : n <= m
  <2> HIDE DEF U
  <2> QED
    BY <1>1, <1>4, GreatestNat
<1>6. m \in S /\ shown[m].at = x
  BY <1>5
<1>7. ASSUME NEW n \in S PROVE InOrder(n, m)
  <2>1. shown[n].at <= x /\ x \in Int /\ shown[n].at \in Int
    BY <1>1, <1>3
  <2>2. CASE shown[n].at = x
    BY <1>5, <1>6, <2>2 DEF InOrder
  <2>3. CASE shown[n].at # x
    BY <1>6, <2>1, <2>3 DEF InOrder
  <2> QED
    BY <2>2, <2>3
<1> QED
  BY <1>6, <1>7 DEF FinalOf

LEMMA SceneOfTwo ==
  ASSUME SceneTyped, NEW t
  PROVE  SceneOf(t).lead = "none" \/ SceneOf(t).lead # SceneOf(t).follow
<1> DEFINE A == Around(t)
           E == {Entry(v, A) : v \in ViewsOf(A)}
<1>1. A \subseteq deliveries
  BY DEF Around
<1>2. CASE Cardinality(ViewsOf(A)) < 2
  BY <1>2 DEF SceneOf
<1>3. CASE ~(Cardinality(ViewsOf(A)) < 2)
  <2>1. SceneOf(t).lead = shown[FirstOf(A)].view /\ SceneOf(t).follow = shown[FinalOf(E)].view
    BY <1>3 DEF SceneOf
  <2>2. /\ Len(shown) \in Nat
        /\ \A n \in A : n \in Int /\ shown[n].at \in Int
    BY <1>1, PlacesTyped
  <2> HIDE DEF A
  <2>3. \A v \in ViewsOf(A) : /\ Entry(v, A) \in A /\ shown[Entry(v, A)].view = v
                              /\ \A n \in A : shown[n].view = v => InOrder(Entry(v, A), n)
    <3> TAKE v \in ViewsOf(A)
    <3> DEFINE S == {n \in A : shown[n].view = v}
    <3>1. S \subseteq deliveries /\ S # {}
      BY <1>1 DEF ViewsOf
    <3>2. Entry(v, A) = FirstOf(S)
      BY DEF Entry
    <3>3. FirstOf(S) \in S /\ \A n \in S : InOrder(FirstOf(S), n)
      <4> HIDE DEF S
      <4> QED
        BY <3>1, FirstViewIs
    <3> QED
      BY <3>2, <3>3
  <2>4. A # {}
    <3>1. ASSUME A = {} PROVE FALSE
      <4>1. ViewsOf(A) = {}
        BY <3>1 DEF ViewsOf
      <4> QED
        BY <1>3, <4>1, FS_EmptySet
    <3> QED
      BY <3>1
  <2>5. FirstOf(A) \in A /\ \A n \in A : InOrder(FirstOf(A), n)
    BY <1>1, <2>4, FirstViewIs
  <2>6. E \subseteq deliveries /\ E # {}
    BY <1>1, <2>3, <2>4 DEF ViewsOf
  <2>7. FinalOf(E) \in E /\ \A n \in E : InOrder(n, FinalOf(E))
    <3> HIDE DEF E
    <3> QED
      BY <2>6, FinalIs
  <2>8. ASSUME shown[FirstOf(A)].view = shown[FinalOf(E)].view PROVE FALSE
    <3> DEFINE w == shown[FirstOf(A)].view
    <3>1. w \in ViewsOf(A) /\ Entry(w, A) \in A /\ InOrder(Entry(w, A), FirstOf(A))
      BY <2>3, <2>5 DEF ViewsOf
    <3>2. PICK u \in ViewsOf(A) : FinalOf(E) = Entry(u, A)
      BY <2>7
    <3>3. u = w
      BY <2>3, <2>8, <3>2
    <3>4. \A v \in ViewsOf(A) : InOrder(Entry(v, A), Entry(w, A))
      BY <2>7, <3>2, <3>3
    <3>5. \A m, n \in A : InOrder(m, n) /\ InOrder(n, m) => m = n
      BY <2>2 DEF InOrder
    <3>6. Entry(w, A) = FirstOf(A)
      BY <2>5, <3>1, <3>5
    <3>7. \A v \in ViewsOf(A) : v = w
      <4> TAKE v \in ViewsOf(A)
      <4>1. Entry(v, A) \in A /\ InOrder(FirstOf(A), Entry(v, A)) /\ InOrder(Entry(v, A), FirstOf(A))
        BY <2>3, <2>5, <3>4, <3>6
      <4>2. Entry(v, A) = FirstOf(A)
        BY <2>5, <3>5, <4>1
      <4> QED
        BY <2>3, <4>2
    <3>8. ViewsOf(A) = {w}
      BY <3>1, <3>7
    <3>9. Cardinality({w}) = 1
      BY FS_Singleton
    <3> QED
      BY <1>3, <3>8, <3>9
  <2> QED
    BY <2>1, <2>8
<1> QED
  BY <1>2, <1>3

LEMMA SceneTypes == SceneInv => SceneTypeOK /\ SceneToldOnce
<1> SUFFICES ASSUME SceneInv PROVE SceneTypeOK /\ SceneToldOnce
  OBVIOUS
<1>1. SceneTyped
  BY DEF SceneInv
<1>2. DOMAIN shown = 1..Len(shown)
  BY <1>1, LenProperties DEF SceneTyped
<1>3. \A n \in DOMAIN shown : shown[n].at \in 0..LastEvent
  <2> TAKE n \in DOMAIN shown
  <2>1. shown[n] \in Showings
    BY <1>1, <1>2, ElementOfSeq DEF SceneTyped
  <2> QED
    BY <2>1 DEF Showings
<1>4. SceneTypeOK
  BY <1>1, <1>2, <1>3, SceneOfTwo DEF SceneTypeOK, SceneTyped
<1>5. SceneToldOnce
  BY <1>2 DEF SceneInv, SceneToldInv, PushedOut, SceneToldOnce
<1> QED
  BY <1>4, <1>5

LEMMA SceneStep == SceneInv /\ [SceneNext]_sceneVars => SceneInv'
<1> SUFFICES ASSUME SceneInv, [SceneNext]_sceneVars PROVE SceneInv'
  OBVIOUS
<1>1. ASSUME NEW v \in Views, NEW type \in {"motion", "person"}, NEW t \in 0..LastEvent, SceneDelivers(v, type, t)
      PROVE  SceneInv'
  <2> DEFINE d == [view |-> v, type |-> type, at |-> t, by |-> "gate"]
  <2>1. d \in Showings /\ shown' = Append(shown, d) /\ d.by = "gate"
        /\ SceneAllows(d.view, d.type, d.at) /\ SceneRecords(d.at) /\ clock' = clock
    BY <1>1 DEF SceneDelivers, Showings
  <2> HIDE DEF d
  <2>2. SceneToldInv'
    BY <2>1, ToldGrows
  <2>3. SceneTyped' /\ RecordInv'
    BY <2>1, RecordsStep
  <2> QED
    BY <2>2, <2>3 DEF SceneInv
<1>2. ASSUME NEW v \in Views, NEW type \in {"motion", "person"}, NEW t \in 0..LastEvent, SceneDeliversSd(v, type, t)
      PROVE  SceneInv'
  <2> DEFINE d == [view |-> v, type |-> type, at |-> t, by |-> "sd"]
  <2>1. d \in Showings /\ shown' = Append(shown, d) /\ d.by = "sd"
        /\ SceneAllows(d.view, d.type, d.at) /\ deliveries' = deliveries /\ clock' = clock
    BY <1>2 DEF SceneDeliversSd, Showings
  <2> HIDE DEF d
  <2>2. SceneToldInv'
    BY <2>1, ToldGrows
  <2>3. SceneTyped' /\ RecordInv'
    BY <2>1, SdStep
  <2> QED
    BY <2>2, <2>3 DEF SceneInv
<1>3. ASSUME NEW v \in Views, NEW t \in 0..LastEvent, SceneRescues(v, t)
      PROVE  SceneInv'
  <2> DEFINE d == [view |-> v, type |-> "motion", at |-> t, by |-> "rescue"]
  <2>1. d \in Showings /\ shown' = Append(shown, d) /\ d.by = "rescue"
        /\ SceneRecords(d.at) /\ clock' = clock
    BY <1>3 DEF SceneRescues, Showings
  <2> HIDE DEF d
  <2>2. SceneToldInv'
    BY <2>1, ToldGrows
  <2>3. SceneTyped' /\ RecordInv'
    BY <2>1, RecordsStep
  <2> QED
    BY <2>2, <2>3 DEF SceneInv
<1>4. CASE SceneTimePasses \/ UNCHANGED sceneVars
  <2>1. deliveries' = deliveries /\ shown' = shown
    BY <1>4 DEF SceneTimePasses, sceneVars
  <2>2. clock' \in 0..LastEvent
    BY <1>4, SceneAssumption DEF SceneTimePasses, sceneVars, SceneInv, SceneTyped
  <2> QED
    <3>1. \A i, h : PushedOut(i, h)' <=> PushedOut(i, h)
      BY <2>1 DEF PushedOut, Near
    <3>2. SceneTyped'
      BY <2>1, <2>2 DEF SceneInv, SceneTyped
    <3>3. RecordInv'
      BY <2>1, <3>1 DEF SceneInv, RecordInv
    <3>4. SceneToldInv'
      BY <2>1, <3>1 DEF SceneInv, SceneToldInv, Near
    <3> QED
      BY <3>2, <3>3, <3>4 DEF SceneInv
<1> QED
  BY <1>1, <1>2, <1>3, <1>4 DEF SceneNext

(* Of one passage the phone is told by one camera, unless the record of its      *)
(* photo was pushed out, and a scene leads from one view to another (scene.py).  *)
THEOREM SceneToldOnceCorrect == SceneSpec => [](SceneTypeOK /\ SceneToldOnce)
<1>1. SceneSpec => []SceneInv
  BY SceneInitInv, SceneStep, PTL DEF SceneSpec
<1> QED
  BY <1>1, SceneTypes, PTL
----------------------------------------------------------------------------
(* The photo of an alert *)

Lenses == {"first", "second"}
Frames == [path : Lenses \cup {None}, native : BOOLEAN, beside : Lenses \cup {None},
           besideNative : BOOLEAN]

ShotSteps == {"first", "second", "pick", "judge", "deliver", "crop", "send", "send beside", "done"}

(* What is on the disk, by where the photo stands.                             *)
OnTmpInv ==
  /\ shotAt \in ShotSteps
  /\ firstShot \in Grabbed("first") /\ secondShot \in Grabbed("second") /\ shotKept \in Frames
  /\ shotAt = "first" => onTmp = {}
  /\ shotAt = "second" => onTmp = Files(firstShot)
  /\ shotAt = "pick" => /\ onTmp = Files(firstShot) \cup Files(secondShot)
                        /\ firstShot.path # None /\ secondShot.path # None
  /\ shotAt \in {"judge", "deliver", "crop"} => onTmp = Files(shotKept)
  /\ shotAt \in {"send", "send beside"} => onTmp = Files(shotKept) \cup ZoomFiles(zoom)
  /\ shotAt \in {"deliver", "crop", "send", "send beside"} => shotKept.path # None
  /\ shotAt = "done" => onTmp = {}

(* What was told, while nothing was and at the end.                            *)
AlertsOnce == \A m, n \in DOMAIN arrived : arrived[m].kind = "alert" /\ arrived[n].kind = "alert" => m = n
LogWhole ==
  /\ logKept # <<>>
  /\ \A n \in DOMAIN logKept : logKept[n] \cap {FileOf("crop"), FileOf("small")} = {}
  /\ \E n \in DOMAIN logKept : logKept[n] \cap {FileOf(shotKept.path), FileOf("archive")} # {}
ShotToldInv ==
  /\ shotAt # "done" => arrived = <<>> /\ logKept = <<>> /\ outcome = None
  /\ AlertsOnce
  /\ outcome \in {"sent", "refused"} => LogWhole

ShotInv == OnTmpInv /\ ShotToldInv

LEMMA ShortConcats ==
  ASSUME NEW a, NEW b
  PROVE  /\ <<>> \o <<>> = <<>> /\ <<>> \o <<a>> = <<a>> /\ <<a>> \o <<>> = <<a>>
         /\ <<a>> \o <<b>> = <<a, b>>
<1>1. <<>> \in Seq({a, b}) /\ <<a>> \in Seq({a, b}) /\ <<b>> \in Seq({a, b}) /\ <<a, b>> \in Seq({a, b})
  OBVIOUS
<1>2. /\ <<>> \o <<>> = <<>> /\ <<>> \o <<a>> = <<a>> /\ <<a>> \o <<>> = <<a>>
  BY <1>1, ConcatEmptySeq
<1>3. <<a>> \o <<b>> = <<a, b>>
  <2> DEFINE s == <<a>> \o <<b>>
  <2>1. /\ s \in Seq({a, b}) /\ Len(s) = Len(<<a>>) + Len(<<b>>)
        /\ \A i \in 1..(Len(<<a>>) + Len(<<b>>)) :
             s[i] = IF i <= Len(<<a>>) THEN <<a>>[i] ELSE <<b>>[i - Len(<<a>>)]
    BY <1>1, ConcatProperties
  <2> HIDE DEF s
  <2>2. Len(<<a>>) = 1 /\ Len(<<b>>) = 1 /\ Len(<<a, b>>) = 2
    OBVIOUS
  <2>3. Len(s) = 2 /\ s[1] = a /\ s[2] = b
    BY <2>1, <2>2
  <2>4. \A i \in 1..Len(s) : s[i] = <<a, b>>[i]
    <3>1. \A i \in 1..2 : i = 1 \/ i = 2
      OBVIOUS
    <3> QED
      BY <2>3, <3>1
  <2>5. s = <<a, b>>
    BY <1>1, <2>1, <2>2, <2>3, <2>4, SeqEqual
  <2> QED
    BY <2>5 DEF s
<1> QED
  BY <1>2, <1>3

LEMMA ShortSequences ==
  ASSUME NEW a, NEW b
  PROVE  /\ Append(<<>>, a) = <<a>> /\ DOMAIN <<a>> = {1} /\ <<a>>[1] = a /\ <<a>> # <<>>
         /\ DOMAIN <<a, b>> = {1, 2} /\ <<a, b>>[1] = a /\ <<a, b>>[2] = b /\ <<a, b>> # <<>>
  OBVIOUS

LEMMA FileOfIsOne == \A a, b : FileOf(a) = FileOf(b) => a = b
  BY DEF FileOf

LEMMA ShotTypes == ShotInv => ShotLeavesNothing
<1> SUFFICES ASSUME ShotInv PROVE ShotLeavesNothing
  OBVIOUS
<1>1. shotAt \notin {"first", "second", "pick", "done"} => Files(shotKept) \subseteq onTmp
  BY DEF ShotInv, OnTmpInv, ShotSteps
<1>2. Cardinality({n \in DOMAIN arrived : arrived[n].kind = "alert"}) <= 1
  <2> DEFINE A == {n \in DOMAIN arrived : arrived[n].kind = "alert"}
  <2>1. \A m, n \in A : m = n
    BY DEF ShotInv, ShotToldInv, AlertsOnce
  <2>2. CASE A = {}
    BY <2>2, FS_EmptySet
  <2>3. ASSUME NEW n \in A PROVE Cardinality(A) <= 1
    <3>1. A = {n}
      BY <2>1, <2>3
    <3> QED
      <4> HIDE DEF A
      <4>1. Cardinality({n}) = 1
        BY FS_Singleton
      <4> QED
        BY <3>1, <4>1
  <2> QED
    BY <2>2, <2>3
<1> QED
  BY <1>1, <1>2 DEF ShotInv, OnTmpInv, ShotToldInv, LogWhole, ShotLeavesNothing

LEMMA GrabbedFrames ==
  ASSUME NEW name \in Lenses, NEW f \in Grabbed(name)
  PROVE  f \in Frames /\ f.path \in {None, name} /\ f.beside = None /\ ~f.besideNative
<1>1. f = NoShot \/ f = Frame(name, FALSE) \/ f = Frame(name, TRUE)
  BY DEF Grabbed
<1>2. CASE f = NoShot
  BY <1>2 DEF NoShot, Frames
<1>3. ASSUME NEW native \in BOOLEAN, f = Frame(name, native)
      PROVE  f \in Frames /\ f.path \in {None, name} /\ f.beside = None /\ ~f.besideNative
  BY <1>3 DEF Frame, Frames
<1> QED
  BY <1>1, <1>2, <1>3

LEMMA NoShotFrames == NoShot \in Frames /\ NoShot.path = None /\ Files(NoShot) = {}
  BY DEF NoShot, Frames, Files

(* The files of two frames are theirs alone.                                   *)
LEMMA FilesApart ==
  ASSUME NEW f \in Frames, NEW g \in Frames, f.beside = None, g.beside = None,
         ~f.besideNative, ~g.besideNative, f.path = None \/ f.path # g.path
  PROVE  Files(f) \cap Files(g) = {}
  BY DEF Frames, Files, FileOf, NativeOf, Lenses, None

LEMMA FilesBeside ==
  ASSUME NEW f \in Frames, NEW g \in Frames, f.beside = None, g.beside = None,
         ~f.besideNative, ~g.besideNative, f.path # None, g.path # None
  PROVE  Beside(f, g) \in Frames /\ Files(Beside(f, g)) = Files(f) \cup Files(g)
         /\ Beside(f, g).path = f.path
  BY DEF Frames, Files, Beside, FileOf, NativeOf

LEMMA ShotInitInv == ShotInit => ShotInv
<1> SUFFICES ASSUME ShotInit PROVE ShotInv
  OBVIOUS
<1>1. NoShot \in Grabbed("first") /\ NoShot \in Grabbed("second")
  BY DEF Grabbed
<1>2. OnTmpInv
  BY <1>1, NoShotFrames DEF ShotInit, OnTmpInv, ShotSteps
<1>3. ShotToldInv
  BY DEF ShotInit, ShotToldInv, AlertsOnce, None
<1> QED
  BY <1>2, <1>3 DEF ShotInv

(* Nothing is told before the photo is delivered.                              *)
LEMMA ToldFrame ==
  ASSUME ShotInv, shotAt # "done", arrived' = arrived, logKept' = logKept,
         outcome' \in {outcome, "nothing", "dropped"}, shotAt' # "done" => outcome' = outcome
  PROVE  ShotToldInv'
<1>1. arrived = <<>> /\ logKept = <<>> /\ outcome = None
  BY DEF ShotInv, ShotToldInv
<1> QED
  BY <1>1 DEF ShotToldInv, AlertsOnce, None

LEMMA FirstWasGrabbed ==
  ASSUME NEW f \in Grabbed("first"), ShotInv, GrabFirst(f) PROVE ShotInv'
<1>0. /\ shotAt = "first" /\ firstShot' = f /\ onTmp' = Files(f) /\ secondShot' = secondShot
      /\ \/ shotAt' = "second" /\ shotKept' = NoShot
         \/ shotAt' = "judge" /\ shotKept' = f
      /\ arrived' = arrived /\ logKept' = logKept /\ outcome' = outcome
  BY DEF GrabFirst, toldVars
<1>1. f \in Frames
  BY GrabbedFrames DEF Lenses
<1>2. OnTmpInv'
  BY <1>0, <1>1, NoShotFrames DEF ShotInv, OnTmpInv, ShotSteps
<1>3. ShotToldInv'
  BY <1>0, ToldFrame
<1> QED
  BY <1>2, <1>3 DEF ShotInv

LEMMA SecondWasGrabbed ==
  ASSUME NEW f \in Grabbed("second"), ShotInv, GrabSecond(f) PROVE ShotInv'
<1>0. /\ shotAt = "second" /\ secondShot' = f /\ onTmp' = onTmp \cup Files(f)
      /\ firstShot' = firstShot
      /\ \/ /\ firstShot.path = None \/ f.path = None
            /\ shotAt' = "judge"
            /\ shotKept' = (IF firstShot.path = None THEN f ELSE firstShot)
         \/ /\ firstShot.path # None /\ f.path # None
            /\ shotAt' = "pick" /\ shotKept' = NoShot
      /\ arrived' = arrived /\ logKept' = logKept /\ outcome' = outcome
  BY DEF GrabSecond, toldVars
<1>1. f \in Frames /\ firstShot \in Frames /\ onTmp = Files(firstShot)
  BY <1>0, GrabbedFrames DEF ShotInv, OnTmpInv, Lenses
<1>2. \A g \in Frames : g.path = None => Files(g) = {}
  BY DEF Files
<1>3. OnTmpInv'
  BY <1>0, <1>1, <1>2, NoShotFrames DEF ShotInv, OnTmpInv, ShotSteps
<1>4. ShotToldInv'
  BY <1>0, ToldFrame
<1> QED
  BY <1>3, <1>4 DEF ShotInv

(* The two frames a pick chooses from.                                         *)
LEMMA PickedFrom ==
  ASSUME ShotInv, shotAt = "pick"
  PROVE  /\ firstShot \in Frames /\ secondShot \in Frames
         /\ firstShot.beside = None /\ secondShot.beside = None
         /\ ~firstShot.besideNative /\ ~secondShot.besideNative
         /\ firstShot.path = "first" /\ secondShot.path = "second"
         /\ onTmp = Files(firstShot) \cup Files(secondShot)
  BY GrabbedFrames DEF ShotInv, OnTmpInv, Lenses

LEMMA UnscoredWasPicked == ShotInv /\ PickUnscored => ShotInv'
<1> SUFFICES ASSUME ShotInv, PickUnscored PROVE ShotInv'
  OBVIOUS
<1>0. /\ shotAt = "pick" /\ shotAt' = "judge" /\ shotKept' = firstShot
      /\ onTmp' = onTmp \ Files(secondShot)
      /\ firstShot' = firstShot /\ secondShot' = secondShot
      /\ arrived' = arrived /\ logKept' = logKept /\ outcome' = outcome
  BY DEF PickUnscored, toldVars
<1>1. onTmp' = Files(firstShot)
  <2>1. Files(firstShot) \cap Files(secondShot) = {}
    BY <1>0, PickedFrom, FilesApart
  <2> QED
    BY <1>0, <2>1, PickedFrom
<1>2. OnTmpInv'
  BY <1>0, <1>1, PickedFrom DEF ShotInv, OnTmpInv, ShotSteps
<1>3. ShotToldInv'
  BY <1>0, ToldFrame
<1> QED
  BY <1>2, <1>3 DEF ShotInv

LEMMA ScoredWasPicked ==
  ASSUME NEW s1 \in Confidence, NEW s2 \in Confidence, NEW largest, NEW album,
         ShotInv, PickScored(s1, s2, largest, album)
  PROVE  ShotInv'
<1>0. /\ shotAt = "pick" /\ shotAt' = "judge"
      /\ firstShot' = firstShot /\ secondShot' = secondShot
      /\ arrived' = arrived /\ logKept' = logKept /\ outcome' = outcome
  BY DEF PickScored, toldVars
<1>1. PICK image \in {firstShot, secondShot}, other \in {firstShot, secondShot} :
        /\ image.path # other.path
        /\ \/ shotKept' = Beside(image, other) /\ onTmp' = onTmp
           \/ shotKept' = image /\ onTmp' = onTmp \ Files(other)
  <2>1. firstShot.path # secondShot.path
    BY <1>0, PickedFrom
  <2>2. \/ \/ shotKept' = Beside(firstShot, secondShot) /\ onTmp' = onTmp
           \/ shotKept' = firstShot /\ onTmp' = onTmp \ Files(secondShot)
        \/ \/ shotKept' = Beside(secondShot, firstShot) /\ onTmp' = onTmp
           \/ shotKept' = secondShot /\ onTmp' = onTmp \ Files(firstShot)
    BY DEF PickScored
  <2> QED
    BY <2>1, <2>2
<1>2. /\ image \in Frames /\ other \in Frames /\ image.beside = None /\ other.beside = None
      /\ ~image.besideNative /\ ~other.besideNative /\ image.path # None /\ other.path # None
      /\ onTmp = Files(image) \cup Files(other)
  <2>1. {image, other} = {firstShot, secondShot}
    BY <1>1
  <2>2. "first" # None /\ "second" # None
    BY DEF None
  <2>3. onTmp = Files(image) \cup Files(other)
    BY <1>0, <1>1, PickedFrom
  <2> QED
    BY <1>0, <1>1, <2>2, <2>3, PickedFrom
<1>3. shotKept' \in Frames /\ onTmp' = Files(shotKept')
  <2>1. CASE shotKept' = Beside(image, other) /\ onTmp' = onTmp
    BY <1>2, <2>1, FilesBeside
  <2>2. CASE shotKept' = image /\ onTmp' = onTmp \ Files(other)
    <3>1. Files(image) \cap Files(other) = {}
      BY <1>1, <1>2, FilesApart
    <3> QED
      BY <1>2, <2>2, <3>1
  <2> QED
    BY <1>1, <2>1, <2>2
<1>4. OnTmpInv'
  BY <1>0, <1>3 DEF ShotInv, OnTmpInv, ShotSteps
<1>5. ShotToldInv'
  BY <1>0, ToldFrame
<1> QED
  BY <1>4, <1>5 DEF ShotInv

LEMMA NothingWasSent == ShotInv /\ NothingToSend => ShotInv'
<1> SUFFICES ASSUME ShotInv, NothingToSend PROVE ShotInv'
  OBVIOUS
<1>0. /\ shotAt = "judge" /\ shotAt' = "done" /\ outcome' = "nothing"
      /\ onTmp' = onTmp \ Files(shotKept)
      /\ firstShot' = firstShot /\ secondShot' = secondShot /\ shotKept' = shotKept
      /\ arrived' = arrived /\ logKept' = logKept
  BY DEF NothingToSend, ShotEnds, frameVars
<1>1. OnTmpInv'
  BY <1>0 DEF ShotInv, OnTmpInv, ShotSteps
<1>2. ShotToldInv'
  BY <1>0, ToldFrame
<1> QED
  BY <1>1, <1>2 DEF ShotInv

LEMMA WasJudged == ASSUME NEW s, ShotInv, Judged(s) PROVE ShotInv'
<1>0. /\ shotAt = "judge" /\ shotKept.path # None
      /\ firstShot' = firstShot /\ secondShot' = secondShot /\ shotKept' = shotKept
      /\ arrived' = arrived /\ logKept' = logKept
      /\ \/ shotAt' = "done" /\ outcome' = "dropped" /\ onTmp' = onTmp \ Files(shotKept)
         \/ shotAt' = "deliver" /\ outcome' = outcome /\ onTmp' = onTmp
  BY DEF Judged, ShotEnds
<1>1. OnTmpInv'
  BY <1>0 DEF ShotInv, OnTmpInv, ShotSteps
<1>2. ShotToldInv'
  BY <1>0, ToldFrame
<1> QED
  BY <1>1, <1>2 DEF ShotInv

(* The end of a delivery: at most one message is an alert, and what the log got *)
(* is a whole scene.                                                           *)
LEMMA LogKeeps ==
  ASSUME ShotInv, shotAt \in {"deliver", "send", "send beside"}, shotKept' = shotKept,
         NEW file \in {FileOf(shotKept.path), FileOf("archive")},
         NEW more \in {<<>>, <<{FileOf(shotKept.beside)}>>},
         more # <<>> => shotKept.beside # None,
         logKept' = <<{file}>> \o more
  PROVE  LogWhole'
<1>1. /\ shotKept \in Frames /\ shotKept.path \in Lenses
      /\ more # <<>> => shotKept.beside \in Lenses
  BY DEF ShotInv, OnTmpInv, Frames
<1>2. /\ file \notin {FileOf("crop"), FileOf("small")}
      /\ shotKept.beside \in Lenses =>
           FileOf(shotKept.beside) \notin {FileOf("crop"), FileOf("small")}
  <2>1. \A lens \in Lenses : lens # "crop" /\ lens # "small"
    BY DEF Lenses
  <2> QED
    BY <1>1, <2>1, FileOfIsOne
<1>3. /\ logKept' # <<>> /\ logKept'[1] = {file} /\ 1 \in DOMAIN logKept'
      /\ \A n \in DOMAIN logKept' :
           logKept'[n] = {file} \/ (more # <<>> /\ logKept'[n] = {FileOf(shotKept.beside)})
  <2>1. CASE more = <<>>
    <3>1. logKept' = <<{file}>>
      BY <2>1, ShortConcats
    <3>2. DOMAIN logKept' = {1} /\ logKept'[1] = {file} /\ logKept' # <<>>
      BY <3>1, ShortSequences
    <3> QED
      BY <3>2
  <2>2. CASE more = <<{FileOf(shotKept.beside)}>>
    <3>1. logKept' = <<{file}, {FileOf(shotKept.beside)}>> /\ more # <<>>
      BY <2>2, ShortConcats
    <3>2. /\ DOMAIN logKept' = {1, 2} /\ logKept'[1] = {file} /\ logKept' # <<>>
          /\ logKept'[2] = {FileOf(shotKept.beside)}
      <4> DEFINE a == {file}
                 b == {FileOf(shotKept.beside)}
      <4>1. logKept' = <<a, b>>
        BY <3>1
      <4> HIDE DEF a, b
      <4>2. DOMAIN logKept' = {1, 2} /\ logKept'[1] = a /\ logKept' # <<>> /\ logKept'[2] = b
        <5>1. /\ DOMAIN <<a, b>> = {1, 2} /\ <<a, b>>[1] = a /\ <<a, b>>[2] = b
              /\ <<a, b>> # <<>>
          BY ShortSequences
        <5> QED
          BY <4>1, <5>1
      <4> QED
        BY <4>2 DEF a, b
    <3> QED
      BY <3>1, <3>2
  <2> QED
    BY <2>1, <2>2
<1>4. \E n \in DOMAIN logKept' : logKept'[n] \cap {FileOf(shotKept'.path), FileOf("archive")} # {}
  BY <1>3
<1>5. \A n \in DOMAIN logKept' : logKept'[n] \cap {FileOf("crop"), FileOf("small")} = {}
  BY <1>1, <1>2, <1>3
<1> QED
  BY <1>3, <1>4, <1>5 DEF LogWhole

LEMMA AlertedOnce ==
  ASSUME NEW post \in Posts, NEW zoomPost \in Posts, NEW pictures, NEW zooms,
         arrived' = <<>> \o Message(post, "alert", pictures)
         \/ arrived' = <<>> \o Message(post, "alert", pictures) \o Message(zoomPost, "zoom", zooms)
  PROVE  AlertsOnce'
<1> DEFINE alert == [kind |-> "alert", pictures |-> pictures]
           zoomed == [kind |-> "zoom", pictures |-> zooms]
<1>1. /\ Message(post, "alert", pictures) \in {<<>>, <<alert>>}
      /\ Message(zoomPost, "zoom", zooms) \in {<<>>, <<zoomed>>}
  BY DEF Message
<1>2. alert.kind = "alert" /\ zoomed.kind = "zoom"
  OBVIOUS
<1> HIDE DEF alert, zoomed
<1>3. arrived' \in {<<>>, <<alert>>, <<zoomed>>, <<alert, zoomed>>}
  <2>1. /\ <<>> \o <<>> = <<>> /\ <<>> \o <<alert>> = <<alert>> /\ <<>> \o <<zoomed>> = <<zoomed>>
        /\ <<alert>> \o <<>> = <<alert>> /\ <<alert>> \o <<zoomed>> = <<alert, zoomed>>
    BY ShortConcats
  <2> QED
    BY <1>1, <2>1
<1>4. CASE arrived' = <<>> \/ arrived' = <<alert>> \/ arrived' = <<zoomed>>
  <2>1. \A m, n \in DOMAIN arrived' : m = n
    BY <1>4
  <2> QED
    BY <2>1 DEF AlertsOnce
<1>5. CASE arrived' = <<alert, zoomed>>
  <2>1. DOMAIN arrived' = {1, 2} /\ arrived'[2].kind = "zoom"
    BY <1>2, <1>5
  <2> QED
    BY <2>1 DEF AlertsOnce
<1> QED
  BY <1>3, <1>4, <1>5

LEMMA WasRecordedOnly == ShotInv /\ RecordedOnly => ShotInv'
<1> SUFFICES ASSUME ShotInv, RecordedOnly PROVE ShotInv'
  OBVIOUS
<1>0. /\ shotAt = "deliver" /\ shotAt' = "done" /\ outcome' = "sent"
      /\ logKept' = Append(logKept, {FileOf(shotKept.path)})
      /\ onTmp' = onTmp \ Files(shotKept)
      /\ firstShot' = firstShot /\ secondShot' = secondShot /\ shotKept' = shotKept
      /\ arrived' = arrived /\ logKept = <<>> /\ arrived = <<>>
  BY DEF RecordedOnly, ShotEnds, frameVars, ShotInv, ShotToldInv
<1>1. OnTmpInv'
  BY <1>0 DEF ShotInv, OnTmpInv, ShotSteps
<1>2. logKept' = <<{FileOf(shotKept.path)}>> \o <<>>
  BY <1>0, ShortConcats, ShortSequences
<1>3. LogWhole'
  BY <1>0, <1>2, LogKeeps
<1>4. ShotToldInv'
  BY <1>0, <1>3 DEF ShotToldInv, AlertsOnce
<1> QED
  BY <1>1, <1>4 DEF ShotInv

LEMMA AlbumWasSent == ASSUME NEW post \in Posts, ShotInv, SendAlbum(post) PROVE ShotInv'
<1> DEFINE pictures == {FileOf(shotKept.path), FileOf(shotKept.beside)}
<1>0. /\ shotAt = "deliver" /\ shotKept.beside # None
      /\ arrived' = arrived \o Message(post, "alert", pictures)
      /\ firstShot' = firstShot /\ secondShot' = secondShot /\ shotKept' = shotKept
      /\ arrived = <<>> /\ logKept = <<>> /\ outcome = None
  BY DEF SendAlbum, frameVars, ShotInv, ShotToldInv
<1>1. CASE ~post.ok
  <2>1. shotAt' = "crop" /\ onTmp' = onTmp /\ logKept' = logKept /\ outcome' = outcome
    BY <1>1 DEF SendAlbum, AlbumRefused
  <2>2. arrived' = <<>>
    <3>1. Message(post, "alert", pictures) = <<>>
      BY <1>1 DEF Message, Posts
    <3> QED
      BY <1>0, <3>1
  <2>3. OnTmpInv'
    BY <1>0, <2>1 DEF ShotInv, OnTmpInv, ShotSteps
  <2>4. ShotToldInv'
    BY <1>0, <2>1, <2>2, ToldFrame
  <2> QED
    BY <2>3, <2>4 DEF ShotInv
<1>2. CASE post.ok
  <2>1. /\ shotAt' = "done" /\ onTmp' = onTmp \ Files(shotKept) /\ outcome' = "sent"
        /\ logKept' = logKept \o <<{FileOf(shotKept.path)}, {FileOf(shotKept.beside)}>>
    BY <1>2 DEF SendAlbum, AlbumRefused, ShotEnds
  <2>2. logKept' = <<{FileOf(shotKept.path)}>> \o <<{FileOf(shotKept.beside)}>>
    <3> DEFINE a == {FileOf(shotKept.path)}
               b == {FileOf(shotKept.beside)}
    <3>1. logKept' = <<>> \o <<a, b>>
      BY <1>0, <2>1
    <3>2. <<a, b>> \in Seq({a, b})
      OBVIOUS
    <3> HIDE DEF a, b
    <3>3. logKept' = <<a, b>>
      BY <3>1, <3>2, ConcatEmptySeq
    <3> QED
      BY <3>3, ShortConcats DEF a, b
  <2>3. LogWhole'
    BY <1>0, <2>2, LogKeeps
  <2>4. AlertsOnce'
    BY <1>0, AlertedOnce
  <2>5. OnTmpInv'
    BY <1>0, <2>1 DEF ShotInv, OnTmpInv, ShotSteps
  <2>6. ShotToldInv'
    BY <2>1, <2>3, <2>4 DEF ShotToldInv
  <2> QED
    BY <2>5, <2>6 DEF ShotInv
<1> QED
  BY <1>1, <1>2 DEF Posts

LEMMA WasCropped ==
  ASSUME NEW z, NEW tooSmall, ShotInv, Crop(z, tooSmall) PROVE ShotInv'
<1>0. /\ shotAt \in {"crop", "deliver"} /\ zoom' = z /\ onTmp' = onTmp \cup ZoomFiles(z)
      /\ shotAt' \in {"send", "send beside"}
      /\ firstShot' = firstShot /\ secondShot' = secondShot /\ shotKept' = shotKept
      /\ arrived' = arrived /\ logKept' = logKept /\ outcome' = outcome
  BY DEF Crop, frameVars, toldVars
<1>1. OnTmpInv'
  BY <1>0 DEF ShotInv, OnTmpInv, ShotSteps
<1>2. ShotToldInv'
  BY <1>0, ToldFrame
<1> QED
  BY <1>1, <1>2 DEF ShotInv

LEMMA BesideWasSent ==
  ASSUME NEW post \in Posts, NEW zoomPost \in Posts, ShotInv, SendBeside(post, zoomPost)
  PROVE  ShotInv'
<1> DEFINE alert == Message(post, "alert", {FileOf(shotKept.path)})
           beside == Message(zoomPost, "zoom", {FileOf("crop")})
<1>0. /\ shotAt = "send beside" /\ shotAt' = "done" /\ outcome' \in {"sent", "refused"}
      /\ arrived' = arrived \o alert \o (IF post.ok THEN beside ELSE <<>>)
      /\ logKept' = Append(logKept, {FileOf(shotKept.path)})
      /\ onTmp' = onTmp \ (ZoomFiles(zoom) \cup Files(shotKept))
      /\ firstShot' = firstShot /\ secondShot' = secondShot /\ shotKept' = shotKept
      /\ arrived = <<>> /\ logKept = <<>>
  BY DEF SendBeside, frameVars, ShotInv, ShotToldInv
<1>1. OnTmpInv'
  BY <1>0 DEF ShotInv, OnTmpInv, ShotSteps
<1>2. logKept' = <<{FileOf(shotKept.path)}>> \o <<>>
  BY <1>0, ShortConcats, ShortSequences
<1>3. LogWhole'
  BY <1>0, <1>2, LogKeeps
<1>4. AlertsOnce'
  <2>1. arrived' = <<>> \o alert \o beside \/ arrived' = <<>> \o alert
    <3>1. (<<>> \o alert) \o <<>> = <<>> \o alert
      <4>1. alert \in {<<>>, <<[kind |-> "alert", pictures |-> {FileOf(shotKept.path)}]>>}
        BY DEF Message
      <4> HIDE DEF alert
      <4> QED
        BY <4>1, ShortConcats
    <3> QED
      BY <1>0, <3>1
  <2> QED
    BY <2>1, AlertedOnce
<1>5. ShotToldInv'
  BY <1>0, <1>3, <1>4 DEF ShotToldInv
<1> QED
  BY <1>1, <1>5 DEF ShotInv

LEMMA PhotoWasSent == ASSUME NEW post \in Posts, ShotInv, SendPhoto(post) PROVE ShotInv'
<1>0. /\ shotAt = "send" /\ shotAt' = "done" /\ outcome' \in {"sent", "refused"}
      /\ arrived' = arrived \o Message(post, "alert", {Sendable})
      /\ logKept' = Append(logKept, {KeepsScene})
      /\ onTmp' = onTmp \ (ZoomFiles(zoom) \cup Files(shotKept))
      /\ firstShot' = firstShot /\ secondShot' = secondShot /\ shotKept' = shotKept
      /\ arrived = <<>> /\ logKept = <<>>
  BY DEF SendPhoto, frameVars, ShotInv, ShotToldInv
<1>1. OnTmpInv'
  BY <1>0 DEF ShotInv, OnTmpInv, ShotSteps
<1>2. logKept' = <<{KeepsScene}>> \o <<>> /\ KeepsScene \in {FileOf(shotKept.path), FileOf("archive")}
  BY <1>0, ShortConcats DEF KeepsScene
<1>3. LogWhole'
  BY <1>0, <1>2, LogKeeps
<1>4. AlertsOnce'
  BY <1>0, AlertedOnce
<1>5. ShotToldInv'
  BY <1>0, <1>3, <1>4 DEF ShotToldInv
<1> QED
  BY <1>1, <1>5 DEF ShotInv

LEMMA ShotStep == ShotInv /\ [ShotNext]_shotVars => ShotInv'
<1> SUFFICES ASSUME ShotInv, [ShotNext]_shotVars PROVE ShotInv'
  OBVIOUS
<1>1. CASE UNCHANGED shotVars
  BY <1>1 DEF shotVars, ShotInv, OnTmpInv, ShotToldInv, AlertsOnce, LogWhole
<1>2. CASE ShotNext
  BY <1>2, FirstWasGrabbed, SecondWasGrabbed, UnscoredWasPicked, ScoredWasPicked, NothingWasSent,
     WasJudged, WasRecordedOnly, AlbumWasSent, WasCropped, BesideWasSent, PhotoWasSent
     DEF ShotNext
<1> QED
  BY <1>1, <1>2

(* A photo's files are there while it is to be sent and gone at the end, and its *)
(* message arrives once, whichever step fails (daemon.py, notify.py).            *)
THEOREM ShotLeavesNothingCorrect == ShotSpec => []ShotLeavesNothing
<1>1. ShotSpec => []ShotInv
  BY ShotInitInv, ShotStep, PTL DEF ShotSpec
<1> QED
  BY <1>1, ShotTypes, PTL
----------------------------------------------------------------------------
(* The cameras that push *)

PushedAlarms == [at : Nat, type : {"person", "motion"}, visit : Visits]
Spells == [active : BOOLEAN, person : BOOLEAN]

\* The places of the person events of a visit, and how many there are.
PersonsIn(q, v) == {i \in DOMAIN q : q[i].visit = v /\ q[i].type = "person"}
ToldTimes(v) == persons[v] + Cardinality(PersonsIn(pushed, v))
Settled(v) == persons[v] > 0 \/ PersonsIn(pushed, v) # {} \/ v \in excused

PushTyped ==
  /\ pushSource \in {"reolink", "lastalarm"} /\ pushNow \in Nat
  /\ lensSees \in {"idle", "motion", "people"} /\ visit \in 0..LastVisit
  /\ spell \in Spells /\ pushLink \in {"none", "alive", "dead"}
  /\ pushed \in Seq(PushedAlarms) /\ Len(pushed) <= PushRoom
  /\ pushSeen \in Nat /\ pushSeen <= pushNow /\ pushTrouble \in Nat
  /\ pushShown \subseteq Visits /\ excused \subseteq Visits
  /\ persons \in [Visits -> Nat] /\ renewals \in [Visits -> Nat]
  /\ lensSees # "idle" => visit \in Visits
TimesInv == \A i \in 1..Len(pushed) : pushed[i].at <= pushNow
AlarmInv == lastAlarm = NoAlarm \/ (lastAlarm \in PushedAlarms /\ lastAlarm.at <= pushNow)
SpellInv ==
  /\ pushSource = "lastalarm" => pushLink = "none" /\ pushed = <<>>
  /\ spell.person => spell.active
  /\ pushLink = "alive" /\ spell.active => lensSees # "idle"
  /\ pushLink = "alive" /\ spell.person => Settled(visit)
SettledInv == \A v \in pushShown : Settled(v)
OnceInv ==
  pushSource = "reolink" =>
    /\ \A v \in Visits : ToldTimes(v) <= 1 + renewals[v]
    /\ \A v \in Visits : v > visit => ToldTimes(v) = 0
    /\ pushLink = "alive" /\ lensSees # "idle" /\ ~spell.person => ToldTimes(visit) <= renewals[visit]

PushInv == PushTyped /\ TimesInv /\ AlarmInv /\ SpellInv /\ SettledInv /\ OnceInv

LEMMA PersonsFinite ==
  ASSUME NEW q \in Seq(PushedAlarms), NEW v
  PROVE  /\ IsFiniteSet(PersonsIn(q, v)) /\ Cardinality(PersonsIn(q, v)) \in Nat
         /\ DOMAIN q = 1..Len(q) /\ Len(q) \in Nat
         /\ PersonsIn(q, v) = {} <=> Cardinality(PersonsIn(q, v)) = 0
<1>1. DOMAIN q = 1..Len(q) /\ Len(q) \in Nat
  BY LenProperties
<1>2. IsFiniteSet(1..Len(q))
  BY <1>1, FS_Interval
<1>3. IsFiniteSet(PersonsIn(q, v))
  BY <1>1, <1>2, FS_Subset DEF PersonsIn
<1> QED
  BY <1>1, <1>3, FS_CardinalityType, FS_EmptySet

LEMMA PersonsAppended ==
  ASSUME NEW q \in Seq(PushedAlarms), NEW e \in PushedAlarms, NEW v
  PROVE  /\ Append(q, e) \in Seq(PushedAlarms) /\ Len(Append(q, e)) = Len(q) + 1 /\ Len(q) \in Nat
         /\ e.type = "person" /\ e.visit = v =>
              /\ Cardinality(PersonsIn(Append(q, e), v)) = Cardinality(PersonsIn(q, v)) + 1
              /\ PersonsIn(Append(q, e), v) # {}
         /\ ~(e.type = "person" /\ e.visit = v) => PersonsIn(Append(q, e), v) = PersonsIn(q, v)
<1> DEFINE a == Append(q, e)
           n == Len(q) + 1
<1>1. /\ a \in Seq(PushedAlarms) /\ Len(a) = n /\ Len(q) \in Nat /\ a[n] = e
      /\ \A i \in 1..Len(q) : a[i] = q[i]
      /\ DOMAIN q = 1..Len(q) /\ DOMAIN a = 1..n
  BY AppendProperties, LenProperties
<1> HIDE DEF a
<1>2. /\ \A i \in 1..n : i \in 1..Len(q) \/ i = n
      /\ \A i \in 1..Len(q) : i \in 1..n /\ i # n
      /\ n \in 1..n
  BY <1>1
<1>3. CASE e.type = "person" /\ e.visit = v
  <2>1. PersonsIn(a, v) = PersonsIn(q, v) \cup {n} /\ n \notin PersonsIn(q, v)
    BY <1>1, <1>2, <1>3 DEF PersonsIn
  <2>2. IsFiniteSet(PersonsIn(q, v)) /\ Cardinality(PersonsIn(q, v)) \in Nat
    BY PersonsFinite
  <2> HIDE DEF n
  <2>3. Cardinality(PersonsIn(a, v)) = Cardinality(PersonsIn(q, v)) + 1
    BY <2>1, <2>2, FS_AddElement
  <2> QED
    BY <1>1, <1>3, <2>1, <2>3 DEF a, n
<1>4. CASE ~(e.type = "person" /\ e.visit = v)
  <2>1. PersonsIn(a, v) = PersonsIn(q, v)
    BY <1>1, <1>2, <1>4 DEF PersonsIn
  <2> QED
    BY <1>1, <1>4, <2>1 DEF a
<1> QED
  BY <1>3, <1>4

LEMMA PersonsTailed ==
  ASSUME NEW q \in Seq(PushedAlarms), q # <<>>, NEW v
  PROVE  /\ Tail(q) \in Seq(PushedAlarms) /\ Len(Tail(q)) = Len(q) - 1 /\ Len(q) \in Nat
         /\ Cardinality(PersonsIn(Tail(q), v)) <= Cardinality(PersonsIn(q, v))
         /\ PersonsIn(q, v) # {} => PersonsIn(Tail(q), v) # {} \/ (q[1].type = "person" /\ q[1].visit = v)
         /\ \A i \in 1..Len(Tail(q)) : i + 1 \in 1..Len(q) /\ Tail(q)[i] = q[i + 1]
<1> DEFINE t == Tail(q)
<1>1. /\ t \in Seq(PushedAlarms) /\ Len(t) = Len(q) - 1 /\ Len(q) \in Nat
      /\ \A i \in 1..Len(t) : t[i] = q[i + 1]
      /\ DOMAIN q = 1..Len(q) /\ DOMAIN t = 1..Len(t)
  BY HeadTailProperties, LenProperties
<1> HIDE DEF t
<1>2. /\ \A i \in 1..Len(t) : i + 1 \in 1..Len(q) /\ t[i] = q[i + 1]
      /\ \A i \in 1..Len(q) : i = 1 \/ (i - 1 \in 1..Len(t) /\ t[i - 1] = q[i])
  <2>1. \A i \in 1..Len(t) : i + 1 \in 1..Len(q) /\ t[i] = q[i + 1]
    BY <1>1
  <2>2. ASSUME NEW i \in 1..Len(q), i # 1 PROVE i - 1 \in 1..Len(t) /\ t[i - 1] = q[i]
    <3>1. i - 1 \in 1..Len(t) /\ (i - 1) + 1 = i
      BY <1>1, <2>2
    <3> QED
      BY <2>1, <3>1
  <2> QED
    BY <2>1, <2>2
<1>3. Cardinality(PersonsIn(t, v)) <= Cardinality(PersonsIn(q, v))
  <2> DEFINE f == [i \in PersonsIn(t, v) |-> i + 1]
  <2>1. f \in [PersonsIn(t, v) -> PersonsIn(q, v)]
    BY <1>1, <1>2 DEF PersonsIn
  <2>2. \A i, j \in PersonsIn(t, v) : f[i] = f[j] => i = j
    BY <1>1 DEF PersonsIn
  <2>3. f \in Injection(PersonsIn(t, v), PersonsIn(q, v))
    BY <2>1, <2>2 DEF Injection, IsInjective
  <2>4. IsFiniteSet(PersonsIn(q, v))
    BY PersonsFinite
  <2> QED
    BY <2>3, <2>4, FS_Injection
<1>4. PersonsIn(q, v) # {} => PersonsIn(t, v) # {} \/ (q[1].type = "person" /\ q[1].visit = v)
  <2> SUFFICES ASSUME NEW i \in PersonsIn(q, v), ~(q[1].type = "person" /\ q[1].visit = v)
               PROVE  PersonsIn(t, v) # {}
    OBVIOUS
  <2>1. i \in 1..Len(q) /\ q[i].visit = v /\ q[i].type = "person" /\ i # 1
    BY <1>1 DEF PersonsIn
  <2>2. i - 1 \in DOMAIN t /\ t[i - 1] = q[i]
    BY <1>1, <1>2, <2>1
  <2> QED
    BY <2>1, <2>2 DEF PersonsIn
<1> QED
  BY <1>1, <1>2, <1>3, <1>4 DEF t

LEMMA PushTypes == PushInv => PushTypeOK /\ PersonIsTold /\ PersonToldOnce
<1> SUFFICES ASSUME PushInv PROVE PushTypeOK /\ PersonIsTold /\ PersonToldOnce
  OBVIOUS
<1>1. PushTyped
  BY DEF PushInv
<1>2. PushTypeOK
  BY <1>1 DEF PushTyped, PushTypeOK
<1>3. PersonIsTold
  BY DEF PushInv, SettledInv, Settled, PersonsIn, PersonIsTold
<1>4. PersonToldOnce
  BY DEF PushInv, OnceInv, ToldTimes, PersonsIn, PersonToldOnce
<1> QED
  BY <1>2, <1>3, <1>4

LEMMA PushInitInv == PushInit => PushInv
<1> SUFFICES ASSUME PushInit PROVE PushInv
  OBVIOUS
<1>1. pushed \in Seq(PushedAlarms) /\ Len(pushed) = 0 /\ DOMAIN pushed = {}
  BY EmptySeq DEF PushInit
<1>2. \A v : PersonsIn(pushed, v) = {}
  BY <1>1 DEF PersonsIn
<1>3. \A v \in Visits : ToldTimes(v) = 0
  BY <1>2, FS_EmptySet DEF ToldTimes, PushInit
<1>4. PushTyped
  BY <1>1, PushAssumption DEF PushTyped, PushInit, Spells, Idle
<1>5. TimesInv /\ AlarmInv /\ SettledInv
  BY <1>1 DEF TimesInv, AlarmInv, SettledInv, PushInit
<1>6. SpellInv
  BY DEF SpellInv, PushInit, Idle
<1>7. OnceInv
  BY <1>3 DEF OnceInv, PushInit
<1> QED
  BY <1>4, <1>5, <1>6, <1>7 DEF PushInv

(* A state pushed by the camera: what the queue, the spell and the books become. *)
LEMMA StateStep ==
  ASSUME PushInv, pushLink = "alive", NEW s \in {"idle", "motion", "people"}, NEW v \in 0..LastVisit,
         s # "idle" => v \in Visits,
         (v = visit /\ lensSees # "idle") \/ (v = visit + 1 /\ lensSees = "idle"),
         PushState(s, v), lensSees' = s, visit' = v,
         UNCHANGED <<pushSource, pushNow, pushLink, pushSeen, persons, renewals, pushTrouble>>
  PROVE  PushTyped' /\ TimesInv' /\ SpellInv' /\ SettledInv' /\ OnceInv'
<1> DEFINE e == EventOf(Edge(s), v)
           all == IF Edge(s) = "none" THEN pushed ELSE Append(pushed, e)
           gone == IF Len(all) > PushRoom THEN PersonsAt(all, {1}) ELSE {}
           adds(w) == Edge(s) = "person" /\ w = v
<1>1. PushTyped /\ TimesInv /\ SpellInv
  BY DEF PushInv
<1>2. pushed \in Seq(PushedAlarms) /\ Len(pushed) \in Nat /\ Len(pushed) <= PushRoom /\ PushRoom \in Nat
      /\ PushRoom >= 1 /\ visit \in Int /\ LastVisit \in Nat /\ pushNow \in Nat
  BY <1>1, LenProperties, PushAssumption DEF PushTyped
<1>3. Edge(s) \in {"none", "person", "motion"} /\ (Edge(s) # "none" => s # "idle")
      /\ (Edge(s) = "person" => s = "people" /\ ~spell.person)
      /\ (s = "people" /\ Edge(s) # "person" => spell.person)
  BY <1>1 DEF Edge, SpellInv
<1>4. Edge(s) # "none" => e \in PushedAlarms /\ e.visit = v /\ e.type = Edge(s) /\ e.at = pushNow
  BY <1>2, <1>3 DEF EventOf, PushedAlarms
<1>5. /\ pushed' = IF Len(all) > PushRoom THEN Tail(all) ELSE all
      /\ spell' = Tracked(s) /\ excused' = excused \cup gone
      /\ pushShown' = IF s = "people" THEN pushShown \cup {v} ELSE pushShown
  BY DEF PushState
<1> HIDE DEF e
<1>6. /\ all \in Seq(PushedAlarms) /\ Len(all) \in Nat /\ Len(all) <= PushRoom + 1
      /\ \A i \in 1..Len(all) : all[i].at <= pushNow
  <2>1. CASE Edge(s) = "none"
    BY <1>1, <1>2, <2>1 DEF TimesInv
  <2>2. CASE Edge(s) # "none"
    <3>1. /\ all \in Seq(PushedAlarms) /\ Len(all) = Len(pushed) + 1 /\ all[Len(pushed) + 1] = e
          /\ \A i \in 1..Len(pushed) : all[i] = pushed[i]
      BY <1>2, <1>4, <2>2, AppendProperties
    <3>2. \A i \in 1..Len(all) : i \in 1..Len(pushed) \/ i = Len(pushed) + 1
      BY <1>2, <3>1
    <3>3. \A i \in 1..Len(all) : all[i].at <= pushNow
      <4> TAKE i \in 1..Len(all)
      <4>1. CASE i \in 1..Len(pushed)
        BY <1>1, <3>1, <4>1 DEF TimesInv
      <4>2. CASE i = Len(pushed) + 1
        <5>1. all[i].at = pushNow
          BY <1>4, <2>2, <3>1, <4>2
        <5> QED
          BY <1>2, <5>1
      <4> QED
        BY <3>2, <4>1, <4>2
    <3> QED
      BY <1>2, <3>1, <3>3
  <2> QED
    BY <2>1, <2>2
<1>7. \A w :
        /\ Cardinality(PersonsIn(all, w)) \in Nat /\ Cardinality(PersonsIn(pushed, w)) \in Nat
        /\ adds(w) => /\ Cardinality(PersonsIn(all, w)) = Cardinality(PersonsIn(pushed, w)) + 1
                      /\ PersonsIn(all, w) # {}
        /\ ~adds(w) => PersonsIn(all, w) = PersonsIn(pushed, w)
  <2> TAKE w
  <2>1. Cardinality(PersonsIn(all, w)) \in Nat /\ Cardinality(PersonsIn(pushed, w)) \in Nat
    BY <1>2, <1>6, PersonsFinite
  <2>2. CASE Edge(s) = "none"
    BY <2>1, <2>2
  <2>3. CASE Edge(s) # "none"
    <3>1. /\ e.type = "person" /\ e.visit = w =>
              /\ Cardinality(PersonsIn(Append(pushed, e), w)) = Cardinality(PersonsIn(pushed, w)) + 1
              /\ PersonsIn(Append(pushed, e), w) # {}
          /\ ~(e.type = "person" /\ e.visit = w) => PersonsIn(Append(pushed, e), w) = PersonsIn(pushed, w)
      BY <1>2, <1>4, <2>3, PersonsAppended
    <3> QED
      BY <1>4, <2>1, <2>3, <3>1
  <2> QED
    BY <2>2, <2>3
<1> HIDE DEF all
<1>8. /\ pushed' \in Seq(PushedAlarms) /\ Len(pushed') <= PushRoom
      /\ \A i \in 1..Len(pushed') : pushed'[i].at <= pushNow
      /\ \A w : Cardinality(PersonsIn(pushed', w)) <= Cardinality(PersonsIn(all, w))
      /\ \A w : PersonsIn(all, w) # {} => PersonsIn(pushed', w) # {} \/ w \in gone
      /\ gone \subseteq Visits
  <2>1. CASE Len(all) > PushRoom
    <3>1. all # <<>>
      BY <1>2, <1>6, <2>1, EmptySeq
    <3>2. pushed' = Tail(all) /\ gone = PersonsAt(all, {1})
      BY <1>5, <2>1
    <3>3. /\ Tail(all) \in Seq(PushedAlarms) /\ Len(Tail(all)) = Len(all) - 1
          /\ \A w : Cardinality(PersonsIn(Tail(all), w)) <= Cardinality(PersonsIn(all, w))
          /\ \A w : PersonsIn(all, w) # {} => PersonsIn(Tail(all), w) # {} \/ (all[1].type = "person" /\ all[1].visit = w)
          /\ \A i \in 1..Len(Tail(all)) : i + 1 \in 1..Len(all) /\ Tail(all)[i] = all[i + 1]
      BY <1>6, <3>1, PersonsTailed
    <3>4. \A w : all[1].type = "person" /\ all[1].visit = w => w \in gone
      BY <3>2 DEF PersonsAt
    <3>5. all[1] \in PushedAlarms
      <4>1. 1 \in 1..Len(all)
        BY <1>2, <1>6, <2>1
      <4> QED
        BY <1>6, <4>1, ElementOfSeq
    <3>6. gone \subseteq Visits
      BY <3>2, <3>5 DEF PersonsAt, PushedAlarms
    <3>7. Len(Tail(all)) <= PushRoom
      BY <1>2, <1>6, <3>3
    <3> HIDE DEF gone
    <3> QED
      BY <1>6, <3>2, <3>3, <3>4, <3>6, <3>7
  <2>2. CASE ~(Len(all) > PushRoom)
    <3>1. pushed' = all /\ gone = {}
      BY <1>5, <2>2
    <3>2. Len(all) <= PushRoom
      BY <1>2, <1>6, <2>2
    <3>3. \A w : Cardinality(PersonsIn(all, w)) <= Cardinality(PersonsIn(all, w))
      BY <1>7
    <3> HIDE DEF gone
    <3> QED
      BY <1>6, <3>1, <3>2, <3>3
  <2> QED
    BY <2>1, <2>2
<1> HIDE DEF gone
<1>9. /\ spell' \in Spells /\ (spell'.active <=> s # "idle")
      /\ (spell'.person <=> s # "idle" /\ (spell.person \/ s = "people"))
  <2>1. spell.person \in BOOLEAN
    BY <1>1 DEF PushTyped, Spells
  <2>2. CASE s = "idle"
    BY <1>5, <2>2 DEF Tracked, Idle, Spells
  <2>3. CASE s # "idle"
    BY <1>5, <2>1, <2>3 DEF Tracked, Idle, Spells
  <2> QED
    BY <2>2, <2>3
<1>10. PushTyped'
  <2>1. pushShown' \subseteq Visits /\ excused' \subseteq Visits
    BY <1>1, <1>5, <1>8 DEF PushTyped
  <2>2. pushed' \in Seq(PushedAlarms) /\ Len(pushed') <= PushRoom
    BY <1>8
  <2>3. spell' \in Spells
    BY <1>9
  <2> QED
    BY <1>1, <2>1, <2>2, <2>3 DEF PushTyped
<1>11. TimesInv'
  BY <1>8 DEF TimesInv
<1>12. ASSUME NEW w, Settled(w) PROVE Settled(w)'
  <2>1. CASE PersonsIn(pushed, w) # {}
    <3>1. PersonsIn(all, w) # {}
      BY <1>7, <2>1
    <3> QED
      BY <1>5, <1>8, <3>1 DEF Settled
  <2>2. CASE persons[w] > 0 \/ w \in excused
    BY <1>5, <2>2 DEF Settled
  <2> QED
    BY <1>12, <2>1, <2>2 DEF Settled
<1>13. spell'.person => Settled(v)'
  <2>1. CASE Edge(s) = "person"
    <3>1. PersonsIn(all, v) # {}
      BY <1>7, <2>1
    <3> QED
      BY <1>5, <1>8, <3>1 DEF Settled
  <2>2. CASE Edge(s) # "person" /\ spell'.person
    <3>1. spell.person /\ lensSees # "idle" /\ Settled(visit)
      BY <1>1, <1>3, <1>9, <2>2 DEF SpellInv
    <3>2. v = visit
      BY <3>1
    <3> QED
      BY <1>12, <3>1, <3>2
  <2> QED
    BY <2>1, <2>2
<1>14. SpellInv'
  BY <1>1, <1>9, <1>13 DEF SpellInv
<1>15. SettledInv'
  <2> SUFFICES ASSUME NEW w \in pushShown' PROVE Settled(w)'
    BY DEF SettledInv
  <2>1. CASE w \in pushShown
    BY <1>12, <2>1 DEF PushInv, SettledInv
  <2>2. CASE s = "people" /\ w = v
    BY <1>9, <1>13, <2>2
  <2> QED
    BY <1>5, <2>1, <2>2
<1>16. ASSUME pushSource = "reolink" PROVE OnceInv'
  <2>1. \A w \in Visits : ToldTimes(w) \in Nat /\ ToldTimes(w)' \in Nat /\ renewals[w] \in Nat /\ w \in Int
    <3> TAKE w \in Visits
    <3>1. persons[w] \in Nat /\ renewals[w] \in Nat /\ w \in Int
      BY <1>1, <1>2 DEF PushTyped, Visits
    <3>2. Cardinality(PersonsIn(pushed', w)) \in Nat /\ Cardinality(PersonsIn(pushed, w)) \in Nat
      BY <1>2, <1>8, PersonsFinite
    <3>3. PersonsIn(pushed, w)' = PersonsIn(pushed', w)
      BY DEF PersonsIn
    <3> QED
      BY <3>1, <3>2, <3>3 DEF ToldTimes
  <2>2. \A w \in Visits : /\ ~adds(w) => ToldTimes(w)' <= ToldTimes(w)
                          /\ adds(w) => ToldTimes(w)' <= ToldTimes(w) + 1
    <3> TAKE w \in Visits
    <3>1. persons[w] \in Nat
      BY <1>1 DEF PushTyped
    <3>2. Cardinality(PersonsIn(pushed', w)) \in Nat /\ Cardinality(PersonsIn(pushed, w)) \in Nat
          /\ Cardinality(PersonsIn(all, w)) \in Nat
      BY <1>2, <1>6, <1>8, PersonsFinite
    <3>3. ToldTimes(w)' = persons[w] + Cardinality(PersonsIn(pushed', w))
      BY DEF ToldTimes, PersonsIn
    <3>4. ToldTimes(w) = persons[w] + Cardinality(PersonsIn(pushed, w))
      BY DEF ToldTimes
    <3>5. Cardinality(PersonsIn(pushed', w)) <= Cardinality(PersonsIn(all, w))
      BY <1>8
    <3>6. CASE adds(w)
      <4>1. Cardinality(PersonsIn(all, w)) = Cardinality(PersonsIn(pushed, w)) + 1
        BY <1>7, <3>6
      <4>2. ToldTimes(w)' <= ToldTimes(w) + 1
        BY <3>1, <3>2, <3>3, <3>4, <3>5, <4>1
      <4> QED
        BY <3>6, <4>2
    <3>7. CASE ~adds(w)
      <4>1. Cardinality(PersonsIn(all, w)) = Cardinality(PersonsIn(pushed, w))
        BY <1>7, <3>7
      <4>2. ToldTimes(w)' <= ToldTimes(w)
        BY <3>1, <3>2, <3>3, <3>4, <3>5, <4>1
      <4> QED
        BY <3>7, <4>2
    <3> QED
      BY <3>6, <3>7
  <2>3. /\ \A w \in Visits : ToldTimes(w) <= 1 + renewals[w]
        /\ \A w \in Visits : w > visit => ToldTimes(w) = 0
        /\ lensSees # "idle" /\ ~spell.person => ToldTimes(visit) <= renewals[visit]
    BY <1>16 DEF PushInv, OnceInv
  <2>4. v \in Visits /\ ~spell.person => ToldTimes(v) <= renewals[v]
    <3>1. CASE v = visit /\ lensSees # "idle"
      BY <2>3, <3>1
    <3>2. CASE v = visit + 1 /\ v \in Visits
      <4>1. v > visit
        BY <1>2, <3>2
      <4>2. ToldTimes(v) = 0 /\ renewals[v] \in Nat
        BY <2>1, <2>3, <3>2, <4>1
      <4> QED
        BY <4>2
    <3> QED
      BY <3>1, <3>2
  <2>5. ASSUME NEW w \in Visits PROVE ToldTimes(w)' <= 1 + renewals[w]
    <3>1. ToldTimes(w) \in Nat /\ ToldTimes(w)' \in Nat /\ renewals[w] \in Nat
      BY <2>1
    <3>2. CASE adds(w)
      <4>1. ToldTimes(w) <= renewals[w]
        BY <1>3, <2>4, <3>2
      <4>2. ToldTimes(w)' <= ToldTimes(w) + 1
        BY <2>2, <3>2
      <4> QED
        BY <3>1, <4>1, <4>2
    <3>3. CASE ~adds(w)
      <4>1. ToldTimes(w)' <= ToldTimes(w) /\ ToldTimes(w) <= 1 + renewals[w]
        BY <2>2, <2>3, <3>3
      <4> QED
        BY <3>1, <4>1
    <3> QED
      BY <3>2, <3>3
  <2>6. ASSUME NEW w \in Visits, w > v PROVE ToldTimes(w)' = 0
    <3>1. w > visit /\ w # v
      BY <1>2, <2>1, <2>6
    <3>2. ToldTimes(w)' <= 0 /\ ToldTimes(w)' \in Nat
      BY <2>1, <2>2, <2>3, <3>1
    <3> QED
      BY <3>2
  <2>7. ASSUME s # "idle", ~spell'.person PROVE ToldTimes(v)' <= renewals[v]
    <3>1. v \in Visits /\ ~spell.person /\ Edge(s) # "person"
      BY <1>3, <1>9, <2>7
    <3>2. ToldTimes(v)' <= ToldTimes(v) /\ ToldTimes(v) <= renewals[v]
      BY <2>2, <2>4, <3>1
    <3>3. ToldTimes(v) \in Nat /\ ToldTimes(v)' \in Nat /\ renewals[v] \in Nat
      BY <2>1, <3>1
    <3> QED
      BY <3>2, <3>3
  <2> QED
    BY <2>5, <2>6, <2>7 DEF OnceInv, ToldTimes, PersonsIn
<1>17. ASSUME pushSource # "reolink" PROVE OnceInv'
  BY <1>17 DEF OnceInv
<1> QED
  BY <1>10, <1>11, <1>14, <1>15, <1>16, <1>17

(* run_monitor over some events: each person's event is counted or excused.     *)
LEMMA ProcessesStep ==
  ASSUME PushTyped, NEW q \in Seq(PushedAlarms), \A i \in 1..Len(q) : q[i].at <= pushNow, Processes(q)
  PROVE  /\ persons' \in [Visits -> Nat] /\ pushSeen' \in Nat /\ pushSeen' <= pushNow
         /\ pushTrouble' \in Nat /\ excused' \subseteq Visits /\ excused \subseteq excused'
         /\ \A v \in Visits : persons'[v] >= persons[v]
         /\ \A v \in Visits : persons'[v] <= persons[v] + Cardinality(PersonsIn(q, v))
         /\ \A v \in Visits : PersonsIn(q, v) # {} => persons'[v] > 0 \/ v \in excused'
<1> DEFINE fresh == {i \in DOMAIN q : q[i].at > pushSeen}
           done(r) == {i \in fresh : r = 0 \/ i < r}
           last == CHOOSE i \in fresh : \A j \in fresh : j <= i
           toldOf(r, v) == {i \in done(r) : q[i].type = "person" /\ q[i].visit = v}
<1>1. DOMAIN q = 1..Len(q) /\ Len(q) \in Nat
  BY LenProperties
<1>2. PICK r \in fresh \cup {0} :
        /\ r # 0 => pushTrouble > 0
        /\ pushTrouble' = IF r # 0 THEN pushTrouble - 1 ELSE pushTrouble
        /\ pushSeen' = IF fresh = {} THEN pushSeen
                       ELSE IF r = 0 THEN q[last].at
                       ELSE IF q[r].at - 1 > pushSeen THEN q[r].at - 1
                       ELSE pushSeen
        /\ persons' = [v \in Visits |-> persons[v] + Cardinality(toldOf(r, v))]
        /\ excused' = excused \cup PersonsAt(q, DOMAIN q \ done(r))
  BY DEF Processes
<1>3. /\ pushSeen \in Nat /\ pushSeen <= pushNow /\ pushNow \in Nat /\ pushTrouble \in Nat
      /\ persons \in [Visits -> Nat] /\ excused \subseteq Visits
  BY DEF PushTyped
<1>4. \A i \in DOMAIN q : q[i].at \in Nat /\ q[i].at <= pushNow /\ q[i].visit \in Visits
  <2> TAKE i \in DOMAIN q
  <2>1. q[i] \in PushedAlarms
    BY <1>1, ElementOfSeq
  <2> QED
    BY <1>1, <2>1 DEF PushedAlarms
<1>5. pushTrouble' \in Nat
  BY <1>2, <1>3
<1>6. pushSeen' \in Nat /\ pushSeen' <= pushNow
  <2>1. CASE fresh = {}
    BY <1>2, <1>3, <2>1
  <2>2. CASE fresh # {} /\ r = 0
    <3>1. \E i \in fresh : \A j \in fresh : j <= i
      <4>1. fresh \subseteq 0..Len(q)
        BY <1>1
      <4> HIDE DEF fresh
      <4> QED
        BY <1>1, <2>2, <4>1, GreatestNat
    <3>2. last \in fresh
      BY <3>1
    <3> HIDE DEF last
    <3>3. q[last].at \in Nat /\ q[last].at <= pushNow
      BY <1>4, <3>2
    <3> QED
      BY <1>2, <2>2, <3>3
  <2>3. CASE r # 0
    <3>1. r \in fresh /\ q[r].at \in Nat /\ q[r].at <= pushNow
      BY <1>2, <1>4, <2>3
    <3>2. pushSeen' = IF q[r].at - 1 > pushSeen THEN q[r].at - 1 ELSE pushSeen
      BY <1>2, <2>3, <3>1
    <3>3. CASE q[r].at - 1 > pushSeen
      BY <1>3, <3>1, <3>2, <3>3
    <3>4. CASE ~(q[r].at - 1 > pushSeen)
      BY <1>3, <3>2, <3>4
    <3> QED
      BY <3>3, <3>4
  <2> QED
    BY <2>1, <2>2, <2>3
<1>7. excused' \subseteq Visits /\ excused \subseteq excused'
  BY <1>2, <1>3, <1>4 DEF PersonsAt
<1>8. ASSUME NEW v \in Visits
      PROVE  /\ Cardinality(toldOf(r, v)) \in Nat
             /\ Cardinality(toldOf(r, v)) <= Cardinality(PersonsIn(q, v))
             /\ Cardinality(PersonsIn(q, v)) \in Nat
             /\ PersonsIn(q, v) # {} => Cardinality(toldOf(r, v)) > 0 \/ v \in excused'
  <2> DEFINE T == toldOf(r, v)
  <2>1. T \subseteq PersonsIn(q, v)
    BY DEF PersonsIn
  <2>2. \A i \in PersonsIn(q, v) : i \in T \/ v \in PersonsAt(q, DOMAIN q \ done(r))
    BY DEF PersonsIn, PersonsAt
  <2>3. \A i \in PersonsIn(q, v) : i \in T \/ v \in excused'
    BY <1>2, <2>2
  <2> HIDE DEF T
  <2>4. IsFiniteSet(PersonsIn(q, v)) /\ Cardinality(PersonsIn(q, v)) \in Nat
    BY PersonsFinite
  <2>5. IsFiniteSet(T) /\ Cardinality(T) \in Nat /\ Cardinality(T) <= Cardinality(PersonsIn(q, v))
    BY <2>1, <2>4, FS_Subset, FS_CardinalityType
  <2>6. T # {} => Cardinality(T) > 0
    <3>1. T # {} => Cardinality(T) # 0
      BY <2>5, FS_EmptySet
    <3> QED
      BY <2>5, <3>1
  <2>7. PersonsIn(q, v) # {} => Cardinality(T) > 0 \/ v \in excused'
    BY <2>3, <2>6
  <2> QED
    BY <2>4, <2>5, <2>7 DEF T
<1> HIDE DEF toldOf
<1>9. persons' \in [Visits -> Nat]
  <2>1. \A v \in Visits : persons[v] + Cardinality(toldOf(r, v)) \in Nat
    <3> TAKE v \in Visits
    <3>1. persons[v] \in Nat /\ Cardinality(toldOf(r, v)) \in Nat
      BY <1>3, <1>8
    <3> QED
      BY <3>1
  <2> QED
    BY <1>2, <2>1
<1>10. ASSUME NEW v \in Visits
       PROVE  /\ persons'[v] >= persons[v]
              /\ persons'[v] <= persons[v] + Cardinality(PersonsIn(q, v))
              /\ PersonsIn(q, v) # {} => persons'[v] > 0 \/ v \in excused'
  <2>1. persons'[v] = persons[v] + Cardinality(toldOf(r, v)) /\ persons[v] \in Nat
    BY <1>2, <1>3
  <2>2. /\ Cardinality(toldOf(r, v)) \in Nat /\ Cardinality(PersonsIn(q, v)) \in Nat
        /\ Cardinality(toldOf(r, v)) <= Cardinality(PersonsIn(q, v))
    BY <1>8
  <2>3. persons'[v] >= persons[v] /\ persons'[v] <= persons[v] + Cardinality(PersonsIn(q, v))
    BY <2>1, <2>2
  <2>4. Cardinality(toldOf(r, v)) > 0 => persons'[v] > 0
    BY <2>1, <2>2
  <2> QED
    BY <1>8, <2>3, <2>4
<1> QED
  BY <1>5, <1>6, <1>7, <1>9, <1>10

LEMMA PushLensStep ==
  ASSUME PushInv, LensChanges
  PROVE  PushInv'
<1>1. PICK s \in {"idle", "motion", "people"} \ {lensSees} :
    LET v == IF lensSees = "idle" THEN visit + 1 ELSE visit IN
    /\ v <= LastVisit /\ lensSees' = s /\ visit' = v
    /\ IF pushLink = "alive" THEN PushState(s, v)
       ELSE UNCHANGED <<spell, pushed, excused, pushShown>>
    /\ lastAlarm' = IF pushSource = "lastalarm" /\ s # "idle"
                    THEN EventOf(IF s = "people" THEN "person" ELSE "motion", v)
                    ELSE lastAlarm
    /\ UNCHANGED <<pushSource, pushNow, pushLink, listed, pushSeen, persons, renewals, pushTrouble>>
  BY DEF LensChanges
<1> DEFINE v == IF lensSees = "idle" THEN visit + 1 ELSE visit
<1>2. /\ v <= LastVisit /\ lensSees' = s /\ visit' = v
      /\ IF pushLink = "alive" THEN PushState(s, v)
         ELSE UNCHANGED <<spell, pushed, excused, pushShown>>
      /\ lastAlarm' = IF pushSource = "lastalarm" /\ s # "idle"
                    THEN EventOf(IF s = "people" THEN "person" ELSE "motion", v)
                    ELSE lastAlarm
      /\ UNCHANGED <<pushSource, pushNow, pushLink, pushSeen, persons, renewals, pushTrouble>>
  BY <1>1
<1>3. PushTyped /\ visit \in 0..LastVisit /\ LastVisit \in Nat /\ pushNow \in Nat
  BY PushAssumption DEF PushInv, PushTyped
<1>4. v \in 0..LastVisit /\ ((v = visit /\ lensSees # "idle") \/ (v = visit + 1 /\ lensSees = "idle"))
  BY <1>2, <1>3
<1>5. v \in Visits
  BY <1>3, <1>4 DEF PushTyped, Visits
<1> HIDE DEF v
<1>6. AlarmInv'
  <2>1. CASE pushSource = "lastalarm" /\ s # "idle"
    BY <1>2, <1>3, <1>5, <2>1 DEF AlarmInv, EventOf, PushedAlarms
  <2>2. CASE ~(pushSource = "lastalarm" /\ s # "idle")
    BY <1>2, <2>2 DEF AlarmInv, PushInv
  <2> QED
    BY <2>1, <2>2
<1>7. CASE pushLink = "alive"
  <2>1. PushState(s, v)
    BY <1>2, <1>7
  <2>2. PushTyped' /\ TimesInv' /\ SpellInv' /\ SettledInv' /\ OnceInv'
    BY <1>2, <1>4, <1>5, <1>7, <2>1, StateStep
  <2> QED
    BY <1>6, <2>2 DEF PushInv
<1>8. CASE pushLink # "alive"
  <2>1. UNCHANGED <<spell, pushed, excused, pushShown>>
    BY <1>2, <1>8
  <2>2. PushTyped'
    BY <1>2, <1>3, <1>4, <1>5, <2>1 DEF PushTyped
  <2>3. TimesInv'
    BY <1>2, <2>1 DEF PushInv, TimesInv
  <2>4. SpellInv'
    BY <1>2, <1>8, <2>1 DEF PushInv, SpellInv
  <2>5. SettledInv'
    BY <1>2, <2>1 DEF PushInv, SettledInv, Settled, PersonsIn
  <2>6. OnceInv'
    <3>1. \A w : ToldTimes(w)' = ToldTimes(w)
      BY <1>2, <2>1 DEF ToldTimes, PersonsIn
    <3>2. \A w \in Visits : w > v => w > visit
      BY <1>3, <1>4 DEF Visits
    <3> QED
      BY <1>2, <1>8, <3>1, <3>2 DEF PushInv, OnceInv
  <2> QED
    BY <1>6, <2>2, <2>3, <2>4, <2>5, <2>6 DEF PushInv
<1> QED
  BY <1>7, <1>8

LEMMA PushRepeatStep ==
  ASSUME PushInv, PushRepeats
  PROVE  PushInv'
<1>1. /\ lensSees \in {"idle", "motion", "people"} /\ visit \in 0..LastVisit /\ visit \in Visits
      /\ lensSees # "idle" /\ pushLink = "alive"
  BY DEF PushInv, PushTyped, PushRepeats
<1>2. /\ PushState(lensSees, visit) /\ lensSees' = lensSees /\ visit' = visit /\ lastAlarm' = lastAlarm
      /\ UNCHANGED <<pushSource, pushNow, pushLink, pushSeen, persons, renewals, pushTrouble>>
  BY DEF PushRepeats
<1>3. PushTyped' /\ TimesInv' /\ SpellInv' /\ SettledInv' /\ OnceInv'
  BY <1>1, <1>2, StateStep
<1>4. AlarmInv'
  BY <1>2 DEF AlarmInv, PushInv
<1> QED
  BY <1>3, <1>4 DEF PushInv

LEMMA SubscriptionStep ==
  ASSUME PushInv, SubscriptionDies
  PROVE  PushInv'
<1>1. /\ pushLink = "alive" /\ pushLink' = "dead" /\ pushTrouble > 0 /\ pushTrouble' = pushTrouble - 1
      /\ UNCHANGED <<pushSource, pushNow, lensSees, visit, spell, pushed, lastAlarm, pushSeen, pushShown,
                     persons, excused, renewals>>
  BY DEF SubscriptionDies
<1>2. PushTyped'
  BY <1>1 DEF PushInv, PushTyped
<1>3. TimesInv' /\ AlarmInv'
  BY <1>1 DEF PushInv, TimesInv, AlarmInv
<1>4. SpellInv'
  BY <1>1 DEF PushInv, SpellInv
<1>5. SettledInv'
  BY <1>1 DEF PushInv, SettledInv, Settled, PersonsIn
<1>6. OnceInv'
  <2>1. \A w : ToldTimes(w)' = ToldTimes(w)
    BY <1>1 DEF ToldTimes, PersonsIn
  <2> QED
    BY <1>1, <2>1 DEF PushInv, OnceInv
<1> QED
  BY <1>2, <1>3, <1>4, <1>5, <1>6 DEF PushInv

LEMMA ClientStep ==
  ASSUME PushInv, ClientReplaced
  PROVE  PushInv'
<1>1. /\ pushSource = "reolink" /\ pushLink # "alive" /\ pushLink' \in {"none", "alive"}
      /\ pushed' = <<>> /\ spell' = Idle /\ excused' = excused \cup PersonsOf(pushed)
      /\ renewals' = IF pushLink' = "alive" /\ visit > 0
                     THEN [renewals EXCEPT ![visit] = @ + 1] ELSE renewals
      /\ UNCHANGED <<pushSource, pushNow, lensSees, visit, lastAlarm, pushSeen, pushShown,
                     persons, pushTrouble>>
  BY DEF ClientReplaced
<1>2. PushTyped
  BY DEF PushInv
<1>3. pushed' \in Seq(PushedAlarms) /\ Len(pushed') = 0 /\ DOMAIN pushed' = {} /\ 1..Len(pushed') = {}
  BY <1>1, EmptySeq
<1>4. \A w : PersonsIn(pushed', w) = {} /\ Cardinality(PersonsIn(pushed', w)) = 0
  BY <1>3, FS_EmptySet DEF PersonsIn
<1>5. pushed \in Seq(PushedAlarms) /\ DOMAIN pushed = 1..Len(pushed)
  BY <1>2, LenProperties DEF PushTyped
<1>6. PersonsOf(pushed) \subseteq Visits
  <2>1. \A i \in DOMAIN pushed : pushed[i].visit \in Visits
    <3> TAKE i \in DOMAIN pushed
    <3>1. pushed[i] \in PushedAlarms
      BY <1>5, ElementOfSeq
    <3> QED
      BY <3>1 DEF PushedAlarms
  <2> QED
    BY <2>1 DEF PersonsOf, PersonsAt
<1>7. renewals' \in [Visits -> Nat] /\ \A w \in Visits : renewals'[w] >= renewals[w]
      /\ (pushLink' = "alive" /\ visit \in Visits => renewals'[visit] = renewals[visit] + 1)
  <2>1. renewals \in [Visits -> Nat] /\ visit \in 0..LastVisit /\ LastVisit \in Nat
    BY <1>2, PushAssumption DEF PushTyped
  <2>2. \A w \in Visits : renewals[w] \in Nat
    BY <2>1
  <2>3. visit \in Visits <=> visit > 0
    BY <2>1 DEF Visits
  <2>4. CASE pushLink' = "alive" /\ visit \in Visits
    BY <1>1, <2>1, <2>2, <2>3, <2>4
  <2>5. CASE ~(pushLink' = "alive" /\ visit \in Visits)
    BY <1>1, <2>2, <2>1, <2>3, <2>5
  <2> QED
    BY <2>4, <2>5
<1>8. PushTyped'
  <2>1. spell' \in Spells /\ excused' \subseteq Visits /\ Len(pushed') <= PushRoom
    BY <1>1, <1>2, <1>3, <1>6, PushAssumption DEF PushTyped, Spells, Idle
  <2>2. pushLink' \in {"none", "alive", "dead"}
    BY <1>1
  <2> QED
    BY <1>1, <1>2, <1>3, <1>7, <2>1, <2>2 DEF PushTyped
<1>9. TimesInv' /\ AlarmInv'
  BY <1>1, <1>3 DEF PushInv, TimesInv, AlarmInv
<1>10. SpellInv'
  BY <1>1 DEF SpellInv, Idle
<1>11. SettledInv'
  <2>1. ASSUME NEW w, Settled(w) PROVE Settled(w)'
    BY <1>1, <2>1 DEF Settled, PersonsOf, PersonsAt, PersonsIn
  <2> QED
    BY <1>1, <2>1 DEF PushInv, SettledInv
<1>12. OnceInv'
  <2>1. \A w \in Visits : /\ ToldTimes(w)' = persons[w] /\ persons[w] <= ToldTimes(w)
                          /\ ToldTimes(w) \in Nat /\ persons[w] \in Nat /\ renewals[w] \in Nat
                          /\ renewals'[w] \in Nat /\ w \in Int
    <3> TAKE w \in Visits
    <3>1. /\ persons[w] \in Nat /\ Cardinality(PersonsIn(pushed, w)) \in Nat /\ renewals[w] \in Nat
          /\ w \in Int /\ renewals'[w] \in Nat
      BY <1>2, <1>5, <1>7, PersonsFinite DEF PushTyped, Visits
    <3>2. ToldTimes(w) = persons[w] + Cardinality(PersonsIn(pushed, w))
      BY DEF ToldTimes
    <3>3. ToldTimes(w)' = persons'[w] + Cardinality(PersonsIn(pushed', w))
      BY DEF ToldTimes, PersonsIn
    <3>4. ToldTimes(w)' = persons[w]
      BY <1>1, <1>4, <3>1, <3>3
    <3> QED
      BY <3>1, <3>2, <3>4
  <2>2. ASSUME NEW w \in Visits PROVE ToldTimes(w)' <= 1 + renewals'[w]
    <3>1. ToldTimes(w) <= 1 + renewals[w] /\ renewals'[w] >= renewals[w]
      BY <1>1, <1>7 DEF PushInv, OnceInv
    <3>2. persons[w] <= 1 + renewals'[w]
      BY <2>1, <3>1
    <3> QED
      BY <2>1, <3>2
  <2>3. ASSUME NEW w \in Visits, w > visit PROVE ToldTimes(w)' = 0
    <3>1. ToldTimes(w) = 0
      BY <1>1, <2>3 DEF PushInv, OnceInv
    <3>2. persons[w] = 0
      BY <2>1, <3>1
    <3> QED
      BY <2>1, <3>2
  <2>4. ASSUME pushLink' = "alive", visit \in Visits PROVE ToldTimes(visit)' <= renewals'[visit]
    <3>1. ToldTimes(visit) <= 1 + renewals[visit] /\ renewals'[visit] = renewals[visit] + 1
      BY <1>1, <1>7, <2>4 DEF PushInv, OnceInv
    <3>2. persons[visit] <= renewals'[visit]
      BY <2>1, <2>4, <3>1
    <3>3. ToldTimes(visit)' = persons'[visit'] + Cardinality(PersonsIn(pushed', visit'))
      BY DEF ToldTimes, PersonsIn
    <3>4. ToldTimes(visit)' = persons[visit]
      BY <1>1, <1>4, <2>1, <2>4, <3>3
    <3> QED
      BY <3>2, <3>4
  <2>5. lensSees # "idle" => visit \in Visits
    BY <1>2 DEF PushTyped
  <2> QED
    BY <1>1, <2>2, <2>3, <2>4, <2>5 DEF OnceInv
<1> QED
  BY <1>8, <1>9, <1>10, <1>11, <1>12 DEF PushInv

(* What both ways of polling share: no visit that was settled is unsettled.     *)
LEMMA PolledStep ==
  ASSUME PushInv, NEW q \in Seq(PushedAlarms), \A i \in 1..Len(q) : q[i].at <= pushNow, Processes(q),
         \A v \in Visits : PersonsIn(pushed, v) # {} => PersonsIn(q, v) # {},
         pushed' \in Seq(PushedAlarms), Len(pushed') <= PushRoom,
         \A i \in 1..Len(pushed') : pushed'[i].at <= pushNow,
         pushSource = "lastalarm" => pushed' = <<>>,
         pushShown' = pushShown \/ pushShown' = pushShown \cup PersonsOf(q)
  PROVE  PushTyped' /\ TimesInv' /\ AlarmInv' /\ SpellInv' /\ SettledInv'
<1>1. /\ persons' \in [Visits -> Nat] /\ pushSeen' \in Nat /\ pushSeen' <= pushNow
      /\ pushTrouble' \in Nat /\ excused' \subseteq Visits /\ excused \subseteq excused'
      /\ \A v \in Visits : persons'[v] >= persons[v]
      /\ \A v \in Visits : PersonsIn(q, v) # {} => persons'[v] > 0 \/ v \in excused'
  BY ProcessesStep DEF PushInv
<1>2. UNCHANGED <<pushSource, pushNow, lensSees, visit, spell, pushLink, lastAlarm, renewals>>
  BY DEF Processes
<1>3. PushTyped
  BY DEF PushInv
<1>4. \A v \in PersonsOf(q) : v \in Visits /\ PersonsIn(q, v) # {}
  <2>1. \A i \in DOMAIN q : q[i].visit \in Visits
    <3> TAKE i \in DOMAIN q
    <3>1. q[i] \in PushedAlarms
      BY LenProperties, ElementOfSeq
    <3> QED
      BY <3>1 DEF PushedAlarms
  <2> QED
    BY <2>1 DEF PersonsOf, PersonsAt, PersonsIn
<1>5. pushShown' \subseteq Visits
  BY <1>3, <1>4 DEF PushTyped
<1>6. PushTyped'
  BY <1>1, <1>2, <1>3, <1>5 DEF PushTyped
<1>7. TimesInv' /\ AlarmInv'
  BY <1>2 DEF PushInv, TimesInv, AlarmInv
<1>8. ASSUME NEW v \in Visits, Settled(v) \/ v \in PersonsOf(q) PROVE Settled(v)'
  <2>1. CASE persons[v] > 0
    <3>1. persons[v] \in Nat /\ persons'[v] \in Nat
      BY <1>1, <1>3 DEF PushTyped
    <3>2. persons'[v] > 0
      BY <1>1, <2>1, <3>1
    <3> QED
      BY <3>2 DEF Settled
  <2>2. CASE PersonsIn(pushed, v) # {} \/ v \in PersonsOf(q)
    <3>1. persons'[v] > 0 \/ v \in excused'
      BY <1>1, <1>4, <2>2
    <3> QED
      BY <3>1 DEF Settled
  <2>3. CASE v \in excused
    BY <1>1, <2>3 DEF Settled
  <2> QED
    BY <1>8, <2>1, <2>2, <2>3 DEF Settled
<1>9. SpellInv'
  <2>1. pushLink = "alive" /\ spell.person => visit \in Visits
    BY <1>3 DEF PushInv, SpellInv, PushTyped
  <2> QED
    BY <1>2, <1>8, <2>1 DEF PushInv, SpellInv
<1>10. SettledInv'
  <2> SUFFICES ASSUME NEW v \in pushShown' PROVE Settled(v)'
    BY DEF SettledInv
  <2>1. v \in Visits /\ (Settled(v) \/ v \in PersonsOf(q))
    BY <1>5 DEF PushInv, SettledInv
  <2> QED
    BY <1>8, <2>1
<1> QED
  BY <1>6, <1>7, <1>9, <1>10

LEMMA QueuePolledStep ==
  ASSUME PushInv, QueuePolled
  PROVE  PushInv'
<1>1. pushSource = "reolink" /\ pushed' = <<>> /\ pushShown' = pushShown /\ Processes(pushed)
  BY DEF QueuePolled
<1>2. PushTyped /\ TimesInv /\ pushed \in Seq(PushedAlarms)
  BY DEF PushInv, PushTyped
<1>3. pushed' \in Seq(PushedAlarms) /\ Len(pushed') = 0 /\ DOMAIN pushed' = {} /\ 1..Len(pushed') = {}
      /\ Len(pushed') <= PushRoom
  BY <1>1, EmptySeq, PushAssumption
<1>4. PushTyped' /\ TimesInv' /\ AlarmInv' /\ SpellInv' /\ SettledInv'
  BY <1>1, <1>2, <1>3, PolledStep DEF TimesInv
<1>5. UNCHANGED <<pushSource, pushNow, lensSees, visit, spell, pushLink, lastAlarm, renewals>>
  BY <1>1 DEF Processes
<1>6. ASSUME NEW w \in Visits
      PROVE  ToldTimes(w)' <= ToldTimes(w) /\ ToldTimes(w)' \in Nat /\ ToldTimes(w) \in Nat
             /\ renewals[w] \in Nat /\ w \in Int
  <2>1. persons'[w] <= persons[w] + Cardinality(PersonsIn(pushed, w)) /\ persons' \in [Visits -> Nat]
    BY <1>1, <1>2, ProcessesStep DEF TimesInv
  <2>2. persons'[w] \in Nat /\ persons[w] \in Nat /\ renewals[w] \in Nat /\ w \in Int
        /\ Cardinality(PersonsIn(pushed, w)) \in Nat
    BY <1>2, <2>1, PersonsFinite DEF PushTyped, Visits
  <2>3. PersonsIn(pushed', w) = {} /\ Cardinality(PersonsIn(pushed', w)) = 0
    BY <1>3, FS_EmptySet DEF PersonsIn
  <2>4. ToldTimes(w)' = persons'[w] + Cardinality(PersonsIn(pushed', w))
    BY DEF ToldTimes, PersonsIn
  <2>5. ToldTimes(w)' = persons'[w] /\ ToldTimes(w) = persons[w] + Cardinality(PersonsIn(pushed, w))
    BY <2>2, <2>3, <2>4 DEF ToldTimes
  <2> QED
    BY <2>1, <2>2, <2>5
<1>7. OnceInv'
  <2>1. \A w \in Visits : ToldTimes(w)' <= 1 + renewals[w]
    <3> TAKE w \in Visits
    <3>1. ToldTimes(w) <= 1 + renewals[w]
      BY <1>1 DEF PushInv, OnceInv
    <3> QED
      BY <1>6, <3>1
  <2>2. \A w \in Visits : w > visit => ToldTimes(w)' = 0
    <3> SUFFICES ASSUME NEW w \in Visits, w > visit PROVE ToldTimes(w)' = 0
      OBVIOUS
    <3>1. ToldTimes(w) = 0
      BY <1>1 DEF PushInv, OnceInv
    <3> QED
      BY <1>6, <3>1
  <2>3. ASSUME pushLink = "alive", lensSees # "idle", ~spell.person PROVE ToldTimes(visit)' <= renewals[visit]
    <3>1. ToldTimes(visit) <= renewals[visit] /\ visit \in Visits
      BY <1>1, <1>2, <2>3 DEF PushInv, OnceInv, PushTyped
    <3>2. PICK w \in Visits : w = visit
      BY <3>1
    <3>3. ToldTimes(w)' <= renewals[w]
      BY <1>6, <3>1, <3>2
    <3>4. ToldTimes(visit)' = ToldTimes(w)'
      BY <1>5, <3>2 DEF ToldTimes, PersonsIn
    <3> QED
      BY <3>2, <3>3, <3>4
  <2> QED
    BY <1>1, <1>5, <2>1, <2>2, <2>3 DEF OnceInv, ToldTimes, PersonsIn
<1> QED
  BY <1>4, <1>7 DEF PushInv

LEMMA AlarmPolledStep ==
  ASSUME PushInv, AlarmPolled
  PROVE  PushInv'
<1>1. /\ pushSource = "lastalarm" /\ pushed' = pushed /\ pushShown' = pushShown \cup PersonsOf(FreshAlarms)
      /\ Processes(FreshAlarms) /\ FreshAlarms # <<>>
  BY DEF AlarmPolled
<1>2. FreshAlarms = <<lastAlarm>> /\ lastAlarm # NoAlarm
  BY <1>1 DEF FreshAlarms
<1>3. lastAlarm \in PushedAlarms /\ lastAlarm.at <= pushNow
  BY <1>2 DEF PushInv, AlarmInv
<1>4. FreshAlarms \in Seq(PushedAlarms) /\ \A i \in 1..Len(FreshAlarms) : FreshAlarms[i].at <= pushNow
  BY <1>2, <1>3
<1>5. PushTyped /\ TimesInv /\ pushed' = <<>> /\ pushed \in Seq(PushedAlarms) /\ Len(pushed) <= PushRoom
  BY <1>1 DEF PushInv, SpellInv, PushTyped
<1>6. \A v \in Visits : PersonsIn(pushed, v) = {}
  <2>1. DOMAIN pushed = {}
    BY <1>1, <1>5, EmptySeq
  <2> QED
    BY <2>1 DEF PersonsIn
<1>7. PushTyped' /\ TimesInv' /\ AlarmInv' /\ SpellInv' /\ SettledInv'
  <2> DEFINE q == FreshAlarms
  <2>1. q \in Seq(PushedAlarms) /\ (\A i \in 1..Len(q) : q[i].at <= pushNow) /\ Processes(q)
        /\ pushShown' = pushShown \cup PersonsOf(q)
    BY <1>1, <1>4
  <2>2. /\ pushed' \in Seq(PushedAlarms) /\ Len(pushed') <= PushRoom
        /\ \A i \in 1..Len(pushed') : pushed'[i].at <= pushNow
    BY <1>1, <1>5 DEF TimesInv
  <2>3. \A v \in Visits : PersonsIn(pushed, v) # {} => PersonsIn(q, v) # {}
    BY <1>6
  <2>4. pushSource = "lastalarm" => pushed' = <<>>
    BY <1>5
  <2> HIDE DEF q
  <2> QED
    BY <2>1, <2>2, <2>3, <2>4, PolledStep
<1>8. OnceInv'
  <2>1. pushSource' = pushSource
    BY <1>1 DEF Processes
  <2> QED
    BY <1>1, <2>1 DEF OnceInv
<1> QED
  BY <1>7, <1>8 DEF PushInv

LEMMA PushStep == PushInv /\ [PushNext]_pushVars => PushInv'
<1> SUFFICES ASSUME PushInv, [PushNext]_pushVars PROVE PushInv'
  OBVIOUS
<1>1. CASE PushSecond \/ UNCHANGED pushVars
  <2>1. UNCHANGED <<pushSource, lensSees, visit, spell, pushed, pushLink, lastAlarm, pushSeen, pushShown,
                    persons, excused, renewals, pushTrouble>>
    BY <1>1 DEF PushSecond, pushVars, sourceVars
  <2>2. pushNow' \in Nat /\ pushNow' >= pushNow /\ pushNow \in Nat /\ pushSeen \in Nat /\ pushSeen <= pushNow
    BY <1>1 DEF PushSecond, pushVars, sourceVars, PushInv, PushTyped
  <2>3. pushSeen <= pushNow'
    BY <2>2
  <2>4. PushTyped'
    BY <2>1, <2>2, <2>3 DEF PushInv, PushTyped
  <2>5. \A i \in 1..Len(pushed) : pushed[i].at \in Nat
    <3> TAKE i \in 1..Len(pushed)
    <3>1. pushed[i] \in PushedAlarms
      BY ElementOfSeq DEF PushInv, PushTyped
    <3> QED
      BY <3>1 DEF PushedAlarms
  <2>6. TimesInv'
    <3> SUFFICES ASSUME NEW i \in 1..Len(pushed) PROVE pushed[i].at <= pushNow'
      BY <2>1 DEF TimesInv
    <3>1. pushed[i].at <= pushNow /\ pushed[i].at \in Nat
      BY <2>5 DEF PushInv, TimesInv
    <3> QED
      BY <2>2, <3>1
  <2>7. AlarmInv'
    <3>1. CASE lastAlarm = NoAlarm
      BY <2>1, <3>1 DEF AlarmInv
    <3>2. CASE lastAlarm \in PushedAlarms /\ lastAlarm.at <= pushNow
      <4>1. lastAlarm.at \in Nat
        BY <3>2 DEF PushedAlarms
      <4>2. lastAlarm.at <= pushNow'
        BY <2>2, <3>2, <4>1
      <4> QED
        BY <2>1, <3>2, <4>2 DEF AlarmInv
    <3> QED
      BY <3>1, <3>2 DEF PushInv, AlarmInv
  <2>8. SpellInv'
    BY <2>1 DEF PushInv, SpellInv, Settled, PersonsIn
  <2>9. SettledInv'
    BY <2>1 DEF PushInv, SettledInv, Settled, PersonsIn
  <2>10. OnceInv'
    <3>1. \A w : ToldTimes(w)' = ToldTimes(w)
      BY <2>1 DEF ToldTimes, PersonsIn
    <3> QED
      BY <2>1, <3>1 DEF PushInv, OnceInv
  <2> QED
    BY <2>4, <2>6, <2>7, <2>8, <2>9, <2>10 DEF PushInv
<1> QED
  BY <1>1, PushLensStep, PushRepeatStep, SubscriptionStep, ClientStep, QueuePolledStep, AlarmPolledStep
     DEF PushNext

(* A visit whose people were shown is told as a person's unless its event was    *)
(* lost on the way, and once per subscription (reolink.py, alarminfo.py).        *)
THEOREM PersonToldOnceCorrect == PushSpec => [](PushTypeOK /\ PersonIsTold /\ PersonToldOnce)
<1>1. PushSpec => []PushInv
  BY PushInitInv, PushStep, PTL DEF PushSpec
<1> QED
  BY <1>1, PushTypes, PTL
----------------------------------------------------------------------------
(* The MQTT bridge *)

Messages == [topic : Topics, value : Payloads]
PostSteps == {"top", "expire", "link", "resync", "drain", "publish"}

BridgeTyped ==
  /\ cache \in [Topics -> Payloads] /\ retained \in [Topics -> Payloads]
  /\ posts \in Seq(Messages) /\ Len(posts) <= BridgeQueue /\ missed \subseteq Topics
  /\ outgoing \in Seq(Messages) /\ Len(outgoing) <= 2 /\ (outgoing # <<>> => postAt = "publish")
PulsesInv ==
  /\ offAt \in {"no", "pending", "due"}
  /\ hookAt = "armed" => offAt = "pending"
  /\ expiring => postAt = "expire"
  /\ PulseEnds

(* The last message of a topic that waits, and what the broker keeps where none *)
(* does, is what the cache holds of a topic shown since the start.             *)
LastIn(s, t, v) ==
  \E n \in 1..Len(s) : s[n].topic = t /\ s[n].value = v /\ \A m \in 1..Len(s) : m > n => s[m].topic # t
Silent(s, t) == \A n \in 1..Len(s) : s[n].topic # t
OnItsWay(s, t, v, otherwise) == LastIn(s, t, v) \/ (Silent(s, t) /\ otherwise)
WillSay(t) ==
  OnItsWay(posts, t, cache[t], OnItsWay(outgoing, t, cache[t], retained[t] = cache[t]))
SessionInv ==
  sessionAt = "ready" /\ ~renewed /\ ~cut
    => \A t \in Topics \ missed : cache[t] # "none" => WillSay(t)

BridgeInv == BridgeTyped /\ PulsesInv /\ SessionInv

LEMMA BridgeTypes == BridgeInv => BridgeTypeOK /\ BridgeHeals /\ PulseEnds
<1> SUFFICES ASSUME BridgeInv PROVE BridgeTypeOK /\ BridgeHeals /\ PulseEnds
  OBVIOUS
<1>1. BridgeTypeOK
  BY DEF BridgeInv, BridgeTyped, BridgeTypeOK
<1>2. BridgeHeals
  <2> SUFFICES ASSUME sessionAt = "ready", ~renewed, ~cut, postAt \in {"top", "expire", "link"},
                      posts = <<>>, NEW t \in Topics \ missed, cache[t] # "none"
               PROVE  retained[t] = cache[t]
    BY DEF BridgeHeals
  <2>1. outgoing = <<>>
    BY DEF BridgeInv, BridgeTyped
  <2> QED
    BY <2>1 DEF BridgeInv, SessionInv, WillSay, OnItsWay, LastIn
<1> QED
  BY <1>1, <1>2 DEF BridgeInv, PulsesInv

LEMMA BridgeInitInv == BridgeInit => BridgeInv
  BY BridgeAssumption DEF BridgeInit, BridgeInv, BridgeTyped, PulsesInv, PulseEnds, SessionInv,
     Messages, Payloads, NoTopics, Topics

(* Where a message is added, taken or replaced, what will be said follows.     *)
LEMMA SaidAppended ==
  ASSUME NEW s \in Seq(Messages), NEW m \in Messages, NEW t, NEW v
  PROVE  /\ Append(s, m) \in Seq(Messages) /\ Len(Append(s, m)) = Len(s) + 1
         /\ m.topic = t => LastIn(Append(s, m), t, m.value)
         /\ m.topic # t => (LastIn(Append(s, m), t, v) <=> LastIn(s, t, v))
                           /\ (Silent(Append(s, m), t) <=> Silent(s, t))
<1> DEFINE a == Append(s, m)
<1>1. /\ a \in Seq(Messages) /\ Len(a) = Len(s) + 1 /\ a[Len(s) + 1] = m
      /\ \A n \in 1..Len(s) : a[n] = s[n]
      /\ Len(s) \in Nat
  BY AppendProperties
<1> HIDE DEF a
<1>2. m.topic = t => LastIn(a, t, m.value)
  <2> SUFFICES ASSUME m.topic = t PROVE LastIn(a, t, m.value)
    OBVIOUS
  <2>1. Len(s) + 1 \in 1..Len(a) /\ a[Len(s) + 1].topic = t /\ a[Len(s) + 1].value = m.value
    BY <1>1
  <2>2. \A k \in 1..Len(a) : ~(k > Len(s) + 1)
    BY <1>1
  <2> QED
    BY <2>1, <2>2 DEF LastIn
<1>3. m.topic # t => (LastIn(a, t, v) <=> LastIn(s, t, v)) /\ (Silent(a, t) <=> Silent(s, t))
  <2> SUFFICES ASSUME m.topic # t
               PROVE  (LastIn(a, t, v) <=> LastIn(s, t, v)) /\ (Silent(a, t) <=> Silent(s, t))
    OBVIOUS
  <2>1. \A n \in 1..Len(a) : n \in 1..Len(s) \/ (n = Len(s) + 1 /\ a[n].topic # t)
    BY <1>1
  <2>2. \A n \in 1..Len(s) : n \in 1..Len(a)
    BY <1>1
  <2> QED
    BY <1>1, <2>1, <2>2 DEF LastIn, Silent
<1> QED
  BY <1>1, <1>2, <1>3 DEF a

LEMMA SaidTaken ==
  ASSUME NEW s \in Seq(Messages), s # <<>>, NEW t, NEW v
  PROVE  /\ Tail(s) \in Seq(Messages) /\ Len(Tail(s)) = Len(s) - 1 /\ Head(s) \in Messages
         /\ LastIn(s, t, v) => OnItsWay(Tail(s), t, v, Head(s).topic = t /\ Head(s).value = v)
         /\ Silent(s, t) => Silent(Tail(s), t) /\ Head(s).topic # t
         /\ LastIn(Tail(s), t, v) => LastIn(s, t, v)
<1> DEFINE a == Tail(s)
<1>1. /\ a \in Seq(Messages) /\ Len(a) = Len(s) - 1 /\ Len(s) >= 1 /\ Len(s) \in Nat
      /\ \A n \in 1..Len(a) : a[n] = s[n + 1] /\ n + 1 \in 1..Len(s)
      /\ Head(s) = s[1] /\ s[1] \in Messages /\ 1 \in 1..Len(s)
  OBVIOUS
<1> HIDE DEF a
<1>2. ASSUME LastIn(s, t, v) PROVE OnItsWay(a, t, v, s[1].topic = t /\ s[1].value = v)
  <2>1. PICK n \in 1..Len(s) : /\ s[n].topic = t /\ s[n].value = v
                               /\ \A m \in 1..Len(s) : m > n => s[m].topic # t
    BY <1>2 DEF LastIn
  <2>2. CASE n = 1
    <3>1. \A m \in 1..Len(a) : m + 1 > 1
      BY <1>1
    <3> QED
      BY <1>1, <2>1, <2>2, <3>1 DEF OnItsWay, Silent
  <2>3. CASE n # 1
    <3>1. n - 1 \in 1..Len(a) /\ a[n - 1] = s[n]
      BY <1>1, <2>3
    <3>2. \A m \in 1..Len(a) : m > n - 1 => m + 1 > n
      BY <1>1
    <3> QED
      BY <1>1, <2>1, <3>1, <3>2 DEF OnItsWay, LastIn
  <2> QED
    BY <2>2, <2>3
<1>3. Silent(s, t) => Silent(a, t) /\ s[1].topic # t
  BY <1>1 DEF Silent
<1>4. ASSUME LastIn(a, t, v) PROVE LastIn(s, t, v)
  <2>1. PICK n \in 1..Len(a) : /\ a[n].topic = t /\ a[n].value = v
                               /\ \A m \in 1..Len(a) : m > n => a[m].topic # t
    BY <1>4 DEF LastIn
  <2>2. \A m \in 1..Len(s) : m > n + 1 => m - 1 \in 1..Len(a) /\ m - 1 > n /\ a[m - 1] = s[m]
    BY <1>1
  <2>3. n + 1 \in 1..Len(s) /\ s[n + 1].topic = t /\ s[n + 1].value = v
    BY <1>1, <2>1
  <2>4. \A m \in 1..Len(s) : m > n + 1 => s[m].topic # t
    BY <2>1, <2>2
  <2> QED
    BY <2>3, <2>4 DEF LastIn
<1> QED
  BY <1>1, <1>2, <1>3, <1>4 DEF a

(* SetTopic keeps the cache, the queue and what will be said together.         *)
LEMMA TopicSet ==
  ASSUME BridgeInv, NEW t \in Topics, NEW value \in Payloads, SetTopic(t, value),
         outgoing' = outgoing, retained' = retained,
         sessionAt' = sessionAt, renewed' = renewed, cut' = cut,
         outgoing # <<>> => postAt' = "publish"
  PROVE  BridgeTyped' /\ SessionInv' /\ cache' = [cache EXCEPT ![t] = value]
<1> DEFINE m == [topic |-> t, value |-> value]
<1>0. BridgeTyped /\ SessionInv /\ m \in Messages /\ m.topic = t /\ m.value = value
  BY DEF BridgeInv, Messages
<1>c. cache \in [Topics -> Payloads] /\ posts \in Seq(Messages) /\ Len(posts) \in Nat
  BY <1>0 DEF BridgeTyped
<1>1. CASE cache[t] = value
  <2>1. UNCHANGED hookVars
    BY <1>1 DEF SetTopic
  <2>2. cache' = cache /\ posts' = posts /\ missed' = missed
    BY <2>1 DEF hookVars
  <2>3. cache' = [cache EXCEPT ![t] = value]
    BY <1>1, <1>c, <2>2
  <2>4. SessionInv'
    BY <1>0, <2>2 DEF SessionInv, WillSay
  <2> QED
    BY <1>0, <2>2, <2>3, <2>4 DEF BridgeTyped
<1>2. CASE cache[t] # value /\ Len(posts) < BridgeQueue
  <2>1. /\ cache' = [cache EXCEPT ![t] = value] /\ posts' = Append(posts, m) /\ missed' = missed
    BY <1>2 DEF SetTopic
  <2>2. posts' \in Seq(Messages) /\ Len(posts') = Len(posts) + 1
    BY <1>0, <1>c, <2>1, SaidAppended
  <2>3. Len(posts') <= BridgeQueue
    BY <1>2, <1>c, <2>2, BridgeAssumption
  <2>4. BridgeTyped'
    BY <1>0, <2>1, <2>2, <2>3 DEF BridgeTyped
  <2>5. SessionInv'
    <3> SUFFICES ASSUME sessionAt = "ready" /\ ~renewed /\ ~cut, NEW u \in Topics \ missed,
                        cache'[u] # "none"
                 PROVE  WillSay(u)'
      BY <2>1 DEF SessionInv
    <3>1. CASE u = t
      <4>1. LastIn(posts', u, cache'[u])
        BY <1>0, <1>c, <2>1, <3>1, SaidAppended
      <4> QED
        BY <4>1 DEF WillSay, OnItsWay
    <3>2. CASE u # t
      <4>1. WillSay(u) /\ cache'[u] = cache[u]
        BY <1>0, <1>c, <2>1, <3>2 DEF SessionInv
      <4>2. /\ LastIn(posts', u, cache[u]) <=> LastIn(posts, u, cache[u])
            /\ Silent(posts', u) <=> Silent(posts, u)
        BY <1>0, <1>c, <2>1, <3>2, SaidAppended
      <4> QED
        BY <4>1, <4>2 DEF WillSay, OnItsWay
    <3> QED
      BY <3>1, <3>2
  <2> QED
    BY <2>1, <2>4, <2>5
<1>3. CASE cache[t] # value /\ ~(Len(posts) < BridgeQueue)
  <2>1. /\ cache' = [cache EXCEPT ![t] = value] /\ posts' = Append(Tail(posts), m)
        /\ missed' = missed \cup {Head(posts).topic} /\ posts # <<>>
    BY <1>3, BridgeAssumption DEF SetTopic
  <2>2. /\ Tail(posts) \in Seq(Messages) /\ Len(Tail(posts)) = Len(posts) - 1
        /\ Head(posts) \in Messages
    BY <1>c, <2>1, SaidTaken
  <2>3. posts' \in Seq(Messages) /\ Len(posts') = Len(posts)
    BY <1>0, <1>c, <2>1, <2>2, SaidAppended
  <2>4. BridgeTyped'
    BY <1>0, <2>1, <2>2, <2>3 DEF BridgeTyped, Messages
  <2>5. SessionInv'
    <3> SUFFICES ASSUME sessionAt = "ready" /\ ~renewed /\ ~cut, NEW u \in Topics \ missed',
                        cache'[u] # "none"
                 PROVE  WillSay(u)'
      BY DEF SessionInv
    <3>1. CASE u = t
      <4>1. LastIn(posts', u, cache'[u])
        BY <1>0, <1>c, <2>1, <2>2, <3>1, SaidAppended
      <4> QED
        BY <4>1 DEF WillSay, OnItsWay
    <3>2. CASE u # t
      <4>1. WillSay(u) /\ cache'[u] = cache[u] /\ Head(posts).topic # u
        BY <1>0, <1>c, <2>1, <3>2 DEF SessionInv
      <4>2. /\ LastIn(posts', u, cache[u]) <=> LastIn(Tail(posts), u, cache[u])
            /\ Silent(posts', u) <=> Silent(Tail(posts), u)
        BY <1>0, <1>c, <2>1, <2>2, <3>2, SaidAppended
      <4>3. /\ LastIn(posts, u, cache[u]) => LastIn(Tail(posts), u, cache[u])
            /\ Silent(posts, u) => Silent(Tail(posts), u)
        BY <1>c, <2>1, <4>1, SaidTaken DEF OnItsWay
      <4> QED
        BY <4>1, <4>2, <4>3 DEF WillSay, OnItsWay
    <3> QED
      BY <3>1, <3>2
  <2> QED
    BY <2>1, <2>4, <2>5
<1> QED
  BY <1>1, <1>2, <1>3

(* What touches neither the messages nor the session keeps what will be said.  *)
LEMMA SessionFrame ==
  ASSUME BridgeInv, UNCHANGED hookVars, outgoing' = outgoing, retained' = retained,
         sessionAt' = sessionAt, renewed' = renewed, cut' = cut,
         outgoing # <<>> => postAt' = "publish"
  PROVE  BridgeTyped' /\ SessionInv' /\ cache' = cache
<1>1. cache' = cache /\ posts' = posts /\ missed' = missed
  BY DEF hookVars
<1>2. SessionInv'
  BY <1>1 DEF BridgeInv, SessionInv, WillSay
<1> QED
  BY <1>1, <1>2 DEF BridgeInv, BridgeTyped

LEMMA PulseWasArmed == BridgeInv /\ PulseArmed => BridgeInv'
<1> SUFFICES ASSUME BridgeInv, PulseArmed PROVE BridgeInv'
  OBVIOUS
<1>0. /\ offAt' = "pending" /\ UNCHANGED hookVars /\ outgoing' = outgoing /\ retained' = retained
      /\ sessionAt' = sessionAt /\ renewed' = renewed /\ cut' = cut /\ postAt' = postAt
      /\ expiring' = expiring
      /\ outgoing # <<>> => postAt = "publish"
  BY DEF PulseArmed, linkStateVars, BridgeInv, BridgeTyped
<1>1. BridgeTyped' /\ SessionInv' /\ cache' = cache
  BY <1>0, SessionFrame
<1>2. PulsesInv'
  BY <1>0, <1>1 DEF BridgeInv, PulsesInv, PulseEnds
<1> QED
  BY <1>1, <1>2 DEF BridgeInv

LEMMA PulseWasShown == BridgeInv /\ PulseShown => BridgeInv'
<1> SUFFICES ASSUME BridgeInv, PulseShown PROVE BridgeInv'
  OBVIOUS
<1>0. /\ hookAt = "armed" /\ hookAt' = "out" /\ SetTopic("person", "ON")
      /\ offAt' = offAt /\ outgoing' = outgoing /\ retained' = retained
      /\ sessionAt' = sessionAt /\ renewed' = renewed /\ cut' = cut /\ postAt' = postAt
      /\ expiring' = expiring
      /\ outgoing # <<>> => postAt = "publish"
  BY DEF PulseShown, linkStateVars, BridgeInv, BridgeTyped
<1>1. BridgeTyped' /\ SessionInv'
  BY <1>0, TopicSet DEF Topics, Payloads
<1>2. PulsesInv'
  BY <1>0 DEF BridgeInv, PulsesInv, PulseEnds
<1> QED
  BY <1>1, <1>2 DEF BridgeInv

LEMMA WasObserved == BridgeInv /\ Observed => BridgeInv'
<1> SUFFICES ASSUME BridgeInv, Observed PROVE BridgeInv'
  OBVIOUS
<1>0. /\ offAt' = offAt /\ outgoing' = outgoing /\ retained' = retained /\ hookAt' = hookAt
      /\ sessionAt' = sessionAt /\ renewed' = renewed /\ cut' = cut /\ postAt' = postAt
      /\ expiring' = expiring
      /\ outgoing # <<>> => postAt = "publish"
      /\ cache \in [Topics -> Payloads]
  BY DEF Observed, linkStateVars, BridgeInv, BridgeTyped
<1>1. PICK value \in Levels : SetTopic("health", value)
  BY DEF Observed
<1>2. BridgeTyped' /\ SessionInv' /\ cache' = [cache EXCEPT !["health"] = value]
  BY <1>0, <1>1, TopicSet DEF Topics, Payloads
<1>3. cache'["person"] = cache["person"]
  BY <1>0, <1>2 DEF Topics
<1>4. PulsesInv'
  BY <1>0, <1>3 DEF BridgeInv, PulsesInv, PulseEnds
<1> QED
  BY <1>2, <1>4 DEF BridgeInv

LEMMA PulseIsDue == BridgeInv /\ PulseDue => BridgeInv'
<1> SUFFICES ASSUME BridgeInv, PulseDue PROVE BridgeInv'
  OBVIOUS
<1>0. /\ offAt' = "due" /\ hookAt = "out" /\ hookAt' = "out" /\ UNCHANGED hookVars
      /\ outgoing' = outgoing /\ retained' = retained
      /\ sessionAt' = sessionAt /\ renewed' = renewed /\ cut' = cut /\ postAt' = postAt
      /\ expiring' = expiring
      /\ outgoing # <<>> => postAt = "publish"
  BY DEF PulseDue, linkStateVars, BridgeInv, BridgeTyped
<1>1. BridgeTyped' /\ SessionInv' /\ cache' = cache
  BY <1>0, SessionFrame
<1>2. PulsesInv'
  BY <1>0, <1>1 DEF BridgeInv, PulsesInv, PulseEnds
<1> QED
  BY <1>1, <1>2 DEF BridgeInv

LEMMA PulsesWereTaken == BridgeInv /\ PulsesTaken => BridgeInv'
<1> SUFFICES ASSUME BridgeInv, PulsesTaken PROVE BridgeInv'
  OBVIOUS
<1>0. /\ postAt = "top" /\ postAt' = "expire" /\ UNCHANGED hookVars /\ hookAt' = hookAt
      /\ expiring' = (offAt = "due") /\ offAt' = IF offAt = "due" THEN "no" ELSE offAt
      /\ outgoing' = outgoing /\ retained' = retained
      /\ sessionAt' = sessionAt /\ renewed' = renewed /\ cut' = cut
      /\ outgoing = <<>>
  BY DEF PulsesTaken, linkStateVars, BridgeInv, BridgeTyped
<1>1. BridgeTyped' /\ SessionInv' /\ cache' = cache
  BY <1>0, SessionFrame
<1>2. PulsesInv'
  <2>1. ~expiring
    BY <1>0 DEF BridgeInv, PulsesInv
  <2> QED
    BY <1>0, <1>1, <2>1 DEF BridgeInv, PulsesInv, PulseEnds
<1> QED
  BY <1>1, <1>2 DEF BridgeInv

LEMMA PulsesHaveEnded == BridgeInv /\ PulsesEnded => BridgeInv'
<1> SUFFICES ASSUME BridgeInv, PulsesEnded PROVE BridgeInv'
  OBVIOUS
<1>0. /\ postAt = "expire" /\ postAt' = "link" /\ expiring' = FALSE /\ hookAt' = hookAt
      /\ offAt' = offAt /\ outgoing' = outgoing /\ retained' = retained
      /\ sessionAt' = sessionAt /\ renewed' = renewed /\ cut' = cut
      /\ outgoing = <<>> /\ cache \in [Topics -> Payloads]
  BY DEF PulsesEnded, linkStateVars, BridgeInv, BridgeTyped
<1>1. CASE expiring
  <2>1. SetTopic("person", "OFF")
    BY <1>1 DEF PulsesEnded
  <2>2. BridgeTyped' /\ SessionInv' /\ cache' = [cache EXCEPT !["person"] = "OFF"]
    BY <1>0, <2>1, TopicSet DEF Topics, Payloads
  <2>3. cache'["person"] = "OFF"
    BY <1>0, <2>2 DEF Topics
  <2>4. PulsesInv'
    BY <1>0, <2>3 DEF BridgeInv, PulsesInv, PulseEnds
  <2> QED
    BY <2>2, <2>4 DEF BridgeInv
<1>2. CASE ~expiring
  <2>1. BridgeTyped' /\ SessionInv' /\ cache' = cache
    BY <1>0, <1>2, SessionFrame DEF PulsesEnded
  <2>2. PulsesInv'
    BY <1>0, <1>2, <2>1 DEF BridgeInv, PulsesInv, PulseEnds
  <2> QED
    BY <2>1, <2>2 DEF BridgeInv
<1> QED
  BY <1>1, <1>2

(* The pulses are none of the connection's business.                           *)
LEMMA PulsesFrame ==
  ASSUME BridgeInv, offAt' = offAt, hookAt' = hookAt, expiring' = expiring, cache' = cache,
         postAt # "expire"
  PROVE  PulsesInv'
  BY DEF BridgeInv, PulsesInv, PulseEnds

LEMMA LinkHasTurned == BridgeInv /\ LinkTurn => BridgeInv'
<1> SUFFICES ASSUME BridgeInv, LinkTurn PROVE BridgeInv'
  OBVIOUS
<1>0. /\ postAt = "link" /\ outgoing = <<>>
      /\ cache' = cache /\ posts' = posts /\ missed' = missed /\ retained' = retained
      /\ offAt' = offAt /\ hookAt' = hookAt /\ expiring' = expiring
  BY DEF LinkTurn, hookVars, BridgeInv, BridgeTyped
<1>1. /\ outgoing' = <<>>
      /\ \/ sessionAt' # "ready" \/ renewed'
         \/ sessionAt' = sessionAt /\ renewed' = renewed /\ cut' = cut
  BY <1>0 DEF LinkTurn, SessionFailed, linkStateVars
<1>2. BridgeTyped'
  BY <1>0, <1>1 DEF BridgeInv, BridgeTyped
<1>3. SessionInv'
  BY <1>0, <1>1 DEF BridgeInv, SessionInv, WillSay
<1>4. PulsesInv'
  BY <1>0, PulsesFrame
<1> QED
  BY <1>2, <1>3, <1>4 DEF BridgeInv

LEMMA PairJoined ==
  ASSUME NEW S, NEW a \in S, NEW b \in S
  PROVE  <<a>> \o <<b>> = <<a, b>>
<1>1. /\ <<a>> \in Seq(S) /\ <<b>> \in Seq(S) /\ <<a, b>> \in Seq(S)
      /\ Len(<<a>>) = 1 /\ Len(<<b>>) = 1 /\ Len(<<a, b>>) = 2
  OBVIOUS
<1>2. /\ <<a>> \o <<b>> \in Seq(S) /\ Len(<<a>> \o <<b>>) = 2
      /\ (<<a>> \o <<b>>)[1] = a /\ (<<a>> \o <<b>>)[2] = b
  BY <1>1, ConcatProperties
<1> DEFINE j == <<a>> \o <<b>>
           k == <<a, b>>
<1>3. k[1] = a /\ k[2] = b /\ k \in Seq(S) /\ Len(k) = 2
  BY <1>1
<1>4. j \in Seq(S) /\ Len(j) = 2 /\ j[1] = a /\ j[2] = b
  BY <1>2
<1> HIDE DEF j, k
<1>5. Len(j) = Len(k) /\ \A i \in 1..Len(j) : j[i] = k[i]
  BY <1>3, <1>4
<1>6. j = k
  BY <1>3, <1>4, <1>5, SeqEqual
<1> QED
  BY <1>6 DEF j, k

LEMMA SecondOfTwo ==
  ASSUME NEW n \in Nat, n <= 2, NEW m \in 1..n, m > 1
  PROVE  m = 2 /\ n = 2
  OBVIOUS

LEMMA HasResynced == BridgeInv /\ Resync => BridgeInv'
<1> SUFFICES ASSUME BridgeInv, Resync PROVE BridgeInv'
  OBVIOUS
<1>0. /\ postAt = "resync" /\ postAt' = "publish" /\ posts' = <<>> /\ missed' = {}
      /\ outgoing' = Shown("person") \o Shown("health") /\ cache' = cache /\ retained' = retained
      /\ offAt' = offAt /\ hookAt' = hookAt /\ expiring' = expiring
  BY DEF Resync, Resynced, AllTopics
<1> DEFINE p == [topic |-> "person", value |-> cache["person"]]
           h == [topic |-> "health", value |-> cache["health"]]
<1>1. p \in Messages /\ h \in Messages /\ p.topic = "person" /\ h.topic = "health"
  BY DEF BridgeInv, BridgeTyped, Messages, Topics
<1>2. /\ Shown("person") = IF cache["person"] = "none" THEN <<>> ELSE <<p>>
      /\ Shown("health") = IF cache["health"] = "none" THEN <<>> ELSE <<h>>
  BY DEF Shown
<1> HIDE DEF p, h
<1>a. /\ outgoing' \in Seq(Messages) /\ Len(outgoing') <= 2
      /\ cache["person"] # "none" =>
           Len(outgoing') >= 1 /\ outgoing'[1] = p
             /\ (Len(outgoing') = 2 => outgoing'[2] = h)
      /\ cache["health"] # "none" => Len(outgoing') >= 1 /\ outgoing'[Len(outgoing')] = h
  <2>1. CASE cache["person"] = "none" /\ cache["health"] = "none"
    <3>1. outgoing' = <<>>
      BY <1>0, <1>2, <2>1
    <3> QED
      BY <2>1, <3>1
  <2>2. CASE cache["person"] = "none" /\ cache["health"] # "none"
    <3>1. outgoing' = <<h>>
      <4>1. Shown("person") = <<>> /\ Shown("health") = <<h>>
        BY <1>2, <2>2
      <4>2. <<>> \o <<h>> = <<h>>
        BY <1>1
      <4> QED
        BY <1>0, <4>1, <4>2
    <3> QED
      BY <1>1, <2>2, <3>1
  <2>3. CASE cache["person"] # "none" /\ cache["health"] = "none"
    <3>1. outgoing' = <<p>>
      <4>1. Shown("person") = <<p>> /\ Shown("health") = <<>>
        BY <1>2, <2>3
      <4>2. <<p>> \o <<>> = <<p>>
        BY <1>1
      <4> QED
        BY <1>0, <4>1, <4>2
    <3> QED
      BY <1>1, <2>3, <3>1
  <2>4. CASE cache["person"] # "none" /\ cache["health"] # "none"
    <3>1. outgoing' = <<p, h>>
      <4>1. Shown("person") = <<p>> /\ Shown("health") = <<h>>
        BY <1>2, <2>4
      <4>2. <<p>> \o <<h>> = <<p, h>>
        BY <1>1, PairJoined
      <4> QED
        BY <1>0, <4>1, <4>2
    <3> QED
      BY <1>1, <2>4, <3>1
  <2> QED
    BY <2>1, <2>2, <2>3, <2>4
<1>3. BridgeTyped'
  BY <1>0, <1>a, BridgeAssumption DEF BridgeInv, BridgeTyped
<1>4. ASSUME NEW t \in Topics, cache[t] # "none" PROVE LastIn(outgoing', t, cache[t])
  <2>l. Len(outgoing') \in Nat
    BY <1>a
  <2>1. CASE t = "person"
    <3>1. 1 \in 1..Len(outgoing') /\ outgoing'[1].topic = t /\ outgoing'[1].value = cache[t]
      BY <1>4, <1>a, <2>1, <2>l DEF p
    <3>2. \A m \in 1..Len(outgoing') : m > 1 => outgoing'[m].topic # t
      <4> SUFFICES ASSUME NEW m \in 1..Len(outgoing'), m > 1 PROVE outgoing'[m].topic # t
        OBVIOUS
      <4>l. Len(outgoing') <= 2
        BY <1>a
      <4>1. m = 2 /\ Len(outgoing') = 2
        BY <2>l, <4>l, SecondOfTwo
      <4> QED
        BY <1>1, <1>4, <1>a, <2>1, <4>1
    <3> QED
      BY <3>1, <3>2 DEF LastIn
  <2>2. CASE t = "health"
    <3>1. /\ Len(outgoing') \in 1..Len(outgoing')
          /\ outgoing'[Len(outgoing')].topic = t /\ outgoing'[Len(outgoing')].value = cache[t]
      BY <1>4, <1>a, <2>2, <2>l DEF h
    <3>2. \A m \in 1..Len(outgoing') : ~(m > Len(outgoing'))
      BY <2>l
    <3> QED
      BY <3>1, <3>2 DEF LastIn
  <2> QED
    BY <2>1, <2>2 DEF Topics
<1>5. \A t \in Topics : Silent(posts', t)
  BY <1>0 DEF Silent
<1>6. SessionInv'
  BY <1>0, <1>4, <1>5 DEF SessionInv, WillSay, OnItsWay
<1>7. PulsesInv'
  BY <1>0, PulsesFrame
<1> QED
  BY <1>3, <1>6, <1>7 DEF BridgeInv

LEMMA HasDrained == BridgeInv /\ DrainTurn => BridgeInv'
<1> SUFFICES ASSUME BridgeInv, DrainTurn PROVE BridgeInv'
  OBVIOUS
<1>0. /\ postAt = "drain" /\ outgoing = <<>>
      /\ cache' = cache /\ missed' = missed /\ retained' = retained
      /\ offAt' = offAt /\ hookAt' = hookAt /\ expiring' = expiring
      /\ sessionAt' = sessionAt /\ renewed' = renewed /\ cut' = cut
      /\ posts \in Seq(Messages) /\ Len(posts) \in Nat
  BY DEF DrainTurn, linkStateVars, BridgeInv, BridgeTyped
<1>1. PulsesInv'
  BY <1>0, PulsesFrame
<1>2. CASE posts = <<>>
  <2>1. UNCHANGED hookVars /\ outgoing' = outgoing
    BY <1>0, <1>2 DEF DrainTurn, hookVars
  <2> QED
    BY <1>0, <1>1, <2>1, SessionFrame DEF BridgeInv
<1>3. CASE posts # <<>>
  <2>1. postAt' = "publish" /\ outgoing' = <<Head(posts)>> /\ posts' = Tail(posts)
    BY <1>3 DEF DrainTurn
  <2>2. posts' \in Seq(Messages) /\ Len(posts') = Len(posts) - 1 /\ Head(posts) \in Messages
    BY <1>0, <1>3, <2>1, SaidTaken
  <2>3. outgoing' \in Seq(Messages) /\ Len(outgoing') = 1 /\ outgoing'[1] = Head(posts)
    BY <2>1, <2>2
  <2>4. BridgeTyped'
    BY <1>0, <2>1, <2>2, <2>3, BridgeAssumption DEF BridgeInv, BridgeTyped
  <2>5. ASSUME NEW t \in Topics, WillSay(t) PROVE WillSay(t)'
    <3>1. Silent(outgoing, t) /\ ~LastIn(outgoing, t, cache[t])
      BY <1>0 DEF Silent, LastIn
    <3>2. LastIn(posts, t, cache[t]) \/ (Silent(posts, t) /\ retained[t] = cache[t])
      BY <2>5, <3>1 DEF WillSay, OnItsWay
    <3>3. CASE LastIn(posts, t, cache[t])
      <4>1. \/ LastIn(posts', t, cache[t])
            \/ Silent(posts', t) /\ Head(posts).topic = t /\ Head(posts).value = cache[t]
        BY <1>0, <1>3, <2>1, <3>3, SaidTaken DEF OnItsWay
      <4>2. Head(posts).topic = t /\ Head(posts).value = cache[t] => LastIn(outgoing', t, cache[t])
        BY <2>3 DEF LastIn
      <4> QED
        BY <1>0, <4>1, <4>2 DEF WillSay, OnItsWay
    <3>4. CASE Silent(posts, t) /\ retained[t] = cache[t]
      <4>1. Silent(posts', t) /\ Head(posts).topic # t
        BY <1>0, <1>3, <2>1, <3>4, SaidTaken
      <4>2. Silent(outgoing', t)
        BY <2>3, <4>1 DEF Silent
      <4> QED
        BY <1>0, <3>4, <4>1, <4>2 DEF WillSay, OnItsWay
    <3> QED
      BY <3>2, <3>3, <3>4
  <2>6. SessionInv'
    BY <1>0, <2>5 DEF BridgeInv, SessionInv
  <2> QED
    BY <1>1, <2>4, <2>6 DEF BridgeInv
<1> QED
  BY <1>2, <1>3

LEMMA HasPublished == BridgeInv /\ Publish => BridgeInv'
<1> SUFFICES ASSUME BridgeInv, Publish PROVE BridgeInv'
  OBVIOUS
<1>0. /\ postAt = "publish" /\ cache' = cache /\ posts' = posts
      /\ offAt' = offAt /\ hookAt' = hookAt /\ expiring' = expiring
      /\ outgoing \in Seq(Messages) /\ Len(outgoing) \in Nat /\ Len(outgoing) <= 2
      /\ BridgeTyped /\ retained \in [Topics -> Payloads]
  BY DEF Publish, BridgeInv, BridgeTyped
<1>1. PulsesInv'
  BY <1>0, PulsesFrame
<1>2. CASE outgoing = <<>>
  <2>1. /\ UNCHANGED hookVars /\ outgoing' = outgoing /\ retained' = retained
        /\ sessionAt' = sessionAt /\ renewed' = renewed /\ cut' = cut
    BY <1>0, <1>2 DEF Publish, linkStateVars, hookVars
  <2> QED
    BY <1>1, <1>2, <2>1, SessionFrame DEF BridgeInv
<1>3. CASE outgoing # <<>> /\ outgoing' = Tail(outgoing) /\ UNCHANGED <<linkStateVars, postAt>>
  <2> DEFINE m == Head(outgoing)
  <2>0. /\ sessionAt' = sessionAt /\ renewed' = renewed /\ cut' = cut /\ postAt' = postAt
    BY <1>3 DEF linkStateVars
  <2>1. /\ outgoing' \in Seq(Messages) /\ Len(outgoing') = Len(outgoing) - 1 /\ m \in Messages
    BY <1>0, <1>3, SaidTaken
  <2>2. \/ missed' = missed /\ retained' = IF cut THEN retained ELSE [retained EXCEPT ![m.topic] = m.value]
        \/ missed' = missed \cup {m.topic} /\ retained' = retained
        \/ sessionAt' = "closed"
    BY <1>3 DEF Publish, SessionFailed
  <2>t. m.topic \in Topics /\ m.value \in Payloads
    BY <2>1 DEF Messages
  <2>3. retained' \in [Topics -> Payloads] /\ missed' \subseteq Topics
    <3>1. \/ missed' = missed /\ retained' \in {retained, [retained EXCEPT ![m.topic] = m.value]}
          \/ missed' = missed \cup {m.topic} /\ retained' = retained
          \/ UNCHANGED <<retained, missed>>
      BY <1>3 DEF Publish
    <3> QED
      BY <1>0, <2>t, <3>1 DEF BridgeTyped
  <2>4. BridgeTyped'
    BY <1>0, <2>0, <2>1, <2>3 DEF BridgeTyped
  <2>5. SessionInv'
    <3> SUFFICES ASSUME sessionAt = "ready" /\ ~renewed /\ ~cut, NEW t \in Topics \ missed',
                        cache[t] # "none"
                 PROVE  WillSay(t)'
      BY <1>0, <2>0 DEF SessionInv
    <3>1. /\ \/ missed' = missed /\ retained' = [retained EXCEPT ![m.topic] = m.value]
             \/ missed' = missed \cup {m.topic} /\ retained' = retained
          /\ t \notin missed
      BY <2>0, <2>2
    <3>2. WillSay(t)
      BY <3>1 DEF BridgeInv, SessionInv
    <3>3. CASE LastIn(posts, t, cache[t])
      BY <1>0, <3>3 DEF WillSay, OnItsWay
    <3>4. CASE Silent(posts, t) /\ LastIn(outgoing, t, cache[t])
      <4>1. \/ LastIn(outgoing', t, cache[t])
            \/ Silent(outgoing', t) /\ m.topic = t /\ m.value = cache[t]
        BY <1>0, <1>3, <3>4, SaidTaken DEF OnItsWay
      <4>2. m.topic = t /\ m.value = cache[t] => retained'[t] = cache[t]
        BY <1>0, <3>1
      <4> QED
        BY <1>0, <3>4, <4>1, <4>2 DEF WillSay, OnItsWay
    <3>5. CASE Silent(posts, t) /\ Silent(outgoing, t) /\ retained[t] = cache[t]
      <4>1. Silent(outgoing', t) /\ m.topic # t
        BY <1>0, <1>3, <3>5, SaidTaken
      <4>2. retained'[t] = cache[t]
        BY <1>0, <2>t, <3>1, <3>5, <4>1
      <4> QED
        BY <1>0, <3>5, <4>1, <4>2 DEF WillSay, OnItsWay
    <3> QED
      BY <3>2, <3>3, <3>4, <3>5 DEF WillSay, OnItsWay
  <2> QED
    BY <1>1, <2>4, <2>5 DEF BridgeInv
<1>4. CASE outgoing # <<>> /\ SessionFailed /\ UNCHANGED <<retained, missed>>
  <2>1. outgoing' = <<>> /\ sessionAt' = "closed" /\ retained' = retained /\ missed' = missed
    BY <1>4 DEF SessionFailed
  <2> QED
    BY <1>0, <1>1, <2>1 DEF BridgeInv, BridgeTyped, SessionInv
<1> QED
  BY <1>2, <1>3, <1>4 DEF Publish

LEMMA BrokerWasCut == BridgeInv /\ BrokerCut => BridgeInv'
<1> SUFFICES ASSUME BridgeInv, BrokerCut PROVE BridgeInv'
  OBVIOUS
<1>0. /\ cut' = TRUE /\ cache' = cache /\ posts' = posts /\ missed' = missed /\ postAt' = postAt
      /\ offAt' = offAt /\ hookAt' = hookAt /\ expiring' = expiring /\ outgoing' = outgoing
      /\ retained' \in {retained, NoTopics}
  BY DEF BrokerCut, hookVars
<1>1. retained' \in [Topics -> Payloads]
  BY <1>0 DEF BridgeInv, BridgeTyped, NoTopics, Payloads
<1>2. BridgeTyped' /\ SessionInv' /\ PulsesInv'
  BY <1>0, <1>1 DEF BridgeInv, BridgeTyped, SessionInv, PulsesInv, PulseEnds
<1> QED
  BY <1>2 DEF BridgeInv

LEMMA BridgeRestarted == BridgeInv /\ BridgeRestart => BridgeInv'
<1> SUFFICES ASSUME BridgeInv, BridgeRestart PROVE BridgeInv'
  OBVIOUS
<1>0. /\ cache' = NoTopics /\ posts' = <<>> /\ missed' = {} /\ offAt' = "no" /\ hookAt' = "out"
      /\ sessionAt' = "closed" /\ postAt' = "top" /\ expiring' = FALSE /\ outgoing' = <<>>
      /\ retained' = retained
  BY DEF BridgeRestart
<1>1. BridgeTyped'
  BY <1>0, BridgeAssumption DEF BridgeInv, BridgeTyped, NoTopics, Payloads
<1>2. PulsesInv'
  BY <1>0 DEF PulsesInv, PulseEnds, NoTopics, Topics
<1>3. SessionInv'
  BY <1>0 DEF SessionInv
<1> QED
  BY <1>1, <1>2, <1>3 DEF BridgeInv

LEMMA BridgeStep == BridgeInv /\ [BridgeNext]_bridgeVars => BridgeInv'
<1> SUFFICES ASSUME BridgeInv, [BridgeNext]_bridgeVars PROVE BridgeInv'
  OBVIOUS
<1>1. CASE UNCHANGED bridgeVars
  BY <1>1 DEF bridgeVars, hookVars, linkStateVars, BridgeInv, BridgeTyped, PulsesInv, PulseEnds,
     SessionInv, WillSay
<1>2. CASE BridgeNext
  BY <1>2, PulseWasArmed, PulseWasShown, WasObserved, PulseIsDue, PulsesWereTaken,
     PulsesHaveEnded, LinkHasTurned, HasResynced, HasDrained, HasPublished, BrokerWasCut,
     BridgeRestarted
     DEF BridgeNext
<1> QED
  BY <1>1, <1>2

(* With nothing left to say on a live session the broker keeps, of every topic   *)
(* shown since the start, what the cache holds, and a sensor that is on has a    *)
(* time to turn off (mqtt.py).                                                   *)
THEOREM BridgeHealsCorrect == BridgeSpec => [](BridgeTypeOK /\ BridgeHeals /\ PulseEnds)
<1>1. BridgeSpec => []BridgeInv
  BY BridgeInitInv, BridgeStep, PTL DEF BridgeSpec
<1> QED
  BY <1>1, BridgeTypes, PTL
=============================================================================
