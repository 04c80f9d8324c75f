----------------------------- MODULE Files_proofs -----------------------------
(* Proofs about the daemon's files: the photo archive, the digest, the footage   *)
(* of outages and the clips of alerts; for any number of frames, hours, cameras, *)
(* units of time, incidents and crashes.                                        *)
EXTENDS Archive, Digest, Evidence, Clips, FiniteSetTheorems, SequenceTheorems, TLAPS

----------------------------------------------------------------------------
(* The photo archive *)

(* Frames are numbered in the order they were taken.                           *)
InOrder == \E n \in 0..Frames : Taken = 1..n
Young(f) == takenAt[f] + KeepHours >= hour

(* A frame being written is as safe as one with a line, and a clean-up removes *)
(* by a time that is past.                                                     *)
FramesInv ==
  /\ InOrder
  /\ \A f \in Taken : takenAt[f] <= hour
  /\ \A w \in ArchiveWriters : writing[w] # NoPhoto =>
       (writing[w] \in Taken /\ (Young(writing[w]) => writing[w] \in onDisk))
  /\ \A f \in lines : Young(f) => f \in archived \cap onDisk
  /\ upkeep \in [step : {"idle", "prune", "scan", "swap"}, at : Nat, seen : SUBSET Taken]
  /\ upkeep.at <= hour /\ upkeep.seen \subseteq lines

(* What the hour's samples leave of the cap, restarts included.                *)
SamplesInv ==
  /\ archiveCrashes \in 0..ArchiveCrashes /\ sampled \in Nat
  /\ dropCap \in [hour : Nat, count : 0..DropsPerHour] /\ dropCap.hour <= hour
  /\ sampled <= DropsPerHour * (ArchiveCrashes - archiveCrashes) + DropsCounted

ArchiveInv == ArchiveTypeOK /\ FramesInv /\ SamplesInv

LEMMA ArchiveConstants ==
  /\ Frames \in Nat /\ Hours \in Nat /\ KeepHours \in Nat /\ RunEvery \in Nat /\ RunEvery > 0
  /\ DropsPerHour \in Nat /\ ArchiveCrashes \in Nat
  BY ArchiveAssumption

LEMMA ArchiveInitInv == ArchiveInit => ArchiveInv
<1> SUFFICES ASSUME ArchiveInit PROVE ArchiveInv
  OBVIOUS
<1> USE ArchiveConstants DEF ArchiveInit
<1>1. Taken = {} /\ Taken = 1..0
  BY DEF Taken
<1>2. ArchiveTypeOK
  BY <1>1 DEF ArchiveTypeOK, NoUpkeep, NoPhoto
<1>3. FramesInv
  <2>1. InOrder
    BY <1>1 DEF InOrder
  <2>2. upkeep.at <= hour /\ upkeep.seen \subseteq lines
    BY DEF NoUpkeep
  <2>3. upkeep \in [step : {"idle", "prune", "scan", "swap"}, at : Nat, seen : SUBSET Taken]
    BY DEF NoUpkeep
  <2> QED
    BY <1>1, <2>1, <2>2, <2>3 DEF FramesInv, NoPhoto
<1>4. SamplesInv
  BY DEF SamplesInv, DropsCounted
<1> QED
  BY <1>2, <1>3, <1>4 DEF ArchiveInv

LEMMA ArchiveStep == ArchiveInv /\ [ArchiveNext]_archiveVars => ArchiveInv'
<1> SUFFICES ASSUME ArchiveInv, [ArchiveNext]_archiveVars PROVE ArchiveInv'
  OBVIOUS
<1> USE ArchiveConstants DEF ArchiveInv
<1>a. hour \in Nat /\ hour \in 0..Hours /\ takenAt \in [1..Frames -> 0..(Hours + 1)]
  BY DEF ArchiveTypeOK
<1>b. /\ Taken \subseteq 1..Frames /\ lines \subseteq Taken /\ archived \subseteq lines
      /\ onDisk \subseteq Taken /\ upkeep.seen \subseteq lines
      /\ \A f \in 1..Frames : takenAt[f] \in Nat
  BY <1>a DEF ArchiveTypeOK, FramesInv, Taken
(* A step that leaves the samples alone.                                       *)
<1>c. ASSUME UNCHANGED <<sampleVars, hour, archiveCrashes>> PROVE SamplesInv'
  BY <1>c DEF SamplesInv, sampleVars, DropsCounted
<1>1. ASSUME NEW w \in ArchiveWriters, FrameWritten(w) PROVE ArchiveInv'
  <2>1. PICK n \in 0..Frames : Taken = 1..n
    BY DEF FramesInv, InOrder
  <2>2. NextFrame = n + 1
    <3>1. n \in Nat /\ 1 \in Int /\ n \in Int
      BY <2>1
    <3>2. Cardinality(1..n) = IF 1 > n THEN 0 ELSE n - 1 + 1
      BY <3>1, FS_Interval
    <3>3. Cardinality(1..n) = n
      BY <3>1, <3>2
    <3> QED
      BY <2>1, <3>3 DEF NextFrame
  <2>3. /\ n + 1 \in 1..Frames /\ n + 1 \notin Taken /\ n + 1 # NoPhoto
        /\ writing' = [writing EXCEPT ![w] = n + 1]
        /\ takenAt' = [takenAt EXCEPT ![n + 1] = hour]
        /\ onDisk' = onDisk \cup {n + 1}
        /\ UNCHANGED <<hour, archived, lines, upkeepVars, sampleVars, archiveCrashes>>
    BY <1>1, <2>1, <2>2 DEF FrameWritten, NoPhoto
  <2>4. /\ takenAt' \in [1..Frames -> 0..(Hours + 1)] /\ takenAt'[n + 1] = hour
        /\ \A f \in 1..Frames : f # n + 1 => takenAt'[f] = takenAt[f]
    BY <2>3, <1>a
  <2>5. Taken' = Taken \cup {n + 1}
    BY <2>3, <2>4, <1>a DEF Taken
  <2>6. Taken' = 1..n + 1 /\ n + 1 \in 0..Frames
    BY <2>1, <2>3, <2>5
  <2>7. ArchiveTypeOK'
    <3>1. writing' \in [ArchiveWriters -> 0..Frames]
      BY <2>3 DEF ArchiveTypeOK
    <3>2. upkeep'.seen \subseteq Taken'
      BY <2>3, <2>5, <1>b DEF upkeepVars
    <3> QED
      BY <2>3, <2>4, <2>5, <3>1, <3>2 DEF ArchiveTypeOK, upkeepVars
  <2>8. FramesInv'
    <3>1. InOrder'
      BY <2>6 DEF InOrder
    <3>2. \A f \in Taken' : takenAt'[f] <= hour'
      BY <2>3, <2>4, <2>5, <1>a, <1>b DEF FramesInv
    <3>3. \A f \in Taken : f # n + 1 /\ (Young(f)' <=> Young(f))
      BY <2>3, <2>4, <1>b DEF Young
    <3>4. \A v \in ArchiveWriters : writing'[v] # NoPhoto =>
            (writing'[v] \in Taken' /\ (Young(writing[v])' => writing'[v] \in onDisk'))
      <4> SUFFICES ASSUME NEW v \in ArchiveWriters, writing'[v] # NoPhoto
                   PROVE  writing'[v] \in Taken' /\ (Young(writing[v])' => writing'[v] \in onDisk')
        OBVIOUS
      <4>1. CASE v = w
        <5>1. writing'[v] = n + 1
          BY <4>1, <2>3 DEF ArchiveTypeOK
        <5> QED
          BY <5>1, <2>3, <2>5
      <4>2. CASE v # w
        <5>1. writing'[v] = writing[v]
          BY <4>2, <2>3 DEF ArchiveTypeOK
        <5>2. writing[v] \in Taken /\ (Young(writing[v]) => writing[v] \in onDisk)
          BY <5>1 DEF FramesInv
        <5>3. Young(writing[v])' <=> Young(writing[v])
          BY <5>1, <5>2, <2>3, <2>4, <1>b DEF Young
        <5> QED
          BY <5>1, <5>2, <5>3, <2>3, <2>5
      <4> QED
        BY <4>1, <4>2
    <3>5. \A f \in lines' : Young(f)' => f \in archived' \cap onDisk'
      BY <2>3, <3>3, <1>b DEF FramesInv
    <3>6. /\ upkeep' = upkeep
          /\ upkeep \in [step : {"idle", "prune", "scan", "swap"}, at : Nat, seen : SUBSET Taken']
          /\ upkeep'.at <= hour' /\ upkeep'.seen \subseteq lines'
      BY <2>3, <2>5 DEF FramesInv, upkeepVars
    <3> QED
      BY <3>1, <3>2, <3>4, <3>5, <3>6 DEF FramesInv
  <2> QED
    BY <2>3, <2>7, <2>8, <1>c
(* A step that dates no frame anew, and whose clean-ups remove only frames that*)
(* are no longer young.                                                        *)
<1>d. ASSUME UNCHANGED <<hour, takenAt>>,
             \/ UNCHANGED lines
             \/ \E w \in ArchiveWriters :
                  writing[w] # NoPhoto /\ lines' = lines \cup {writing[w]} /\ writing[w] \in archived',
             archived' \subseteq lines',
             \A f \in archived : Young(f) => f \in archived',
             onDisk' \subseteq onDisk, \A f \in onDisk : Young(f) => f \in onDisk',
             \/ UNCHANGED writing
             \/ \E w \in ArchiveWriters : writing' = [writing EXCEPT ![w] = NoPhoto]
             \/ writing' = [w \in ArchiveWriters |-> NoPhoto],
             \/ UNCHANGED upkeep
             \/ upkeep' = NoUpkeep
             \/ upkeep' \in [step : {"prune", "scan", "swap"}, at : {upkeep.at, hour},
                             seen : SUBSET lines],
             nextUpkeep' \in 0..(Hours + RunEvery)
      PROVE  ArchiveTypeOK' /\ FramesInv'
  <2>1. Taken' = Taken /\ \A f \in 1..Frames : Young(f)' <=> Young(f)
    BY <1>d DEF Taken, Young
  <2>2. lines \subseteq lines' /\ lines' \subseteq Taken
    BY <1>d, <1>b DEF FramesInv
  <2>3. \A f \in lines' : Young(f) => f \in archived' \cap onDisk'
    <3>1. CASE UNCHANGED lines
      BY <3>1, <1>d, <1>b DEF FramesInv
    <3>2. ASSUME NEW w \in ArchiveWriters, writing[w] # NoPhoto,
                 lines' = lines \cup {writing[w]}, writing[w] \in archived'
          PROVE  \A f \in lines' : Young(f) => f \in archived' \cap onDisk'
      <4>1. Young(writing[w]) => writing[w] \in onDisk
        BY <3>2 DEF FramesInv
      <4>2. \A f \in lines : Young(f) => f \in archived /\ f \in onDisk
        BY DEF FramesInv
      <4> QED
        BY <3>2, <4>1, <4>2, <1>d, <1>b
    <3> QED
      BY <3>1, <3>2, <1>d
  <2>4. /\ writing' \in [ArchiveWriters -> 0..Frames]
        /\ \A w \in ArchiveWriters : writing'[w] # NoPhoto => writing'[w] = writing[w]
    <3>1. writing \in [ArchiveWriters -> 0..Frames] /\ NoPhoto \in 0..Frames
      BY DEF ArchiveTypeOK, NoPhoto
    <3> QED
      BY <3>1, <1>d
  <2>5. \A w \in ArchiveWriters : writing'[w] # NoPhoto =>
            (writing'[w] \in Taken' /\ (Young(writing[w])' => writing'[w] \in onDisk'))
    BY <2>1, <2>4, <1>d, <1>b DEF FramesInv
  <2>6. /\ upkeep' \in [step : {"idle", "prune", "scan", "swap"}, at : Nat, seen : SUBSET Taken']
        /\ upkeep'.at <= hour' /\ upkeep'.seen \subseteq lines'
    <3>1. upkeep.at \in Nat /\ upkeep.at <= hour
      BY DEF FramesInv
    <3>4. CASE UNCHANGED upkeep
      BY <3>4, <1>d, <2>1, <2>2 DEF FramesInv
    <3>2. CASE upkeep' = NoUpkeep
      BY <3>2, <1>d, <1>a, <2>1 DEF NoUpkeep
    <3>3. CASE upkeep' \in [step : {"prune", "scan", "swap"}, at : {upkeep.at, hour},
                            seen : SUBSET lines]
      <4>1. /\ upkeep'.at \in Nat /\ upkeep'.at <= hour' /\ upkeep'.seen \subseteq lines'
        BY <3>1, <3>3, <1>d, <1>a, <2>2
      <4>2. upkeep'.seen \in SUBSET Taken'
        BY <3>3, <2>1, <1>b
      <4> QED
        BY <3>3, <4>1, <4>2
    <3> QED
      BY <3>2, <3>3, <3>4, <1>d
  <2>7. onDisk' \subseteq Taken'
    BY <2>1, <1>d, <1>b
  <2>8. FramesInv'
    <3>1. InOrder'
      BY <2>1 DEF FramesInv, InOrder
    <3>2. \A f \in Taken' : takenAt'[f] <= hour'
      BY <2>1, <1>d DEF FramesInv
    <3>3. \A f \in lines' : Young(f)' => f \in archived' \cap onDisk'
      BY <2>1, <2>2, <2>3, <1>b
    <3> QED
      BY <3>1, <3>2, <3>3, <2>5, <2>6 DEF FramesInv
  <2>9. ArchiveTypeOK'
    <3>1. upkeep'.step \in {"idle", "prune", "scan", "swap"} /\ upkeep'.seen \subseteq Taken'
      BY <2>6
    <3>2. hour' \in 0..Hours /\ takenAt' \in [1..Frames -> 0..(Hours + 1)]
      BY <1>a, <1>d
    <3>3. lines' \subseteq Taken'
      BY <2>1, <2>2
    <3> QED
      BY <3>1, <3>2, <3>3, <2>4, <2>7, <1>d DEF ArchiveTypeOK
  <2> QED
    BY <2>8, <2>9
<1>e. /\ \A S \in SUBSET Taken : \A f \in S : Young(f) => f \notin OlderThan(S, hour)
      /\ \A S \in SUBSET Taken : \A f \in S : Young(f) => f \notin OlderThan(S, upkeep.at)
  BY <1>a, <1>b DEF OlderThan, Young, FramesInv
<1>f. /\ upkeep \in [step : {"idle", "prune", "scan", "swap"}, at : Nat, seen : SUBSET Taken]
      /\ nextUpkeep \in 0..(Hours + RunEvery)
  BY DEF FramesInv, ArchiveTypeOK
<1>2. ASSUME NEW w \in ArchiveWriters, RowAppended(w) PROVE ArchiveInv'
  <2>1. UNCHANGED <<sampleVars, hour, archiveCrashes>>
    BY <1>2 DEF RowAppended
  <2>2. /\ archived' = archived \cup {writing[w]} /\ lines' = lines \cup {writing[w]}
        /\ onDisk' = onDisk \ OlderThan(onDisk, hour) /\ writing[w] # NoPhoto
        /\ UNCHANGED <<takenAt, upkeep, nextUpkeep>>
        /\ writing' = [writing EXCEPT ![w] = NoPhoto]
    BY <1>2 DEF RowAppended, upkeepVars
  <2>3. archived' \subseteq lines'
    BY <2>2, <1>b
  <2>4. onDisk' \subseteq onDisk /\ \A f \in onDisk : Young(f) => f \in onDisk'
    BY <2>2, <1>b, <1>e
  <2>5. /\ \E v \in ArchiveWriters :
             writing[v] # NoPhoto /\ lines' = lines \cup {writing[v]} /\ writing[v] \in archived'
        /\ \E v \in ArchiveWriters : writing' = [writing EXCEPT ![v] = NoPhoto]
        /\ \A f \in archived : Young(f) => f \in archived'
    BY <2>2
  <2>6. nextUpkeep' \in 0..(Hours + RunEvery) /\ UNCHANGED <<hour, takenAt>>
    BY <2>1, <2>2, <1>f
  <2>7. ArchiveTypeOK' /\ FramesInv'
    BY <2>2, <2>3, <2>4, <2>5, <2>6, <1>d
  <2> QED
    BY <2>1, <2>7, <1>c
<1>3. ASSUME NEW w \in ArchiveWriters, AppendFails(w) PROVE ArchiveInv'
  <2>1. /\ writing' = [writing EXCEPT ![w] = NoPhoto]
        /\ UNCHANGED <<hour, takenAt, onDisk, archived, lines, upkeep, nextUpkeep, sampleVars,
                       archiveCrashes>>
    BY <1>3 DEF AppendFails, archiveFiles, upkeepVars
  <2>2. /\ archived' \subseteq lines' /\ nextUpkeep' \in 0..(Hours + RunEvery)
        /\ \E v \in ArchiveWriters : writing' = [writing EXCEPT ![v] = NoPhoto]
    BY <2>1, <1>b, <1>f
  <2>3. ArchiveTypeOK' /\ FramesInv'
    BY <2>1, <2>2, <1>d
  <2> QED
    BY <2>1, <2>3, <1>c
<1>4. CASE DropSampled
  <2>1. /\ DropsCounted < DropsPerHour
        /\ dropCap' = [hour |-> hour, count |-> DropsCounted + 1] /\ sampled' = sampled + 1
        /\ UNCHANGED <<hour, takenAt, onDisk, archived, lines, writing, upkeep, nextUpkeep,
                       archiveCrashes>>
    BY <1>4 DEF DropSampled, archiveFiles, upkeepVars
  <2>2. archived' \subseteq lines' /\ nextUpkeep' \in 0..(Hours + RunEvery)
    BY <2>1, <1>b, <1>f
  <2>3. ArchiveTypeOK' /\ FramesInv'
    BY <2>1, <2>2, <1>d
  <2>4. SamplesInv'
    <3>1. /\ archiveCrashes \in 0..ArchiveCrashes /\ sampled \in Nat
          /\ sampled <= DropsPerHour * (ArchiveCrashes - archiveCrashes) + DropsCounted
          /\ DropsCounted \in Nat
      BY DEF SamplesInv, DropsCounted
    <3> DEFINE was == DropsCounted
               room == DropsPerHour * (ArchiveCrashes - archiveCrashes)
    <3>2. /\ dropCap'.hour = hour' /\ dropCap'.count = was + 1
          /\ dropCap' \in [hour : Nat, count : 0..DropsPerHour]
      BY <2>1, <3>1, <1>a
    <3>3. DropsCounted' = was + 1
      BY <3>2 DEF DropsCounted
    <3>4. room' = room /\ room \in Int
      BY <2>1, <3>1
    <3> HIDE DEF was, room
    <3>5. sampled <= room + was /\ was \in Nat
      BY <3>1 DEF was, room
    <3>6. sampled' \in Nat /\ sampled' <= room + (was + 1)
      BY <3>1, <3>4, <3>5, <2>1
    <3>7. sampled' <= DropsPerHour * (ArchiveCrashes - archiveCrashes') + DropsCounted'
      BY <3>3, <3>4, <3>6 DEF room
    <3>8. dropCap'.hour <= hour' /\ archiveCrashes' \in 0..ArchiveCrashes
      BY <3>1, <3>2, <2>1, <1>a
    <3> QED
      BY <3>2, <3>6, <3>7, <3>8 DEF SamplesInv
  <2> QED
    BY <2>3, <2>4
<1>5. CASE UpkeepStarts
  <2>1. /\ upkeep' = [NoUpkeep EXCEPT !.step = "prune", !.at = hour]
        /\ nextUpkeep' = hour + RunEvery
        /\ UNCHANGED <<hour, takenAt, onDisk, archived, lines, writing, sampleVars, archiveCrashes>>
    BY <1>5 DEF UpkeepStarts, archiveFiles
  <2>2. archived' \subseteq lines' /\ nextUpkeep' \in 0..(Hours + RunEvery)
    BY <2>1, <1>a, <1>b
  <2>3. upkeep' \in [step : {"prune", "scan", "swap"}, at : {upkeep.at, hour}, seen : SUBSET lines]
    BY <2>1 DEF NoUpkeep
  <2>4. ArchiveTypeOK' /\ FramesInv'
    BY <2>1, <2>2, <2>3, <1>d
  <2> QED
    BY <2>1, <2>4, <1>c
<1>6. CASE OldFramesRemoved
  <2>1. /\ onDisk' = onDisk \ OlderThan(onDisk, upkeep.at)
        /\ upkeep' = [upkeep EXCEPT !.step = "scan"]
        /\ UNCHANGED <<hour, takenAt, archived, lines, writing, nextUpkeep, sampleVars,
                       archiveCrashes>>
    BY <1>6 DEF OldFramesRemoved
  <2>2. archived' \subseteq lines' /\ nextUpkeep' \in 0..(Hours + RunEvery)
    BY <2>1, <1>f, <1>b
  <2>3. upkeep' \in [step : {"prune", "scan", "swap"}, at : {upkeep.at, hour}, seen : SUBSET lines]
    BY <2>1, <1>f, <1>b
  <2>4. onDisk' \subseteq onDisk /\ \A f \in onDisk : Young(f) => f \in onDisk'
    BY <2>1, <1>b, <1>e
  <2>5. ArchiveTypeOK' /\ FramesInv'
    BY <2>1, <2>2, <2>3, <2>4, <1>d
  <2> QED
    BY <2>1, <2>5, <1>c
<1>7. CASE IndexScanned
  <2>1. /\ \/ upkeep' = NoUpkeep
           \/ upkeep' = [upkeep EXCEPT !.step = "swap", !.seen = archived]
        /\ UNCHANGED <<hour, takenAt, onDisk, archived, lines, writing, nextUpkeep, sampleVars,
                       archiveCrashes>>
    BY <1>7 DEF IndexScanned, archiveFiles
  <2>2. archived' \subseteq lines' /\ nextUpkeep' \in 0..(Hours + RunEvery)
    BY <2>1, <1>f, <1>b
  <2>3. \/ upkeep' = NoUpkeep
        \/ upkeep' \in [step : {"prune", "scan", "swap"}, at : {upkeep.at, hour},
                        seen : SUBSET lines]
    <3>1. upkeep' = [upkeep EXCEPT !.step = "swap", !.seen = archived] =>
            upkeep' = [step |-> "swap", at |-> upkeep.at, seen |-> archived]
      BY <1>f
    <3>2. archived \in SUBSET lines
      BY <1>b
    <3> QED
      BY <2>1, <3>1, <3>2
  <2>4. ArchiveTypeOK' /\ FramesInv'
    BY <2>1, <2>2, <2>3, <1>d
  <2> QED
    BY <2>1, <2>4, <1>c
<1>8. CASE IndexSwapped
  <2>1. /\ archived' = Compacted(archived) /\ upkeep' = NoUpkeep
        /\ UNCHANGED <<hour, takenAt, onDisk, lines, writing, nextUpkeep, sampleVars, archiveCrashes>>
    BY <1>8 DEF IndexSwapped
  <2>2. archived' \subseteq archived /\ \A f \in archived : Young(f) => f \in archived'
    BY <2>1, <1>b, <1>e DEF Compacted
  <2>3. archived' \subseteq lines' /\ nextUpkeep' \in 0..(Hours + RunEvery)
    BY <2>1, <2>2, <1>f, <1>b
  <2>4. ArchiveTypeOK' /\ FramesInv'
    BY <2>1, <2>2, <2>3, <1>d
  <2> QED
    BY <2>1, <2>4, <1>c
<1>9. CASE HourPasses
  <2>1. /\ hour < Hours /\ hour' = hour + 1 /\ sampled' = 0
        /\ UNCHANGED <<takenAt, onDisk, archived, lines, writing, upkeep, nextUpkeep, dropCap,
                       archiveCrashes>>
    BY <1>9 DEF HourPasses, archiveFiles, upkeepVars
  <2>2. Taken' = Taken /\ \A f \in 1..Frames : Young(f)' => Young(f)
    <3>1. \A f \in 1..Frames : takenAt[f] + KeepHours >= hour + 1 => takenAt[f] + KeepHours >= hour
      BY <1>a, <1>b
    <3> QED
      BY <2>1, <3>1 DEF Taken, Young
  <2>3. ArchiveTypeOK'
    <3>1. hour' \in 0..Hours
      BY <2>1, <1>a
    <3> QED
      BY <2>1, <2>2, <3>1 DEF ArchiveTypeOK
  <2>4. FramesInv'
    <3>1. InOrder'
      BY <2>2 DEF FramesInv, InOrder
    <3>2. \A f \in Taken' : takenAt'[f] <= hour'
      <4>1. \A f \in Taken : takenAt[f] <= hour /\ takenAt[f] \in Nat
        BY <1>b DEF FramesInv
      <4> QED
        BY <4>1, <2>1, <2>2, <1>a
    <3>3. \A w \in ArchiveWriters : writing'[w] # NoPhoto =>
            (writing'[w] \in Taken' /\ (Young(writing[w])' => writing'[w] \in onDisk'))
      BY <2>1, <2>2, <1>b DEF FramesInv
    <3>4. \A f \in lines' : Young(f)' => f \in archived' \cap onDisk'
      BY <2>1, <2>2, <1>b DEF FramesInv
    <3>5. upkeep'.at <= hour'
      BY <2>1, <1>a, <1>f DEF FramesInv
    <3>6. /\ upkeep' \in [step : {"idle", "prune", "scan", "swap"}, at : Nat, seen : SUBSET Taken']
          /\ upkeep'.seen \subseteq lines'
      BY <2>1, <2>2 DEF FramesInv
    <3> QED
      BY <3>1, <3>2, <3>3, <3>4, <3>5, <3>6 DEF FramesInv
  <2>5. SamplesInv'
    <3>1. archiveCrashes \in 0..ArchiveCrashes /\ dropCap.hour \in Nat /\ dropCap.hour <= hour
      BY DEF SamplesInv
    <3>2. DropsCounted' = 0
      BY <2>1, <3>1, <1>a DEF DropsCounted
    <3> DEFINE r == ArchiveCrashes - archiveCrashes
    <3>3. r \in Nat
      BY <3>1
    <3> HIDE DEF r
    <3>4. DropsPerHour * r \in Nat
      BY <3>3
    <3>5. sampled' <= DropsPerHour * r + DropsCounted'
      BY <2>1, <3>2, <3>4
    <3>6. dropCap'.hour <= hour' /\ sampled' \in Nat
      BY <2>1, <3>1, <1>a
    <3> QED
      BY <2>1, <3>5, <3>6 DEF SamplesInv, r
  <2> QED
    BY <2>3, <2>4, <2>5
<1>10. CASE ArchiveRestart
  <2>1. /\ archiveCrashes > 0 /\ archiveCrashes' = archiveCrashes - 1
        /\ writing' = [w \in ArchiveWriters |-> NoPhoto]
        /\ upkeep' = NoUpkeep /\ nextUpkeep' = 0 /\ dropCap' = [hour |-> 0, count |-> 0]
        /\ UNCHANGED <<hour, takenAt, onDisk, archived, lines, sampled>>
    BY <1>10 DEF ArchiveRestart, archiveFiles
  <2>2. archived' \subseteq lines' /\ nextUpkeep' \in 0..(Hours + RunEvery)
    BY <2>1, <1>b
  <2>3. ArchiveTypeOK' /\ FramesInv'
    BY <2>1, <2>2, <1>d
  <2>4. SamplesInv'
    <3>1. /\ archiveCrashes \in 0..ArchiveCrashes /\ sampled \in Nat
          /\ DropsCounted \in 0..DropsPerHour
          /\ sampled <= DropsPerHour * (ArchiveCrashes - archiveCrashes) + DropsCounted
      BY DEF SamplesInv, DropsCounted
    <3> DEFINE r == ArchiveCrashes - archiveCrashes
    <3>2. r \in Nat /\ ArchiveCrashes - archiveCrashes' = r + 1
      BY <2>1, <3>1
    <3>3. sampled <= DropsPerHour * r + DropsCounted
      BY <3>1
    <3> HIDE DEF r
    <3>4. DropsPerHour * (r + 1) = DropsPerHour * r + DropsPerHour /\ DropsPerHour * r \in Nat
      BY <3>2
    <3>5. sampled <= DropsPerHour * (r + 1)
      BY <3>1, <3>3, <3>4
    <3>6. DropsCounted' = 0
      BY <2>1 DEF DropsCounted
    <3>7. DropsPerHour * (r + 1) \in Nat
      BY <3>2
    <3>8. sampled' <= DropsPerHour * (ArchiveCrashes - archiveCrashes') + DropsCounted'
      BY <2>1, <3>2, <3>5, <3>6, <3>7, <3>1
    <3>9. archiveCrashes' \in 0..ArchiveCrashes
      BY <2>1, <3>1
    <3> QED
      BY <2>1, <3>1, <3>8, <3>9, <1>a DEF SamplesInv
  <2> QED
    BY <2>3, <2>4
<1>11. CASE UNCHANGED archiveVars
  <2>1. /\ UNCHANGED <<hour, takenAt, onDisk, archived, lines, writing, upkeep, nextUpkeep,
                       sampleVars, archiveCrashes>>
    BY <1>11 DEF archiveVars, archiveFiles, upkeepVars
  <2>2. archived' \subseteq lines' /\ nextUpkeep' \in 0..(Hours + RunEvery)
    BY <2>1, <1>f, <1>b
  <2>3. ArchiveTypeOK' /\ FramesInv'
    BY <2>1, <2>2, <1>d
  <2> QED
    BY <2>1, <2>3, <1>c
<1> QED
  BY <1>1, <1>2, <1>3, <1>4, <1>5, <1>6, <1>7, <1>8, <1>9, <1>10, <1>11 DEF ArchiveNext

LEMMA ArchiveYoung == ArchiveInv => ArchiveTypeOK /\ ArchiveKeepsYoung
<1> SUFFICES ASSUME ArchiveInv PROVE ArchiveKeepsYoung
  BY DEF ArchiveInv
<1> USE ArchiveConstants DEF ArchiveInv
<1>1. \A f \in lines : takenAt[f] + KeepHours >= hour => f \in archived \cap onDisk
  BY DEF FramesInv, Young
<1>2. /\ archiveCrashes \in 0..ArchiveCrashes /\ sampled \in Nat
      /\ DropsCounted \in 0..DropsPerHour
      /\ sampled <= DropsPerHour * (ArchiveCrashes - archiveCrashes) + DropsCounted
  BY DEF SamplesInv, DropsCounted
<1> DEFINE r == ArchiveCrashes - archiveCrashes
<1>3. r \in Nat /\ 1 + ArchiveCrashes - archiveCrashes = r + 1
  BY <1>2
<1>4. sampled <= DropsPerHour * r + DropsCounted
  BY <1>2
<1> HIDE DEF r
<1>5. DropsPerHour * (r + 1) = DropsPerHour * r + DropsPerHour /\ DropsPerHour * r \in Nat
  BY <1>3
<1>6. sampled <= DropsPerHour * (r + 1)
  BY <1>2, <1>4, <1>5
<1> QED
  BY <1>1, <1>3, <1>6 DEF ArchiveKeepsYoung

(* A frame that got its line keeps line and picture for the whole retention,   *)
(* however the line raced a rewrite of the index, and the drop sample keeps to  *)
(* its cap but for the hours a restart starts over (sentlog.prune_old,          *)
(* compact_index, archive_drop_sample_if_configured).                          *)
THEOREM ArchiveKeepsYoungCorrect == ArchiveSpec => []ArchiveKeepsYoung
<1> QED
  BY ArchiveInitInv, ArchiveStep, ArchiveYoung, PTL DEF ArchiveSpec

----------------------------------------------------------------------------
(* The digest *)

Baselines == Counters \cup {NoBaseline}

(* With the next baseline base and the scorer's counters n, what was counted   *)
(* and what the next digest would still say is at most what happened or was    *)
(* brought, and all of it before the first change.                             *)
AccountsAt(base, c, n, happened, lost) ==
  /\ c + Since(n, base).failed <= happened
  /\ lost = 0 => c + Since(n, base).failed = happened /\ ~Restarted(n, base)

Accounts(base, c) == AccountsAt(base, c, counters, lifetime + brought, changes)

CountsInv ==
  /\ {counted, lifetime, brought, changes} \subseteq Nat /\ counters \in Counters
  /\ changes = 0 => brought = 0
  /\ baseline \in Baselines /\ draft.raw \in Baselines /\ draft.delta \in Nat
  /\ slips = 0 =>
       /\ digestStep \in {"idle", "text", "quiet"} => Accounts(baseline, counted)
       /\ digestStep \in {"text", "quiet"} => Accounts(Saves(draft), counted + draft.delta)
       /\ digestStep \in {"mark", "baseline"} => Accounts(Saves(draft), counted)

(* A digest under way is today's, in its hour; one too many cost a slip.       *)
DaysInv ==
  /\ \A d \in Days : digestsTold[d] <= 1 + slips
  /\ \A d \in Days : d > Day(tick) => digestsTold[d] = 0
  /\ \A d \in Days : digestsTold[d] > 0 => tick >= d * DayLength + DueAt
  /\ (digestStep # "mark" /\ sentDay # Day(tick)) => digestsTold[Day(tick)] <= slips
  /\ digestStep \in {"text", "quiet"} =>
       (sentDay # Day(tick) /\ tick >= Day(tick) * DayLength + DueAt)

DigestInv == DigestTypeOK /\ CountsInv /\ DaysInv /\ OkIsVouched

LEMMA DigestConstants ==
  /\ DayLength \in Nat /\ DayLength > 0 /\ DueAt \in Nat /\ DueAt < DayLength
  /\ Fresh \in Nat /\ LastTick \in Nat /\ FailureRate \in Nat
  BY DigestAssumption

(* Days follow each other.                                                     *)
LEMMA DayFacts ==
  ASSUME NEW t \in Nat
  PROVE  /\ Day(t) \in Nat
         /\ t % DayLength >= DueAt => t >= Day(t) * DayLength + DueAt
<1>1. DayLength \in Nat /\ DayLength > 0
  BY DigestConstants
<1>2. t \div DayLength \in Nat /\ t % DayLength \in Nat /\ t % DayLength < DayLength
  <2>1. t \div DayLength \in Int /\ t \div DayLength >= 0
    BY <1>1
  <2>2. t % DayLength \in 0..DayLength - 1
    BY <1>1
  <2> QED
    BY <1>1, <2>1, <2>2
<1>3. ASSUME NEW q \in Nat, q = t \div DayLength, NEW m \in Nat, m = t % DayLength
      PROVE  t = q * DayLength + m
  BY <1>1, <1>3
<1> DEFINE q == Day(t)
           m == t % DayLength
<1>4. q = t \div DayLength /\ m = t % DayLength /\ q \in Nat /\ m \in Nat /\ m < DayLength
  BY <1>2 DEF Day
<1> HIDE DEF q, m
<1>5. t = q * DayLength + m
  BY <1>3, <1>4
<1>6. m >= DueAt => t >= q * DayLength + DueAt
  BY <1>1, <1>4, <1>5, DigestConstants
<1> QED
  BY <1>2, <1>6 DEF q, m, Day

LEMMA DayGrows ==
  ASSUME NEW s \in Nat, NEW t \in Nat, s <= t
  PROVE  Day(s) <= Day(t)
  BY DigestConstants DEF Day

LEMMA InDays == ASSUME NEW t \in 0..LastTick PROVE Day(t) \in Days
<1>1. t \in Nat /\ LastTick \in Nat /\ t <= LastTick
  BY DigestConstants
<1>2. Day(t) \in Nat /\ Day(LastTick) \in Nat /\ Day(t) <= Day(LastTick)
  BY <1>1, DayFacts, DayGrows
<1> QED
  BY <1>2 DEF Days

(* What a digest would say of the scorer's failures.                           *)
LEMMA SinceFails ==
  ASSUME NEW n \in Counters, NEW base \in Baselines
  PROVE  /\ n.failed \in Nat /\ n.requests \in Nat /\ Since(n, base).failed \in Nat
         /\ (base # NoBaseline /\ ~Restarted(n, base)) =>
              (Since(n, base).failed = n.failed - base.failed /\ base.failed \in Nat
               /\ base.failed <= n.failed)
         /\ (base = NoBaseline \/ Restarted(n, base)) => Since(n, base).failed = n.failed
<1>1. n.failed \in Nat /\ n.requests \in Nat
  BY DEF Counters
<1>2. base # NoBaseline => base.failed \in Nat /\ base.requests \in Nat
  BY DEF Baselines, Counters
<1>3. CASE base = NoBaseline \/ Restarted(n, base)
  <2>1. Since(n, base) = n
    BY <1>3 DEF Since
  <2> QED
    BY <2>1, <1>1, <1>3
<1>4. CASE base # NoBaseline /\ ~Restarted(n, base)
  <2>1. Since(n, base).failed = n.failed - base.failed
    BY <1>4 DEF Since
  <2>2. base.failed <= n.failed
    BY <1>1, <1>2, <1>4 DEF Restarted
  <2> QED
    BY <2>1, <2>2, <1>1, <1>2, <1>4
<1> QED
  BY <1>3, <1>4

LEMMA SinceItself ==
  ASSUME NEW n \in Counters
  PROVE  n # NoBaseline /\ ~Restarted(n, n) /\ Since(n, n).failed = 0
<1>1. n.failed \in Nat /\ n.requests \in Nat
  BY DEF Counters
<1>2. n # NoBaseline
  BY <1>1 DEF NoBaseline
<1>3. ~Restarted(n, n)
  BY <1>1 DEF Restarted
<1>4. Since(n, n).failed = n.failed - n.failed
  BY <1>2, <1>3 DEF Since
<1> QED
  BY <1>1, <1>2, <1>3, <1>4

(* The scorer goes on, and the accounts still hold.                            *)
LEMMA AccountsGoOn ==
  ASSUME CountsInv, NEW base \in Baselines, NEW c \in Nat, Accounts(base, c),
         NEW bad \in BOOLEAN, RequestServed(bad)
  PROVE  Accounts(base, c)'
<1> DEFINE S == Since(counters, base).failed
           T == Since(counters', base).failed
           k == IF bad THEN 1 ELSE 0
<1>0. counters \in Counters /\ lifetime \in Nat /\ brought \in Nat
  BY DEF CountsInv
<1>1. /\ counters.failed \in Nat /\ counters.requests \in Nat /\ S \in Nat
      /\ (base # NoBaseline /\ ~Restarted(counters, base)) =>
              (S = counters.failed - base.failed /\ base.failed \in Nat
               /\ base.failed <= counters.failed)
      /\ (base = NoBaseline \/ Restarted(counters, base)) => S = counters.failed
  BY <1>0, SinceFails
<1>1a. changes = 0 => ~Restarted(counters, base)
  BY DEF Accounts, AccountsAt
<1>2. /\ counters'.requests = counters.requests + 1 /\ counters'.failed = counters.failed + k
      /\ lifetime' = lifetime + k /\ brought' = brought /\ changes' = changes /\ k \in Nat
      /\ counters' = [requests |-> counters.requests + 1, failed |-> counters.failed + k]
  BY DEF RequestServed
<1> HIDE DEF k
<1>3. counters' \in Counters
  BY <1>1, <1>2 DEF Counters
<1>4. /\ T \in Nat
      /\ (base # NoBaseline /\ ~Restarted(counters', base)) =>
            (T = counters'.failed - base.failed /\ base.failed \in Nat
             /\ base.failed <= counters'.failed)
      /\ (base = NoBaseline \/ Restarted(counters', base)) => T = counters'.failed
  BY <1>3, SinceFails
<1>5. base # NoBaseline => base.failed \in Nat /\ base.requests \in Nat
  BY DEF Baselines, Counters
<1>6. base # NoBaseline /\ ~Restarted(counters, base) => ~Restarted(counters', base)
  BY <1>1, <1>2, <1>5 DEF Restarted
<1>7. base = NoBaseline => ~Restarted(counters', base)
  BY <1>1, <1>2 DEF Restarted, NoBaseline
<1> HIDE DEF S, T
<1>8. T <= S + k /\ (changes = 0 => T = S + k)
  <2>1. CASE base = NoBaseline
    BY <2>1, <1>1, <1>2, <1>4
  <2>2. CASE base # NoBaseline /\ ~Restarted(counters, base)
    BY <2>2, <1>1, <1>2, <1>4, <1>6
  <2>3. CASE base # NoBaseline /\ Restarted(counters, base)
    <3>1. S = counters.failed /\ changes # 0
      BY <2>3, <1>1, <1>1a
    <3>2. T <= counters'.failed
      BY <1>1, <1>2, <1>4, <1>5
    <3> QED
      BY <3>1, <3>2, <1>1, <1>2
  <2> QED
    BY <2>1, <2>2, <2>3
<1>9. c + S <= lifetime + brought /\ (changes = 0 => c + S = lifetime + brought)
  BY DEF Accounts, AccountsAt, S
<1>10. c + T <= lifetime' + brought' /\ (changes = 0 => c + T = lifetime' + brought')
  BY <1>0, <1>1, <1>2, <1>4, <1>8, <1>9
<1> QED
  BY <1>2, <1>6, <1>7, <1>10, <1>1a DEF Accounts, AccountsAt, T

(* Other counters bring no more than was noted.                                *)
LEMMA AccountsChange ==
  ASSUME CountsInv, NEW base \in {baseline, draft.raw}, NEW c \in Nat, Accounts(base, c),
         ScorerKilled \/ ScorerChanged
  PROVE  c + Since(counters', base).failed <= lifetime' + brought'
<1> DEFINE S == Since(counters, base).failed
           T == Since(counters', base).failed
<1>0. /\ counters \in Counters /\ lifetime \in Nat /\ brought \in Nat
      /\ base \in Baselines /\ lifetime' = lifetime
  BY DEF CountsInv, ScorerKilled, ScorerChanged
<1>1. /\ counters.failed \in Nat /\ counters.requests \in Nat /\ S \in Nat
      /\ (base # NoBaseline /\ ~Restarted(counters, base)) => S = counters.failed - base.failed
      /\ base = NoBaseline => S = counters.failed
  BY <1>0, SinceFails
<1>2. c + S <= lifetime + brought
  BY DEF Accounts, AccountsAt
<1>3. CASE ScorerKilled
  <2>1. PICK n \in [requests : 0 .. counters.requests, failed : 0 .. counters.failed] :
          /\ counters' = n
          /\ brought' = brought + IF Restarted(n, baseline) \/ Restarted(n, draft.raw)
                                 THEN n.failed ELSE 0
    BY <1>3 DEF ScorerKilled
  <2>2. /\ n \in Counters /\ n.failed \in Nat /\ n.requests \in Nat
        /\ n.failed <= counters.failed /\ n.requests <= counters.requests
    BY <1>1 DEF Counters
  <2>3. /\ T \in Nat
        /\ (base # NoBaseline /\ ~Restarted(n, base)) =>
              (T = n.failed - base.failed /\ base.failed \in Nat)
        /\ (base = NoBaseline \/ Restarted(n, base)) => T = n.failed
    BY <1>0, <2>1, <2>2, SinceFails
  <2> HIDE DEF S, T
  <2>4. CASE base # NoBaseline /\ Restarted(n, base)
    <3>1. brought' = brought + n.failed /\ T = n.failed
      BY <2>1, <2>3, <2>4
    <3> QED BY <1>0, <1>1, <1>2, <2>2, <3>1 DEF T
  <2>5. CASE base # NoBaseline /\ ~Restarted(n, base)
    <3>1. base.failed \in Nat /\ base.requests \in Nat
      BY <1>0, <2>5 DEF Baselines, Counters
    <3>2. ~Restarted(counters, base)
      BY <1>1, <2>2, <2>5, <3>1 DEF Restarted
    <3>3. T <= S
      BY <1>1, <2>2, <2>3, <2>5, <3>1, <3>2
    <3>4. brought' >= brought /\ brought' \in Nat
      BY <1>0, <2>1, <2>2
    <3> QED BY <1>0, <1>1, <1>2, <2>3, <3>3, <3>4 DEF T
  <2>6. CASE base = NoBaseline
    <3>1. T <= S
      BY <1>1, <2>2, <2>3, <2>6
    <3>2. brought' >= brought /\ brought' \in Nat
      BY <1>0, <2>1, <2>2
    <3> QED BY <1>0, <1>1, <1>2, <2>3, <3>1, <3>2 DEF T
  <2> QED BY <2>4, <2>5, <2>6
<1>4. CASE ScorerChanged
  <2>1. /\ counters' \in [requests : 0 .. Requests, failed : 0 .. Requests]
        /\ brought' = brought + counters'.failed
    BY <1>4 DEF ScorerChanged
  <2>2. counters' \in Counters /\ counters'.failed \in Nat
    BY <2>1, DigestAssumption DEF Counters
  <2>3. T \in Nat /\ T <= counters'.failed
    BY <1>0, <2>2, SinceFails
  <2> HIDE DEF S, T
  <2> QED BY <1>0, <1>1, <1>2, <2>1, <2>2, <2>3 DEF T
<1> QED BY <1>3, <1>4

LEMMA DigestInitInv == DigestInit => DigestInv
<1> SUFFICES ASSUME DigestInit PROVE DigestInv
  OBVIOUS
<1> USE DigestConstants
<1>1. /\ tick = 0 /\ repairAt = NeverYet /\ probed = [at |-> NeverYet, verdict |-> "unknown"]
      /\ counters = [requests |-> 0, failed |-> 0] /\ baseline = NoBaseline /\ sentDay = NeverYet
      /\ digestStep = "idle" /\ draft = NoDraft /\ digestsTold = [d \in Days |-> 0]
      /\ counted = 0 /\ lifetime = 0 /\ slips = 0 /\ brought = 0 /\ changes = 0
  BY DEF DigestInit
<1>2. counters \in Counters /\ counters.failed = 0 /\ counters.requests = 0
  BY <1>1 DEF Counters
<1>3. Since(counters, NoBaseline).failed = 0 /\ ~Restarted(counters, NoBaseline)
  <2>1. Since(counters, NoBaseline) = counters
    BY DEF Since
  <2>2. NoBaseline.requests = -1 /\ NoBaseline.failed = -1
    BY DEF NoBaseline
  <2> QED
    BY <1>2, <2>1, <2>2 DEF Restarted
<1>4. Day(tick) \in Nat /\ 0 \in Days /\ Day(tick) \in Days
  <2>1. tick \in 0..LastTick /\ tick \in Nat
    BY <1>1
  <2>2. Day(tick) \in Nat /\ Day(tick) \in Days
    BY <2>1, DayFacts, InDays
  <2>3. Day(LastTick) \in Nat
    BY DayFacts
  <2>4. 0 \in Days
    BY <2>3 DEF Days
  <2> QED
    BY <2>2, <2>4
<1>5. DigestTypeOK
  <2>1. probed \in [at : NeverYet .. tick, verdict : ControlVerdicts]
    BY <1>1 DEF NeverYet, ControlVerdicts
  <2>2. sentDay \in NeverYet .. Day(tick) /\ repairAt \in NeverYet .. tick /\ tick \in 0..LastTick
    BY <1>1, <1>4 DEF NeverYet
  <2>3. draft.head \in Headlines \cup {"none"} /\ draft.delta \in Nat
    BY <1>1 DEF NoDraft
  <2> QED
    BY <1>1, <1>2, <2>1, <2>2, <2>3 DEF DigestTypeOK
<1>6. CountsInv
  <2>1. draft.raw = NoBaseline /\ Saves(draft) = NoBaseline /\ draft.delta = 0
    BY <1>1 DEF NoDraft, Saves
  <2>2. Accounts(baseline, counted)
    BY <1>1, <1>3 DEF Accounts, AccountsAt
  <2> QED
    BY <1>1, <1>2, <1>3, <2>1, <2>2 DEF CountsInv, Baselines
<1>7. DaysInv
  BY <1>1, <1>4 DEF DaysInv
<1>8. OkIsVouched
  BY <1>1 DEF OkIsVouched
<1> QED
  BY <1>5, <1>6, <1>7, <1>8 DEF DigestInv

(* A pass ends and the clock may move on to a day on which nothing was told.   *)
LEMMA TickMoves ==
  ASSUME DigestTypeOK, DaysInv, tick' \in {tick, tick + 1}, tick' \in 0..LastTick,
         digestStep' = "idle", digestStep # "mark",
         UNCHANGED <<sentDay, digestsTold, slips>>
  PROVE  DaysInv' /\ sentDay' \in NeverYet..Day(tick')
<1> USE DigestConstants
<1>1. tick \in Nat /\ tick' \in Nat /\ tick <= tick' /\ tick \in 0..LastTick
  BY DEF DigestTypeOK
<1>2. /\ Day(tick) \in Nat /\ Day(tick') \in Nat /\ Day(tick) <= Day(tick')
      /\ Day(tick) \in Days /\ Day(tick') \in Days
  BY <1>1, DayFacts, DayGrows, InDays
<1>3. Day(tick)' = Day(tick')
  BY DEF Day
<1>4. \A d \in Days : d \in Nat /\ d * DayLength \in Nat
  <2> SUFFICES ASSUME NEW d \in Days PROVE d \in Nat /\ d * DayLength \in Nat
    OBVIOUS
  <2>1. d \in Nat
    BY DEF Days
  <2> QED
    BY <2>1
<1>5. slips \in Nat /\ digestsTold \in [Days -> Nat] /\ sentDay \in NeverYet..Day(tick)
  BY DEF DigestTypeOK
<1>6. ASSUME sentDay # Day(tick') PROVE digestsTold[Day(tick')] <= slips
  <2>1. CASE Day(tick') = Day(tick)
    BY <2>1, <1>6 DEF DaysInv
  <2>2. CASE Day(tick') # Day(tick)
    <3>1. Day(tick') > Day(tick)
      BY <2>2, <1>2
    <3>2. digestsTold[Day(tick')] = 0
      BY <3>1, <1>2 DEF DaysInv
    <3> QED
      BY <3>2, <1>5
  <2> QED
    BY <2>1, <2>2
<1>7. ASSUME NEW d \in Days PROVE digestsTold[d] > 0 => tick' >= d * DayLength + DueAt
  <2>1. digestsTold[d] > 0 => tick >= d * DayLength + DueAt
    BY DEF DaysInv
  <2> DEFINE x == d * DayLength
  <2>2. x \in Nat
    BY <1>4
  <2> HIDE DEF x
  <2>3. tick >= x + DueAt => tick' >= x + DueAt
    BY <1>1, <2>2
  <2> QED
    BY <2>1, <2>3 DEF x
<1>8. ASSUME NEW d \in Days, d > Day(tick') PROVE digestsTold[d] = 0
  <2>1. d > Day(tick)
    BY <1>2, <1>4, <1>8
  <2> QED
    BY <2>1 DEF DaysInv
<1>9. \A d \in Days : digestsTold[d] <= 1 + slips
  BY DEF DaysInv
<1>10. DaysInv'
  BY <1>3, <1>6, <1>7, <1>8, <1>9 DEF DaysInv
<1>11. sentDay' \in NeverYet..Day(tick')
  BY <1>2, <1>5 DEF NeverYet
<1> QED
  BY <1>10, <1>11

(* Sending, marking and saving: what each step leaves alone.                   *)
LEMMA DigestStep == DigestInv /\ [DigestNext]_digestVars => DigestInv'
<1> SUFFICES ASSUME DigestInv, [DigestNext]_digestVars PROVE DigestInv'
  OBVIOUS
<1> USE DigestConstants DEF DigestInv
<1>a. /\ tick \in 0..LastTick /\ tick \in Nat /\ repairAt \in NeverYet..tick
      /\ probed \in [at : NeverYet .. tick, verdict : ControlVerdicts]
      /\ sentDay \in NeverYet..Day(tick)
      /\ digestsTold \in [Days -> Nat] /\ {counted, lifetime, brought, slips, changes} \subseteq Nat
      /\ draft.head \in Headlines \cup {"none"} /\ draft.delta \in Nat
      /\ digestStep \in {"idle", "text", "quiet", "mark", "baseline"}
  BY DEF DigestTypeOK
<1>b. Day(tick) \in Nat /\ Day(tick) \in Days
  BY <1>a, DayFacts, InDays
<1>c. /\ counters \in Counters /\ baseline \in Baselines /\ draft.raw \in Baselines
      /\ Saves(draft) \in Baselines
  BY DEF CountsInv, Saves
<1>d. Saves(NoDraft) = baseline /\ NoDraft.raw \in Baselines /\ NoDraft.delta = 0
  BY DEF Saves, NoDraft, Baselines
(* The counters and what was said of them stay.                                *)
<1>e. ASSUME UNCHANGED <<counters, lifetime, brought, changes, baseline, digestStep, draft, counted, slips>>
      PROVE  CountsInv'
  BY <1>e DEF CountsInv, Accounts, AccountsAt, Saves
(* The days stay.                                                              *)
<1>f. ASSUME UNCHANGED <<tick, sentDay, digestStep, digestsTold, slips>> PROVE DaysInv'
  BY <1>f DEF DaysInv, Day
<1>1. CASE PassEnded
  <2>1. /\ tick' = tick + 1 /\ tick < LastTick /\ digestStep = "idle"
        /\ UNCHANGED <<repairAt, probed, counters, lifetime, brought, changes, baseline, sentDay, digestStep,
                       draft, digestsTold, counted, slips>>
    BY <1>1 DEF PassEnded, observedVars, counterVars, digestStateVars
  <2>2. tick' \in 0..LastTick /\ tick' \in {tick, tick + 1}
    BY <2>1, <1>a
  <2>3. DaysInv' /\ sentDay' \in NeverYet..Day(tick')
    BY <2>1, <2>2, TickMoves
  <2>4. DigestTypeOK'
    <3>1. /\ repairAt' \in NeverYet..tick'
          /\ probed' \in [at : NeverYet .. tick', verdict : ControlVerdicts]
      BY <2>1, <1>a DEF NeverYet
    <3> QED
      BY <2>1, <2>2, <2>3, <3>1 DEF DigestTypeOK, Day
  <2> QED
    BY <2>1, <2>3, <2>4, <1>e DEF OkIsVouched
<1>2. ASSUME NEW v \in {"ok", "wrong"}, ControlRead(v) PROVE DigestInv'
  <2>1. /\ digestStep = "idle" /\ probed' = [at |-> tick, verdict |-> v]
        /\ UNCHANGED <<tick, repairAt, counters, lifetime, brought, changes, baseline, sentDay, digestStep,
                       draft, digestsTold, counted, slips>>
    BY <1>2 DEF ControlRead, counterVars, digestStateVars
  <2>2. probed' \in [at : NeverYet .. tick, verdict : ControlVerdicts]
    <3>1. tick \in NeverYet..tick
      BY <1>a DEF NeverYet
    <3> QED
      BY <2>1, <3>1 DEF ControlVerdicts
  <2>3. DigestTypeOK'
    BY <2>1, <2>2 DEF DigestTypeOK, Day
  <2> QED
    BY <2>1, <2>3, <1>e, <1>f DEF OkIsVouched
<1>3. CASE RepairFailed
  <2>1. /\ digestStep = "idle" /\ repairAt' = tick
        /\ UNCHANGED <<tick, probed, counters, lifetime, brought, changes, baseline, sentDay, digestStep,
                       draft, digestsTold, counted, slips>>
    BY <1>3 DEF RepairFailed, counterVars, digestStateVars
  <2>2. repairAt' \in NeverYet..tick
    BY <2>1, <1>a DEF NeverYet
  <2>3. DigestTypeOK'
    BY <2>1, <2>2 DEF DigestTypeOK, Day
  <2> QED
    BY <2>1, <2>3, <1>e, <1>f DEF OkIsVouched
<1>4. CASE (\E bad \in BOOLEAN : RequestServed(bad)) \/ ScorerKilled \/ ScorerChanged
  <2>1. UNCHANGED <<tick, repairAt, probed, baseline, sentDay, digestStep, draft, digestsTold,
                    counted, slips>>
    BY <1>4 DEF RequestServed, ScorerKilled, ScorerChanged, observedVars, digestStateVars
  <2>2. counters' \in Counters /\ lifetime' \in Nat /\ brought' \in Nat /\ changes' \in Nat
    <3>0. counters.requests \in Nat /\ counters.failed \in Nat
      BY <1>c DEF Counters
    <3>1. CASE ScorerKilled
      <4>1. PICK n \in [requests : 0 .. counters.requests, failed : 0 .. counters.failed] :
              /\ counters' = n /\ lifetime' = lifetime /\ changes' = changes + 1
              /\ brought' = brought + IF Restarted(n, baseline) \/ Restarted(n, draft.raw)
                                     THEN n.failed ELSE 0
        BY <3>1 DEF ScorerKilled
      <4>2. n \in Counters /\ n.failed \in Nat
        BY <3>0 DEF Counters
      <4> QED BY <4>1, <4>2, <1>a
    <3>2. CASE ScorerChanged
      <4>1. PICK n \in [requests : 0 .. Requests, failed : 0 .. Requests] :
              /\ counters' = n /\ lifetime' = lifetime /\ changes' = changes + 1
              /\ brought' = brought + n.failed
        BY <3>2 DEF ScorerChanged
      <4>2. n \in Counters /\ n.failed \in Nat
        BY DigestAssumption DEF Counters
      <4> QED BY <4>1, <4>2, <1>a
    <3>3. ASSUME NEW bad \in BOOLEAN, RequestServed(bad)
          PROVE  counters' \in Counters /\ lifetime' \in Nat /\ brought' \in Nat /\ changes' \in Nat
      <4> DEFINE k == IF bad THEN 1 ELSE 0
      <4>1. /\ counters' = [requests |-> counters.requests + 1, failed |-> counters.failed + k]
            /\ lifetime' = lifetime + k /\ UNCHANGED <<brought, changes>> /\ k \in Nat
        BY <3>3 DEF RequestServed
      <4> HIDE DEF k
      <4> QED
        BY <3>0, <4>1, <1>a DEF Counters
    <3> QED
      BY <1>4, <3>1, <3>2, <3>3
  <2>3. DigestTypeOK'
    BY <2>1, <2>2, <1>a DEF DigestTypeOK, Day
  <2>4. ASSUME NEW base \in {baseline, draft.raw}, NEW c \in Nat, Accounts(base, c)
        PROVE  AccountsAt(base, c, counters', lifetime' + brought', changes')
    <3>1. base \in Baselines
      BY <1>c
    <3>2. CASE ScorerKilled \/ ScorerChanged
      <4>1. c + Since(counters', base).failed <= lifetime' + brought'
        BY <2>4, <3>2, AccountsChange
      <4>2. changes' # 0
        BY <3>2, <1>a DEF ScorerKilled, ScorerChanged
      <4> QED BY <4>1, <4>2 DEF AccountsAt
    <3>3. ASSUME NEW bad \in BOOLEAN, RequestServed(bad)
          PROVE  AccountsAt(base, c, counters', lifetime' + brought', changes')
      <4>1. \A b \in Baselines, d \in Nat : Accounts(b, d) =>
              AccountsAt(b, d, counters', lifetime' + brought', changes')
        BY <3>3, AccountsGoOn DEF Accounts
      <4> QED BY <2>4, <3>1, <4>1
    <3> QED BY <1>4, <3>2, <3>3
  <2>5. CountsInv'
    <3>1. counted + draft.delta \in Nat /\ counted \in Nat
      BY <1>a
    <3>2. Saves(draft)' = Saves(draft) /\ Saves(draft) \in {baseline, draft.raw}
      BY <2>1 DEF Saves
    <3>3. ASSUME slips = 0
          PROVE  /\ digestStep \in {"idle", "text", "quiet"} =>
                      AccountsAt(baseline, counted, counters', lifetime' + brought', changes')
                 /\ digestStep \in {"text", "quiet"} =>
                      AccountsAt(Saves(draft), counted + draft.delta, counters',
                                 lifetime' + brought', changes')
                 /\ digestStep \in {"mark", "baseline"} =>
                      AccountsAt(Saves(draft), counted, counters', lifetime' + brought', changes')
      BY <3>1, <3>2, <3>3, <2>4 DEF CountsInv
    <3>4. changes' = 0 => brought' = 0
      BY <1>4, <1>a DEF CountsInv, RequestServed, ScorerKilled, ScorerChanged
    <3> QED
      BY <3>2, <3>3, <3>4, <2>1, <2>2, <1>a, <1>c DEF CountsInv, Accounts
  <2> QED
    BY <2>1, <2>3, <2>5, <1>f DEF OkIsVouched
<1>5. ASSUME NEW f \in Found, DigestStarted(f) PROVE DigestInv'
  <2>1. /\ digestStep = "idle" /\ Due /\ draft' = Drafted(f)
        /\ digestStep' \in {"quiet", "text"}
        /\ UNCHANGED <<tick, repairAt, probed, counters, lifetime, brought, changes, baseline, sentDay,
                       digestsTold, counted, slips>>
    BY <1>5 DEF DigestStarted, observedVars, counterVars
  <2>2. /\ draft'.head = Headline(f)
        /\ draft'.delta = IF f.scorer THEN Since(counters, baseline).failed ELSE 0
        /\ draft'.raw = IF f.scorer THEN counters ELSE NoBaseline
    BY <2>1 DEF Drafted
  <2>3. /\ draft'.head \in Headlines /\ draft'.delta \in Nat /\ draft'.raw \in Baselines
    <3>1. Since(counters, baseline).failed \in Nat
      BY <1>c, SinceFails
    <3> QED
      BY <2>2, <3>1, <1>c DEF Headline, Headlines, Baselines
  <2>4. DigestTypeOK'
    BY <2>1, <2>3 DEF DigestTypeOK, Day
  <2>5. CountsInv'
    <3>1. slips = 0 => Accounts(baseline, counted)
      BY <2>1 DEF CountsInv
    <3>2. slips = 0 => AccountsAt(Saves(draft'), counted + draft'.delta, counters, lifetime + brought,
                                   changes)
      <4>1. CASE f.scorer
        <5>1. /\ draft'.raw = counters /\ draft'.delta = Since(counters, baseline).failed
          BY <4>1, <2>2
        <5>2. counters # NoBaseline /\ ~Restarted(counters, counters)
              /\ Since(counters, counters).failed = 0
          BY <1>c, SinceItself
        <5>3. Saves(draft') = counters
          BY <5>1, <5>2 DEF Saves
        <5>4. counted + draft'.delta + Since(counters, counters).failed = counted + draft'.delta
          BY <5>2, <2>3, <1>a
        <5> QED
          BY <3>1, <5>1, <5>2, <5>3, <5>4 DEF Accounts, AccountsAt
      <4>2. CASE ~f.scorer
        <5>1. draft'.raw = NoBaseline /\ draft'.delta = 0
          BY <4>2, <2>2
        <5>2. Saves(draft') = baseline /\ counted + draft'.delta = counted
          BY <5>1, <1>a DEF Saves
        <5> QED
          BY <3>1, <5>2 DEF Accounts
      <4> QED
        BY <4>1, <4>2
    <3>3. Saves(draft)' = Saves(draft')
      BY <2>1 DEF Saves
    <3> QED
      BY <2>1, <2>3, <3>1, <3>2, <3>3, <1>a, <1>c DEF CountsInv, Accounts
  <2>6. DaysInv'
    <3>1. tick >= Day(tick) * DayLength + DueAt /\ sentDay # Day(tick)
      BY <2>1, <1>a, DayFacts DEF Due
    <3> QED
      BY <2>1, <3>1 DEF DaysInv, Day
  <2>7. OkIsVouched'
    <3>1. SUFFICES ASSUME Headline(f) = "ok"
                   PROVE  probed.verdict = "ok" /\ tick <= probed.at + Fresh /\ repairAt <= probed.at
      BY <2>1, <2>2 DEF OkIsVouched
    <3>2. ControlHealth # "wrong" /\ ControlHealth # "unknown"
      BY <3>1 DEF Headline, Problems
    <3>3. ReadStands /\ tick - probed.at <= Fresh /\ probed.verdict = ControlHealth
      BY <3>2 DEF ControlHealth
    <3>4. probed.verdict = "ok"
      BY <3>2, <3>3, <1>a DEF ControlVerdicts
    <3>5. probed.at \in Int /\ repairAt \in Int /\ probed.at >= -1
      BY <1>a DEF NeverYet
    <3>6. repairAt <= probed.at
      BY <3>3, <3>5 DEF ReadStands, NeverYet
    <3>7. tick <= probed.at + Fresh
      BY <3>3, <3>5, <1>a
    <3> QED
      BY <3>4, <3>6, <3>7
  <2> QED
    BY <2>4, <2>5, <2>6, <2>7
<1>6. CASE TextDelivered
  <2>1. /\ digestStep = "text" /\ digestStep' = "mark"
        /\ digestsTold' = [digestsTold EXCEPT ![Day(tick)] = @ + 1]
        /\ counted' = counted + draft.delta
        /\ UNCHANGED <<tick, repairAt, probed, counters, lifetime, brought, changes, baseline, sentDay, draft,
                       slips>>
    BY <1>6 DEF TextDelivered, observedVars, counterVars
  <2>2. /\ digestsTold' \in [Days -> Nat] /\ digestsTold'[Day(tick)] = digestsTold[Day(tick)] + 1
        /\ \A d \in Days : d # Day(tick) => digestsTold'[d] = digestsTold[d]
    BY <2>1, <1>a, <1>b
  <2>3. counted' \in Nat
    BY <2>1, <1>a
  <2>4. DigestTypeOK'
    BY <2>1, <2>2, <2>3 DEF DigestTypeOK, Day
  <2>5. CountsInv'
    BY <2>1, <2>3 DEF CountsInv, Accounts, AccountsAt, Saves
  <2>6. DaysInv'
    <3>1. /\ digestsTold[Day(tick)] <= slips /\ digestsTold[Day(tick)] \in Nat
          /\ tick >= Day(tick) * DayLength + DueAt
      BY <2>1, <1>a, <1>b DEF DaysInv
    <3>2. digestsTold'[Day(tick)] <= 1 + slips
      BY <3>1, <2>2, <1>a
    <3>3. \A d \in Days : digestsTold'[d] <= 1 + slips
      BY <3>2, <2>2 DEF DaysInv
    <3>4. \A d \in Days : d > Day(tick) => digestsTold'[d] = 0
      <4>1. \A d \in Days : d > Day(tick) => d # Day(tick)
        BY <1>b
      <4> QED
        BY <4>1, <2>2 DEF DaysInv
    <3>5. \A d \in Days : digestsTold'[d] > 0 => tick >= d * DayLength + DueAt
      BY <3>1, <2>2 DEF DaysInv
    <3> QED
      BY <3>3, <3>4, <3>5, <2>1 DEF DaysInv, Day
  <2> QED
    BY <2>1, <2>4, <2>5, <2>6 DEF OkIsVouched
<1>7. CASE TextRefused
  <2>1. /\ digestStep = "text" /\ digestStep' = "idle" /\ draft' = NoDraft
        /\ tick' = IF tick < LastTick THEN tick + 1 ELSE tick
        /\ UNCHANGED <<repairAt, probed, counters, lifetime, brought, changes, baseline, sentDay, digestsTold,
                       counted, slips>>
    BY <1>7 DEF TextRefused, observedVars, counterVars
  <2>2. tick' \in 0..LastTick /\ tick' \in {tick, tick + 1}
    BY <2>1, <1>a
  <2>3. DaysInv' /\ sentDay' \in NeverYet..Day(tick')
    BY <2>1, <2>2, TickMoves
  <2>4. DigestTypeOK'
    <3>1. /\ repairAt' \in NeverYet..tick'
          /\ probed' \in [at : NeverYet .. tick', verdict : ControlVerdicts]
      BY <2>1, <2>2, <1>a DEF NeverYet
    <3>2. draft'.head = "none" /\ draft'.delta = 0
      BY <2>1 DEF NoDraft
    <3> QED
      BY <2>1, <2>2, <2>3, <3>1, <3>2 DEF DigestTypeOK, Day
  <2>5. CountsInv'
    <3>1. Saves(draft') = baseline /\ draft'.raw \in Baselines /\ draft'.delta \in Nat
      BY <2>1, <1>d
    <3> QED
      BY <2>1, <3>1 DEF CountsInv, Accounts, AccountsAt
  <2> QED
    BY <2>1, <2>3, <2>4, <2>5 DEF OkIsVouched
<1>8. CASE QuietDay
  <2>1. /\ digestStep = "quiet" /\ digestStep' = "mark" /\ counted' = counted + draft.delta
        /\ UNCHANGED <<tick, repairAt, probed, counters, lifetime, brought, changes, baseline, sentDay, draft,
                       digestsTold, slips>>
    BY <1>8 DEF QuietDay, observedVars, counterVars
  <2>2. counted' \in Nat
    BY <2>1, <1>a
  <2>3. DigestTypeOK'
    BY <2>1, <2>2 DEF DigestTypeOK, Day
  <2>4. CountsInv'
    BY <2>1, <2>2 DEF CountsInv, Accounts, AccountsAt, Saves
  <2>5. DaysInv'
    BY <2>1 DEF DaysInv, Day
  <2> QED
    BY <2>1, <2>3, <2>4, <2>5 DEF OkIsVouched
<1>9. ASSUME NEW ok \in BOOLEAN, DayMarked(ok) PROVE DigestInv'
  <2>1. /\ digestStep = "mark" /\ digestStep' = "baseline"
        /\ (sentDay' = Day(tick) /\ slips' = slips) \/ (sentDay' = sentDay /\ slips' = slips + 1)
        /\ UNCHANGED <<tick, repairAt, probed, counters, lifetime, brought, changes, baseline, draft,
                       digestsTold, counted>>
    BY <1>9 DEF DayMarked, observedVars, counterVars
  <2>2. sentDay' \in NeverYet..Day(tick) /\ slips' \in Nat
    BY <2>1, <1>a, <1>b DEF NeverYet
  <2>3. DigestTypeOK'
    BY <2>1, <2>2 DEF DigestTypeOK, Day
  <2>4. CountsInv'
    <3>1. slips' = 0 => slips = 0
      BY <2>1, <1>a
    <3> QED
      BY <2>1, <3>1 DEF CountsInv, Accounts, AccountsAt, Saves
  <2>5. DaysInv'
    <3>1. slips' = slips \/ slips' = slips + 1
      BY <2>1
    <3>2. \A d \in Days : digestsTold[d] <= 1 + slips' /\ digestsTold[d] \in Nat
      BY <3>1, <1>a DEF DaysInv
    <3>3. (sentDay' # Day(tick)) => digestsTold[Day(tick)] <= slips'
      <4>1. digestsTold[Day(tick)] <= 1 + slips
        BY <1>b DEF DaysInv
      <4>2. sentDay' # Day(tick) => slips' = slips + 1
        BY <2>1
      <4> QED
        BY <4>1, <4>2, <1>a
    <3> QED
      BY <2>1, <3>2, <3>3 DEF DaysInv, Day
  <2> QED
    BY <2>1, <2>3, <2>4, <2>5 DEF OkIsVouched
<1>10. ASSUME NEW ok \in BOOLEAN, BaselineSaved(ok) PROVE DigestInv'
  <2>1. /\ digestStep = "baseline" /\ digestStep' = "idle" /\ draft' = NoDraft
        /\ \/ baseline' = Saves(draft) /\ slips' = slips
           \/ baseline' = baseline /\ slips' = slips + 1
        /\ UNCHANGED <<tick, repairAt, probed, counters, lifetime, brought, changes, sentDay, digestsTold,
                       counted>>
    BY <1>10 DEF BaselineSaved, observedVars, counterVars
  <2>2. baseline' \in Baselines /\ slips' \in Nat /\ (slips' = 0 => slips = 0 /\ baseline' = Saves(draft))
    BY <2>1, <1>a, <1>c
  <2>3. DigestTypeOK'
    <3>1. draft'.head = "none" /\ draft'.delta = 0
      BY <2>1 DEF NoDraft
    <3> QED
      BY <2>1, <2>2, <3>1 DEF DigestTypeOK, Day, Baselines
  <2>4. CountsInv'
    <3>1. draft'.raw \in Baselines /\ draft'.delta \in Nat
      BY <2>1, <1>d
    <3> QED
      BY <2>1, <2>2, <3>1 DEF CountsInv, Accounts, AccountsAt
  <2>5. DaysInv'
    <3>1. slips' = slips \/ slips' = slips + 1
      BY <2>1
    <3>2. \A d \in Days : digestsTold[d] <= 1 + slips' /\ digestsTold[d] \in Nat
      BY <3>1, <1>a DEF DaysInv
    <3>3. (sentDay # Day(tick)) => digestsTold[Day(tick)] <= slips'
      <4>1. sentDay # Day(tick) => digestsTold[Day(tick)] <= slips
        BY <2>1 DEF DaysInv
      <4> QED
        BY <4>1, <3>1, <1>a, <1>b
    <3> QED
      BY <2>1, <3>2, <3>3 DEF DaysInv, Day
  <2> QED
    BY <2>1, <2>3, <2>4, <2>5 DEF OkIsVouched
<1>11. CASE DigestCrash
  <2>1. /\ slips' = slips + 1 /\ digestStep' = "idle" /\ draft' = NoDraft /\ repairAt' = NeverYet
        /\ UNCHANGED <<tick, probed, counters, lifetime, brought, changes, baseline, sentDay, digestsTold,
                       counted>>
    BY <1>11 DEF DigestCrash, counterVars
  <2>2. slips' \in Nat /\ slips' # 0
    BY <2>1, <1>a
  <2>3. DigestTypeOK'
    <3>1. draft'.head = "none" /\ draft'.delta = 0
      BY <2>1 DEF NoDraft
    <3>2. repairAt' \in NeverYet..tick
      BY <2>1, <1>a DEF NeverYet
    <3> QED
      BY <2>1, <2>2, <3>1, <3>2 DEF DigestTypeOK, Day
  <2>4. CountsInv'
    <3>1. draft'.raw \in Baselines /\ draft'.delta \in Nat
      BY <2>1, <1>d
    <3> QED
      BY <2>1, <2>2, <3>1 DEF CountsInv
  <2>5. DaysInv'
    <3>1. \A d \in Days : digestsTold[d] <= 1 + slips' /\ digestsTold[d] \in Nat
      BY <2>1, <1>a DEF DaysInv
    <3>2. digestsTold[Day(tick)] <= slips'
      <4>1. digestsTold[Day(tick)] <= 1 + slips
        BY <1>b DEF DaysInv
      <4> QED
        BY <4>1, <2>1, <1>a
    <3> QED
      BY <2>1, <3>1, <3>2 DEF DaysInv, Day
  <2> QED
    BY <2>1, <2>3, <2>4, <2>5 DEF OkIsVouched
<1>12. CASE UNCHANGED digestVars
  <2>1. UNCHANGED <<tick, repairAt, probed, counters, lifetime, brought, changes, baseline, sentDay, digestStep,
                    draft, digestsTold, counted, slips>>
    BY <1>12 DEF digestVars, observedVars, counterVars, digestStateVars
  <2> QED
    BY <2>1, <1>e, <1>f DEF DigestTypeOK, OkIsVouched, Day
<1> QED
  BY <1>1, <1>2, <1>3, <1>4, <1>5, <1>6, <1>7, <1>8, <1>9, <1>10, <1>11, <1>12 DEF DigestNext

LEMMA DigestTrue == DigestInv => DigestTypeOK /\ DigestIsTrue
<1> SUFFICES ASSUME DigestInv PROVE DigestIsTrue
  BY DEF DigestInv
<1> USE DEF DigestInv
<1>1. OneDigestADay
  BY DEF DaysInv, OneDigestADay
<1>2. FailuresToldOnce
  <2>1. SUFFICES ASSUME slips = 0, digestStep = "idle"
                 PROVE  /\ counted + Since(counters, baseline).failed <= lifetime + brought
                        /\ changes = 0 => counted + Since(counters, baseline).failed = lifetime
    BY DEF FailuresToldOnce
  <2>2. /\ counted + Since(counters, baseline).failed <= lifetime + brought
        /\ changes = 0 => counted + Since(counters, baseline).failed = lifetime + brought
    BY <2>1 DEF CountsInv, Accounts, AccountsAt
  <2>3. changes = 0 => lifetime + brought = lifetime
    BY DEF CountsInv
  <2> QED
    BY <2>2, <2>3
<1> QED
  BY <1>1, <1>2 DEF DigestIsTrue

(* The digest goes out once a day, counts every failure of the scorer once but   *)
(* for those that older counters or another scorer bring, and says "Fleet OK"    *)
(* only of what was read (reviewdigest.run_if_due,                             *)
(* scorer_daily_delta, fleet_lines).                                           *)
THEOREM DigestIsTrueCorrect == DigestSpec => []DigestIsTrue
<1> QED
  BY DigestInitInv, DigestStep, DigestTrue, PTL DEF DigestSpec

----------------------------------------------------------------------------
(* The footage of outages *)

(* The unit of the camera's last tick.                                         *)
LastTickOf(c) == IF passed >= c THEN unit ELSE unit - 1
ArchivedFor(c) == \E a \in Of(c) : a.for = failSince[c]
Archives == [cam : Nat, seg : Nat, for : Int]
Copies(c) == copier # NoCopy /\ copier.cam = c

EvidenceShape ==
  /\ unit \in 0..LastUnit /\ passed \in 0..LastCam
  /\ film \in [FilmedCams -> [seg : Nat, age : 0..2]]
  /\ failSince \in [FilmedCams -> Int]
  /\ tries \in [FilmedCams -> [outage : Int, n : 0..EvidenceTries, retryAt : Int]]
  /\ \/ copier = NoCopy
     \/ copier \in [cam : FilmedCams, outage : Nat, age : {0, 1},
                    step : {"look", "copy", "changed"}, seg : Nat]
  /\ archives \subseteq Archives /\ IsFiniteSet(archives)
  /\ \A c \in FilmedCams : Cardinality(Of(c)) <= MaxIncidents
  /\ leftovers \in [FilmedCams -> Nat] /\ failures \in [FilmedCams -> Nat]
  /\ turns \in [FilmedCams -> Nat] /\ copyTrouble \in 0..CopyTrouble

(* An outage is as old as a tick that saw it.                                  *)
OutagesInv ==
  \A c \in FilmedCams :
    /\ Up <= failSince[c] /\ failSince[c] <= LastTickOf(c)
    /\ Up <= tries[c].outage /\ tries[c].outage <= LastTickOf(c)
    /\ tries[c].outage = Up => (tries[c].n = 0 /\ tries[c].retryAt = 0)

(* A copy is over before its camera could fail anew.                           *)
CopyInv ==
  copier # NoCopy =>
    LET c == copier.cam
    IN /\ tries[c].outage = copier.outage /\ tries[c].n >= 1
       /\ failSince[c] \in {copier.outage, Up}
       /\ copier.age = 0 => (passed >= c /\ failSince[c] = copier.outage)
       /\ passed < c => failSince[c] = copier.outage
       /\ unit - copier.age - copier.outage >= Threshold
       /\ copier.step # "look" => ~FullOf(c)

(* Every try of the outage failed, is under way, or preserved the footage.     *)
SpentOn(c) ==
  /\ (tries[c].outage = failSince[c] /\ failSince[c] # Up) =>
       \/ tries[c].n = failures[c] + (IF Copies(c) THEN 1 ELSE 0)
       \/ tries[c].n = EvidenceTries /\ ArchivedFor(c)
  /\ tries[c].outage # failSince[c] => failures[c] = 0

(* Ticks of the camera that the copy under way can still keep from asking.     *)
Blocks(c) ==
  IF copier = NoCopy \/ Copies(c) THEN 0
  ELSE (IF passed < c THEN 1 ELSE 0) + (IF copier.age = 0 THEN 1 ELSE 0)

Waits(c) == film[c].seg > 0 /\ ~FullOf(c) /\ ~ArchivedFor(c)

InTime(c) ==
  (copyTrouble = CopyTrouble /\ failSince[c] # Up) =>
    /\ film[c].age >= 2 \/ film[c].age >= unit - failSince[c]
    /\ Copies(c) => copier.step # "changed"
    /\ Blocks(c) <= 2 * turns[c] + 1
    /\ (Waits(c) /\ Copies(c)) =>
         unit - copier.age - failSince[c] <= Threshold + 2 * turns[c] + 1
    /\ (Waits(c) /\ ~Copies(c)) =>
         /\ tries[c].outage # failSince[c]
         /\ LastTickOf(c) >= failSince[c] + Threshold =>
              LastTickOf(c) + Blocks(c) <= failSince[c] + Threshold + 2 * turns[c]

EvidenceInv ==
  /\ EvidenceShape /\ OutagesInv /\ CopyInv
  /\ \A c \in FilmedCams : SpentOn(c) /\ InTime(c)

LEMMA EvidenceConstants ==
  /\ Threshold \in Nat /\ Threshold >= 1 /\ RetryAfter \in Nat /\ EvidenceTries \in Nat
  /\ EvidenceTries >= 1 /\ LastCam \in Nat /\ MaxIncidents \in Nat /\ LastUnit \in Nat
  /\ Segments \in Nat /\ CopyTrouble \in Nat
  BY EvidenceAssumption

LEMMA EvidenceInitInv == EvidenceInit => EvidenceInv
<1> SUFFICES ASSUME EvidenceInit PROVE EvidenceInv
  OBVIOUS
<1> USE EvidenceConstants
<1>1. /\ unit = 0 /\ film = [c \in FilmedCams |-> [seg |-> 0, age |-> 2]]
      /\ failSince = [c \in FilmedCams |-> Up] /\ passed = 0
      /\ tries = [c \in FilmedCams |-> Untried] /\ copier = NoCopy /\ archives = {}
      /\ leftovers = [c \in FilmedCams |-> 0] /\ failures = [c \in FilmedCams |-> 0]
      /\ turns = [c \in FilmedCams |-> 0] /\ copyTrouble = CopyTrouble
  BY DEF EvidenceInit
<1>2. /\ \A c \in FilmedCams : failSince[c] = -1 /\ tries[c].outage = -1 /\ tries[c].n = 0
                               /\ tries[c].retryAt = 0 /\ c \in Nat /\ c > 0
      /\ Up = -1
  BY <1>1 DEF Untried, Up, FilmedCams
<1>3. EvidenceShape
  <2>1. \A c \in FilmedCams : Of(c) = {}
    BY <1>1 DEF Of
  <2>2. IsFiniteSet({}) /\ Cardinality({}) = 0
    BY FS_EmptySet
  <2>3. tries \in [FilmedCams -> [outage : Int, n : 0..EvidenceTries, retryAt : Int]]
    BY <1>1 DEF Untried, Up
  <2>4. film \in [FilmedCams -> [seg : Nat, age : 0..2]]
    BY <1>1
  <2>5. failSince \in [FilmedCams -> Int]
    BY <1>1 DEF Up
  <2> QED
    BY <1>1, <2>1, <2>2, <2>3, <2>4, <2>5 DEF EvidenceShape
<1>4. OutagesInv
  BY <1>1, <1>2 DEF OutagesInv, LastTickOf
<1>5. CopyInv
  BY <1>1 DEF CopyInv
<1>6. ASSUME NEW c \in FilmedCams PROVE SpentOn(c) /\ InTime(c)
  BY <1>1, <1>2 DEF SpentOn, InTime
<1> QED
  BY <1>3, <1>4, <1>5, <1>6 DEF EvidenceInv

(* What a copy that is over leaves behind for the other cameras.               *)
LEMMA OthersGoOn ==
  ASSUME EvidenceInv, copier # NoCopy, copier' = NoCopy, UNCHANGED <<filmVars, turns, leftovers>>,
         copyTrouble' <= copyTrouble, copyTrouble' \in 0..CopyTrouble,
         NEW d \in FilmedCams, d # copier.cam,
         tries'[d] = tries[d], failures'[d] = failures[d], Of(d)' = Of(d)
  PROVE  SpentOn(d)' /\ InTime(d)'
<1> USE EvidenceConstants
<1>1. /\ UNCHANGED <<unit, film, failSince, passed, turns, leftovers>>
      /\ ~Copies(d) /\ ~Copies(d)'
  BY DEF filmVars, Copies
<1>2. ArchivedFor(d)' = ArchivedFor(d)
  BY <1>1 DEF ArchivedFor
<1>3. FullOf(d)' = FullOf(d)
  BY <1>1 DEF FullOf
<1>4. SpentOn(d)'
  BY <1>1, <1>2 DEF EvidenceInv, SpentOn
<1>5. InTime(d)'
  <2>1. SUFFICES ASSUME copyTrouble' = CopyTrouble, failSince[d] # Up PROVE InTime(d)'
    BY <1>1 DEF InTime
  <2>0. copyTrouble \in 0..CopyTrouble
    BY DEF EvidenceInv, EvidenceShape
  <2>2. copyTrouble = CopyTrouble
    BY <2>0, <2>1
  <2>3. Blocks(d)' = 0 /\ Blocks(d) \in Nat /\ turns[d] \in Nat
    BY DEF Blocks, EvidenceInv, EvidenceShape
  <2>4. LastTickOf(d)' = LastTickOf(d) /\ LastTickOf(d) \in Int /\ failSince[d] \in Int
    BY <1>1 DEF LastTickOf, EvidenceInv, EvidenceShape
  <2>5. Waits(d)' = Waits(d)
    BY <1>1, <1>2, <1>3 DEF Waits
  <2>6. /\ film[d].age >= 2 \/ film[d].age >= unit - failSince[d]
        /\ Waits(d) =>
             /\ tries[d].outage # failSince[d]
             /\ LastTickOf(d) >= failSince[d] + Threshold =>
                  LastTickOf(d) + Blocks(d) <= failSince[d] + Threshold + 2 * turns[d]
    BY <1>1, <2>1, <2>2 DEF EvidenceInv, InTime
  <2> DEFINE b == Blocks(d)
             l == LastTickOf(d)
             t == turns[d]
             f == failSince[d]
  <2>7. l + b <= f + Threshold + 2 * t => l + 0 <= f + Threshold + 2 * t
    <3>1. b \in Nat /\ l \in Int /\ t \in Nat /\ f \in Int
      BY <2>3, <2>4
    <3> HIDE DEF b, l, t, f
    <3> QED
      BY <3>1
  <2>8. 0 <= 2 * turns[d] + 1
    BY <2>3
  <2> QED
    BY <1>1, <2>3, <2>4, <2>5, <2>6, <2>7, <2>8 DEF InTime
<1> QED
  BY <1>4, <1>5

(* A copy ended with nothing: by trouble, or because the archive is full.      *)
LEMMA NothingStep ==
  ASSUME EvidenceInv, copier # NoCopy, Nothing, UNCHANGED <<filmVars, turns>>,
         copyTrouble' <= copyTrouble, copyTrouble' \in 0..CopyTrouble,
         \/ copyTrouble' # CopyTrouble \/ failSince[copier.cam] # copier.outage
         \/ FullOf(copier.cam)
  PROVE  EvidenceInv'
<1> USE EvidenceConstants
<1>k. PICK k \in FilmedCams : k = copier.cam
  BY DEF EvidenceInv, EvidenceShape
<1>1. /\ k \in FilmedCams /\ copier' = NoCopy
      /\ failures' = IF failSince[k] = copier.outage
                     THEN [failures EXCEPT ![k] = @ + 1] ELSE failures
      /\ UNCHANGED <<archives, tries, leftovers, unit, film, failSince, passed, turns>>
  BY <1>k DEF Nothing, EvidenceInv, EvidenceShape, filmVars
<1>2. /\ failures' \in [FilmedCams -> Nat]
      /\ \A d \in FilmedCams : d # k => failures'[d] = failures[d]
      /\ failures'[k] = IF failSince[k] = copier.outage THEN failures[k] + 1 ELSE failures[k]
  BY <1>1 DEF EvidenceInv, EvidenceShape
<1>3. \A c \in FilmedCams : Of(c)' = Of(c)
  BY <1>1, <1>k DEF Of
<1>4. EvidenceShape'
  BY <1>1, <1>2, <1>3 DEF EvidenceInv, EvidenceShape
<1>5. OutagesInv'
  BY <1>1 DEF EvidenceInv, OutagesInv, LastTickOf
<1>6. CopyInv'
  BY <1>1 DEF CopyInv
<1>7. ASSUME NEW d \in FilmedCams, d # k PROVE SpentOn(d)' /\ InTime(d)'
  <2>1. failures'[d] = failures[d] /\ Of(d)' = Of(d) /\ tries'[d] = tries[d]
    BY <1>1, <1>2, <1>3, <1>7
  <2> QED
    BY <2>1, <1>1, <1>7, <1>k, OthersGoOn
<1>8. /\ tries[k].outage = copier.outage /\ tries[k].n >= 1 /\ failSince[k] \in {copier.outage, Up}
      /\ copier.outage \in Nat
  BY <1>k DEF EvidenceInv, CopyInv, EvidenceShape
<1>9. SpentOn(k)'
  <2>1. ArchivedFor(k)' = ArchivedFor(k) /\ ~Copies(k)' /\ Copies(k)
    BY <1>1, <1>3, <1>k DEF ArchivedFor, Copies, NoCopy
  <2>2. /\ (tries[k].outage = failSince[k] /\ failSince[k] # Up) =>
              (tries[k].n = failures[k] + 1 \/ (tries[k].n = EvidenceTries /\ ArchivedFor(k)))
        /\ tries[k].outage # failSince[k] => failures[k] = 0
    BY <1>1, <2>1 DEF EvidenceInv, SpentOn
  <2>3. failures'[k] = failures'[k] + 0
    BY <1>1, <1>2
  <2> QED
    BY <1>1, <1>2, <1>8, <2>1, <2>2, <2>3 DEF SpentOn
<1>10. InTime(k)'
  <2>1. SUFFICES ASSUME copyTrouble' = CopyTrouble, failSince[k] # Up PROVE InTime(k)'
    BY <1>1 DEF InTime
  <2>0. copyTrouble \in 0..CopyTrouble
    BY DEF EvidenceInv, EvidenceShape
  <2>2. copyTrouble = CopyTrouble
    BY <2>0, <2>1
  <2>3. FullOf(k)
    BY <1>8, <2>1, <1>k
  <2>4. FullOf(k)'
    BY <1>1, <1>3, <2>3 DEF FullOf
  <2>5. Blocks(k)' = 0 /\ turns[k] \in Nat /\ ~Copies(k)' /\ ~Waits(k)'
    BY <1>1, <2>4 DEF Blocks, Copies, Waits, EvidenceInv, EvidenceShape
  <2>6. film[k].age >= 2 \/ film[k].age >= unit - failSince[k]
    BY <1>1, <2>1, <2>2 DEF EvidenceInv, InTime
  <2>7. 0 <= 2 * turns[k] + 1
    BY <2>5
  <2> QED
    BY <1>1, <2>5, <2>6, <2>7 DEF InTime
<1> QED
  BY <1>4, <1>5, <1>6, <1>7, <1>9, <1>10 DEF EvidenceInv

(* A copy, or the use of an older one, that ended well.                        *)
LEMMA PreservedStep ==
  ASSUME EvidenceInv, copier # NoCopy, NEW as, Preserved(as),
         UNCHANGED <<filmVars, turns, copyTrouble>>,
         as \subseteq Archives, IsFiniteSet(as),
         \A d \in FilmedCams : d # copier.cam => {a \in as : a.cam = d} = Of(d),
         \E a \in as : a.cam = copier.cam /\ a.for = copier.outage,
         Cardinality({a \in as : a.cam = copier.cam}) <= MaxIncidents
  PROVE  EvidenceInv'
<1> USE EvidenceConstants
<1>k. PICK k \in FilmedCams : k = copier.cam
  BY DEF EvidenceInv, EvidenceShape
<1>1. /\ k \in FilmedCams /\ copier' = NoCopy /\ archives' = as
      /\ tries' = [tries EXCEPT ![k] =
                     [outage |-> copier.outage, n |-> EvidenceTries, retryAt |-> 0]]
      /\ UNCHANGED <<leftovers, failures, unit, film, failSince, passed, turns, copyTrouble>>
  BY <1>k DEF Preserved, EvidenceInv, EvidenceShape, filmVars
<1>2. copier.outage \in Nat /\ copier.outage \in Int
  BY DEF EvidenceInv, EvidenceShape
<1>3. /\ tries' \in [FilmedCams -> [outage : Int, n : 0..EvidenceTries, retryAt : Int]]
      /\ \A d \in FilmedCams : d # k => tries'[d] = tries[d]
      /\ tries'[k].outage = copier.outage /\ tries'[k].n = EvidenceTries
  BY <1>1, <1>2 DEF EvidenceInv, EvidenceShape
<1>4. /\ \A d \in FilmedCams : d # k => Of(d)' = Of(d)
      /\ Of(k)' = {a \in as : a.cam = k}
  BY <1>1, <1>k DEF Of
<1>5. EvidenceShape'
  <2>1. \A c \in FilmedCams : Cardinality(Of(c)') <= MaxIncidents
    BY <1>4 DEF EvidenceInv, EvidenceShape
  <2> QED
    BY <1>1, <1>3, <2>1 DEF EvidenceInv, EvidenceShape
<1>6. /\ tries[k].outage = copier.outage /\ failSince[k] \in {copier.outage, Up}
  BY <1>k DEF EvidenceInv, CopyInv
<1>7. OutagesInv'
  <2>1. LastTickOf(k)' = LastTickOf(k) /\ \A d \in FilmedCams : LastTickOf(d)' = LastTickOf(d)
    BY <1>1 DEF LastTickOf
  <2>2. copier.outage # Up
    BY <1>2 DEF Up
  <2>3. \A d \in FilmedCams : tries'[d].outage = tries[d].outage
    BY <1>3, <1>6
  <2>4. \A d \in FilmedCams : tries'[d].outage = Up => d # k
    BY <1>3, <2>2
  <2> QED
    BY <1>1, <1>3, <2>1, <2>3, <2>4 DEF EvidenceInv, OutagesInv
<1>8. CopyInv'
  BY <1>1 DEF CopyInv
<1>9. copyTrouble' <= copyTrouble /\ copyTrouble' \in 0..CopyTrouble
  BY <1>1 DEF EvidenceInv, EvidenceShape
<1>10. ASSUME NEW d \in FilmedCams, d # k PROVE SpentOn(d)' /\ InTime(d)'
  <2>1. failures'[d] = failures[d] /\ Of(d)' = Of(d) /\ tries'[d] = tries[d]
    BY <1>1, <1>3, <1>4, <1>10
  <2> QED
    BY <2>1, <1>1, <1>9, <1>10, <1>k, OthersGoOn
<1>11. failSince[k] # Up => ArchivedFor(k)'
  BY <1>1, <1>4, <1>6, <1>k DEF ArchivedFor
<1>12. SpentOn(k)'
  <2>1. tries[k].outage # failSince[k] => failures[k] = 0
    BY <1>1 DEF EvidenceInv, SpentOn
  <2> QED
    BY <1>1, <1>3, <1>6, <1>11, <2>1, <1>k DEF SpentOn
<1>13. InTime(k)'
  <2>1. SUFFICES ASSUME copyTrouble' = CopyTrouble, failSince[k] # Up PROVE InTime(k)'
    BY <1>1 DEF InTime
  <2>2. Blocks(k)' = 0 /\ turns[k] \in Nat /\ ~Copies(k)' /\ ~Waits(k)'
    BY <1>1, <1>11, <2>1 DEF Blocks, Copies, Waits, EvidenceInv, EvidenceShape
  <2>3. film[k].age >= 2 \/ film[k].age >= unit - failSince[k]
    BY <1>1, <2>1 DEF EvidenceInv, InTime
  <2>4. 0 <= 2 * turns[k] + 1
    BY <2>2
  <2> QED
    BY <1>1, <2>2, <2>3, <2>4 DEF InTime
<1> QED
  BY <1>5, <1>7, <1>8, <1>10, <1>12, <1>13 DEF EvidenceInv

LEMMA WritesStep ==
  ASSUME EvidenceInv, NEW c \in FilmedCams, RecorderWrites(c)
  PROVE  EvidenceInv'
<1> USE EvidenceConstants
<1>1. PICK s \in {film[c].seg, film[c].seg + 1} \cap 1..Segments :
        /\ film' = [film EXCEPT ![c] = [seg |-> s, age |-> 0]]
        /\ copier' = IF copier.cam = c /\ copier.step = "copy" /\ copier.seg = s
                     THEN [copier EXCEPT !.step = "changed"] ELSE copier
        /\ failSince[c] # Up => copyTrouble > 0
        /\ copyTrouble' = IF failSince[c] = Up THEN copyTrouble ELSE copyTrouble - 1
        /\ UNCHANGED <<unit, failSince, passed, tries, archives, leftovers, failures, turns>>
  BY DEF RecorderWrites
<1>2. /\ film' \in [FilmedCams -> [seg : Nat, age : 0..2]]
      /\ \A d \in FilmedCams : d # c => film'[d] = film[d]
  <2>1. s \in Nat
    OBVIOUS
  <2> QED
    BY <1>1, <2>1 DEF EvidenceInv, EvidenceShape
<1>3. copyTrouble' \in 0..CopyTrouble /\ (failSince[c] # Up => copyTrouble' # CopyTrouble)
      /\ (copyTrouble' = CopyTrouble => copyTrouble = CopyTrouble)
  BY <1>1 DEF EvidenceInv, EvidenceShape
<1>4. \/ copier' = copier
      \/ /\ copier # NoCopy /\ copier.cam = c /\ copier.step = "copy"
         /\ copier' = [copier EXCEPT !.step = "changed"]
  <2>1. c # 0
    BY DEF FilmedCams
  <2> QED
    BY <1>1, <2>1 DEF NoCopy
<1>5. /\ copier' = NoCopy <=> copier = NoCopy
      /\ copier # NoCopy =>
           /\ copier'.cam = copier.cam /\ copier'.outage = copier.outage /\ copier'.age = copier.age
           /\ copier' \in [cam : FilmedCams, outage : Nat, age : {0, 1},
                           step : {"look", "copy", "changed"}, seg : Nat]
           /\ copier'.step = "look" <=> copier.step = "look"
           /\ copier'.cam # c => copier'.step = copier.step
  <2>1. CASE copier' = copier
    BY <2>1 DEF EvidenceInv, EvidenceShape
  <2>2. CASE /\ copier # NoCopy /\ copier.cam = c /\ copier.step = "copy"
             /\ copier' = [copier EXCEPT !.step = "changed"]
    <3>1. copier \in [cam : FilmedCams, outage : Nat, age : {0, 1},
                      step : {"look", "copy", "changed"}, seg : Nat]
      BY <2>2 DEF EvidenceInv, EvidenceShape
    <3>2. copier'.cam = c /\ copier'.step = "changed"
      BY <2>2, <3>1
    <3>3. c # 0 /\ NoCopy.cam = 0
      BY DEF FilmedCams, NoCopy
    <3> QED
      BY <2>2, <3>1, <3>2, <3>3
  <2> QED
    BY <1>4, <2>1, <2>2
<1>6. \A d \in FilmedCams : /\ Of(d)' = Of(d) /\ FullOf(d)' = FullOf(d)
                            /\ ArchivedFor(d)' = ArchivedFor(d) /\ Copies(d)' = Copies(d)
                            /\ LastTickOf(d)' = LastTickOf(d) /\ Blocks(d)' = Blocks(d)
  BY <1>1, <1>5 DEF Of, FullOf, ArchivedFor, Copies, LastTickOf, Blocks
<1>7. EvidenceShape'
  <2>1. copier' = NoCopy \/ copier' \in [cam : FilmedCams, outage : Nat, age : {0, 1},
                                    step : {"look", "copy", "changed"}, seg : Nat]
    BY <1>5
  <2> QED
    BY <1>1, <1>2, <1>3, <1>6, <2>1 DEF EvidenceInv, EvidenceShape
<1>8. OutagesInv'
  BY <1>1, <1>6 DEF EvidenceInv, OutagesInv
<1>9. CopyInv'
  <2>1. SUFFICES ASSUME copier' # NoCopy PROVE CopyInv'
    BY DEF CopyInv
  <2>2. PICK k \in FilmedCams : k = copier.cam
    BY <2>1, <1>5 DEF EvidenceInv, EvidenceShape
  <2>3. copier'.cam = k /\ FullOf(k)' = FullOf(k)
    BY <2>1, <2>2, <1>5, <1>6
  <2>4. /\ tries[k].outage = copier.outage /\ tries[k].n >= 1
        /\ failSince[k] \in {copier.outage, Up}
        /\ copier.age = 0 => (passed >= k /\ failSince[k] = copier.outage)
        /\ passed < k => failSince[k] = copier.outage
        /\ unit - copier.age - copier.outage >= Threshold
        /\ copier.step # "look" => ~FullOf(k)
    BY <2>1, <2>2, <1>5 DEF EvidenceInv, CopyInv
  <2>5. ~FullOf(k)' => ~FullOf(copier.cam)'
    BY <2>3 DEF FullOf, Of
  <2> QED
    BY <2>1, <2>3, <2>4, <2>5, <1>1, <1>5 DEF CopyInv
<1>10. ASSUME NEW d \in FilmedCams PROVE SpentOn(d)'
  BY <1>1, <1>6 DEF EvidenceInv, SpentOn
<1>11. ASSUME NEW d \in FilmedCams PROVE InTime(d)'
  <2>1. SUFFICES ASSUME copyTrouble' = CopyTrouble, failSince[d] # Up PROVE InTime(d)'
    BY <1>1 DEF InTime
  <2>2. copyTrouble = CopyTrouble /\ d # c
    BY <2>1, <1>3
  <2>3. film'[d] = film[d] /\ Waits(d)' = Waits(d)
    BY <2>2, <1>2, <1>6 DEF Waits
  <2>4. Copies(d) => copier' = copier
    BY <2>2, <1>4 DEF Copies
  <2> QED
    BY <2>1, <2>2, <2>3, <2>4, <1>1, <1>6 DEF EvidenceInv, InTime
<1> QED
  BY <1>7, <1>8, <1>9, <1>10, <1>11 DEF EvidenceInv

LEMMA UnitStep ==
  ASSUME EvidenceInv, UnitEnds
  PROVE  EvidenceInv'
<1> USE EvidenceConstants
<1>1. /\ unit < LastUnit /\ unit' = unit + 1 /\ passed = LastCam /\ passed' = 0
      /\ copier # NoCopy => copier.age = 0
      /\ copier' = IF copier = NoCopy THEN copier ELSE [copier EXCEPT !.age = 1]
      /\ film' = [c \in FilmedCams |-> [film[c] EXCEPT !.age = IF @ < 2 THEN @ + 1 ELSE 2]]
      /\ UNCHANGED <<failSince, tries, archives, leftovers, failures, turns, copyTrouble>>
  BY DEF UnitEnds
<1>2. \A c \in FilmedCams : c \in Nat /\ c > 0 /\ c <= LastCam
  BY DEF FilmedCams
<1>3. /\ film' \in [FilmedCams -> [seg : Nat, age : 0..2]]
      /\ \A c \in FilmedCams :
           /\ film'[c].seg = film[c].seg
           /\ film'[c].age = IF film[c].age < 2 THEN film[c].age + 1 ELSE 2
           /\ film[c].age \in 0..2
  <2>1. film \in [FilmedCams -> [seg : Nat, age : 0..2]]
    BY DEF EvidenceInv, EvidenceShape
  <2>2. ASSUME NEW c \in FilmedCams
        PROVE  /\ film'[c].seg = film[c].seg
               /\ film'[c].age = IF film[c].age < 2 THEN film[c].age + 1 ELSE 2
               /\ film[c].age \in 0..2 /\ film'[c] \in [seg : Nat, age : 0..2]
    <3>1. film[c] \in [seg : Nat, age : 0..2]
      BY <2>1
    <3>2. film'[c] = [film[c] EXCEPT !.age = IF @ < 2 THEN @ + 1 ELSE 2]
      BY <1>1
    <3>3. film'[c] = [seg |-> film[c].seg, age |-> IF film[c].age < 2 THEN film[c].age + 1 ELSE 2]
      BY <3>1, <3>2
    <3>4. (IF film[c].age < 2 THEN film[c].age + 1 ELSE 2) \in 0..2
      BY <3>1
    <3> QED
      BY <3>1, <3>3, <3>4
  <2>3. film' = [c \in FilmedCams |-> film'[c]]
    BY <1>1
  <2> QED
    BY <2>2, <2>3
<1>4. /\ copier' = NoCopy <=> copier = NoCopy
      /\ copier # NoCopy =>
           /\ copier' \in [cam : FilmedCams, outage : Nat, age : {0, 1},
                           step : {"look", "copy", "changed"}, seg : Nat]
           /\ copier'.cam = copier.cam /\ copier'.outage = copier.outage /\ copier'.age = 1
           /\ copier'.step = copier.step /\ copier.age = 0
  <2>1. CASE copier = NoCopy
    BY <2>1, <1>1
  <2>2. CASE copier # NoCopy
    <3>1. copier \in [cam : FilmedCams, outage : Nat, age : {0, 1},
                      step : {"look", "copy", "changed"}, seg : Nat]
      BY <2>2 DEF EvidenceInv, EvidenceShape
    <3>2. copier' = [copier EXCEPT !.age = 1] /\ copier.age = 0
      BY <2>2, <1>1
    <3>3. copier'.cam \in FilmedCams
      BY <3>1, <3>2
    <3>4. copier' # NoCopy
      BY <3>3, <1>2 DEF NoCopy
    <3> QED
      BY <2>2, <3>1, <3>2, <3>4
  <2> QED
    BY <2>1, <2>2
<1>5. unit \in Nat /\ unit' \in 0..LastUnit
  BY <1>1 DEF EvidenceInv, EvidenceShape
<1>6. \A d \in FilmedCams : /\ Of(d)' = Of(d) /\ FullOf(d)' = FullOf(d)
                            /\ ArchivedFor(d)' = ArchivedFor(d) /\ Copies(d)' = Copies(d)
                            /\ Waits(d)' = Waits(d)
  BY <1>1, <1>3, <1>4 DEF Of, FullOf, ArchivedFor, Copies, Waits
<1>7. \A d \in FilmedCams : LastTickOf(d)' = unit /\ LastTickOf(d) = unit
  BY <1>1, <1>2, <1>5 DEF LastTickOf
<1>8. \A d \in FilmedCams : Blocks(d)' = Blocks(d)
  <2> SUFFICES ASSUME NEW d \in FilmedCams PROVE Blocks(d)' = Blocks(d)
    OBVIOUS
  <2>1. CASE copier = NoCopy \/ Copies(d)
    BY <2>1, <1>4, <1>6 DEF Blocks
  <2>2. CASE ~(copier = NoCopy \/ Copies(d))
    <3>1. Blocks(d) = 0 + 1
      BY <2>2, <1>1, <1>2, <1>4 DEF Blocks
    <3>2. Blocks(d)' = 1 + 0
      BY <2>2, <1>1, <1>2, <1>4, <1>6 DEF Blocks
    <3> QED
      BY <3>1, <3>2
  <2> QED
    BY <2>1, <2>2
<1>9. EvidenceShape'
  <2>1. copier' = NoCopy \/ copier' \in [cam : FilmedCams, outage : Nat, age : {0, 1},
                                    step : {"look", "copy", "changed"}, seg : Nat]
    BY <1>4
  <2> QED
    BY <1>1, <1>3, <1>5, <1>6, <2>1 DEF EvidenceInv, EvidenceShape
<1>10. OutagesInv'
  BY <1>1, <1>7 DEF EvidenceInv, OutagesInv
<1>11. CopyInv'
  <2>1. SUFFICES ASSUME copier' # NoCopy PROVE CopyInv'
    BY DEF CopyInv
  <2>2. PICK k \in FilmedCams : k = copier.cam
    BY <2>1, <1>4 DEF EvidenceInv, EvidenceShape
  <2>3. copier'.cam = k /\ FullOf(k)' = FullOf(k)
    BY <2>1, <2>2, <1>4, <1>6
  <2>4. /\ tries[k].outage = copier.outage /\ tries[k].n >= 1
        /\ copier.age = 0 => (passed >= k /\ failSince[k] = copier.outage)
        /\ unit - copier.age - copier.outage >= Threshold
        /\ copier.step # "look" => ~FullOf(k)
    BY <2>1, <2>2, <1>4 DEF EvidenceInv, CopyInv
  <2>5. ~FullOf(k)' => ~FullOf(copier.cam)'
    BY <2>3 DEF FullOf, Of
  <2>6. copier.outage \in Nat /\ copier.age = 0 /\ copier'.age = 1 /\ copier'.outage = copier.outage
    BY <2>1, <1>4 DEF EvidenceInv, EvidenceShape
  <2>7. unit' - copier'.age - copier'.outage >= Threshold
    BY <2>4, <2>6, <1>1, <1>5
  <2> QED
    BY <2>1, <2>3, <2>4, <2>5, <2>6, <2>7, <1>1, <1>4 DEF CopyInv
<1>12. ASSUME NEW d \in FilmedCams PROVE SpentOn(d)'
  BY <1>1, <1>6 DEF EvidenceInv, SpentOn
<1>13. ASSUME NEW d \in FilmedCams PROVE InTime(d)'
  <2>1. SUFFICES ASSUME copyTrouble = CopyTrouble, failSince[d] # Up PROVE InTime(d)'
    BY <1>1 DEF InTime
  <2>2. /\ film[d].age >= 2 \/ film[d].age >= unit - failSince[d]
        /\ Copies(d) => copier.step # "changed"
        /\ Blocks(d) <= 2 * turns[d] + 1
        /\ (Waits(d) /\ Copies(d)) =>
             unit - copier.age - failSince[d] <= Threshold + 2 * turns[d] + 1
        /\ (Waits(d) /\ ~Copies(d)) =>
             /\ tries[d].outage # failSince[d]
             /\ LastTickOf(d) >= failSince[d] + Threshold =>
                  LastTickOf(d) + Blocks(d) <= failSince[d] + Threshold + 2 * turns[d]
    BY <2>1 DEF EvidenceInv, InTime
  <2>3. failSince[d] \in Int /\ film[d].age \in 0..2
    BY <1>3 DEF EvidenceInv, EvidenceShape
  <2>4. film'[d].age >= 2 \/ film'[d].age >= unit' - failSince[d]
    BY <2>2, <2>3, <1>1, <1>3, <1>5
  <2>5. Copies(d) => (unit' - copier'.age = unit - copier.age /\ copier'.step = copier.step)
    <3>1. Copies(d) => copier.age = 0 /\ copier'.age = 1 /\ copier'.step = copier.step
      BY <1>4 DEF Copies
    <3> QED
      BY <3>1, <1>1, <1>5
  <2> QED
    BY <2>2, <2>4, <2>5, <1>1, <1>6, <1>7, <1>8 DEF InTime
<1> QED
  BY <1>9, <1>10, <1>11, <1>12, <1>13 DEF EvidenceInv

(* The tick of one camera; the claims about the others.                        *)
LEMMA TickOthers ==
  ASSUME EvidenceInv, NEW c \in FilmedCams, NEW ok \in BOOLEAN, CameraTick(c, ok),
         NEW d \in FilmedCams, d # c
  PROVE  SpentOn(d)' /\ InTime(d)'
<1> USE EvidenceConstants
<1>1. /\ c = passed + 1 /\ passed' = c
      /\ failSince' = [failSince EXCEPT ![c] = OutageOf(c, ok)]
      /\ failures' = IF OutageOf(c, ok) = failSince[c] THEN failures ELSE [failures EXCEPT ![c] = 0]
      /\ turns' = [e \in FilmedCams |->
                     IF e = c THEN IF OutageOf(c, ok) = failSince[c] THEN turns[c] ELSE 0
                     ELSE IF failSince[e] = Up \/ copier' = copier THEN turns[e] ELSE turns[e] + 1]
      /\ UNCHANGED <<unit, film, archives, leftovers, copyTrouble>>
  BY DEF CameraTick
<1>2. /\ failSince'[d] = failSince[d] /\ failures'[d] = failures[d]
      /\ turns'[d] = IF failSince[d] = Up \/ copier' = copier THEN turns[d] ELSE turns[d] + 1
  BY <1>1 DEF EvidenceInv, EvidenceShape
<1>3. passed \in Nat /\ c \in Nat /\ d \in Nat /\ unit \in Nat
  BY DEF EvidenceInv, EvidenceShape, FilmedCams
<1>4. (passed' >= d <=> passed >= d) /\ (passed' < d <=> passed < d)
  BY <1>1, <1>3
<1>5. LastTickOf(d)' = LastTickOf(d) /\ LastTickOf(d) \in Int
  BY <1>1, <1>3, <1>4 DEF LastTickOf
<1>6. \/ UNCHANGED <<tries, copier>>
      \/ /\ copier = NoCopy /\ copier' # NoCopy /\ copier'.cam = c /\ copier'.age = 0
         /\ tries' = CountedTry(c, OutageOf(c, ok))
  <2>1. c # 0
    BY DEF FilmedCams
  <2> QED
    BY <2>1 DEF CameraTick, Submit, NoCopy
<1>7. tries'[d] = tries[d]
  BY <1>6 DEF CountedTry, EvidenceInv, EvidenceShape
<1>8. Copies(d)' = Copies(d)
  BY <1>6 DEF Copies
<1>9. Of(d)' = Of(d) /\ FullOf(d)' = FullOf(d) /\ ArchivedFor(d)' = ArchivedFor(d)
  BY <1>1, <1>2 DEF Of, FullOf, ArchivedFor
<1>10. Waits(d)' = Waits(d)
  BY <1>1, <1>9 DEF Waits
<1>11. SpentOn(d)'
  BY <1>2, <1>7, <1>8, <1>9 DEF EvidenceInv, SpentOn
<1>12. InTime(d)'
  <2>1. SUFFICES ASSUME copyTrouble = CopyTrouble, failSince[d] # Up PROVE InTime(d)'
    BY <1>1, <1>2 DEF InTime
  <2>2. /\ film[d].age >= 2 \/ film[d].age >= unit - failSince[d]
        /\ Copies(d) => copier.step # "changed"
        /\ Blocks(d) <= 2 * turns[d] + 1
        /\ (Waits(d) /\ Copies(d)) =>
             unit - copier.age - failSince[d] <= Threshold + 2 * turns[d] + 1
        /\ (Waits(d) /\ ~Copies(d)) =>
             /\ tries[d].outage # failSince[d]
             /\ LastTickOf(d) >= failSince[d] + Threshold =>
                  LastTickOf(d) + Blocks(d) <= failSince[d] + Threshold + 2 * turns[d]
    BY <2>1 DEF EvidenceInv, InTime
  <2>3. turns[d] \in Nat /\ failSince[d] \in Int
    BY DEF EvidenceInv, EvidenceShape
  <2>4. CASE copier' = copier
    <3>1. turns'[d] = turns[d] /\ Blocks(d)' = Blocks(d)
      BY <2>4, <1>2, <1>4, <1>8 DEF Blocks
    <3> QED
      BY <2>2, <2>4, <3>1, <1>1, <1>2, <1>5, <1>7, <1>8, <1>10 DEF InTime
  <2>5. CASE copier' # copier
    <3>1. copier = NoCopy /\ copier' # NoCopy /\ copier'.cam = c /\ copier'.age = 0
      BY <2>5, <1>6
    <3>2. turns'[d] = turns[d] + 1 /\ Blocks(d) = 0 /\ ~Copies(d) /\ ~Copies(d)'
      BY <2>1, <2>5, <3>1, <1>2, <1>8 DEF Blocks, Copies
    <3>3. Blocks(d)' \in {1, 2}
      BY <3>1, <3>2 DEF Blocks
    <3> DEFINE b == Blocks(d)'
               t == turns[d]
               l == LastTickOf(d)
               f == failSince[d]
    <3>4. /\ b \in {1, 2} /\ t \in Nat /\ l \in Int /\ f \in Int
      BY <2>3, <3>3, <1>5
    <3>5. Waits(d) => (l >= f + Threshold => l + 0 <= f + Threshold + 2 * t)
      BY <2>2, <3>2
    <3> HIDE DEF b, t, l, f
    <3>6. b <= 2 * (t + 1) + 1
      BY <3>4
    <3>7. l + 0 <= f + Threshold + 2 * t => l + b <= f + Threshold + 2 * (t + 1)
      BY <3>4
    <3>8. /\ Blocks(d)' <= 2 * turns'[d] + 1
          /\ Waits(d) => (LastTickOf(d) >= failSince[d] + Threshold =>
               LastTickOf(d) + Blocks(d)' <= failSince[d] + Threshold + 2 * turns'[d])
      BY <3>2, <3>5, <3>6, <3>7 DEF b, t, l, f
    <3> QED
      BY <2>2, <3>2, <3>8, <1>1, <1>2, <1>5, <1>7, <1>10 DEF InTime
  <2> QED
    BY <2>4, <2>5
<1> QED
  BY <1>11, <1>12

(* What the tick decides about its own camera.                                 *)
LEMMA TickDecides ==
  ASSUME EvidenceInv, NEW c \in FilmedCams, NEW ok \in BOOLEAN, CameraTick(c, ok)
  PROVE  /\ c = passed + 1 /\ passed' = c /\ passed < c /\ unit \in Nat
         /\ failSince[c] \in Int /\ tries[c] \in [outage : Int, n : 0..EvidenceTries, retryAt : Int]
         /\ failSince' \in [FilmedCams -> Int] /\ failures' \in [FilmedCams -> Nat]
         /\ turns' \in [FilmedCams -> Nat]
         /\ \/ failSince'[c] = Up
            \/ failSince[c] = Up /\ failSince'[c] = unit
            \/ failSince[c] # Up /\ failSince'[c] = failSince[c]
         /\ \A d \in FilmedCams : d # c => failSince'[d] = failSince[d]
         /\ failSince'[c] = failSince[c] => (failures'[c] = failures[c] /\ turns'[c] = turns[c])
         /\ failSince'[c] # failSince[c] => (failures'[c] = 0 /\ turns'[c] = 0)
         /\ \/ UNCHANGED <<tries, copier>> /\ ~(Wanted(c, failSince'[c]) /\ copier = NoCopy)
            \/ /\ Wanted(c, failSince'[c]) /\ copier = NoCopy
               /\ copier' = [cam |-> c, outage |-> failSince'[c], age |-> 0, step |-> "look",
                             seg |-> 0]
               /\ tries' = CountedTry(c, failSince'[c])
         /\ UNCHANGED <<unit, film, archives, leftovers, copyTrouble>>
<1> USE EvidenceConstants
<1>1. /\ c = passed + 1 /\ passed' = c
      /\ failSince' = [failSince EXCEPT ![c] = OutageOf(c, ok)]
      /\ failures' = IF OutageOf(c, ok) = failSince[c] THEN failures ELSE [failures EXCEPT ![c] = 0]
      /\ Submit(c, OutageOf(c, ok))
      /\ turns' = [e \in FilmedCams |->
                     IF e = c THEN IF OutageOf(c, ok) = failSince[c] THEN turns[c] ELSE 0
                     ELSE IF failSince[e] = Up \/ copier' = copier THEN turns[e] ELSE turns[e] + 1]
      /\ UNCHANGED <<unit, film, archives, leftovers, copyTrouble>>
  BY DEF CameraTick
<1>2. /\ failSince \in [FilmedCams -> Int] /\ failures \in [FilmedCams -> Nat]
      /\ turns \in [FilmedCams -> Nat] /\ unit \in Nat /\ passed \in Nat
      /\ tries[c] \in [outage : Int, n : 0..EvidenceTries, retryAt : Int]
  BY DEF EvidenceInv, EvidenceShape
<1>3. OutageOf(c, ok) \in Int
  BY <1>2 DEF OutageOf, Up
<1>4. failSince'[c] = OutageOf(c, ok)
  BY <1>1, <1>2
<1>5. failSince' \in [FilmedCams -> Int]
  BY <1>1, <1>2, <1>3
<1>6. /\ failures' \in [FilmedCams -> Nat]
      /\ failures'[c] = IF OutageOf(c, ok) = failSince[c] THEN failures[c] ELSE 0
  BY <1>1, <1>2
<1>7. turns' \in [FilmedCams -> Nat]
  <2>1. \A e \in FilmedCams : turns[e] \in Nat /\ turns[e] + 1 \in Nat
    BY <1>2
  <2> QED
    BY <1>1, <2>1
<1>8. turns'[c] = IF OutageOf(c, ok) = failSince[c] THEN turns[c] ELSE 0
  BY <1>1
<1>9. \A d \in FilmedCams : d # c => failSince'[d] = failSince[d]
  BY <1>1, <1>2
<1>10. \/ failSince'[c] = Up
       \/ failSince[c] = Up /\ failSince'[c] = unit
       \/ failSince[c] # Up /\ failSince'[c] = failSince[c]
  BY <1>4 DEF OutageOf
<1>11. \/ UNCHANGED <<tries, copier>> /\ ~(Wanted(c, failSince'[c]) /\ copier = NoCopy)
       \/ /\ Wanted(c, failSince'[c]) /\ copier = NoCopy
          /\ copier' = [cam |-> c, outage |-> failSince'[c], age |-> 0, step |-> "look", seg |-> 0]
          /\ tries' = CountedTry(c, failSince'[c])
  BY <1>1, <1>4 DEF Submit
<1>12. passed < c
  BY <1>1, <1>2
<1> QED
  BY <1>1, <1>2, <1>4, <1>5, <1>6, <1>7, <1>8, <1>9, <1>10, <1>11, <1>12

(* A try that is counted is the camera's next of that outage.                  *)
LEMMA TryCounted ==
  ASSUME EvidenceInv, NEW c \in FilmedCams, NEW o \in Int, Wanted(c, o),
         tries' = CountedTry(c, o)
  PROVE  /\ tries' \in [FilmedCams -> [outage : Int, n : 0..EvidenceTries, retryAt : Int]]
         /\ \A d \in FilmedCams : d # c => tries'[d] = tries[d]
         /\ tries'[c].outage = o /\ o # Up /\ unit - o >= Threshold /\ film[c].seg > 0
         /\ tries[c].outage = o => (tries'[c].n = tries[c].n + 1 /\ tries[c].n < EvidenceTries)
         /\ tries[c].outage # o => tries'[c].n = 1
<1> USE EvidenceConstants
<1>1. /\ tries \in [FilmedCams -> [outage : Int, n : 0..EvidenceTries, retryAt : Int]]
      /\ unit \in Nat
  BY DEF EvidenceInv, EvidenceShape
<1> DEFINE t == TryOf(c, o)
<1>2. /\ t \in [outage : Int, n : 0..EvidenceTries, retryAt : Int] /\ t.outage = o
      /\ tries[c].outage = o => t = tries[c]
      /\ tries[c].outage # o => t.n = 0
  <2>1. CASE tries[c].outage = o
    BY <2>1, <1>1 DEF TryOf
  <2>2. CASE tries[c].outage # o
    <3>1. t = [outage |-> o, n |-> 0, retryAt |-> 0]
      BY <2>2 DEF TryOf, Untried
    <3> QED
      BY <2>2, <3>1
  <2> QED
    BY <2>1, <2>2
<1>3. /\ o # Up /\ unit - o >= Threshold /\ film[c].seg > 0 /\ t.n < EvidenceTries
      /\ tries' = [tries EXCEPT ![c] = [outage |-> o, n |-> t.n + 1, retryAt |-> unit + RetryAfter]]
  BY DEF Wanted, CountedTry
<1> HIDE DEF t
<1>5. t.n + 1 \in 0..EvidenceTries /\ unit + RetryAfter \in Int
  BY <1>1, <1>2, <1>3
<1>6. /\ tries'[c] = [outage |-> o, n |-> t.n + 1, retryAt |-> unit + RetryAfter]
      /\ \A d \in FilmedCams : d # c => tries'[d] = tries[d]
  BY <1>1, <1>3
<1>7. tries' \in [FilmedCams -> [outage : Int, n : 0..EvidenceTries, retryAt : Int]]
  BY <1>1, <1>3, <1>5
<1> QED
  BY <1>2, <1>3, <1>5, <1>6, <1>7

LEMMA TickOwn ==
  ASSUME EvidenceInv, NEW c \in FilmedCams, NEW ok \in BOOLEAN, CameraTick(c, ok)
  PROVE  SpentOn(c)' /\ InTime(c)'
<1> USE EvidenceConstants
<1> DEFINE f == failSince[c]
           o == failSince'[c]
<1>1. /\ c = passed + 1 /\ passed' = c /\ passed < c /\ unit \in Nat
      /\ f \in Int /\ o \in Int /\ turns[c] \in Nat /\ turns'[c] \in Nat
      /\ failures[c] \in Nat /\ film[c].age \in 0..2
      /\ tries[c] \in [outage : Int, n : 0..EvidenceTries, retryAt : Int]
      /\ o = Up \/ (f = Up /\ o = unit) \/ (f # Up /\ o = f)
      /\ o = f => (failures'[c] = failures[c] /\ turns'[c] = turns[c])
      /\ o # f => (failures'[c] = 0 /\ turns'[c] = 0)
      /\ \/ UNCHANGED <<tries, copier>> /\ ~(Wanted(c, o) /\ copier = NoCopy)
         \/ /\ Wanted(c, o) /\ copier = NoCopy
            /\ copier' = [cam |-> c, outage |-> o, age |-> 0, step |-> "look", seg |-> 0]
            /\ tries' = CountedTry(c, o)
      /\ UNCHANGED <<unit, film, archives, leftovers, copyTrouble>>
  <2>1. /\ f \in Int /\ turns[c] \in Nat /\ failures[c] \in Nat
        /\ film[c].age \in 0..2
    BY DEF EvidenceInv, EvidenceShape
  <2>2. /\ o \in Int /\ turns'[c] \in Nat
    <3>1. failSince' \in [FilmedCams -> Int] /\ turns' \in [FilmedCams -> Nat]
      BY TickDecides
    <3> QED
      BY <3>1
  <2>3. /\ c = passed + 1 /\ passed' = c /\ passed < c /\ unit \in Nat
        /\ tries[c] \in [outage : Int, n : 0..EvidenceTries, retryAt : Int]
        /\ \/ o = Up
           \/ f = Up /\ o = unit
           \/ f # Up /\ o = f
        /\ o = f => (failures'[c] = failures[c] /\ turns'[c] = turns[c])
        /\ o # f => (failures'[c] = 0 /\ turns'[c] = 0)
    BY TickDecides
  <2>4. \/ UNCHANGED <<tries, copier>> /\ ~(Wanted(c, o) /\ copier = NoCopy)
        \/ /\ Wanted(c, o) /\ copier = NoCopy
           /\ copier' = [cam |-> c, outage |-> o, age |-> 0, step |-> "look",
                         seg |-> 0]
           /\ tries' = CountedTry(c, o)
    BY TickDecides
  <2>5. UNCHANGED <<unit, film, archives, leftovers, copyTrouble>>
    BY TickDecides
  <2> HIDE DEF f, o
  <2>6. /\ c = passed + 1 /\ passed' = c /\ passed < c /\ unit \in Nat
        /\ f \in Int /\ o \in Int /\ turns[c] \in Nat /\ turns'[c] \in Nat
        /\ failures[c] \in Nat /\ film[c].age \in 0..2
    BY <2>1, <2>2, <2>3
  <2>7. /\ tries[c] \in [outage : Int, n : 0..EvidenceTries, retryAt : Int]
        /\ o = Up \/ (f = Up /\ o = unit) \/ (f # Up /\ o = f)
    BY <2>3
  <2>8. /\ o = f => (failures'[c] = failures[c] /\ turns'[c] = turns[c])
        /\ o # f => (failures'[c] = 0 /\ turns'[c] = 0)
    BY <2>3
  <2> QED
    BY <2>4, <2>5, <2>6, <2>7, <2>8
<1>2. /\ -1 <= f /\ f <= unit - 1 /\ tries[c].outage <= unit - 1
      /\ tries[c].outage = -1 => (tries[c].n = 0 /\ tries[c].retryAt = 0)
      /\ Up = -1 /\ LastTickOf(c) = unit - 1
  <2>1. c \in Nat /\ passed \in Nat
    BY DEF EvidenceInv, EvidenceShape, FilmedCams
  <2>2. LastTickOf(c) = unit - 1
    BY <2>1, <1>1 DEF LastTickOf
  <2>3. /\ -1 <= failSince[c] /\ failSince[c] <= LastTickOf(c)
        /\ tries[c].outage <= LastTickOf(c)
        /\ tries[c].outage = -1 => (tries[c].n = 0 /\ tries[c].retryAt = 0)
    BY DEF EvidenceInv, OutagesInv, Up
  <2> QED
    BY <2>2, <2>3 DEF Up
<1>3. LastTickOf(c)' = unit
  <2>1. c \in Nat
    BY DEF FilmedCams
  <2> QED
    BY <2>1, <1>1 DEF LastTickOf
<1>4. Copies(c) => f # Up
  BY <1>1 DEF EvidenceInv, CopyInv, Copies, EvidenceShape, Up
<1>5. Of(c)' = Of(c) /\ FullOf(c)' = FullOf(c) /\ (o = f => ArchivedFor(c)' = ArchivedFor(c))
  BY <1>1 DEF Of, FullOf, ArchivedFor
<1>6. o = f => Waits(c)' = Waits(c)
  BY <1>1, <1>5 DEF Waits
<1>7. /\ (tries[c].outage = f /\ f # Up) =>
            \/ tries[c].n = failures[c] + (IF Copies(c) THEN 1 ELSE 0)
            \/ tries[c].n = EvidenceTries /\ ArchivedFor(c)
      /\ tries[c].outage # f => failures[c] = 0
  BY DEF EvidenceInv, SpentOn
<1> HIDE DEF f, o
<1>8. CASE UNCHANGED <<tries, copier>> /\ ~(Wanted(c, o) /\ copier = NoCopy)
  <2>1. Copies(c)' = Copies(c)
    BY <1>8 DEF Copies
  <2>2. SpentOn(c)'
    <3>1. CASE o = f
      <4>1. o = failSince'[c] /\ f = failSince[c]
        BY DEF o, f
      <4> QED
        BY <3>1, <4>1, <1>1, <1>5, <1>7, <1>8, <2>1 DEF SpentOn
    <3>2. CASE o # f /\ o = Up
      BY <3>2, <1>1 DEF SpentOn, o
    <3>3. CASE o # f /\ o = unit
      <4>1. tries'[c].outage # o
        BY <3>3, <1>1, <1>2, <1>8
      <4> QED
        BY <3>3, <4>1, <1>1 DEF SpentOn, o
    <3> QED
      BY <3>1, <3>2, <3>3, <1>1
  <2>3. InTime(c)'
    <3>1. SUFFICES ASSUME copyTrouble = CopyTrouble, o # Up PROVE InTime(c)'
      BY <1>1 DEF InTime, o
    <3>2. CASE f = Up /\ o = unit
      <4>1. ~Copies(c)' /\ turns'[c] = 0 /\ tries'[c].outage # o
        BY <3>2, <2>1, <1>1, <1>2, <1>4, <1>8
      <4>2. Blocks(c)' <= 1
        <5>1. ~(passed' < c)
          <6>1. c \in Nat
            BY DEF FilmedCams
          <6> QED
            BY <6>1, <1>1
        <5> DEFINE a == IF copier'.age = 0 THEN 1 ELSE 0
        <5>2. Blocks(c)' = 0 \/ Blocks(c)' = 0 + a
          BY <5>1 DEF Blocks
        <5>3. a \in {0, 1}
          OBVIOUS
        <5> HIDE DEF a
        <5> QED
          BY <5>2, <5>3
      <4>3. unit - o = 0 /\ ~(unit >= o + Threshold)
        BY <3>2, <1>1
      <4>4. film'[c].age >= unit' - o
        BY <1>1, <4>3
      <4>5. Blocks(c)' <= 2 * turns'[c] + 1
        BY <4>1, <4>2
      <4> QED
        BY <3>1, <4>1, <4>3, <4>4, <4>5, <1>1, <1>3 DEF InTime, o
    <3>3. CASE f # Up /\ o = f
      <4> DEFINE t == turns[c]
                 b == Blocks(c)
                 z == Blocks(c)'
      <4>1. /\ film[c].age >= 2 \/ film[c].age >= unit - f
            /\ Copies(c) => copier.step # "changed"
            /\ b <= 2 * t + 1
            /\ (Waits(c) /\ Copies(c)) => unit - copier.age - f <= Threshold + 2 * t + 1
            /\ (Waits(c) /\ ~Copies(c)) =>
                 /\ tries[c].outage # f
                 /\ unit - 1 >= f + Threshold => unit - 1 + b <= f + Threshold + 2 * t
        BY <3>1, <3>3, <1>1, <1>2 DEF EvidenceInv, InTime, f
      <4>2. /\ ~(copier = NoCopy \/ Copies(c)) => (b \in Nat /\ z = b - 1 /\ z \in Nat)
            /\ (copier = NoCopy \/ Copies(c)) => (z = 0 /\ b = 0)
        <5>1. CASE copier = NoCopy \/ Copies(c)
          BY <5>1, <2>1, <1>8 DEF Blocks
        <5>2. CASE ~(copier = NoCopy \/ Copies(c))
          <6> DEFINE a == IF copier.age = 0 THEN 1 ELSE 0
          <6>1. b = 1 + a
            BY <5>2, <1>1 DEF Blocks
          <6>2. z = a
            <7>1. copier' = copier /\ ~(copier' = NoCopy \/ Copies(c)') /\ ~(passed' < c)
              <8>1. c \in Nat
                BY DEF FilmedCams
              <8> QED
                BY <5>2, <8>1, <1>1, <1>8, <2>1
            <7>2. z = (IF passed' < c THEN 1 ELSE 0) + (IF copier'.age = 0 THEN 1 ELSE 0)
              BY <7>1 DEF Blocks
            <7>3. z = 0 + a
              BY <7>1, <7>2
            <7>4. a \in {0, 1}
              OBVIOUS
            <7> HIDE DEF a, z
            <7> QED
              BY <7>3, <7>4
          <6>3. a \in {0, 1}
            OBVIOUS
          <6> HIDE DEF a, b, z
          <6> QED
            BY <5>2, <6>1, <6>2, <6>3
        <5> QED
          BY <5>1, <5>2
      <4>3. ASSUME Waits(c), ~Copies(c), unit >= f + Threshold
            PROVE  unit + z <= f + Threshold + 2 * t
        <5>1. tries[c].outage # f
          BY <4>1, <4>3
        <5>2. TryOf(c, f).n = 0 /\ TryOf(c, f).retryAt = 0
          BY <5>1 DEF TryOf, Untried
        <5>3. Wanted(c, f)
          BY <3>3, <4>3, <5>2, <1>1 DEF Wanted, Waits
        <5>4. copier # NoCopy
          BY <5>3, <3>3, <1>8
        <5>5. b \in Nat /\ z = b - 1
          BY <4>2, <4>3, <5>4
        <5>6. b <= 2 * t + 1 /\ (unit - 1 >= f + Threshold => unit - 1 + b <= f + Threshold + 2 * t)
          BY <4>1, <4>3
        <5>7. t \in Nat /\ f \in Int /\ unit \in Nat
          BY <1>1
        <5> HIDE DEF t, b, z
        <5>8. CASE unit - 1 >= f + Threshold
          BY <5>5, <5>6, <5>7, <5>8
        <5>9. CASE unit = f + Threshold
          BY <5>5, <5>6, <5>7, <5>9
        <5> QED
          BY <4>3, <5>7, <5>8, <5>9
      <4>4. z <= 2 * t + 1
        <5>1. t \in Nat
          BY <1>1
        <5> HIDE DEF t, b, z
        <5> QED
          BY <5>1, <4>1, <4>2
      <4>5. turns'[c] = t /\ o = failSince'[c]
        BY <3>3, <1>1 DEF o
      <4>6. tries'[c].outage = tries[c].outage /\ copier' = copier
        BY <1>8
      <4> QED
        BY <3>3, <4>1, <4>3, <4>4, <4>5, <4>6, <1>1, <1>3, <1>6, <2>1 DEF InTime
    <3> QED
      BY <3>1, <3>2, <3>3, <1>1
  <2> QED
    BY <2>2, <2>3
<1>9. CASE /\ Wanted(c, o) /\ copier = NoCopy
           /\ copier' = [cam |-> c, outage |-> o, age |-> 0, step |-> "look", seg |-> 0]
           /\ tries' = CountedTry(c, o)
  <2>1. /\ tries'[c].outage = o /\ o # Up /\ unit - o >= Threshold
        /\ tries[c].outage = o => (tries'[c].n = tries[c].n + 1 /\ tries[c].n < EvidenceTries)
        /\ tries[c].outage # o => tries'[c].n = 1
    BY <1>1, <1>9, TryCounted
  <2>2. o = f /\ f # Up
    BY <2>1, <1>1
  <2>3. ~Copies(c) /\ Copies(c)' /\ Blocks(c) = 0 /\ Blocks(c)' = 0
    <3>1. c # 0
      BY DEF FilmedCams
    <3> QED
      BY <3>1, <1>9 DEF Copies, NoCopy, Blocks
  <2>4. tries'[c].n = failures[c] + 1
    <3>1. CASE tries[c].outage = o
      <4>1. tries[c].n = failures[c] + 0
        BY <3>1, <2>1, <2>2, <2>3, <1>7
      <4> QED
        BY <3>1, <4>1, <2>1, <1>1
    <3>2. CASE tries[c].outage # o
      <4>1. failures[c] = 0
        BY <3>2, <2>2, <1>7
      <4> QED
        BY <3>2, <4>1, <2>1
    <3> QED
      BY <3>1, <3>2
  <2>5. SpentOn(c)'
    BY <2>1, <2>2, <2>3, <2>4, <1>1 DEF SpentOn, o
  <2>6. InTime(c)'
    <3>1. SUFFICES ASSUME copyTrouble = CopyTrouble PROVE InTime(c)'
      BY <1>1 DEF InTime
    <3> DEFINE t == turns[c]
    <3>2. /\ film[c].age >= 2 \/ film[c].age >= unit - f
          /\ Waits(c) => (unit - 1 >= f + Threshold => unit - 1 + 0 <= f + Threshold + 2 * t)
      BY <3>1, <2>2, <2>3, <1>1, <1>2 DEF EvidenceInv, InTime, f
    <3>3. t \in Nat /\ f \in Int /\ unit \in Nat
      BY <1>1
    <3>4. turns'[c] = t /\ o = failSince'[c] /\ f = failSince[c]
      BY <2>2, <1>1 DEF o, f
    <3> HIDE DEF t
    <3>5. Waits(c) => unit - 0 - f <= Threshold + 2 * t + 1
      <4>1. CASE unit - 1 >= f + Threshold
        BY <4>1, <3>2, <3>3
      <4>2. CASE unit <= f + Threshold
        BY <4>2, <3>3
      <4> QED
        BY <4>1, <4>2, <3>3
    <3>6. copier'.step = "look" /\ copier'.age = 0
      BY <1>9
    <3>7. 0 <= 2 * t + 1
      BY <3>3
    <3> QED
      BY <2>2, <2>3, <3>2, <3>4, <3>5, <3>6, <3>7, <1>1, <1>6 DEF InTime
  <2> QED
    BY <2>5, <2>6
<1> QED
  BY <1>1, <1>8, <1>9


LEMMA TickStep ==
  ASSUME EvidenceInv, NEW c \in FilmedCams, NEW ok \in BOOLEAN, CameraTick(c, ok)
  PROVE  EvidenceInv'
<1> USE EvidenceConstants
<1> DEFINE f == failSince[c]
           o == failSince'[c]
<1>1. /\ c = passed + 1 /\ passed' = c /\ passed < c /\ unit \in Nat
      /\ failSince' \in [FilmedCams -> Int] /\ failures' \in [FilmedCams -> Nat]
      /\ turns' \in [FilmedCams -> Nat]
      /\ \A d \in FilmedCams : d # c => failSince'[d] = failSince[d]
      /\ UNCHANGED <<unit, film, archives, leftovers, copyTrouble>>
  BY TickDecides
<1>2. o = Up \/ (f = Up /\ o = unit) \/ (f # Up /\ o = f)
  BY TickDecides
<1>3. \/ UNCHANGED <<tries, copier>>
      \/ /\ Wanted(c, o) /\ copier = NoCopy
         /\ copier' = [cam |-> c, outage |-> o, age |-> 0, step |-> "look", seg |-> 0]
         /\ tries' = CountedTry(c, o)
  BY TickDecides
<1>4. /\ c \in Nat /\ c # 0 /\ f \in Int /\ o \in Int /\ Up = -1 /\ -1 <= f /\ f <= unit - 1
      /\ passed \in Nat
  <2>1. c \in Nat /\ c # 0 /\ f \in Int /\ passed \in Nat
    BY DEF FilmedCams, EvidenceInv, EvidenceShape
  <2>2. LastTickOf(c) = unit - 1
    BY <1>1, <2>1 DEF LastTickOf
  <2>3. -1 <= f /\ f <= unit - 1
    BY <2>2 DEF EvidenceInv, OutagesInv, Up
  <2> QED
    BY <1>1, <2>1, <2>3 DEF Up
<1>5. /\ LastTickOf(c)' = unit /\ LastTickOf(c) = unit - 1
      /\ \A d \in FilmedCams : d # c => LastTickOf(d)' = LastTickOf(d)
  <2>1. LastTickOf(c)' = unit /\ LastTickOf(c) = unit - 1
    BY <1>1, <1>4 DEF LastTickOf
  <2>2. ASSUME NEW d \in FilmedCams, d # c PROVE LastTickOf(d)' = LastTickOf(d)
    <3>1. d \in Nat
      BY DEF FilmedCams
    <3>2. passed' >= d <=> passed >= d
      BY <1>1, <1>4, <2>2, <3>1
    <3> QED
      BY <1>1, <3>2 DEF LastTickOf
  <2> QED
    BY <2>1, <2>2
<1>6. /\ tries' \in [FilmedCams -> [outage : Int, n : 0..EvidenceTries, retryAt : Int]]
      /\ \A d \in FilmedCams : d # c => tries'[d] = tries[d]
      /\ tries'[c] = tries[c] \/ (tries'[c].outage = o /\ o # Up)
  <2>1. CASE tries' = tries
    BY <2>1 DEF EvidenceInv, EvidenceShape
  <2>2. CASE Wanted(c, o) /\ tries' = CountedTry(c, o)
    BY <2>2, <1>4, TryCounted
  <2> QED
    BY <1>3, <2>1, <2>2
<1>7. EvidenceShape'
  <2>1. copier' = NoCopy \/ copier' \in [cam : FilmedCams, outage : Nat, age : {0, 1},
                                    step : {"look", "copy", "changed"}, seg : Nat]
    <3>1. CASE copier' = copier
      BY <3>1 DEF EvidenceInv, EvidenceShape
    <3>2. CASE /\ Wanted(c, o)
               /\ copier' = [cam |-> c, outage |-> o, age |-> 0, step |-> "look", seg |-> 0]
      <4>1. o \in Nat
        BY <3>2, <1>1, <1>2, <1>4 DEF Wanted
      <4> HIDE DEF o
      <4> QED
        BY <3>2, <4>1
    <3> QED
      BY <1>3, <3>1, <3>2
  <2>2. \A d \in FilmedCams : Of(d)' = Of(d)
    BY <1>1 DEF Of
  <2>3. passed' \in 0..LastCam
    BY <1>1 DEF FilmedCams
  <2> QED
    BY <1>1, <1>6, <2>1, <2>2, <2>3 DEF EvidenceInv, EvidenceShape
<1>8. OutagesInv'
  <2>1. ASSUME NEW d \in FilmedCams, d # c
        PROVE  /\ failSince'[d] = failSince[d] /\ tries'[d] = tries[d]
               /\ LastTickOf(d)' = LastTickOf(d)
    BY <2>1, <1>1, <1>5, <1>6
  <2>2. Up <= o /\ o <= unit
    BY <1>1, <1>2, <1>4
  <2>3. /\ Up <= tries[c].outage /\ tries[c].outage <= unit - 1 /\ tries[c].outage \in Int
        /\ tries[c].outage = Up => (tries[c].n = 0 /\ tries[c].retryAt = 0)
    BY <1>5 DEF EvidenceInv, OutagesInv, EvidenceShape
  <2>4. /\ Up <= tries'[c].outage /\ tries'[c].outage <= unit
        /\ tries'[c].outage = Up => (tries'[c].n = 0 /\ tries'[c].retryAt = 0)
    BY <1>1, <1>6, <2>2, <2>3
  <2>5. ASSUME NEW d \in FilmedCams
        PROVE  /\ Up <= failSince'[d] /\ failSince'[d] <= LastTickOf(d)'
               /\ Up <= tries'[d].outage /\ tries'[d].outage <= LastTickOf(d)'
               /\ tries'[d].outage = Up => (tries'[d].n = 0 /\ tries'[d].retryAt = 0)
    <3>1. CASE d = c
      <4>1. LastTickOf(d)' = LastTickOf(c)'
        BY <3>1
      <4> QED
        BY <3>1, <4>1, <1>5, <2>2, <2>4
    <3>2. CASE d # c
      BY <2>1, <3>2 DEF EvidenceInv, OutagesInv
    <3> QED
      BY <3>1, <3>2
  <2> QED
    BY <2>5 DEF OutagesInv
<1>9. CopyInv'
  <2>1. SUFFICES ASSUME copier' # NoCopy PROVE CopyInv'
    BY DEF CopyInv
  <2>2. CASE UNCHANGED <<tries, copier>>
    <3>1. PICK k \in FilmedCams : k = copier.cam
      BY <2>1, <2>2 DEF EvidenceInv, EvidenceShape
    <3>2. /\ tries[k].outage = copier.outage /\ tries[k].n >= 1
          /\ failSince[k] \in {copier.outage, Up}
          /\ copier.age = 0 => (passed >= k /\ failSince[k] = copier.outage)
          /\ passed < k => failSince[k] = copier.outage
          /\ unit - copier.age - copier.outage >= Threshold
          /\ copier.step # "look" => ~FullOf(k)
      BY <2>1, <2>2, <3>1 DEF EvidenceInv, CopyInv
    <3>3. FullOf(k)' = FullOf(k) /\ k \in Nat
      BY <1>1 DEF FullOf, Of, FilmedCams
    <3>4. copier.outage \in Nat /\ copier.age \in {0, 1}
      BY <2>1, <2>2 DEF EvidenceInv, EvidenceShape
    <3>5. /\ failSince'[k] \in {copier.outage, Up}
          /\ copier.age = 0 => (passed' >= k /\ failSince'[k] = copier.outage)
          /\ passed' < k => failSince'[k] = copier.outage
      <4>1. CASE k = c
        <5>1. f = copier.outage /\ f # Up
          BY <4>1, <3>2, <3>4, <1>1, <1>4
        <5>2. ~(copier.age = 0) /\ ~(passed' < k)
          BY <4>1, <3>2, <1>1, <1>4
        <5> QED
          BY <4>1, <5>1, <5>2, <1>2
      <4>2. CASE k # c
        <5>1. failSince'[k] = failSince[k]
          BY <4>2, <1>1
        <5>2. (passed >= k => passed' >= k) /\ (passed' < k => passed < k)
          BY <1>1, <1>4, <3>3
        <5> QED
          BY <3>2, <5>1, <5>2
      <4> QED
        BY <4>1, <4>2
    <3>6. ~FullOf(k)' => ~FullOf(copier.cam)'
      BY <3>1, <2>2 DEF FullOf, Of
    <3> QED
      BY <2>2, <3>1, <3>2, <3>3, <3>5, <3>6, <1>1 DEF CopyInv
  <2>3. CASE /\ Wanted(c, o) /\ copier = NoCopy
             /\ copier' = [cam |-> c, outage |-> o, age |-> 0, step |-> "look", seg |-> 0]
             /\ tries' = CountedTry(c, o)
    <3>1. /\ tries'[c].outage = o /\ o # Up /\ unit - o >= Threshold
          /\ tries[c].outage = o => (tries'[c].n = tries[c].n + 1 /\ tries[c].n < EvidenceTries)
          /\ tries[c].outage # o => tries'[c].n = 1
      BY <2>3, <1>4, TryCounted
    <3>2. tries[c].n \in 0..EvidenceTries
      BY DEF EvidenceInv, EvidenceShape
    <3>3. tries'[c].n >= 1
      BY <3>1, <3>2
    <3>4. ~(passed' < c) /\ passed' >= c
      BY <1>1, <1>4
    <3>5. /\ copier'.cam = c /\ copier'.outage = o /\ copier'.age = 0 /\ copier'.step = "look"
      BY <2>3
    <3>6. unit' - copier'.age - copier'.outage >= Threshold
      BY <3>1, <3>5, <1>1, <1>4
    <3>7. o = failSince'[c]
      OBVIOUS
    <3> HIDE DEF o
    <3> QED
      BY <3>1, <3>3, <3>4, <3>5, <3>6, <3>7 DEF CopyInv
  <2> QED
    BY <1>3, <2>2, <2>3
<1>10. ASSUME NEW d \in FilmedCams PROVE SpentOn(d)' /\ InTime(d)'
  <2>1. CASE d = c
    BY <2>1, TickOwn
  <2>2. CASE d # c
    BY <2>2, TickOthers
  <2> QED
    BY <2>1, <2>2
<1> QED
  BY <1>7, <1>8, <1>9, <1>10 DEF EvidenceInv


UsedFor(S, K, x) == (S \ K) \cup {[a EXCEPT !.for = x] : a \in K}
CamOf(S, c) == {a \in S : a.cam = c}

(* Archives used again for another outage are as many, of the same cameras.    *)
LEMMA UsedAgain ==
  ASSUME NEW S \in SUBSET Archives, IsFiniteSet(S), NEW K \in SUBSET S, NEW x \in Int, NEW k,
         \A a \in K : a.cam = k,
         NEW as, as = UsedFor(S, K, x)
  PROVE  /\ as \subseteq Archives /\ IsFiniteSet(as)
         /\ \A d : d # k => CamOf(as, d) = CamOf(S, d)
         /\ K # {} => \E a \in as : a.cam = k /\ a.for = x
         /\ Cardinality(CamOf(as, k)) <= Cardinality(CamOf(S, k))
<1> DEFINE New(a) == [cam |-> a.cam, seg |-> a.seg, for |-> x]
           Mine == {a \in S : a.cam = k}
           MineAs == {a \in as : a.cam = k}
           g == [a \in Mine |-> IF a \in K THEN New(a) ELSE a]
<1>1. \A a \in K : [a EXCEPT !.for = x] = New(a) /\ New(a) \in Archives
  BY DEF Archives
<1>2. as = (S \ K) \cup {New(a) : a \in K}
  BY <1>1 DEF UsedFor
<1>3. as \subseteq Archives
  BY <1>1, <1>2
<1>4. \A a \in K : New(a).cam = k /\ New(a).for = x
  OBVIOUS
<1>5. \A d : d # k => CamOf(as, d) = CamOf(S, d)
  BY <1>2, <1>4 DEF CamOf
<1>6. K # {} => \E a \in as : a.cam = k /\ a.for = x
  BY <1>2, <1>4
<1>7. g \in Surjection(Mine, MineAs)
  <2>1. \A a \in Mine : g[a] \in MineAs
    BY <1>2, <1>4
  <2>2. \A b \in MineAs : \E a \in Mine : g[a] = b
    <3> SUFFICES ASSUME NEW b \in MineAs PROVE \E a \in Mine : g[a] = b
      OBVIOUS
    <3>1. CASE b \in S \ K
      <4>1. b \in Mine /\ g[b] = b
        BY <3>1
      <4> QED
        BY <4>1
    <3>2. CASE \E a \in K : b = New(a)
      <4>1. PICK a \in K : b = New(a)
        BY <3>2
      <4>2. a \in Mine /\ g[a] = b
        BY <4>1
      <4> QED
        BY <4>2
    <3> QED
      BY <1>2, <3>1, <3>2
  <2>3. g \in [Mine -> MineAs]
    BY <2>1
  <2> HIDE DEF g, Mine, MineAs
  <2> QED
    BY <2>2, <2>3 DEF Surjection
<1>8. IsFiniteSet(Mine)
  BY FS_Subset
<1>9. IsFiniteSet(MineAs) /\ Cardinality(MineAs) <= Cardinality(Mine)
  <2> HIDE DEF g, Mine, MineAs
  <2> QED
    BY <1>7, <1>8, FS_Surjection
<1>10. IsFiniteSet(as)
  <2> DEFINE Rest == {a \in S : a.cam # k}
  <2>1. as = MineAs \cup Rest
    BY <1>2, <1>4
  <2>2. IsFiniteSet(Rest)
    BY FS_Subset
  <2> HIDE DEF MineAs, Rest
  <2> QED
    BY <1>9, <2>1, <2>2, FS_Union
<1> QED
  BY <1>3, <1>5, <1>6, <1>9, <1>10 DEF CamOf

LEMMA LookedStep ==
  ASSUME EvidenceInv, Looked
  PROVE  EvidenceInv'
<1> USE EvidenceConstants
<1>1. copier # NoCopy /\ copier.step = "look" /\ UNCHANGED <<filmVars, turns, copyTrouble>>
  BY DEF Looked
<1>k. PICK k \in FilmedCams : k = copier.cam
  BY <1>1 DEF EvidenceInv, EvidenceShape
<1> DEFINE kept == {a \in Of(k) : a.seg = film[k].seg}
<1>2. \/ film[k].age <= copier.age /\ Nothing
      \/ /\ film[k].age > copier.age /\ kept # {}
         /\ Preserved((archives \ kept) \cup {[a EXCEPT !.for = copier.outage] : a \in kept})
      \/ FullOf(k) /\ Nothing
      \/ /\ film[k].age > copier.age /\ ~FullOf(k)
         /\ copier' = [copier EXCEPT !.step = "copy", !.seg = film[k].seg]
         /\ UNCHANGED <<archives, tries, leftovers, failures>>
  <2>1. film[k].age \in 0..2 /\ copier.age \in {0, 1}
    BY <1>1 DEF EvidenceInv, EvidenceShape
  <2>2. film[k].age <= copier.age \/ film[k].age > copier.age
    BY <2>1
  <2> QED
    BY <1>k, <2>2 DEF Looked
<1>3. /\ tries[k].outage = copier.outage /\ tries[k].n >= 1
      /\ failSince[k] \in {copier.outage, Up}
      /\ copier.age = 0 => (passed >= k /\ failSince[k] = copier.outage)
      /\ passed < k => failSince[k] = copier.outage
      /\ unit - copier.age - copier.outage >= Threshold
  BY <1>1, <1>k DEF EvidenceInv, CopyInv
<1>4. copyTrouble' <= copyTrouble /\ copyTrouble' \in 0..CopyTrouble
  BY <1>1 DEF EvidenceInv, EvidenceShape
<1>5. CASE film[k].age <= copier.age /\ Nothing
  <2>1. copyTrouble' # CopyTrouble \/ failSince[k] # copier.outage
    <3> SUFFICES ASSUME copyTrouble = CopyTrouble, failSince[k] = copier.outage PROVE FALSE
      BY <1>1
    <3>1. copier.outage \in Nat /\ copier.age \in {0, 1} /\ unit \in Nat /\ film[k].age \in 0..2
      BY <1>1 DEF EvidenceInv, EvidenceShape
    <3>2. film[k].age >= 2 \/ film[k].age >= unit - copier.outage
      BY <3>1 DEF EvidenceInv, InTime, Up
    <3> QED
      BY <1>3, <1>5, <3>1, <3>2
  <2> QED
    BY <1>1, <1>4, <1>5, <1>k, <2>1, NothingStep
<1>6. CASE /\ film[k].age > copier.age /\ kept # {}
           /\ Preserved((archives \ kept) \cup {[a EXCEPT !.for = copier.outage] : a \in kept})
  <2>1. PICK S, K : S = archives /\ K = kept
    OBVIOUS
  <2>2. PICK x : x = copier.outage
    OBVIOUS
  <2>3. PICK as : as = UsedFor(S, K, x)
    OBVIOUS
  <2>4. S \in SUBSET Archives /\ IsFiniteSet(S) /\ K \in SUBSET S /\ x \in Int
        /\ (\A a \in K : a.cam = k) /\ K # {}
    BY <1>1, <1>6, <2>1, <2>2 DEF EvidenceInv, EvidenceShape, Of
  <2>5. /\ as \subseteq Archives /\ IsFiniteSet(as)
        /\ \A d : d # k => CamOf(as, d) = CamOf(S, d)
        /\ \E a \in as : a.cam = k /\ a.for = x
        /\ Cardinality(CamOf(as, k)) <= Cardinality(CamOf(S, k))
    BY <2>3, <2>4, UsedAgain
  <2>6. Preserved(as)
    BY <1>6, <2>1, <2>2, <2>3 DEF UsedFor
  <2>7. \A d \in FilmedCams : d # copier.cam => {a \in as : a.cam = d} = Of(d)
    BY <2>1, <2>5, <1>k DEF Of, CamOf
  <2>8. Cardinality({a \in as : a.cam = k}) <= MaxIncidents
    <3>1. Of(k) = CamOf(S, k)
      BY <2>1 DEF Of, CamOf
    <3>2. Cardinality(CamOf(S, k)) <= MaxIncidents
      BY <3>1 DEF EvidenceInv, EvidenceShape
    <3>3. IsFiniteSet(CamOf(S, k)) /\ IsFiniteSet(CamOf(as, k))
      BY <2>4, <2>5, FS_Subset DEF CamOf
    <3>4. /\ Cardinality(CamOf(S, k)) \in Nat
          /\ Cardinality(CamOf(as, k)) \in Nat
      BY <3>3, FS_CardinalityType
    <3>5. Cardinality(CamOf(as, k)) <= MaxIncidents
      <4> DEFINE i == Cardinality(CamOf(as, k))
                 j == Cardinality(CamOf(S, k))
      <4>1. i <= j
        BY <2>5
      <4>2. i \in Nat /\ j \in Nat /\ j <= MaxIncidents
        BY <3>2, <3>4
      <4> HIDE DEF i, j
      <4>3. i <= MaxIncidents
        BY <4>1, <4>2
      <4> QED
        BY <4>3 DEF i
    <3> QED
      BY <3>5 DEF CamOf
  <2> QED
    BY <1>1, <1>k, <2>2, <2>5, <2>6, <2>7, <2>8, PreservedStep
<1>7. CASE FullOf(k) /\ Nothing
  BY <1>1, <1>4, <1>7, <1>k, NothingStep
<1>8. CASE /\ film[k].age > copier.age /\ ~FullOf(k)
           /\ copier' = [copier EXCEPT !.step = "copy", !.seg = film[k].seg]
           /\ UNCHANGED <<archives, tries, leftovers, failures>>
  <2>1. UNCHANGED <<unit, film, failSince, passed, turns, copyTrouble>>
    BY <1>1 DEF filmVars
  <2>2. /\ copier' \in [cam : FilmedCams, outage : Nat, age : {0, 1},
                        step : {"look", "copy", "changed"}, seg : Nat]
        /\ copier'.cam = k /\ copier'.outage = copier.outage /\ copier'.age = copier.age
        /\ copier'.step = "copy" /\ copier' # NoCopy
    <3>1. copier \in [cam : FilmedCams, outage : Nat, age : {0, 1},
                      step : {"look", "copy", "changed"}, seg : Nat]
      BY <1>1 DEF EvidenceInv, EvidenceShape
    <3>2. film[k].seg \in Nat
      BY DEF EvidenceInv, EvidenceShape
    <3>3. copier' = [cam |-> copier.cam, outage |-> copier.outage, age |-> copier.age,
                     step |-> "copy", seg |-> film[k].seg]
      BY <1>8, <3>1
    <3>4. k # 0
      BY DEF FilmedCams
    <3> QED
      BY <3>1, <3>2, <3>3, <3>4, <1>k DEF NoCopy
  <2>3. \A d \in FilmedCams : /\ Of(d)' = Of(d) /\ FullOf(d)' = FullOf(d)
                              /\ ArchivedFor(d)' = ArchivedFor(d) /\ Copies(d)' = Copies(d)
                              /\ LastTickOf(d)' = LastTickOf(d) /\ Blocks(d)' = Blocks(d)
                              /\ Waits(d)' = Waits(d)
    BY <1>1, <1>8, <1>k, <2>1, <2>2
       DEF Of, FullOf, ArchivedFor, Copies, LastTickOf, Blocks, Waits
  <2>4. EvidenceShape'
    BY <1>8, <2>1, <2>2, <2>3 DEF EvidenceInv, EvidenceShape
  <2>5. OutagesInv'
    BY <1>8, <2>1, <2>3 DEF EvidenceInv, OutagesInv
  <2>6. CopyInv'
    <3>1. ~FullOf(copier.cam)'
      BY <1>8, <1>k, <2>1 DEF FullOf, Of
    <3> QED
      BY <1>3, <1>8, <2>1, <2>2, <3>1 DEF CopyInv
  <2>7. ASSUME NEW d \in FilmedCams PROVE SpentOn(d)' /\ InTime(d)'
    <3>1. SpentOn(d)'
      BY <1>8, <2>1, <2>3 DEF EvidenceInv, SpentOn
    <3>2. InTime(d)'
      BY <1>8, <2>1, <2>2, <2>3 DEF EvidenceInv, InTime
    <3> QED
      BY <3>1, <3>2
  <2> QED
    BY <2>4, <2>5, <2>6, <2>7 DEF EvidenceInv
<1> QED
  BY <1>2, <1>5, <1>6, <1>7, <1>8

LEMMA CopiedStep ==
  ASSUME EvidenceInv, Copied
  PROVE  EvidenceInv'
<1> USE EvidenceConstants
<1>1. copier # NoCopy /\ UNCHANGED <<filmVars, turns, copyTrouble>>
  BY DEF Copied, NoCopy
<1>k. PICK k \in FilmedCams : k = copier.cam
  BY <1>1 DEF EvidenceInv, EvidenceShape
<1>2. copyTrouble' <= copyTrouble /\ copyTrouble' \in 0..CopyTrouble
  BY <1>1 DEF EvidenceInv, EvidenceShape
<1>3. \/ /\ copier.step = "copy"
         /\ Preserved(archives \cup {[cam |-> copier.cam, seg |-> copier.seg,
                                      for |-> copier.outage]})
      \/ copier.step = "changed" /\ Nothing
  BY DEF Copied
<1>4. CASE /\ copier.step = "copy"
           /\ Preserved(archives \cup {[cam |-> copier.cam, seg |-> copier.seg,
                                        for |-> copier.outage]})
  <2>1. PICK S, n : /\ S = archives
                    /\ n = [cam |-> copier.cam, seg |-> copier.seg, for |-> copier.outage]
    OBVIOUS
  <2>2. PICK as : as = S \cup {n}
    OBVIOUS
  <2>3. n.cam = k /\ n.for = copier.outage /\ n \in Archives
    <3>1. copier.seg \in Nat /\ copier.outage \in Int /\ k \in Nat
      BY <1>1 DEF EvidenceInv, EvidenceShape, FilmedCams
    <3> QED
      BY <2>1, <3>1, <1>k DEF Archives
  <2>4. S \subseteq Archives /\ IsFiniteSet(S) /\ IsFiniteSet(as)
    BY <2>1, <2>2, FS_AddElement DEF EvidenceInv, EvidenceShape
  <2>5. /\ {a \in as : a.cam = k} = {a \in S : a.cam = k} \cup {n}
        /\ \A d \in FilmedCams : d # k => {a \in as : a.cam = d} = {a \in S : a.cam = d}
    BY <2>2, <2>3
  <2>6. Cardinality({a \in as : a.cam = k}) <= MaxIncidents
    <3>1. Of(k) = {a \in S : a.cam = k}
      BY <2>1 DEF Of
    <3>2. IsFiniteSet(Of(k))
      BY <2>4, <3>1, FS_Subset
    <3>3. Cardinality(Of(k)) \in Nat
      BY <3>2, FS_CardinalityType
    <3>4. Cardinality(Of(k)) < MaxIncidents
      <4>1. leftovers[k] \in Nat
        BY DEF EvidenceInv, EvidenceShape
      <4>2. ~(Cardinality(Of(k)) + leftovers[k] >= MaxIncidents)
        BY <1>1, <1>4, <1>k DEF EvidenceInv, CopyInv, FullOf
      <4> QED
        BY <3>3, <4>1, <4>2
    <3>5. Cardinality(Of(k) \cup {n}) <= Cardinality(Of(k)) + 1
      <4>1. Cardinality(Of(k) \cup {n})
              = IF n \in Of(k) THEN Cardinality(Of(k)) ELSE Cardinality(Of(k)) + 1
        BY <3>2, FS_AddElement
      <4> QED
        BY <3>3, <4>1
    <3>6. Cardinality({a \in as : a.cam = k}) <= Cardinality(Of(k)) + 1
      BY <2>5, <3>1, <3>5
    <3>7. Cardinality({a \in as : a.cam = k}) \in Nat
      <4>1. IsFiniteSet({a \in as : a.cam = k})
        BY <2>4, FS_Subset
      <4> QED
        BY <4>1, FS_CardinalityType
    <3> QED
      BY <3>3, <3>4, <3>6, <3>7
  <2>7. Preserved(as)
    BY <1>4, <2>1, <2>2
  <2>8. \A d \in FilmedCams : d # copier.cam => {a \in as : a.cam = d} = Of(d)
    BY <2>1, <2>5, <1>k DEF Of
  <2>9. \E a \in as : a.cam = copier.cam /\ a.for = copier.outage
    BY <2>2, <2>3, <1>k
  <2>10. as \subseteq Archives
    BY <2>2, <2>3, <2>4
  <2> QED
    BY <1>1, <1>k, <2>4, <2>6, <2>7, <2>8, <2>9, <2>10, PreservedStep
<1>5. CASE copier.step = "changed" /\ Nothing
  <2>1. copyTrouble' # CopyTrouble \/ failSince[k] # copier.outage
    <3> SUFFICES ASSUME copyTrouble = CopyTrouble, failSince[k] = copier.outage PROVE FALSE
      BY <1>1
    <3>1. failSince[k] # Up /\ Copies(k)
      BY <1>1, <1>k DEF EvidenceInv, EvidenceShape, Up, Copies
    <3> QED
      BY <1>5, <3>1 DEF EvidenceInv, InTime
  <2> QED
    BY <1>1, <1>2, <1>5, <1>k, <2>1, NothingStep
<1> QED
  BY <1>3, <1>4, <1>5

LEMMA EvidenceRestartStep ==
  ASSUME EvidenceInv, EvidenceRestart
  PROVE  EvidenceInv'
<1> USE EvidenceConstants
<1>1. /\ copyTrouble > 0 /\ copyTrouble' = copyTrouble - 1
      /\ leftovers' = IF copier # NoCopy /\ copier.step # "look"
                      THEN [leftovers EXCEPT ![copier.cam] = @ + 1] ELSE leftovers
      /\ copier' = NoCopy /\ tries' = [c \in FilmedCams |-> Untried]
      /\ failures' = [c \in FilmedCams |-> 0]
      /\ UNCHANGED <<unit, film, failSince, passed, archives, turns>>
  BY DEF EvidenceRestart, filmVars
<1>2. copyTrouble' \in 0..CopyTrouble /\ copyTrouble' # CopyTrouble
  BY <1>1 DEF EvidenceInv, EvidenceShape
<1>3. leftovers' \in [FilmedCams -> Nat]
  BY <1>1 DEF EvidenceInv, EvidenceShape
<1>4. /\ tries' \in [FilmedCams -> [outage : Int, n : 0..EvidenceTries, retryAt : Int]]
      /\ \A c \in FilmedCams : /\ tries'[c].outage = -1 /\ tries'[c].n = 0
                               /\ tries'[c].retryAt = 0
  BY <1>1 DEF Untried, Up
<1>5. EvidenceShape'
  <2>1. \A d \in FilmedCams : Of(d)' = Of(d)
    BY <1>1 DEF Of
  <2>2. failures' \in [FilmedCams -> Nat]
    BY <1>1
  <2> QED
    BY <1>1, <1>2, <1>3, <1>4, <2>1, <2>2 DEF EvidenceInv, EvidenceShape
<1>6. OutagesInv'
  <2> SUFFICES ASSUME NEW c \in FilmedCams
               PROVE  /\ Up <= failSince'[c] /\ failSince'[c] <= LastTickOf(c)'
                      /\ Up <= tries'[c].outage /\ tries'[c].outage <= LastTickOf(c)'
                      /\ tries'[c].outage = Up => (tries'[c].n = 0 /\ tries'[c].retryAt = 0)
    BY DEF OutagesInv
  <2>1. LastTickOf(c)' = LastTickOf(c)
    BY <1>1 DEF LastTickOf
  <2>2. Up <= failSince[c] /\ failSince[c] <= LastTickOf(c) /\ Up = -1
    BY DEF EvidenceInv, OutagesInv, Up
  <2>3. LastTickOf(c) \in Int /\ failSince[c] \in Int
    BY DEF LastTickOf, EvidenceInv, EvidenceShape
  <2> QED
    BY <1>1, <1>4, <2>1, <2>2, <2>3
<1>7. CopyInv'
  BY <1>1 DEF CopyInv
<1>8. ASSUME NEW c \in FilmedCams PROVE SpentOn(c)' /\ InTime(c)'
  <2>1. SpentOn(c)'
    BY <1>1, <1>4 DEF SpentOn, Up
  <2>2. InTime(c)'
    BY <1>2 DEF InTime
  <2> QED
    BY <2>1, <2>2
<1> QED
  BY <1>5, <1>6, <1>7, <1>8 DEF EvidenceInv

LEMMA EvidenceStep == EvidenceInv /\ [EvidenceNext]_evidenceVars => EvidenceInv'
<1> SUFFICES ASSUME EvidenceInv, [EvidenceNext]_evidenceVars PROVE EvidenceInv'
  OBVIOUS
<1>1. ASSUME NEW c \in FilmedCams, RecorderWrites(c) PROVE EvidenceInv'
  BY <1>1, WritesStep
<1>2. ASSUME NEW c \in FilmedCams, NEW ok \in BOOLEAN, CameraTick(c, ok) PROVE EvidenceInv'
  BY <1>2, TickStep
<1>3. CASE Looked
  BY <1>3, LookedStep
<1>4. CASE Copied
  BY <1>4, CopiedStep
<1>5. CASE CopyFails
  <2>1. copier # NoCopy /\ Nothing /\ UNCHANGED <<filmVars, turns>>
    BY <1>5 DEF CopyFails
  <2>2. copyTrouble' <= copyTrouble /\ copyTrouble' \in 0..CopyTrouble /\ copyTrouble' # CopyTrouble
    BY <1>5, EvidenceConstants DEF CopyFails, EvidenceInv, EvidenceShape
  <2> QED
    BY <2>1, <2>2, NothingStep
<1>6. CASE EvidenceRestart
  BY <1>6, EvidenceRestartStep
<1>7. CASE UnitEnds
  BY <1>7, UnitStep
<1>8. CASE UNCHANGED evidenceVars
  <2>1. UNCHANGED <<unit, film, failSince, passed, tries, copier, archives, leftovers, failures,
                    turns, copyTrouble>>
    BY <1>8 DEF evidenceVars, filmVars
  <2>2. \A d \in FilmedCams : /\ Of(d)' = Of(d) /\ FullOf(d)' = FullOf(d)
                              /\ ArchivedFor(d)' = ArchivedFor(d) /\ Copies(d)' = Copies(d)
                              /\ LastTickOf(d)' = LastTickOf(d) /\ Blocks(d)' = Blocks(d)
                              /\ Waits(d)' = Waits(d)
    BY <2>1 DEF Of, FullOf, ArchivedFor, Copies, LastTickOf, Blocks, Waits
  <2>3. EvidenceShape' /\ OutagesInv'
    BY <2>1, <2>2 DEF EvidenceInv, EvidenceShape, OutagesInv
  <2>4. CopyInv'
    <3>1. FullOf(copier.cam)' = FullOf(copier.cam)
      BY <2>1 DEF FullOf, Of
    <3> QED
      BY <2>1, <3>1 DEF EvidenceInv, CopyInv
  <2>5. \A d \in FilmedCams : SpentOn(d)' /\ InTime(d)'
    BY <2>1, <2>2 DEF EvidenceInv, SpentOn, InTime
  <2> QED
    BY <2>3, <2>4, <2>5 DEF EvidenceInv
<1> QED
  BY <1>1, <1>2, <1>3, <1>4, <1>5, <1>6, <1>7, <1>8 DEF EvidenceNext

LEMMA EvidenceKept == EvidenceInv => EvidenceTypeOK /\ GivenUpAfterTrying /\ OutageIsPreserved
<1> SUFFICES ASSUME EvidenceInv PROVE EvidenceTypeOK /\ GivenUpAfterTrying /\ OutageIsPreserved
  OBVIOUS
<1> USE EvidenceConstants
<1>1. EvidenceTypeOK
  <2>1. ASSUME NEW c \in FilmedCams PROVE failSince[c] \in Up..unit
    <3>1. LastTickOf(c) <= unit /\ LastTickOf(c) \in Int /\ failSince[c] \in Int /\ unit \in Nat
      BY DEF LastTickOf, EvidenceInv, EvidenceShape
    <3>2. Up <= failSince[c] /\ failSince[c] <= LastTickOf(c) /\ Up \in Int
      BY DEF EvidenceInv, OutagesInv, Up
    <3> QED
      BY <3>1, <3>2
  <2>2. /\ unit \in 0..LastUnit /\ passed \in 0..LastCam
        /\ \A c \in FilmedCams : /\ tries[c].n \in 0..EvidenceTries
                                 /\ Cardinality(Of(c)) <= MaxIncidents
    BY DEF EvidenceInv, EvidenceShape
  <2> QED
    BY <2>1, <2>2 DEF EvidenceTypeOK
<1>2. GivenUpAfterTrying
  <2> SUFFICES ASSUME NEW c \in FilmedCams,
                      tries[c].n = EvidenceTries, tries[c].outage = failSince[c], copier.cam # c
               PROVE  failures[c] = EvidenceTries \/ \E a \in Of(c) : a.for = failSince[c]
    BY DEF GivenUpAfterTrying
  <2>1. failSince[c] # Up
    BY DEF EvidenceInv, OutagesInv
  <2>2. ~Copies(c)
    BY DEF Copies
  <2>3. tries[c].n = failures[c] + 0 \/ ArchivedFor(c)
    BY <2>1, <2>2 DEF EvidenceInv, SpentOn
  <2>4. failures[c] \in Nat
    BY DEF EvidenceInv, EvidenceShape
  <2> QED
    BY <2>3, <2>4 DEF ArchivedFor
<1>3. OutageIsPreserved
  <2> SUFFICES ASSUME copyTrouble = CopyTrouble, NEW c \in FilmedCams, failSince[c] # Up, Waits(c)
               PROVE  unit - failSince[c] < Threshold + 3 + 2 * turns[c]
    <3>1. \A d \in FilmedCams : film[d].seg \in Nat
      BY DEF EvidenceInv, EvidenceShape
    <3> QED
      BY <3>1 DEF OutageIsPreserved, Waits, ArchivedFor
  <2> DEFINE t == turns[c]
             f == failSince[c]
             l == LastTickOf(c)
  <2>1. t \in Nat /\ f \in Int /\ unit \in Nat
    BY DEF EvidenceInv, EvidenceShape
  <2>2. CASE Copies(c)
    <3>1. unit - copier.age - f <= Threshold + 2 * t + 1
      BY <2>2 DEF EvidenceInv, InTime
    <3>2. copier.age \in {0, 1}
      BY <2>2 DEF EvidenceInv, EvidenceShape, Copies
    <3> HIDE DEF t, f
    <3>3. unit - f < Threshold + 3 + 2 * t
      BY <2>1, <3>1, <3>2
    <3> QED
      BY <3>3 DEF t, f
  <2>3. CASE ~Copies(c)
    <3>1. l >= f + Threshold => l + Blocks(c) <= f + Threshold + 2 * t
      BY <2>3 DEF EvidenceInv, InTime
    <3>2. Blocks(c) \in Nat
      BY DEF Blocks
    <3>3. l \in Int /\ l >= unit - 1
      BY <2>1 DEF LastTickOf
    <3> HIDE DEF t, f, l
    <3>4. unit - f < Threshold + 3 + 2 * t
      <4>1. CASE l >= f + Threshold
        BY <4>1, <2>1, <3>1, <3>2, <3>3
      <4>2. CASE l < f + Threshold
        BY <4>2, <2>1, <3>3
      <4> QED
        BY <4>1, <4>2, <2>1, <3>3
    <3> QED
      BY <3>4 DEF t, f
  <2> QED
    BY <2>2, <2>3
<1> QED
  BY <1>1, <1>2, <1>3

(* Whatever the cameras, the thread and the recorder do in turn: an outage's    *)
(* tries are spent on copies of that outage, and without trouble its footage is *)
(* out of the recorder's reach in time.                                        *)
THEOREM EvidenceKeptCorrect ==
  EvidenceSpec => [](EvidenceTypeOK /\ GivenUpAfterTrying /\ OutageIsPreserved)
<1>1. EvidenceInit => EvidenceInv
  BY EvidenceInitInv
<1>2. EvidenceInv /\ [EvidenceNext]_evidenceVars => EvidenceInv'
  BY EvidenceStep
<1>3. EvidenceInv => EvidenceTypeOK /\ GivenUpAfterTrying /\ OutageIsPreserved
  BY EvidenceKept
<1> QED
  BY <1>1, <1>2, <1>3, PTL DEF EvidenceSpec

----------------------------------------------------------------------------
(* The clips of alerts *)

OnCard(i) == cardJob.of = i
IsBack(i) == readBack.of = i
IsReported(i) == \E r \in reported : r.of = i
Submitted(i) == i \in wanted /\ entryOf[i].submitted

ClipsShape ==
  /\ wanted \subseteq ClipIncidents /\ aged \subseteq ClipIncidents
  /\ noted \in Seq(ClipIncidents) /\ encodes \in Seq(ClipIncidents)
  /\ entryOf \in [ClipIncidents -> [submitted : BOOLEAN, due : BOOLEAN, tries : 0..ClipTries]]
  /\ cardJob \in [of : ClipIncidents \cup {FollowUp, "none"},
                  step : {"idle", "connect", "lookup", "again", "download"}]
  /\ readBack \in [of : ClipIncidents \cup {FollowUp, "none"}, ok : BOOLEAN]
  /\ reported \subseteq [of : ClipIncidents, ok : BOOLEAN]
  /\ tempDirs \subseteq ClipIncidents
  /\ clipsSent \in [ClipIncidents -> Nat] /\ answersLost \in [ClipIncidents -> Nat]
  /\ samePid \in BOOLEAN /\ restarts \in Nat

(* One place holds a submitted entry: the card, the finished read, the sender, *)
(* or its report; the card thread and a finished read exclude each other.      *)
PlacesInv ==
  /\ cardJob = NoCardJob \/ readBack = NoRead
  /\ cardJob.step = "idle" => cardJob = NoCardJob
  /\ cardJob.of = "none" => cardJob = NoCardJob
  /\ readBack.of = "none" => readBack = NoRead
  /\ \A m, n \in 1..Len(encodes) : encodes[m] = encodes[n] => m = n
  /\ \A i \in ClipIncidents :
       /\ Submitted(i) <=> OnCard(i) \/ IsBack(i) \/ Encoding(i) \/ IsReported(i)
       /\ Encoding(i) => ~OnCard(i) /\ ~IsBack(i)
       /\ IsReported(i) => ~OnCard(i) /\ ~IsBack(i) /\ ~Encoding(i)
  /\ \A q, r \in reported : q.of = r.of => q = r

(* An entry is dropped at its last try, and an incident is noted once: what the *)
(* phone received without a confirmed answer is counted.                       *)
UploadsInv ==
  \A i \in ClipIncidents :
    /\ i \in wanted => InQueue(i) /\ entryOf[i].tries < ClipTries
    /\ clipsSent[i] <= 1 + answersLost[i]
    /\ \/ i \in wanted /\ ~\E r \in reported : r.of = i /\ r.ok
       \/ ~InQueue(i) /\ i \notin aged
       => clipsSent[i] <= answersLost[i]

DirsInv ==
  ~samePid =>
    \A i \in tempDirs : OnCard(i) \/ (IsBack(i) /\ readBack.ok) \/ Encoding(i)

ClipsInv == ClipsShape /\ PlacesInv /\ UploadsInv /\ DirsInv

LEMMA ClipsConstants ==
  /\ ClipTries \in Nat /\ ClipTries >= 1 /\ ClipRestarts \in Nat
  /\ FollowUp \notin ClipIncidents /\ "none" \notin ClipIncidents /\ FollowUp # "none"
  BY ClipsAssumption DEF FollowUp

LEMMA ClipsInitInv == ClipsInit => ClipsInv
<1> SUFFICES ASSUME ClipsInit PROVE ClipsInv
  OBVIOUS
<1> USE ClipsConstants
<1>1. /\ wanted = {} /\ noted = <<>> /\ entryOf = [i \in ClipIncidents |-> FreshEntry]
      /\ aged = {} /\ cardJob = NoCardJob /\ readBack = NoRead
      /\ encodes = <<>> /\ reported = {} /\ tempDirs = {}
      /\ clipsSent = [i \in ClipIncidents |-> 0] /\ answersLost = [i \in ClipIncidents |-> 0]
      /\ samePid \in BOOLEAN /\ restarts = ClipRestarts
  BY DEF ClipsInit
<1>2. ClipsShape
  <2>1. entryOf \in [ClipIncidents -> [submitted : BOOLEAN, due : BOOLEAN, tries : 0..ClipTries]]
    BY <1>1 DEF FreshEntry
  <2>2. noted \in Seq(ClipIncidents) /\ encodes \in Seq(ClipIncidents)
    BY <1>1
  <2> QED
    BY <1>1, <2>1, <2>2 DEF ClipsShape, NoCardJob, NoRead
<1>3. PlacesInv
  BY <1>1 DEF PlacesInv, Submitted, OnCard, IsBack, Encoding, IsReported, NoCardJob, NoRead
<1>4. UploadsInv
  BY <1>1 DEF UploadsInv, InQueue
<1>5. DirsInv
  BY <1>1 DEF DirsInv
<1> QED
  BY <1>2, <1>3, <1>4, <1>5 DEF ClipsInv

(* The entry of an incident in the queue, after a step of the loop only.       *)
LEMMA PhotoStep ==
  ASSUME ClipsInv, NEW i \in ClipIncidents, PhotoDelivered(i)
  PROVE  ClipsInv'
<1> USE ClipsConstants
<1>1. /\ ~InQueue(i) /\ i \notin aged /\ noted' = Append(noted, i) /\ wanted' = wanted \cup {i}
      /\ entryOf' = [entryOf EXCEPT ![i] = FreshEntry]
      /\ UNCHANGED <<aged, cardJob, readBack, encodes, reported, clipsSent, answersLost,
                     tempDirs, samePid, restarts>>
  BY DEF PhotoDelivered, senderVars
<1>2. /\ entryOf' \in [ClipIncidents -> [submitted : BOOLEAN, due : BOOLEAN, tries : 0..ClipTries]]
      /\ entryOf'[i].submitted = FALSE /\ entryOf'[i].tries = 0
      /\ \A j \in ClipIncidents : j # i => entryOf'[j] = entryOf[j]
  BY <1>1 DEF ClipsInv, ClipsShape, FreshEntry
<1>3. noted' \in Seq(ClipIncidents) /\ \A j : InQueue(j)' <=> InQueue(j) \/ j = i
  <2>1. noted \in Seq(ClipIncidents)
    BY DEF ClipsInv, ClipsShape
  <2>2. /\ noted' \in Seq(ClipIncidents) /\ Len(noted') = Len(noted) + 1 /\ Len(noted) \in Nat
        /\ \A n \in 1..Len(noted) : noted'[n] = noted[n]
        /\ noted'[Len(noted) + 1] = i
    BY <1>1, <2>1, AppendProperties
  <2> QED
    BY <2>2 DEF InQueue
<1>4. i \notin wanted
  BY <1>1 DEF ClipsInv, UploadsInv
<1>5. ClipsShape'
  BY <1>1, <1>2, <1>3 DEF ClipsInv, ClipsShape
<1>6. /\ \A j \in ClipIncidents : Submitted(j)' <=> Submitted(j)
      /\ \A j : /\ OnCard(j)' = OnCard(j) /\ IsBack(j)' = IsBack(j) /\ Encoding(j)' = Encoding(j)
                /\ IsReported(j)' = IsReported(j)
  BY <1>1, <1>2, <1>4 DEF Submitted, OnCard, IsBack, Encoding, IsReported
<1>7. PlacesInv'
  BY <1>1, <1>6 DEF ClipsInv, PlacesInv
<1>8. UploadsInv'
  BY <1>1, <1>2, <1>3, <1>4 DEF ClipsInv, UploadsInv
<1>9. DirsInv'
  BY <1>1, <1>6 DEF ClipsInv, DirsInv
<1> QED
  BY <1>5, <1>7, <1>8, <1>9 DEF ClipsInv


LEMMA CollectsStep ==
  ASSUME ClipsInv, LoopCollects
  PROVE  ClipsInv'
<1> USE ClipsConstants
<1>1. /\ readBack # NoRead /\ readBack' = NoRead
      /\ UNCHANGED <<aged, cardJob, reported, clipsSent, answersLost, tempDirs, samePid, restarts>>
      /\ cardJob = NoCardJob
  BY DEF LoopCollects, ClipsInv, PlacesInv
<1>2. \A j : /\ OnCard(j)' = OnCard(j) /\ IsReported(j)' = IsReported(j)
             /\ IsBack(j)' <=> j = "none"
  BY <1>1 DEF OnCard, IsReported, IsBack, NoRead
<1>3. readBack.of \in ClipIncidents \cup {FollowUp} /\ readBack.ok \in BOOLEAN
  BY <1>1 DEF ClipsInv, ClipsShape, PlacesInv
<1>4. CASE readBack.of = FollowUp
  <2>1. UNCHANGED <<wanted, noted, entryOf, encodes>>
    BY <1>4 DEF LoopCollects, queueVars
  <2>2. \A j \in ClipIncidents : /\ Submitted(j)' = Submitted(j) /\ Encoding(j)' = Encoding(j)
                                 /\ ~IsBack(j) /\ ~IsBack(j)'
    BY <1>2, <1>4, <2>1 DEF Submitted, Encoding, IsBack
  <2>3. ClipsShape'
    BY <1>1, <2>1 DEF ClipsInv, ClipsShape, NoRead
  <2>4. PlacesInv'
    BY <1>1, <1>2, <2>1, <2>2 DEF ClipsInv, PlacesInv
  <2>5. UploadsInv'
    BY <1>1, <2>1 DEF ClipsInv, UploadsInv, InQueue
  <2>6. DirsInv'
    BY <1>1, <1>2, <2>1, <2>2 DEF ClipsInv, DirsInv, ClipsShape
  <2> QED
    BY <2>3, <2>4, <2>5, <2>6 DEF ClipsInv
<1>5. CASE readBack.of \in ClipIncidents
  <2>k. PICK i \in ClipIncidents : i = readBack.of
    BY <1>5
  <2>1. /\ Submitted(i) /\ ~OnCard(i) /\ ~Encoding(i) /\ ~IsReported(i)
        /\ \A j \in ClipIncidents : IsBack(j) <=> j = i
    BY <2>k, <1>1 DEF ClipsInv, PlacesInv, IsBack, OnCard, NoCardJob
  <2>2. CASE readBack.ok
    <3>1. encodes' = Append(encodes, i) /\ UNCHANGED <<wanted, noted, entryOf>>
      BY <2>2, <2>k DEF LoopCollects, queueVars
    <3>2. encodes \in Seq(ClipIncidents)
      BY DEF ClipsInv, ClipsShape
    <3>3. /\ encodes' \in Seq(ClipIncidents) /\ Len(encodes') = Len(encodes) + 1
          /\ Len(encodes) \in Nat /\ encodes'[Len(encodes) + 1] = i
          /\ \A n \in 1..Len(encodes) : encodes'[n] = encodes[n]
      BY <3>1, <3>2, AppendProperties
    <3>4. \A j : Encoding(j)' <=> Encoding(j) \/ j = i
      BY <3>3 DEF Encoding
    <3>5. \A m, n \in 1..Len(encodes') : encodes'[m] = encodes'[n] => m = n
      <4>1. \A n \in 1..Len(encodes) : encodes'[n] # i
        BY <2>1, <3>3 DEF Encoding
      <4>2. \A m, n \in 1..Len(encodes) : encodes[m] = encodes[n] => m = n
        BY DEF ClipsInv, PlacesInv
      <4> QED
        BY <3>3, <4>1, <4>2
    <3>6. \A j \in ClipIncidents : Submitted(j)' = Submitted(j)
      BY <3>1 DEF Submitted
    <3>7. ClipsShape'
      BY <1>1, <3>1, <3>3 DEF ClipsInv, ClipsShape, NoRead
    <3>8. PlacesInv'
      BY <1>1, <1>2, <2>1, <3>4, <3>5, <3>6 DEF ClipsInv, PlacesInv
    <3>9. UploadsInv'
      BY <1>1, <3>1 DEF ClipsInv, UploadsInv, InQueue
    <3>10. DirsInv'
      BY <1>1, <1>2, <2>1, <3>4 DEF ClipsInv, DirsInv, ClipsShape
    <3> QED
      BY <3>7, <3>8, <3>9, <3>10 DEF ClipsInv
  <2>3. CASE ~readBack.ok
    <3>1. /\ entryOf' = [entryOf EXCEPT ![i] = Failed(@)]
          /\ IF GivesUpOn(entryOf[i]) THEN wanted' = wanted \ {i} ELSE UNCHANGED wanted
          /\ UNCHANGED <<noted, encodes>>
      BY <2>3, <2>k DEF LoopCollects, queueVars, Unlisted
    <3>2. entryOf[i] \in [submitted : BOOLEAN, due : BOOLEAN, tries : 0..ClipTries]
      BY DEF ClipsInv, ClipsShape
    <3>3. entryOf[i].tries < ClipTries /\ i \in wanted
      BY <2>1 DEF ClipsInv, UploadsInv, Submitted
    <3>4. entryOf'[i] = Failed(entryOf[i])
      BY <3>1 DEF ClipsInv, ClipsShape
    <3>5. Failed(entryOf[i]) = [submitted |-> FALSE, due |-> FALSE, tries |-> entryOf[i].tries + 1]
      BY <3>2 DEF Failed
    <3>6. /\ entryOf' \in [ClipIncidents -> [submitted : BOOLEAN, due : BOOLEAN, tries : 0..ClipTries]]
          /\ \A j \in ClipIncidents : j # i => entryOf'[j] = entryOf[j]
      <4>1. Failed(entryOf[i]) \in [submitted : BOOLEAN, due : BOOLEAN, tries : 0..ClipTries]
        BY <3>2, <3>3, <3>5
      <4> QED
        BY <3>1, <4>1 DEF ClipsInv, ClipsShape
    <3>7. /\ wanted' \subseteq wanted /\ \A j \in wanted : j # i => j \in wanted'
          /\ i \in wanted' => entryOf[i].tries + 1 < ClipTries
      BY <3>1, <3>2 DEF GivesUpOn
    <3>8. \A j \in ClipIncidents : Submitted(j)' <=> Submitted(j) /\ j # i
      BY <3>4, <3>5, <3>6, <3>7 DEF Submitted
    <3>9. \A j : Encoding(j)' = Encoding(j) /\ InQueue(j)' = InQueue(j)
      BY <3>1 DEF Encoding, InQueue
    <3>10. ClipsShape'
      BY <1>1, <3>1, <3>6, <3>7 DEF ClipsInv, ClipsShape, NoRead
    <3>11. PlacesInv'
      BY <1>1, <1>2, <2>1, <3>1, <3>8, <3>9 DEF ClipsInv, PlacesInv
    <3>12. UploadsInv'
      BY <1>1, <3>4, <3>5, <3>6, <3>7, <3>9 DEF ClipsInv, UploadsInv
    <3>13. DirsInv'
      BY <1>1, <1>2, <2>1, <2>3, <2>k, <3>9 DEF ClipsInv, DirsInv, ClipsShape
    <3> QED
      BY <3>10, <3>11, <3>12, <3>13 DEF ClipsInv
  <2> QED
    BY <1>3, <2>2, <2>3
<1> QED
  BY <1>3, <1>4, <1>5

LEMMA DrainStep ==
  ASSUME ClipsInv, Drain
  PROVE  ClipsInv'
<1> USE ClipsConstants
<1> DEFINE failed == {r.of : r \in {q \in reported : ~q.ok}}
           over == {r.of : r \in {q \in reported : q.ok}}
                     \cup {i \in failed : GivesUpOn(entryOf[i])}
           after == [i \in ClipIncidents |-> IF i \in failed THEN Failed(entryOf[i]) ELSE entryOf[i]]
           kept == {i \in wanted : i \notin over /\ (after[i].submitted \/ i \notin aged)}
           Entries == [submitted : BOOLEAN, due : BOOLEAN, tries : 0..ClipTries]
<1>1. /\ reported' = {} /\ wanted' = kept
      /\ \/ \E i \in ClipIncidents :
              /\ i \in kept /\ ~after[i].submitted /\ CardIdle
              /\ entryOf' = [after EXCEPT ![i].submitted = TRUE]
              /\ cardJob' = [of |-> i, step |-> "connect"]
              /\ tempDirs' = tempDirs \cup {i}
         \/ entryOf' = after /\ UNCHANGED <<cardJob, tempDirs>>
      /\ UNCHANGED <<noted, aged, readBack, encodes, clipsSent, answersLost, samePid, restarts>>
  <2>1. kept \subseteq ClipIncidents
    BY DEF ClipsInv, ClipsShape
  <2> QED
    BY <2>1 DEF Drain
<1>2. /\ entryOf \in [ClipIncidents -> Entries] /\ wanted \subseteq ClipIncidents
      /\ reported \subseteq [of : ClipIncidents, ok : BOOLEAN]
  BY DEF ClipsInv, ClipsShape
<1>3. \A j \in ClipIncidents : j \in failed => IsReported(j)
  BY DEF IsReported
<1>4. \A j \in ClipIncidents : IsReported(j) => j \in wanted /\ entryOf[j].submitted
                                                /\ entryOf[j].tries < ClipTries
  BY DEF ClipsInv, PlacesInv, UploadsInv, Submitted
<1>5. ASSUME NEW j \in ClipIncidents
      PROVE  /\ after[j] \in Entries
             /\ ~IsReported(j) => after[j] = entryOf[j]
             /\ IsReported(j) /\ j \notin over =>
                  ~after[j].submitted /\ after[j].tries < ClipTries
  <2>1. CASE j \notin failed
    <3>1. after[j] = entryOf[j]
      BY <2>1
    <3>2. IsReported(j) => j \in over
      BY <2>1 DEF IsReported
    <3> QED
      BY <3>1, <3>2, <1>2
  <2>2. CASE j \in failed
    <3>1. entryOf[j] \in Entries /\ entryOf[j].tries < ClipTries /\ IsReported(j)
      BY <1>2, <1>3, <1>4, <2>2
    <3>2. Failed(entryOf[j]) = [submitted |-> FALSE, due |-> FALSE, tries |-> entryOf[j].tries + 1]
      BY <3>1 DEF Failed
    <3>3. after[j] = [submitted |-> FALSE, due |-> FALSE, tries |-> entryOf[j].tries + 1]
      BY <2>2, <3>2
    <3>4. j \notin over => ~(entryOf[j].tries + 1 >= ClipTries)
      BY <2>2 DEF GivesUpOn
    <3> HIDE DEF after, over
    <3> QED
      BY <3>1, <3>3, <3>4
  <2> QED
    BY <2>1, <2>2
<1>6. \A j \in ClipIncidents : j \in over => IsReported(j)
  BY DEF IsReported
<1>7. ASSUME NEW j \in ClipIncidents
      PROVE  j \in kept /\ after[j].submitted <=> Submitted(j) /\ ~IsReported(j)
  <2>1. CASE IsReported(j)
    <3>1. j \in kept => j \notin over
      OBVIOUS
    <3> HIDE DEF kept, after, over
    <3> QED
      BY <2>1, <3>1, <1>5
  <2>2. CASE ~IsReported(j)
    <3>1. j \notin over /\ after[j] = entryOf[j]
      BY <2>2, <1>5, <1>6
    <3>2. j \in kept <=> j \in wanted /\ j \notin over /\ (after[j].submitted \/ j \notin aged)
      OBVIOUS
    <3> HIDE DEF kept, after, over
    <3> QED
      BY <2>2, <3>1, <3>2 DEF Submitted
  <2> QED
    BY <2>1, <2>2
<1>8. /\ kept \subseteq wanted
      /\ \A j \in ClipIncidents : j \in kept =>
           after[j].tries < ClipTries /\ ~\E r \in reported : r.of = j /\ r.ok
  <2>1. ASSUME NEW j \in ClipIncidents, j \in kept
        PROVE  after[j].tries < ClipTries /\ ~\E r \in reported : r.of = j /\ r.ok
    <3>1. j \in wanted /\ j \notin over
      BY <2>1
    <3>2. ~\E r \in reported : r.of = j /\ r.ok
      BY <3>1
    <3>3. entryOf[j].tries < ClipTries
      BY <3>1 DEF ClipsInv, UploadsInv
    <3> HIDE DEF kept, after, over
    <3> QED
      BY <3>1, <3>2, <3>3, <1>5
  <2> QED
    BY <2>1
<1>9. after \in [ClipIncidents -> Entries]
  BY <1>5
<1>10. \A j : Encoding(j)' = Encoding(j) /\ IsBack(j)' = IsBack(j) /\ InQueue(j)' = InQueue(j)
              /\ ~IsReported(j)'
  BY <1>1 DEF Encoding, IsBack, InQueue, IsReported
<1> HIDE DEF failed, over, after, kept
<1>11. CASE entryOf' = after /\ UNCHANGED <<cardJob, tempDirs>>
  <2>1. \A j \in ClipIncidents : /\ Submitted(j)' <=> Submitted(j) /\ ~IsReported(j)
                                 /\ OnCard(j)' = OnCard(j)
    BY <1>1, <1>7, <1>11 DEF Submitted, OnCard
  <2>2. ClipsShape'
    BY <1>1, <1>8, <1>9, <1>11 DEF ClipsInv, ClipsShape
  <2>3. PlacesInv'
    BY <1>1, <1>10, <1>11, <2>1 DEF ClipsInv, PlacesInv
  <2>4. UploadsInv'
    BY <1>1, <1>8, <1>10, <1>11 DEF ClipsInv, UploadsInv, ClipsShape
  <2>5. DirsInv'
    BY <1>1, <1>10, <1>11, <2>1 DEF ClipsInv, DirsInv, ClipsShape
  <2> QED
    BY <2>2, <2>3, <2>4, <2>5 DEF ClipsInv
<1>12. ASSUME NEW i \in ClipIncidents, i \in kept, ~after[i].submitted, CardIdle,
              entryOf' = [after EXCEPT ![i].submitted = TRUE],
              cardJob' = [of |-> i, step |-> "connect"],
              tempDirs' = tempDirs \cup {i}
       PROVE  ClipsInv'
  <2>1. after[i] \in Entries /\ [after[i] EXCEPT !.submitted = TRUE] \in Entries
        /\ [after[i] EXCEPT !.submitted = TRUE].submitted = TRUE
        /\ [after[i] EXCEPT !.submitted = TRUE].tries = after[i].tries
    BY <1>9
  <2>2. /\ entryOf' \in [ClipIncidents -> Entries]
        /\ entryOf'[i].submitted = TRUE /\ entryOf'[i].tries = after[i].tries
        /\ \A j \in ClipIncidents : j # i => entryOf'[j] = after[j]
    BY <1>9, <1>12, <2>1
  <2>3. /\ cardJob = NoCardJob /\ readBack = NoRead /\ i # "none" /\ i # FollowUp
        /\ \A j \in ClipIncidents : ~OnCard(j) /\ ~IsBack(j)
    BY <1>12 DEF CardIdle, OnCard, IsBack, NoCardJob, NoRead
  <2>4. ~Submitted(i) \/ IsReported(i)
    BY <1>7, <1>12
  <2>5. ~Encoding(i)
    BY <2>4 DEF ClipsInv, PlacesInv
  <2>6. \A j \in ClipIncidents :
          /\ Submitted(j)' <=> (Submitted(j) /\ ~IsReported(j)) \/ j = i
          /\ OnCard(j)' <=> j = i
    BY <1>1, <1>7, <1>12, <2>2 DEF Submitted, OnCard
  <2>7. ClipsShape'
    BY <1>1, <1>8, <1>12, <2>2 DEF ClipsInv, ClipsShape
  <2>8. PlacesInv'
    BY <1>1, <1>10, <1>12, <2>3, <2>5, <2>6 DEF ClipsInv, PlacesInv
  <2>9. UploadsInv'
    BY <1>1, <1>8, <1>10, <1>12, <2>2 DEF ClipsInv, UploadsInv, ClipsShape
  <2>10. DirsInv'
    BY <1>1, <1>10, <1>12, <2>3, <2>6 DEF ClipsInv, DirsInv, ClipsShape
  <2> QED
    BY <2>7, <2>8, <2>9, <2>10 DEF ClipsInv
<1> QED
  BY <1>1, <1>11, <1>12


(* The card thread's own steps: the read goes on or it ends.                   *)
LEMMA ReadStep ==
  ASSUME ClipsInv, cardJob.step # "idle",
         UNCHANGED <<queueVars, aged, senderVars, samePid, restarts>>,
         \/ \E step \in {"lookup", "again", "download"} : ReadGoesOn(step)
         \/ \E ok \in BOOLEAN : ReadEnds(ok)
  PROVE  ClipsInv'
<1> USE ClipsConstants
<1>1. UNCHANGED <<wanted, noted, entryOf, aged, encodes, reported, clipsSent, answersLost,
                  samePid, restarts>>
  BY DEF queueVars, senderVars
<1>2. \A j : /\ Submitted(j)' = Submitted(j) /\ Encoding(j)' = Encoding(j)
             /\ IsReported(j)' = IsReported(j) /\ InQueue(j)' = InQueue(j)
  BY <1>1 DEF Submitted, Encoding, IsReported, InQueue
<1>3. /\ cardJob # NoCardJob /\ readBack = NoRead
      /\ cardJob.of \in ClipIncidents \cup {FollowUp} /\ \A j \in ClipIncidents : ~IsBack(j)
  BY DEF ClipsInv, PlacesInv, ClipsShape, NoCardJob, IsBack, NoRead
<1>4. UploadsInv'
  BY <1>1, <1>2 DEF ClipsInv, UploadsInv
<1>5. CASE \E step \in {"lookup", "again", "download"} : ReadGoesOn(step)
  <2>1. PICK step \in {"lookup", "again", "download"} : ReadGoesOn(step)
    BY <1>5
  <2>2. /\ cardJob'.of = cardJob.of /\ cardJob'.step = step /\ UNCHANGED <<readBack, tempDirs>>
        /\ cardJob' \in [of : ClipIncidents \cup {FollowUp, "none"},
                         step : {"idle", "connect", "lookup", "again", "download"}]
    BY <2>1 DEF ReadGoesOn, ClipsInv, ClipsShape
  <2>3. \A j : OnCard(j)' = OnCard(j) /\ IsBack(j)' = IsBack(j)
    BY <2>2 DEF OnCard, IsBack
  <2>4. ClipsShape'
    BY <1>1, <2>2 DEF ClipsInv, ClipsShape
  <2>5. PlacesInv'
    BY <1>1, <1>2, <1>3, <2>2, <2>3 DEF ClipsInv, PlacesInv
  <2>6. DirsInv'
    BY <1>1, <1>2, <2>2, <2>3 DEF ClipsInv, DirsInv
  <2> QED
    BY <1>4, <2>4, <2>5, <2>6 DEF ClipsInv
<1>6. CASE \E ok \in BOOLEAN : ReadEnds(ok)
  <2>1. PICK ok \in BOOLEAN : ReadEnds(ok)
    BY <1>6
  <2>2. /\ readBack' = [of |-> cardJob.of, ok |-> ok] /\ cardJob' = NoCardJob
        /\ tempDirs' = IF ok THEN tempDirs ELSE tempDirs \ {cardJob.of}
    BY <2>1 DEF ReadEnds
  <2>3. \A j \in ClipIncidents : /\ ~OnCard(j)' /\ IsBack(j)' = OnCard(j)
    BY <2>2 DEF OnCard, IsBack, NoCardJob
  <2>4. ClipsShape'
    BY <1>1, <1>3, <2>2 DEF ClipsInv, ClipsShape, NoCardJob
  <2>5. PlacesInv'
    <3>1. \A j \in ClipIncidents :
            /\ Submitted(j)' <=> OnCard(j)' \/ IsBack(j)' \/ Encoding(j)' \/ IsReported(j)'
            /\ Encoding(j)' => ~OnCard(j)' /\ ~IsBack(j)'
            /\ IsReported(j)' => ~OnCard(j)' /\ ~IsBack(j)' /\ ~Encoding(j)'
      BY <1>2, <1>3, <2>3 DEF ClipsInv, PlacesInv
    <3>2. /\ cardJob' = NoCardJob /\ readBack'.of # "none"
          /\ \A m, n \in 1..Len(encodes)' : encodes'[m] = encodes'[n] => m = n
          /\ \A q, r \in reported' : q.of = r.of => q = r
      BY <1>1, <1>3, <2>2 DEF ClipsInv, PlacesInv
    <3> QED
      BY <3>1, <3>2 DEF PlacesInv
  <2>6. DirsInv'
    <3> SUFFICES ASSUME ~samePid, NEW j \in tempDirs'
                 PROVE  OnCard(j)' \/ (IsBack(j)' /\ readBack'.ok) \/ Encoding(j)'
      BY <1>1 DEF DirsInv
    <3>1. j \in tempDirs /\ j \in ClipIncidents /\ (ok \/ ~OnCard(j))
      BY <2>2 DEF ClipsInv, ClipsShape, OnCard
    <3>2. OnCard(j) \/ Encoding(j)
      BY <1>3, <3>1 DEF ClipsInv, DirsInv
    <3> QED
      BY <1>2, <2>2, <2>3, <3>1, <3>2
  <2> QED
    BY <1>4, <2>4, <2>5, <2>6 DEF ClipsInv
<1> QED
  BY <1>5, <1>6

LEMMA FollowUpStep ==
  ASSUME ClipsInv, FollowUpSubmitted
  PROVE  ClipsInv'
<1> USE ClipsConstants
<1>1. /\ cardJob = NoCardJob /\ readBack = NoRead
      /\ cardJob' = [of |-> FollowUp, step |-> "download"]
      /\ UNCHANGED <<wanted, noted, entryOf, aged, readBack, encodes, reported, clipsSent,
                     answersLost, tempDirs, samePid, restarts>>
  BY DEF FollowUpSubmitted, CardIdle, queueVars, senderVars
<1>2. \A j \in ClipIncidents :
        /\ Submitted(j)' = Submitted(j) /\ Encoding(j)' = Encoding(j)
        /\ IsReported(j)' = IsReported(j) /\ InQueue(j)' = InQueue(j)
        /\ IsBack(j)' = IsBack(j) /\ ~OnCard(j)' /\ ~OnCard(j)
  BY <1>1 DEF Submitted, Encoding, IsReported, InQueue, IsBack, OnCard, NoCardJob
<1>3. ClipsShape'
  BY <1>1 DEF ClipsInv, ClipsShape
<1>4. PlacesInv'
  BY <1>1, <1>2 DEF ClipsInv, PlacesInv
<1>5. UploadsInv'
  BY <1>1, <1>2 DEF ClipsInv, UploadsInv
<1>6. DirsInv'
  BY <1>1, <1>2 DEF ClipsInv, DirsInv, ClipsShape
<1> QED
  BY <1>3, <1>4, <1>5, <1>6 DEF ClipsInv

(* The sender is done with a clip, which the phone has, may have, or has not.  *)
LEMMA SenderStep ==
  ASSUME ClipsInv, encodes # <<>>, NEW ok \in BOOLEAN, ClipDelivered(ok),
         UNCHANGED <<queueVars, aged, cardJob, readBack, samePid, restarts>>,
         NEW took \in {0, 1}, NEW lost \in {0, 1}, took <= lost + (IF ok THEN 1 ELSE 0),
         NEW i, i = Head(encodes),
         clipsSent' = [clipsSent EXCEPT ![i] = @ + took],
         answersLost' = [answersLost EXCEPT ![i] = @ + lost]
  PROVE  ClipsInv'
<1> USE ClipsConstants
<1>1. /\ UNCHANGED <<wanted, noted, entryOf, aged, cardJob, readBack, samePid, restarts>>
      /\ reported' = reported \cup {[of |-> i, ok |-> ok]}
      /\ encodes' = Tail(encodes) /\ tempDirs' = tempDirs \ {i}
  BY DEF ClipDelivered, queueVars
<1>2. /\ encodes \in Seq(ClipIncidents) /\ clipsSent \in [ClipIncidents -> Nat]
      /\ answersLost \in [ClipIncidents -> Nat]
  BY DEF ClipsInv, ClipsShape
<1>3. /\ Len(encodes) \in Nat /\ Len(encodes) >= 1 /\ i = encodes[1] /\ i \in ClipIncidents
      /\ encodes' \in Seq(ClipIncidents) /\ Len(encodes') = Len(encodes) - 1
      /\ \A n \in 1..Len(encodes') : encodes'[n] = encodes[n + 1]
  <2>1. Len(encodes) \in Nat /\ Len(encodes) >= 1 /\ i = encodes[1] /\ i \in ClipIncidents
    BY <1>2
  <2>2. /\ encodes' \in Seq(ClipIncidents) /\ Len(encodes') = Len(encodes) - 1
        /\ \A n \in 1..Len(encodes') : encodes'[n] = encodes[n + 1]
    BY <1>1, <1>2, HeadTailProperties
  <2> QED
    BY <2>1, <2>2
<1>4. \A m, n \in 1..Len(encodes) : encodes[m] = encodes[n] => m = n
  BY DEF ClipsInv, PlacesInv
<1>5. \A m, n \in 1..Len(encodes') : encodes'[m] = encodes'[n] => m = n
  <2> SUFFICES ASSUME NEW m \in 1..Len(encodes'), NEW n \in 1..Len(encodes'),
                      encodes'[m] = encodes'[n]
               PROVE  m = n
    OBVIOUS
  <2>1. m + 1 \in 1..Len(encodes) /\ n + 1 \in 1..Len(encodes) /\ m \in Nat /\ n \in Nat
    BY <1>3
  <2>2. encodes[m + 1] = encodes[n + 1]
    BY <1>3
  <2>3. m + 1 = n + 1
    BY <1>4, <2>1, <2>2
  <2> QED
    BY <2>1, <2>3
<1>6. \A j : Encoding(j)' <=> Encoding(j) /\ j # i
  <2> SUFFICES ASSUME NEW j PROVE Encoding(j)' <=> Encoding(j) /\ j # i
    OBVIOUS
  <2>1. ASSUME Encoding(j)' PROVE Encoding(j) /\ j # i
    <3>1. PICK n \in 1..Len(encodes') : encodes'[n] = j
      BY <2>1 DEF Encoding
    <3>2. n + 1 \in 1..Len(encodes) /\ n + 1 # 1 /\ 1 \in 1..Len(encodes) /\ encodes[n + 1] = j
      BY <1>3, <3>1
    <3>3. j # i
      BY <1>3, <1>4, <3>2
    <3> QED
      BY <3>2, <3>3 DEF Encoding
  <2>2. ASSUME Encoding(j), j # i PROVE Encoding(j)'
    <3>1. PICK n \in 1..Len(encodes) : encodes[n] = j
      BY <2>2 DEF Encoding
    <3>2. n # 1
      BY <1>3, <2>2, <3>1
    <3>3. n - 1 \in 1..Len(encodes') /\ (n - 1) + 1 = n
      BY <1>3, <3>2
    <3>4. encodes'[n - 1] = j
      BY <1>3, <3>1, <3>3
    <3> QED
      BY <3>3, <3>4 DEF Encoding
  <2> QED
    BY <2>1, <2>2
<1>7. /\ Encoding(i) /\ ~OnCard(i) /\ ~IsBack(i) /\ ~IsReported(i) /\ Submitted(i)
  <2>1. Encoding(i)
    BY <1>3 DEF Encoding
  <2> QED
    BY <1>3, <2>1 DEF ClipsInv, PlacesInv
<1>8. \A j : /\ OnCard(j)' = OnCard(j) /\ IsBack(j)' = IsBack(j) /\ Submitted(j)' = Submitted(j)
             /\ IsReported(j)' <=> IsReported(j) \/ j = i
             /\ InQueue(j)' = InQueue(j)
  <2>1. \A j : /\ OnCard(j)' = OnCard(j) /\ IsBack(j)' = IsBack(j)
               /\ Submitted(j)' = Submitted(j) /\ InQueue(j)' = InQueue(j)
    BY <1>1 DEF OnCard, IsBack, Submitted, InQueue
  <2>2. \A j : IsReported(j)' <=> IsReported(j) \/ j = i
    <3>1. [of |-> i, ok |-> ok].of = i
      OBVIOUS
    <3> QED
      BY <1>1, <3>1 DEF IsReported
  <2> QED
    BY <2>1, <2>2
<1>9. /\ clipsSent'[i] = clipsSent[i] + took /\ answersLost'[i] = answersLost[i] + lost
      /\ \A j \in ClipIncidents : j # i => /\ clipsSent'[j] = clipsSent[j]
                                           /\ answersLost'[j] = answersLost[j]
      /\ clipsSent' \in [ClipIncidents -> Nat] /\ answersLost' \in [ClipIncidents -> Nat]
  BY <1>2, <1>3
<1>10. ClipsShape'
  <2>1. [of |-> i, ok |-> ok] \in [of : ClipIncidents, ok : BOOLEAN]
    BY <1>3
  <2>2. reported' \subseteq [of : ClipIncidents, ok : BOOLEAN] /\ tempDirs' \subseteq ClipIncidents
    BY <1>1, <2>1 DEF ClipsInv, ClipsShape
  <2> QED
    BY <1>1, <1>3, <1>9, <2>2 DEF ClipsInv, ClipsShape
<1>11. PlacesInv'
  <2>1. \A q, r \in reported' : q.of = r.of => q = r
    BY <1>1, <1>7 DEF ClipsInv, PlacesInv, IsReported
  <2>2. \A j \in ClipIncidents :
          /\ Submitted(j)' <=> OnCard(j)' \/ IsBack(j)' \/ Encoding(j)' \/ IsReported(j)'
          /\ Encoding(j)' => ~OnCard(j)' /\ ~IsBack(j)'
          /\ IsReported(j)' => ~OnCard(j)' /\ ~IsBack(j)' /\ ~Encoding(j)'
    BY <1>6, <1>7, <1>8 DEF ClipsInv, PlacesInv
  <2> QED
    BY <1>1, <1>5, <2>1, <2>2 DEF ClipsInv, PlacesInv
<1>12. UploadsInv'
  <2>1. clipsSent[i] <= answersLost[i] /\ i \in wanted /\ InQueue(i)
    <3>1. i \in wanted /\ ~\E r \in reported : r.of = i
      BY <1>7 DEF Submitted, IsReported
    <3> QED
      BY <1>3, <3>1 DEF ClipsInv, UploadsInv
  <2>2. /\ clipsSent'[i] <= 1 + answersLost'[i]
        /\ ~ok => clipsSent'[i] <= answersLost'[i]
    <3> DEFINE s == clipsSent[i]
               l == answersLost[i]
    <3>1. s \in Nat /\ l \in Nat /\ s <= l
      BY <1>2, <1>3, <2>1
    <3> HIDE DEF s, l
    <3>2. s + took <= 1 + (l + lost)
      BY <3>1
    <3>3. ~ok => s + took <= l + lost
      BY <3>1
    <3> QED
      BY <1>9, <3>2, <3>3 DEF s, l
  <2>3. \A j \in ClipIncidents : j # i =>
          ((\E r \in reported' : r.of = j /\ r.ok) <=> \E r \in reported : r.of = j /\ r.ok)
    <3>1. [of |-> i, ok |-> ok].of = i
      OBVIOUS
    <3> QED
      BY <1>1, <3>1
  <2>4. ok => \E r \in reported' : r.of = i /\ r.ok
    <3>1. [of |-> i, ok |-> ok].of = i /\ [of |-> i, ok |-> ok].ok = ok
      OBVIOUS
    <3>2. [of |-> i, ok |-> ok] \in reported'
      BY <1>1
    <3> QED
      BY <3>1, <3>2
  <2>5. ASSUME NEW j \in ClipIncidents
        PROVE  /\ j \in wanted' => InQueue(j)' /\ entryOf'[j].tries < ClipTries
               /\ clipsSent'[j] <= 1 + answersLost'[j]
               /\ \/ j \in wanted' /\ ~\E r \in reported' : r.of = j /\ r.ok
                  \/ ~InQueue(j)' /\ j \notin aged'
                  => clipsSent'[j] <= answersLost'[j]
    <3>1. CASE j = i
      BY <3>1, <1>1, <1>3, <1>8, <2>1, <2>2, <2>4 DEF ClipsInv, UploadsInv
    <3>2. CASE j # i
      BY <3>2, <1>1, <1>8, <1>9, <2>3 DEF ClipsInv, UploadsInv
    <3> QED
      BY <3>1, <3>2
  <2> QED
    BY <2>5 DEF UploadsInv
<1>13. DirsInv'
  BY <1>1, <1>6, <1>8 DEF ClipsInv, DirsInv
<1> QED
  BY <1>10, <1>11, <1>12, <1>13 DEF ClipsInv

LEMMA ClockSteps ==
  ASSUME ClipsInv, NEW i \in ClipIncidents, WindowClears(i) \/ GrowsOld(i)
  PROVE  ClipsInv'
<1> USE ClipsConstants
<1>1. /\ UNCHANGED <<wanted, noted, cardJob, readBack, encodes, reported, clipsSent, answersLost,
                     tempDirs, samePid, restarts>>
      /\ \/ aged' = aged /\ entryOf' = [entryOf EXCEPT ![i].due = TRUE]
         \/ aged' = aged \cup {i} /\ entryOf' = entryOf
  BY DEF WindowClears, GrowsOld, queueVars, senderVars
<1>2. /\ entryOf' \in [ClipIncidents -> [submitted : BOOLEAN, due : BOOLEAN, tries : 0..ClipTries]]
      /\ \A j \in ClipIncidents : /\ entryOf'[j].submitted = entryOf[j].submitted
                                  /\ entryOf'[j].tries = entryOf[j].tries
  <2>1. entryOf \in [ClipIncidents -> [submitted : BOOLEAN, due : BOOLEAN, tries : 0..ClipTries]]
    BY DEF ClipsInv, ClipsShape
  <2>2. CASE entryOf' = entryOf
    BY <2>1, <2>2
  <2>3. CASE entryOf' = [entryOf EXCEPT ![i].due = TRUE]
    <3>1. /\ [entryOf[i] EXCEPT !.due = TRUE]
                \in [submitted : BOOLEAN, due : BOOLEAN, tries : 0..ClipTries]
          /\ [entryOf[i] EXCEPT !.due = TRUE].submitted = entryOf[i].submitted
          /\ [entryOf[i] EXCEPT !.due = TRUE].tries = entryOf[i].tries
      BY <2>1
    <3>2. /\ entryOf'[i] = [entryOf[i] EXCEPT !.due = TRUE]
          /\ \A j \in ClipIncidents : j # i => entryOf'[j] = entryOf[j]
      BY <2>1, <2>3
    <3>3. entryOf' \in [ClipIncidents ->
                         [submitted : BOOLEAN, due : BOOLEAN, tries : 0..ClipTries]]
      BY <2>1, <2>3, <3>1
    <3> QED
      BY <3>1, <3>2, <3>3
  <2> QED
    BY <1>1, <2>2, <2>3
<1>3. /\ \A j \in ClipIncidents : Submitted(j)' = Submitted(j)
      /\ \A j : /\ Encoding(j)' = Encoding(j) /\ IsReported(j)' = IsReported(j)
                /\ InQueue(j)' = InQueue(j) /\ IsBack(j)' = IsBack(j) /\ OnCard(j)' = OnCard(j)
  BY <1>1, <1>2 DEF Submitted, Encoding, IsReported, InQueue, IsBack, OnCard
<1>4. ClipsShape'
  <2>1. aged' \subseteq ClipIncidents
    BY <1>1 DEF ClipsInv, ClipsShape
  <2> QED
    BY <1>1, <1>2, <2>1 DEF ClipsInv, ClipsShape
<1>5. PlacesInv'
  BY <1>1, <1>3 DEF ClipsInv, PlacesInv
<1>6. UploadsInv'
  BY <1>1, <1>2, <1>3 DEF ClipsInv, UploadsInv
<1>7. DirsInv'
  BY <1>1, <1>3 DEF ClipsInv, DirsInv
<1> QED
  BY <1>4, <1>5, <1>6, <1>7 DEF ClipsInv

LEMMA ClipRestartStep ==
  ASSUME ClipsInv, ClipRestart
  PROVE  ClipsInv'
<1> USE ClipsConstants
<1>1. /\ restarts > 0 /\ restarts' = restarts - 1
      /\ wanted' = {} /\ noted' = <<>> /\ entryOf' = [i \in ClipIncidents |-> FreshEntry]
      /\ cardJob' = NoCardJob /\ readBack' = NoRead /\ encodes' = <<>> /\ reported' = {}
      /\ tempDirs' = IF samePid THEN tempDirs ELSE {}
      /\ clipsSent' = [i \in ClipIncidents |-> 0] /\ answersLost' = [i \in ClipIncidents |-> 0]
      /\ UNCHANGED <<aged, samePid>>
  BY DEF ClipRestart
<1>2. ClipsShape'
  <2>1. entryOf' \in [ClipIncidents -> [submitted : BOOLEAN, due : BOOLEAN, tries : 0..ClipTries]]
    BY <1>1 DEF FreshEntry
  <2>2. noted' \in Seq(ClipIncidents) /\ encodes' \in Seq(ClipIncidents)
    BY <1>1
  <2> QED
    BY <1>1, <2>1, <2>2 DEF ClipsInv, ClipsShape, NoCardJob, NoRead
<1>3. PlacesInv'
  BY <1>1 DEF PlacesInv, Submitted, OnCard, IsBack, Encoding, IsReported, NoCardJob, NoRead
<1>4. UploadsInv'
  BY <1>1 DEF ClipsInv, UploadsInv, InQueue
<1>5. DirsInv'
  BY <1>1 DEF DirsInv
<1> QED
  BY <1>2, <1>3, <1>4, <1>5 DEF ClipsInv

LEMMA ClipsStep == ClipsInv /\ [ClipsNext]_clipsVars => ClipsInv'
<1> SUFFICES ASSUME ClipsInv, [ClipsNext]_clipsVars PROVE ClipsInv'
  OBVIOUS
<1>1. ASSUME NEW i \in ClipIncidents, PhotoDelivered(i) PROVE ClipsInv'
  BY <1>1, PhotoStep
<1>2. ASSUME NEW i \in ClipIncidents, WindowClears(i) \/ GrowsOld(i) PROVE ClipsInv'
  BY <1>2, ClockSteps
<1>3. CASE LoopCollects
  BY <1>3, CollectsStep
<1>4. CASE Drain
  BY <1>4, DrainStep
<1>5. CASE FollowUpSubmitted
  BY <1>5, FollowUpStep
<1>6. CASE CardConnects \/ SegmentLookedUp \/ Downloaded
  <2>1. /\ cardJob.step # "idle" /\ UNCHANGED <<queueVars, aged, senderVars, samePid, restarts>>
        /\ \/ \E step \in {"lookup", "again", "download"} : ReadGoesOn(step)
           \/ \E ok \in BOOLEAN : ReadEnds(ok)
    BY <1>6 DEF CardConnects, SegmentLookedUp, Downloaded
  <2> QED
    BY <2>1, ReadStep
<1>7. CASE ClipFails \/ ClipTaken
  <2>k. PICK i : i = Head(encodes)
    OBVIOUS
  <2>1. /\ clipsSent \in [ClipIncidents -> Nat] /\ answersLost \in [ClipIncidents -> Nat]
    BY DEF ClipsInv, ClipsShape
  <2>2. /\ clipsSent = [clipsSent EXCEPT ![i] = @ + 0]
        /\ answersLost = [answersLost EXCEPT ![i] = @ + 0]
    BY <2>1
  <2>3. encodes # <<>> /\ UNCHANGED <<queueVars, aged, cardJob, readBack, samePid, restarts>>
    BY <1>7 DEF ClipFails, ClipTaken
  <2>4. CASE ClipDelivered(FALSE) /\ UNCHANGED <<clipsSent, answersLost>>
    <3>1. 0 <= 0 + (IF FALSE THEN 1 ELSE 0)
      OBVIOUS
    <3> QED
      BY <2>k, <2>2, <2>3, <2>4, <3>1, SenderStep
  <2>5. CASE /\ ClipDelivered(TRUE) /\ UNCHANGED answersLost
             /\ clipsSent' = [clipsSent EXCEPT ![i] = @ + 1]
    <3>1. 1 <= 0 + (IF TRUE THEN 1 ELSE 0)
      OBVIOUS
    <3> QED
      BY <2>k, <2>2, <2>3, <2>5, <3>1, SenderStep
  <2>6. CASE /\ ClipDelivered(FALSE) /\ answersLost' = [answersLost EXCEPT ![i] = @ + 1]
             /\ clipsSent' = [clipsSent EXCEPT ![i] = @ + 1]
    <3>1. 1 <= 1 + (IF FALSE THEN 1 ELSE 0)
      OBVIOUS
    <3> QED
      BY <2>k, <2>3, <2>6, <3>1, SenderStep
  <2> QED
    BY <1>7, <2>k, <2>4, <2>5, <2>6 DEF ClipFails, ClipTaken
<1>8. CASE ClipRestart
  BY <1>8, ClipRestartStep
<1>9. CASE UNCHANGED clipsVars
  <2>1. UNCHANGED <<wanted, noted, entryOf, aged, cardJob, readBack, encodes, reported, clipsSent,
                    answersLost, tempDirs, samePid, restarts>>
    BY <1>9 DEF clipsVars, queueVars, senderVars
  <2>2. \A j : /\ Submitted(j)' = Submitted(j) /\ Encoding(j)' = Encoding(j)
               /\ IsReported(j)' = IsReported(j) /\ InQueue(j)' = InQueue(j)
               /\ IsBack(j)' = IsBack(j) /\ OnCard(j)' = OnCard(j)
    BY <2>1 DEF Submitted, Encoding, IsReported, InQueue, IsBack, OnCard
  <2>3. ClipsShape' /\ PlacesInv'
    BY <2>1, <2>2 DEF ClipsInv, ClipsShape, PlacesInv
  <2>4. UploadsInv' /\ DirsInv'
    BY <2>1, <2>2 DEF ClipsInv, UploadsInv, DirsInv
  <2> QED
    BY <2>3, <2>4 DEF ClipsInv
<1> QED
  BY <1>1, <1>2, <1>3, <1>4, <1>5, <1>6, <1>7, <1>8, <1>9 DEF ClipsNext

LEMMA ClipsKept == ClipsInv => ClipsTypeOK /\ ClipsHeld
<1> SUFFICES ASSUME ClipsInv PROVE ClipsTypeOK /\ ClipsHeld
  OBVIOUS
<1> USE ClipsConstants
<1>1. ClipsTypeOK
  BY DEF ClipsInv, ClipsShape, ClipsTypeOK
<1>2. ASSUME NEW i \in ClipIncidents
      PROVE  /\ Cardinality(Holders(i)) = IF Submitted(i) THEN 1 ELSE 0
             /\ OnCard(i) <=> "card" \in Holders(i)
             /\ IsBack(i) <=> "back" \in Holders(i)
             /\ Encoding(i) <=> "sender" \in Holders(i)
             /\ IsReported(i) <=> "report" \in Holders(i)
  <2>1. /\ OnCard(i) <=> "card" \in Holders(i)
        /\ IsBack(i) <=> "back" \in Holders(i)
        /\ Encoding(i) <=> "sender" \in Holders(i)
        /\ IsReported(i) <=> "report" \in Holders(i)
        /\ Holders(i) \subseteq {"card", "back", "sender", "report"}
    BY DEF Holders, OnCard, IsBack, IsReported
  <2>2. ~(OnCard(i) /\ IsBack(i))
    BY DEF ClipsInv, PlacesInv, OnCard, IsBack, NoCardJob, NoRead
  <2>3. /\ Submitted(i) <=> OnCard(i) \/ IsBack(i) \/ Encoding(i) \/ IsReported(i)
        /\ Encoding(i) => ~OnCard(i) /\ ~IsBack(i)
        /\ IsReported(i) => ~OnCard(i) /\ ~IsBack(i) /\ ~Encoding(i)
    BY DEF ClipsInv, PlacesInv
  <2>4. ~Submitted(i) => Holders(i) = {}
    BY <2>1, <2>3
  <2>5. Submitted(i) => \E h : Holders(i) = {h}
    BY <2>1, <2>2, <2>3
  <2> QED
    BY <2>1, <2>4, <2>5, FS_EmptySet, FS_Singleton
<1>3. \A i \in ClipIncidents :
        /\ Cardinality(Holders(i)) = IF i \in wanted /\ entryOf[i].submitted THEN 1 ELSE 0
        /\ clipsSent[i] <= 1 + answersLost[i]
  BY <1>2 DEF ClipsInv, UploadsInv, Submitted
<1>4. ASSUME ~samePid, NEW i \in tempDirs
      PROVE  Holders(i) \subseteq {"card", "back", "sender"} /\ Holders(i) # {}
  <2>1. i \in ClipIncidents /\ (OnCard(i) \/ IsBack(i) \/ Encoding(i))
    BY <1>4 DEF ClipsInv, ClipsShape, DirsInv
  <2>2. ~IsReported(i)
    BY <2>1 DEF ClipsInv, PlacesInv
  <2>3. Holders(i) \subseteq {"card", "back", "sender", "report"}
    BY DEF Holders
  <2> QED
    BY <1>2, <2>1, <2>2, <2>3
<1> QED
  BY <1>1, <1>3, <1>4 DEF ClipsHeld

(* Whatever the loop, the card thread and the sender do in turn, and across a   *)
(* restart: one place holds each submitted clip and none is stuck or read twice.*)
THEOREM ClipsHeldCorrect == ClipsSpec => [](ClipsTypeOK /\ ClipsHeld)
<1>1. ClipsInit => ClipsInv
  BY ClipsInitInv
<1>2. ClipsInv /\ [ClipsNext]_clipsVars => ClipsInv'
  BY ClipsStep
<1>3. ClipsInv => ClipsTypeOK /\ ClipsHeld
  BY ClipsKept
<1> QED
  BY <1>1, <1>2, <1>3, PTL DEF ClipsSpec
===============================================================================
