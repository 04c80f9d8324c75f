------------------------------- MODULE Archive -------------------------------
(* The frame archives (sentlog.py): JPEGs and an index of them, written by     *)
(* every thread that sends or suppresses a frame, and one retention thread     *)
(* that removes old frames at once and rewrites the index without holding the  *)
(* lock of the writers while it reads.  Time is counted in clock hours.        *)
EXTENDS Naturals, FiniteSets

CONSTANTS
  ArchiveWriters,  \* threads that archive frames
  Frames,          \* bound: frames taken, 1..Frames
  Hours,           \* bound on the clock
  KeepHours,       \* retention
  RunEvery,        \* hours between two retention runs
  DropsPerHour,    \* cap of the drop sample (per camera; one camera here)
  ArchiveCrashes   \* bound: restarts of the daemon

ASSUME ArchiveAssumption ==
  /\ IsFiniteSet(ArchiveWriters) /\ Frames \in Nat /\ Hours \in Nat
  /\ KeepHours \in Nat /\ RunEvery \in Nat \ {0}
  /\ DropsPerHour \in Nat /\ ArchiveCrashes \in Nat

VARIABLES
  hour,
  takenAt,     \* frame -> the hour it was written in; frames not yet taken have none
  onDisk,      \* frames whose JPEG is there
  archived,    \* frames with a line in the index
  lines,       \* frames whose line was appended, whatever became of it
  writing,     \* writer -> the frame whose JPEG it has just written, or NoFrame
  upkeep,      \* the retention thread
  nextUpkeep,  \* RetentionMaintenance._next
  dropCap,     \* DropSampleCap: the hour counted and its count
  sampled,     \* drop samples archived in this hour
  archiveCrashes

archiveFiles == <<takenAt, onDisk, archived, lines>>
upkeepVars == <<upkeep, nextUpkeep>>
sampleVars == <<dropCap, sampled>>
archiveVars == <<hour, archiveFiles, writing, upkeepVars, sampleVars, archiveCrashes>>

NoPhoto == 0
NoUpkeep == [step |-> "idle", at |-> 0, seen |-> {}]
Taken == {f \in 1..Frames : takenAt[f] # Hours + 1}
NextFrame == Cardinality(Taken) + 1
OlderThan(S, now) == {f \in S : takenAt[f] + KeepHours < now}

----------------------------------------------------------------------------
(* A writer: archive_sent and archive_review_frame *)

(* _write_unique: a name nobody has. *)
FrameWritten(w) ==
  /\ writing[w] = NoPhoto /\ NextFrame <= Frames
  /\ writing' = [writing EXCEPT ![w] = NextFrame]
  /\ takenAt' = [takenAt EXCEPT ![NextFrame] = hour]
  /\ onDisk' = onDisk \cup {NextFrame}
  /\ UNCHANGED <<hour, archived, lines, upkeepVars, sampleVars, archiveCrashes>>

(* _append_index under the lock, then prune_old. *)
RowAppended(w) ==
  /\ writing[w] # NoPhoto
  /\ archived' = archived \cup {writing[w]} /\ lines' = lines \cup {writing[w]}
  /\ onDisk' = onDisk \ OlderThan(onDisk, hour)
  /\ writing' = [writing EXCEPT ![w] = NoPhoto]
  /\ UNCHANGED <<hour, takenAt, upkeepVars, sampleVars, archiveCrashes>>

(* A full disk: the frame stays without a line. *)
AppendFails(w) ==
  /\ writing[w] # NoPhoto
  /\ writing' = [writing EXCEPT ![w] = NoPhoto]
  /\ UNCHANGED <<hour, archiveFiles, upkeepVars, sampleVars, archiveCrashes>>

DropsCounted == IF dropCap.hour = hour THEN dropCap.count ELSE 0

\* Mutant: one sample more than the cap.
DropSampledOffByOne ==
  /\ DropsCounted <= DropsPerHour
  /\ dropCap' = [hour |-> hour, count |-> DropsCounted + 1]
  /\ sampled' = sampled + 1
  /\ UNCHANGED <<hour, archiveFiles, writing, upkeepVars, archiveCrashes>>

(* archive_drop_sample_if_configured, on the loop: the random draw, the cap,   *)
(* the archive, the count.                                                     *)
DropSampled ==
  /\ DropsCounted < DropsPerHour
  /\ dropCap' = [hour |-> hour, count |-> DropsCounted + 1]
  /\ sampled' = sampled + 1
  /\ UNCHANGED <<hour, archiveFiles, writing, upkeepVars, archiveCrashes>>

----------------------------------------------------------------------------
(* The retention thread *)

UpkeepStarts ==
  /\ hour >= nextUpkeep /\ upkeep = NoUpkeep
  /\ upkeep' = [NoUpkeep EXCEPT !.step = "prune", !.at = hour]
  /\ nextUpkeep' = hour + RunEvery
  /\ UNCHANGED <<hour, archiveFiles, writing, sampleVars, archiveCrashes>>

OldFramesRemoved ==
  /\ upkeep.step = "prune"
  /\ onDisk' = onDisk \ OlderThan(onDisk, upkeep.at)
  /\ upkeep' = [upkeep EXCEPT !.step = "scan"]
  /\ UNCHANGED <<hour, takenAt, archived, lines, writing, nextUpkeep, sampleVars, archiveCrashes>>

(* compact_index copies what the index holds now, without the lock. *)
IndexScanned ==
  /\ upkeep.step = "scan"
  /\ upkeep' = IF OlderThan(archived, upkeep.at) = {} THEN NoUpkeep
               ELSE [upkeep EXCEPT !.step = "swap", !.seen = archived]
  /\ UNCHANGED <<hour, archiveFiles, writing, nextUpkeep, sampleVars, archiveCrashes>>

\* Mutant: the copy replaces the index without a look at what came meanwhile.
CompactedBlind(current) == upkeep.seen \ OlderThan(upkeep.seen, upkeep.at)

(* Under the lock: a line that came since the scan (the size and time of the   *)
(* file differ) means the copy is thrown away.                                 *)
Compacted(current) ==
  IF current = upkeep.seen THEN upkeep.seen \ OlderThan(upkeep.seen, upkeep.at) ELSE current

IndexSwapped ==
  /\ upkeep.step = "swap"
  /\ archived' = Compacted(archived)
  /\ upkeep' = NoUpkeep
  /\ UNCHANGED <<hour, takenAt, onDisk, lines, writing, nextUpkeep, sampleVars, archiveCrashes>>

----------------------------------------------------------------------------

HourPasses ==
  /\ hour < Hours /\ hour' = hour + 1 /\ sampled' = 0
  /\ UNCHANGED <<archiveFiles, writing, upkeepVars, dropCap, archiveCrashes>>

(* Nothing but the files survives; the first tick runs the retention. *)
ArchiveRestart ==
  /\ archiveCrashes > 0 /\ archiveCrashes' = archiveCrashes - 1
  /\ writing' = [w \in ArchiveWriters |-> NoPhoto]
  /\ upkeep' = NoUpkeep /\ nextUpkeep' = 0
  /\ dropCap' = [hour |-> 0, count |-> 0]
  /\ UNCHANGED <<hour, archiveFiles, sampled>>

ArchiveInit ==
  /\ hour = 0 /\ takenAt = [f \in 1..Frames |-> Hours + 1]
  /\ onDisk = {} /\ archived = {} /\ lines = {}
  /\ writing = [w \in ArchiveWriters |-> NoPhoto]
  /\ upkeep = NoUpkeep /\ nextUpkeep = 0
  /\ dropCap = [hour |-> 0, count |-> 0] /\ sampled = 0
  /\ archiveCrashes = ArchiveCrashes

ArchiveNext ==
  \/ \E w \in ArchiveWriters : FrameWritten(w) \/ RowAppended(w) \/ AppendFails(w)
  \/ DropSampled
  \/ UpkeepStarts \/ OldFramesRemoved \/ IndexScanned \/ IndexSwapped
  \/ HourPasses \/ ArchiveRestart

ArchiveSpec == ArchiveInit /\ [][ArchiveNext]_archiveVars

----------------------------------------------------------------------------
(* Properties *)

ArchiveTypeOK ==
  /\ hour \in 0..Hours /\ takenAt \in [1..Frames -> 0..(Hours + 1)]
  /\ archived \subseteq lines /\ lines \subseteq Taken /\ onDisk \subseteq Taken
  /\ writing \in [ArchiveWriters -> 0..Frames]
  /\ upkeep.step \in {"idle", "prune", "scan", "swap"} /\ upkeep.seen \subseteq Taken
  /\ nextUpkeep \in 0..(Hours + RunEvery)

(* Retention takes nothing young: a frame that got its line keeps the line and *)
(* the picture for the whole retention, however the line raced a rewrite of    *)
(* the index.  And the drop sample archives no more than its cap in one clock  *)
(* hour, but for the hours a restart starts over.                              *)
ArchiveKeepsYoung ==
  /\ \A f \in lines : takenAt[f] + KeepHours >= hour => f \in archived \cap onDisk
  /\ sampled <= DropsPerHour * (1 + ArchiveCrashes - archiveCrashes)

=============================================================================
