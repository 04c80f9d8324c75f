------------------------------ MODULE Evidence ------------------------------
(* The recorder's last footage before an outage (incident_archive.py): every    *)
(* tick of a confirmed outage asks for it, and one thread at a time copies the  *)
(* newest settled segments out of the recorder's rolling tree.  An archive      *)
(* appears whole, by a rename; a full one refuses and deletes nothing.          *)
(*                                                                            *)
(* Time is in units of the settling time; of a camera's segments the newest     *)
(* counts, whose name names the archive.                                       *)
EXTENDS Integers, FiniteSets

CONSTANTS
  LastCam,       \* the cameras are 1..LastCam, in the configured order
  Threshold,     \* outage_threshold, at least the settling time
  RetryAfter,    \* 60 s
  EvidenceTries, \* 5
  MaxIncidents,  \* max_incidents
  LastUnit,      \* bound: time
  Segments,      \* bound: segments of a camera
  CopyTrouble    \* bound: copies that fail, late writes, stops of the daemon

ASSUME EvidenceAssumption ==
  /\ {Threshold, RetryAfter, EvidenceTries} \subseteq Nat \ {0}
  /\ {LastCam, MaxIncidents, LastUnit, Segments, CopyTrouble} \subseteq Nat

VARIABLES
  unit,
  film,       \* camera -> its newest segment, and units since it was last written
  failSince,  \* camera -> fail_since, Up when it answers
  passed,     \* the last camera this unit's tick has been through
  tries,      \* _attempts
  copier,     \* the worker thread and what it copies
  archives,   \* the archives, each with the outage its last use was for
  leftovers,  \* camera -> .pending- directories of stopped copies
  failures,   \* history: camera -> tries of its outage that ended with nothing
  turns,      \* history: camera -> tries the others were given in its outage
  copyTrouble

filmVars == <<unit, film, failSince, passed>>
evidenceVars ==
  <<filmVars, tries, copier, archives, leftovers, failures, turns, copyTrouble>>

FilmedCams == 1..LastCam
Up == -1
NoCopy == [cam |-> 0]
Untried == [outage |-> Up, n |-> 0, retryAt |-> 0]
Of(c) == {a \in archives : a.cam = c}
FullOf(c) == Cardinality(Of(c)) + leftovers[c] >= MaxIncidents

----------------------------------------------------------------------------
(* Recorder and cameras *)

(* The stream goes on while the camera answers; one that no longer answers may  *)
(* still send.  A segment written to while it is copied shows it afterwards.    *)
RecorderWrites(c) ==
  \E s \in {film[c].seg, film[c].seg + 1} \cap 1..Segments :
    /\ film' = [film EXCEPT ![c] = [seg |-> s, age |-> 0]]
    /\ copier' = IF copier.cam = c /\ copier.step = "copy" /\ copier.seg = s
                 THEN [copier EXCEPT !.step = "changed"] ELSE copier
    /\ failSince[c] # Up => copyTrouble > 0
    /\ copyTrouble' = IF failSince[c] = Up THEN copyTrouble ELSE copyTrouble - 1
    /\ UNCHANGED <<unit, failSince, passed, tries, archives, leftovers, failures, turns>>

\* The next unit, its tick done with every camera; a copy takes less than one.
UnitEnds ==
  /\ unit < LastUnit /\ unit' = unit + 1 /\ passed = LastCam /\ passed' = 0
  /\ copier # NoCopy => copier.age = 0
  /\ copier' = IF copier = NoCopy THEN copier ELSE [copier EXCEPT !.age = 1]
  /\ film' = [c \in FilmedCams |-> [film[c] EXCEPT !.age = IF @ < 2 THEN @ + 1 ELSE 2]]
  /\ UNCHANGED <<failSince, tries, archives, leftovers, failures, turns, copyTrouble>>

----------------------------------------------------------------------------
(* The tick: what the ping says of the camera, then OutagePreserver.submit     *)

OutageOf(c, ok) == IF ok THEN Up ELSE IF failSince[c] = Up THEN unit ELSE failSince[c]

TryOf(c, outage) ==
  IF tries[c].outage = outage THEN tries[c] ELSE [Untried EXCEPT !.outage = outage]

Wanted(c, outage) ==
  /\ outage # Up /\ unit - outage >= Threshold /\ film[c].seg > 0
  /\ TryOf(c, outage).n < EvidenceTries /\ unit >= TryOf(c, outage).retryAt

CountedTry(c, outage) ==
  [tries EXCEPT ![c] = [outage |-> outage, n |-> TryOf(c, outage).n + 1,
                        retryAt |-> unit + RetryAfter]]

\* Mutant: the try is counted before the worker is looked at.
SubmitCounts(c, outage) ==
  /\ tries' = IF Wanted(c, outage) THEN CountedTry(c, outage) ELSE tries
  /\ copier' = IF Wanted(c, outage) /\ copier = NoCopy
               THEN [cam |-> c, outage |-> outage, age |-> 0, step |-> "look",
                     seg |-> 0]
               ELSE copier

Submit(c, outage) ==
  IF Wanted(c, outage) /\ copier = NoCopy
  THEN /\ tries' = CountedTry(c, outage)
       /\ copier' = [cam |-> c, outage |-> outage, age |-> 0, step |-> "look",
                     seg |-> 0]
  ELSE UNCHANGED <<tries, copier>>

CameraTick(c, ok) ==
  /\ c = passed + 1 /\ passed' = c
  /\ failSince' = [failSince EXCEPT ![c] = OutageOf(c, ok)]
  /\ failures' = IF OutageOf(c, ok) = failSince[c] THEN failures ELSE [failures EXCEPT ![c] = 0]
  /\ Submit(c, OutageOf(c, ok))
  /\ turns' = [d \in FilmedCams |->
                 IF d = c THEN IF OutageOf(c, ok) = failSince[c] THEN turns[c] ELSE 0
                 ELSE IF failSince[d] = Up \/ copier' = copier THEN turns[d] ELSE turns[d] + 1]
  /\ UNCHANGED <<unit, film, archives, leftovers, copyTrouble>>

----------------------------------------------------------------------------
(* preserve_outage, on the thread *)

Preserved(as) ==
  /\ archives' = as /\ copier' = NoCopy
  /\ tries' = [tries EXCEPT ![copier.cam] =
                 [outage |-> copier.outage, n |-> EvidenceTries, retryAt |-> 0]]
  /\ UNCHANGED <<leftovers, failures>>

Nothing ==
  /\ copier' = NoCopy
  /\ failures' = IF failSince[copier.cam] = copier.outage
                 THEN [failures EXCEPT ![copier.cam] = @ + 1] ELSE failures
  /\ UNCHANGED <<archives, tries, leftovers>>

(* The newest segment by name must have been still for the settling time before *)
(* the tick that asked; one kept before is kept again.                         *)
Looked ==
  /\ copier # NoCopy /\ copier.step = "look"
  /\ LET c == copier.cam
         kept == {a \in Of(c) : a.seg = film[c].seg}
     IN IF film[c].age <= copier.age THEN Nothing
        ELSE IF kept # {}
        THEN Preserved((archives \ kept) \cup {[a EXCEPT !.for = copier.outage] : a \in kept})
        ELSE IF FullOf(c) THEN Nothing
        ELSE /\ copier' = [copier EXCEPT !.step = "copy", !.seg = film[c].seg]
             /\ UNCHANGED <<archives, tries, leftovers, failures>>
  /\ UNCHANGED <<filmVars, turns, copyTrouble>>

\* A source that was written to meanwhile raises, and the copy is removed.
Copied ==
  /\ copier.cam # 0 /\ copier.step \in {"copy", "changed"}
  /\ IF copier.step = "copy"
     THEN Preserved(archives \cup
                    {[cam |-> copier.cam, seg |-> copier.seg, for |-> copier.outage]})
     ELSE Nothing
  /\ UNCHANGED <<filmVars, turns, copyTrouble>>

\* The disk, the size limit, or a segment the recorder's retention removed.
CopyFails ==
  /\ copier # NoCopy /\ copyTrouble > 0 /\ copyTrouble' = copyTrouble - 1
  /\ Nothing /\ UNCHANGED <<filmVars, turns>>

(* The daemon stops: the thread ends where it is, and a copy under way leaves   *)
(* its directory, which nothing removes and which counts as an incident.        *)
EvidenceRestart ==
  /\ copyTrouble > 0 /\ copyTrouble' = copyTrouble - 1
  /\ leftovers' = IF copier # NoCopy /\ copier.step # "look"
                  THEN [leftovers EXCEPT ![copier.cam] = @ + 1] ELSE leftovers
  /\ copier' = NoCopy /\ tries' = [c \in FilmedCams |-> Untried]
  /\ failures' = [c \in FilmedCams |-> 0]
  /\ UNCHANGED <<filmVars, archives, turns>>

EvidenceInit ==
  /\ unit = 0 /\ film = [c \in FilmedCams |-> [seg |-> 0, age |-> 2]]
  /\ failSince = [c \in FilmedCams |-> Up] /\ passed = 0
  /\ tries = [c \in FilmedCams |-> Untried] /\ copier = NoCopy /\ archives = {}
  /\ leftovers = [c \in FilmedCams |-> 0] /\ failures = [c \in FilmedCams |-> 0]
  /\ turns = [c \in FilmedCams |-> 0] /\ copyTrouble = CopyTrouble

EvidenceNext ==
  \/ \E c \in FilmedCams : RecorderWrites(c) \/ \E ok \in BOOLEAN : CameraTick(c, ok)
  \/ Looked \/ Copied \/ CopyFails \/ EvidenceRestart \/ UnitEnds

EvidenceSpec == EvidenceInit /\ [][EvidenceNext]_evidenceVars

----------------------------------------------------------------------------
(* Properties *)

EvidenceTypeOK ==
  /\ unit \in 0..LastUnit /\ passed \in 0..LastCam
  /\ \A c \in FilmedCams :
       /\ tries[c].n \in 0..EvidenceTries /\ failSince[c] \in Up..unit
       /\ Cardinality(Of(c)) <= MaxIncidents

(* An outage whose tries are used up was preserved, or each of them failed:     *)
(* none was spent while the one thread was busy with another camera.            *)
GivenUpAfterTrying ==
  \A c \in FilmedCams :
    tries[c].n = EvidenceTries /\ tries[c].outage = failSince[c] /\ copier.cam # c =>
      failures[c] = EvidenceTries \/ \E a \in Of(c) : a.for = failSince[c]

(* Where nothing fails and there is room, the footage of an outage is out of    *)
(* the recorder's reach soon after the outage is confirmed: what it waits, it    *)
(* waits for tries the other cameras were given, two units at most for each     *)
(* and one for a copy that was under way when it failed.                       *)
OutageIsPreserved ==
  copyTrouble = CopyTrouble =>
    \A c \in FilmedCams :
      \/ failSince[c] = Up \/ film[c].seg = 0 \/ FullOf(c)
      \/ unit - failSince[c] < Threshold + 3 + 2 * turns[c]
      \/ \E a \in Of(c) : a.for = failSince[c]
=============================================================================
