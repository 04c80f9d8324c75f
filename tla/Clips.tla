-------------------------------- MODULE Clips ---------------------------------
(* Alert clips of one camera (alertclip.py): a queue on the loop, the card     *)
(* read on the camera's worker thread (sdworker.py, sdclip.py), the encode and *)
(* the upload on the queue's one sender thread, and the temp dir that travels  *)
(* with a read.  The card is shared with SD follow-ups, modelled by the time   *)
(* they hold it.                                                               *)
EXTENDS Naturals, Sequences, FiniteSets

CONSTANTS
  ClipIncidents,  \* incidents whose photo reaches the phone
  ClipTries,      \* _outcome gives up at this many failed tries (2)
  ClipRestarts    \* bound: restarts of the daemon

ASSUME ClipsAssumption ==
  /\ IsFiniteSet(ClipIncidents) /\ ClipTries \in Nat \ {0} /\ ClipRestarts \in Nat
  /\ ClipIncidents \cap {"followup", "none"} = {}

VARIABLES
  wanted,     \* the incidents of ClipQueue.entries, which are in noted's order
  noted,      \* ClipQueue.seen, in order
  entryOf,    \* incident -> the entry's fields
  aged,       \* incidents past MAX_AGE
  cardJob,    \* what the camera's card thread reads, and how far it is
  readBack,   \* the finished job nobody has collected, or NoRead
  encodes,    \* deliveries on the sender thread, the first under way
  reported,   \* outcomes the sender has left for the next drain
  tempDirs,   \* incidents with a temp dir on disk, a left-over one or of a read
  clipsSent,  \* incident -> clips the phone has received in this run of the daemon
  answersLost,\* incident -> uploads of this run that Telegram took but did not confirm
  samePid,    \* a restarted daemon gets the process id of the old one
  restarts

queueVars == <<wanted, noted, entryOf>>
senderVars == <<encodes, reported, clipsSent, answersLost>>
clipsVars == <<queueVars, aged, cardJob, readBack, senderVars, tempDirs, samePid, restarts>>

FollowUp == "followup"
NoCardJob == [of |-> "none", step |-> "idle"]
NoRead == [of |-> "none", ok |-> FALSE]
FreshEntry == [submitted |-> FALSE, due |-> FALSE, tries |-> 0]
InQueue(i) == \E n \in 1..Len(noted) : noted[n] = i
Encoding(i) == \E n \in 1..Len(encodes) : encodes[n] = i
CardIdle == cardJob = NoCardJob /\ readBack = NoRead
Unlisted(i) == wanted' = wanted \ {i}

----------------------------------------------------------------------------
(* The loop *)

(* note_alert: once per incident, and not for an old one. *)
PhotoDelivered(i) ==
  /\ ~InQueue(i) /\ i \notin aged
  /\ noted' = Append(noted, i)
  /\ wanted' = wanted \cup {i} /\ entryOf' = [entryOf EXCEPT ![i] = FreshEntry]
  /\ UNCHANGED <<aged, cardJob, readBack, senderVars, tempDirs, samePid, restarts>>

\* Mutant: a failed try leaves the entry submitted.
FailedStaysSubmitted(e) == [e EXCEPT !.tries = @ + 1, !.due = FALSE]

(* _outcome of a failed try: due again after a pause. *)
Failed(e) == [submitted |-> FALSE, due |-> FALSE, tries |-> e.tries + 1]
GivesUpOn(e) == e.tries + 1 >= ClipTries

(* finish(), from process_pending_sd's collect: a read goes to the sender. *)
LoopCollects ==
  LET i == readBack.of
  IN /\ readBack # NoRead
     /\ readBack' = NoRead
     /\ IF i = FollowUp THEN UNCHANGED <<queueVars, encodes>>
        ELSE IF readBack.ok THEN encodes' = Append(encodes, i) /\ UNCHANGED queueVars
        ELSE /\ entryOf' = [entryOf EXCEPT ![i] = Failed(@)]
             /\ IF GivesUpOn(entryOf[i]) THEN Unlisted(i) ELSE UNCHANGED wanted
             /\ UNCHANGED <<noted, encodes>>
     /\ UNCHANGED <<aged, cardJob, reported, clipsSent, answersLost, tempDirs, samePid,
                    restarts>>

(* drain(): the sender's outcomes first, then stale entries are dropped, then  *)
(* the first due entry gets the card if it is free.                            *)
Drain ==
  LET failed == {r.of : r \in {q \in reported : ~q.ok}}
      over == {r.of : r \in {q \in reported : q.ok}}
                \cup {i \in failed : GivesUpOn(entryOf[i])}
      after == [i \in ClipIncidents |-> IF i \in failed THEN Failed(entryOf[i]) ELSE entryOf[i]]
      stays(i) == i \notin over /\ (after[i].submitted \/ i \notin aged)
      kept == {i \in wanted : stays(i)}
      ready == {n \in 1..Len(noted) :
                  noted[n] \in kept /\ ~after[noted[n]].submitted /\ after[noted[n]].due}
  IN /\ \/ reported # {}
        \/ ready # {} /\ CardIdle
        \/ kept # wanted
     /\ reported' = {} /\ wanted' = kept
     /\ IF ready # {} /\ CardIdle
        THEN \E n \in ready :
               /\ \A m \in ready : n <= m
               /\ entryOf' = [after EXCEPT ![noted[n]].submitted = TRUE]
               /\ cardJob' = [of |-> noted[n], step |-> "connect"]
               /\ tempDirs' = tempDirs \cup {noted[n]}
        ELSE entryOf' = after /\ UNCHANGED <<cardJob, tempDirs>>
     /\ UNCHANGED <<noted, aged, readBack, encodes, clipsSent, answersLost, samePid, restarts>>

(* process_pending_sd runs before drain in a tick and may take the card. *)
FollowUpSubmitted ==
  /\ CardIdle
  /\ cardJob' = [of |-> FollowUp, step |-> "download"]
  /\ UNCHANGED <<queueVars, aged, readBack, senderVars, tempDirs, samePid, restarts>>

----------------------------------------------------------------------------
(* The card thread: read_clip in its subprocess *)

(* A read ends with a file, or without one and without its temp dir. *)
ReadEnds(ok) ==
  /\ readBack' = [of |-> cardJob.of, ok |-> ok] /\ cardJob' = NoCardJob
  /\ tempDirs' = IF ok THEN tempDirs ELSE tempDirs \ {cardJob.of}
ReadGoesOn(step) ==
  cardJob' = [cardJob EXCEPT !.step = step] /\ UNCHANGED <<readBack, tempDirs>>

CardConnects ==
  /\ cardJob.step = "connect"
  /\ ReadGoesOn("lookup") \/ ReadEnds(FALSE)
  /\ UNCHANGED <<queueVars, aged, senderVars, samePid, restarts>>

(* _segment_bounds: one failed lookup is tried again on a fresh login, two     *)
(* leave the guessed window; a segment may leave no window at all.             *)
SegmentLookedUp ==
  /\ cardJob.step \in {"lookup", "again"}
  /\ \/ ReadGoesOn("download") \/ ReadEnds(FALSE)
     \/ cardJob.step = "lookup" /\ ReadGoesOn("again")
  /\ UNCHANGED <<queueVars, aged, senderVars, samePid, restarts>>

(* The download yields the file or nothing: an empty segment, a stall the      *)
(* child gives up on, or the child killed at its deadline.                     *)
Downloaded ==
  /\ cardJob.step = "download"
  /\ ReadEnds(TRUE) \/ ReadEnds(FALSE)
  /\ UNCHANGED <<queueVars, aged, senderVars, samePid, restarts>>

----------------------------------------------------------------------------
(* The sender thread: deliver_clip, which removes the temp dir however it ends *)

ClipDelivered(ok) ==
  /\ reported' = reported \cup {[of |-> Head(encodes), ok |-> ok]}
  /\ encodes' = Tail(encodes)
  /\ tempDirs' = tempDirs \ {Head(encodes)}

(* No transcode, too large a file, or Telegram refused. *)
ClipFails ==
  /\ encodes # <<>> /\ ClipDelivered(FALSE)
  /\ UNCHANGED <<queueVars, aged, cardJob, readBack, clipsSent, answersLost, samePid, restarts>>

ClipTaken ==
  /\ encodes # <<>>
  /\ clipsSent' = [clipsSent EXCEPT ![Head(encodes)] = @ + 1]
  /\ \/ ClipDelivered(TRUE) /\ UNCHANGED answersLost
     \/ ClipDelivered(FALSE) /\ answersLost' = [answersLost EXCEPT ![Head(encodes)] = @ + 1]
  /\ UNCHANGED <<queueVars, aged, cardJob, readBack, samePid, restarts>>

----------------------------------------------------------------------------
(* Time, and a restart: the queue and seen are memory only, so an incident that *)
(* is not too old may be noted again by a later photo, and                     *)
(* clean_orphan_job_dirs removes the dirs of processes that are gone, known by  *)
(* their process id.                                                           *)

WindowClears(i) ==
  /\ i \in wanted /\ ~entryOf[i].submitted /\ ~entryOf[i].due
  /\ entryOf' = [entryOf EXCEPT ![i].due = TRUE]
  /\ UNCHANGED <<wanted, noted, aged, cardJob, readBack, senderVars, tempDirs, samePid,
                 restarts>>

GrowsOld(i) ==
  /\ i \notin aged
  /\ aged' = aged \cup {i}
  /\ UNCHANGED <<queueVars, cardJob, readBack, senderVars, tempDirs, samePid, restarts>>

ClipRestart ==
  /\ restarts > 0 /\ restarts' = restarts - 1
  /\ wanted' = {} /\ noted' = <<>> /\ entryOf' = [i \in ClipIncidents |-> FreshEntry]
  /\ cardJob' = NoCardJob /\ readBack' = NoRead /\ encodes' = <<>> /\ reported' = {}
  /\ tempDirs' = IF samePid THEN tempDirs ELSE {}
  /\ clipsSent' = [i \in ClipIncidents |-> 0] /\ answersLost' = [i \in ClipIncidents |-> 0]
  /\ UNCHANGED <<aged, samePid>>

ClipsInit ==
  /\ wanted = {} /\ noted = <<>> /\ entryOf = [i \in ClipIncidents |-> FreshEntry]
  /\ aged = {} /\ cardJob = NoCardJob /\ readBack = NoRead
  /\ encodes = <<>> /\ reported = {} /\ tempDirs = {}
  /\ clipsSent = [i \in ClipIncidents |-> 0] /\ answersLost = [i \in ClipIncidents |-> 0]
  /\ samePid \in BOOLEAN /\ restarts = ClipRestarts

ClipsNext ==
  \/ \E i \in ClipIncidents : PhotoDelivered(i) \/ WindowClears(i) \/ GrowsOld(i)
  \/ LoopCollects \/ Drain \/ FollowUpSubmitted
  \/ CardConnects \/ SegmentLookedUp \/ Downloaded
  \/ ClipFails \/ ClipTaken
  \/ ClipRestart

ClipsSpec == ClipsInit /\ [][ClipsNext]_clipsVars

----------------------------------------------------------------------------
(* Properties *)

ClipsTypeOK ==
  /\ \A n \in 1..Len(noted) : noted[n] \in ClipIncidents
  /\ \A n \in 1..Len(encodes) : encodes[n] \in ClipIncidents
  /\ wanted \subseteq ClipIncidents /\ aged \subseteq ClipIncidents
  /\ entryOf \in [ClipIncidents -> [submitted: BOOLEAN, due: BOOLEAN, tries: 0..ClipTries]]
  /\ cardJob.of \in ClipIncidents \cup {FollowUp, "none"}
  /\ cardJob.step \in {"idle", "connect", "lookup", "again", "download"}
  /\ \A r \in reported : r.of \in ClipIncidents
  /\ tempDirs \subseteq ClipIncidents

(* Where an entry that counts as submitted can be. *)
Holders(i) ==
  {h \in {"card", "back", "sender", "report"} :
     \/ h = "card" /\ cardJob.of = i
     \/ h = "back" /\ readBack.of = i
     \/ h = "sender" /\ Encoding(i)
     \/ h = "report" /\ \E r \in reported : r.of = i}

(* A queued clip counts as submitted exactly while one of the card thread, the *)
(* uncollected result, the sender or its report holds it: none is stuck for    *)
(* ever, none is read twice at once, and what is held is still queued.  A run of *)
(* the daemon gives the phone one clip per incident, and another only for an    *)
(* upload that Telegram took and did not confirm; the run after a restart knows *)
(* of none of them, and may send each again.  A temp dir is on disk for a read   *)
(* under way or on its way to the sender only, but for those a daemon with a     *)
(* reused process id inherits.                                                 *)
ClipsHeld ==
  /\ \A i \in ClipIncidents :
       /\ Cardinality(Holders(i)) = IF i \in wanted /\ entryOf[i].submitted THEN 1 ELSE 0
       /\ clipsSent[i] <= 1 + answersLost[i]
  /\ ~samePid =>
       \A i \in tempDirs : Holders(i) \subseteq {"card", "back", "sender"} /\ Holders(i) # {}

=============================================================================
