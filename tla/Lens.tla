--------------------------------- MODULE Lens ---------------------------------
(* Who may move a lens: the scheduled recall of the control pass and the       *)
(* pan-limit guard with its own ONVIF client, arbitrated by motion.decide, a   *)
(* hold while auto-track is on a subject, the firmware's lens linkage and the  *)
(* privacy switch (motion.py, panlimit.py, daemon._pan_guard_pass).            *)
(*                                                                            *)
(* One loop iteration takes one unit of time, and a moment in the past is kept *)
(* as its age, which stops at the threshold it is compared with.               *)
EXTENDS Integers

CONSTANTS
  TrackHold,    \* tracking.track_hold, and the cap of one unbroken hold
  Grace,        \* pan_limit.hold_grace
  LinkageHold,  \* linkage_hold of the event profile
  PollEvery,    \* pan_limit.poll_interval
  ControlEvery, \* loop.control_interval
  RebuildCap    \* PAN_GUARD_REBUILD_CAP

ASSUME LensAssumption ==
  /\ {TrackHold, PollEvery, ControlEvery, RebuildCap} \subseteq Nat \ {0}
  /\ {Grace, LinkageHold} \subseteq Nat

VARIABLES
  stray,      \* the lens is outside the span of its presets
  parked,     \* the privacy switch is on
  dark,       \* effective_night: the plan tracks
  seenParked, \* parked_lenses: what the last definite reading said
  tracking,   \* desired_plans: auto-track wanted
  eventAge,   \* since the camera's newest event (last_seen)
  heldFor,    \* since recall_hold_since, Never when no hold runs
  linkageAge, \* since the newest event of the pan/tilt lens (lens_linkage_at)
  controlAge, \* since the last control pass
  pollAge,    \* since the guard's last poll
  outFor,     \* since out_since, Never when not out of bounds
  onvif,      \* the guard's cached client is there
  backoff,    \* time left of a failed build's backoff
  lensTurn,   \* the next step of the loop
  strayFor,   \* history: how long it has been out with nothing but a hold in the way
  recallAge   \* history: since a control pass that no hold kept from the recall

Never == -1

agesVars == <<eventAge, heldFor, linkageAge, controlAge, pollAge, outFor, backoff>>
lensVars == <<stray, parked, dark, seenParked, tracking, agesVars, onvif, lensTurn,
              strayFor, recallAge>>

Older(age, limit) == IF age = Never \/ age = limit THEN age ELSE age + 1

----------------------------------------------------------------------------
(* The arbiter *)

\* Mutant: an unbroken hold has no end.
HoldDueForever(since) == eventAge < TrackHold

HoldDue(since) ==
  /\ eventAge < TrackHold
  /\ since = Never \/ since < TrackHold

LinkageDue == linkageAge < LinkageHold

\* Mutant: a hold also stops the guard, however long the lens is out.
DecideHolds(who, private, hold, tracks, linked, out) ==
  CASE private -> "privacy" [] ~private /\ linked -> "linkage"
    [] ~private /\ ~linked /\ hold /\ tracks -> "hold" [] OTHER -> "allow"

(* motion.decide: privacy before linkage before hold, and only the guard        *)
(* overrides a hold.                                                          *)
Decide(who, private, hold, tracks, linked, out) ==
  CASE private -> "privacy"
    [] ~private /\ linked -> "linkage"
    [] ~private /\ ~linked /\ hold /\ tracks /\ ~(who = "guard" /\ out >= Grace) -> "hold"
    [] OTHER -> "allow"

----------------------------------------------------------------------------
(* The control pass *)

(* run_once reads the switch (or fails to), cameras_holding_recall keeps the   *)
(* stretch, apply_plan recalls the preset or not.                             *)
LensControl ==
  /\ lensTurn = "control" /\ lensTurn' = "monitor"
  /\ IF controlAge < ControlEvery
     THEN UNCHANGED <<stray, seenParked, tracking, heldFor, controlAge, recallAge>>
     ELSE LET holds == HoldDue(heldFor) IN
       \E read \in BOOLEAN, taken \in BOOLEAN :
         /\ controlAge' = 0 /\ tracking' = dark
         /\ seenParked' = IF read THEN parked ELSE seenParked
         /\ heldFor' = IF ~holds THEN Never ELSE IF heldFor = Never THEN 0 ELSE heldFor
         /\ LET move == Decide("schedule", seenParked', holds, dark, LinkageDue, 0) IN
              /\ stray' = (stray /\ ~(move = "allow" /\ ~parked /\ taken))
              /\ recallAge' = IF move = "hold" THEN recallAge ELSE 0
  /\ UNCHANGED <<parked, dark, eventAge, linkageAge, pollAge, outFor, backoff, onvif, strayFor>>

(* The event poll: a new event re-arms the hold, one of the pan/tilt lens the  *)
(* linkage.                                                                   *)
LensMonitor ==
  /\ lensTurn = "monitor" /\ lensTurn' = "guard"
  /\ \/ UNCHANGED <<eventAge, linkageAge>>
     \/ eventAge' = 0 /\ linkageAge' \in {0, linkageAge}
  /\ UNCHANGED <<stray, parked, dark, seenParked, tracking, heldFor, controlAge, pollAge,
                 outFor, backoff, onvif, strayFor, recallAge>>

----------------------------------------------------------------------------
(* The guard *)

GuardSkips ==
  /\ lensTurn = "guard" /\ pollAge < PollEvery
  /\ lensTurn' = "world"
  /\ UNCHANGED <<stray, parked, dark, seenParked, tracking, agesVars, onvif, strayFor, recallAge>>

(* A parked lens is not polled; a failed build, or a ping that says the camera *)
(* is gone, is waited out.  Either way "continuously out of bounds" breaks.    *)
GuardWaits ==
  /\ lensTurn = "guard" /\ pollAge = PollEvery
  /\ seenParked \/ ~onvif
  /\ lensTurn' = "world" /\ pollAge' = 0 /\ outFor' = Never /\ strayFor' = 0
  /\ UNCHANGED <<stray, parked, dark, seenParked, tracking, eventAge, heldFor, linkageAge,
                 controlAge, onvif, backoff, recallAge>>

(* Anything but a refusal of the motor drops the client and backs off. *)
GuardFails ==
  /\ lensTurn = "guard" /\ pollAge = PollEvery /\ ~seenParked
  /\ onvif \/ backoff = 0
  /\ lensTurn' = "world" /\ pollAge' = 0 /\ outFor' = Never /\ strayFor' = 0
  /\ onvif' = FALSE /\ backoff' \in 1..RebuildCap
  /\ UNCHANGED <<stray, parked, dark, seenParked, tracking, eventAge, heldFor, linkageAge,
                 controlAge, recallAge>>

(* The position is read: inside, or out and then recalled unless the arbiter   *)
(* refuses.  A lens parked since the control pass refuses the move itself.     *)
GuardPolls ==
  /\ lensTurn = "guard" /\ pollAge = PollEvery /\ ~seenParked
  /\ onvif \/ backoff = 0
  /\ lensTurn' = "world" /\ pollAge' = 0 /\ onvif' = TRUE /\ backoff' = 0
  /\ LET out == IF outFor = Never THEN 0 ELSE outFor
         move == Decide("guard", FALSE, HoldDue(heldFor), tracking, LinkageDue, out)
     IN /\ outFor' = IF stray /\ move = "hold" THEN out ELSE Never
        /\ stray' = (stray /\ ~(move = "allow" /\ ~parked))
        /\ strayFor' = IF stray /\ move = "hold" THEN strayFor ELSE 0
  /\ UNCHANGED <<parked, dark, seenParked, tracking, eventAge, heldFor, linkageAge, controlAge,
                 recallAge>>

----------------------------------------------------------------------------
(* Time passes; auto-track, the wind or a hand turns the lens; somebody flips  *)
(* the privacy switch; day and night change.                                  *)
LensWorld ==
  /\ lensTurn = "world" /\ lensTurn' = "control"
  /\ eventAge' = Older(eventAge, TrackHold) /\ heldFor' = Older(heldFor, TrackHold)
  /\ linkageAge' = Older(linkageAge, LinkageHold)
  /\ controlAge' = Older(controlAge, ControlEvery) /\ pollAge' = Older(pollAge, PollEvery)
  /\ outFor' = Older(outFor, Grace) /\ backoff' = IF backoff = 0 THEN 0 ELSE backoff - 1
  /\ recallAge' = recallAge + 1
  /\ \/ UNCHANGED <<stray, parked, dark>>
     \/ stray' = ~stray /\ ~parked /\ UNCHANGED <<parked, dark>>
     \/ parked' = ~parked /\ UNCHANGED <<stray, dark>>
     \/ dark' = ~dark /\ UNCHANGED <<stray, parked>>
  /\ strayFor' = IF stray' THEN strayFor + 1 ELSE 0
  /\ UNCHANGED <<seenParked, tracking, onvif>>

LensInit ==
  /\ stray = FALSE /\ parked = FALSE /\ dark = FALSE /\ seenParked = FALSE /\ tracking = FALSE
  /\ eventAge = TrackHold /\ heldFor = Never /\ linkageAge = LinkageHold
  /\ controlAge = ControlEvery /\ pollAge = PollEvery /\ outFor = Never
  /\ onvif = FALSE /\ backoff = 0 /\ lensTurn = "control"
  /\ strayFor = 0 /\ recallAge = 0

LensNext ==
  \/ LensControl \/ LensMonitor \/ GuardSkips \/ GuardWaits \/ GuardFails \/ GuardPolls
  \/ LensWorld

LensSpec == LensInit /\ [][LensNext]_lensVars

----------------------------------------------------------------------------
(* Properties *)

LensTypeOK ==
  /\ {stray, parked, dark, seenParked, tracking, onvif} \subseteq BOOLEAN
  /\ eventAge \in 0..TrackHold /\ heldFor \in Never..TrackHold
  /\ linkageAge \in 0..LinkageHold /\ controlAge \in 0..ControlEvery
  /\ pollAge \in 0..PollEvery /\ outFor \in Never..Grace /\ backoff \in 0..RebuildCap
  /\ lensTurn \in {"world", "control", "monitor", "guard"}
  /\ strayFor \in Nat /\ recallAge \in Nat

(* However the holds, the events and the two motor paths fall, a lens the      *)
(* guard can read and nobody else owns does not stay outside its span longer   *)
(* than the grace and two polls: a dwell never licenses staring into a wall.   *)
StrayBounded == strayFor < Grace + 2 * PollEvery

(* Events that never stop do not keep the scheduled recall away for longer     *)
(* than one hold and two control passes.                                      *)
RecallComesRound == recallAge <= TrackHold + 2 * ControlEvery

(* A lens that strays does not stay astray: the holds that protect a subject end *)
(* and the recall comes round, however often the reads fail.                     *)
StrayEnds == StrayBounded /\ RecallComesRound
===============================================================================
