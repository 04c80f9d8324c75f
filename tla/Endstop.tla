------------------------------- MODULE Endstop -------------------------------
(* The pan endstop of one camera: the guard's observing thread with its two   *)
(* helper threads (stopguard.py), the session lock (sessionguard.py), the     *)
(* controller that ties them to the control pass (stopcontrol.py), and the    *)
(* control pass itself, on the loop thread.                                   *)
(*                                                                            *)
(* Every timer of the guard (Stop, OFF and recall gaps, cooldown, re-verify)  *)
(* may or may not have run out when it is looked at: the model chooses.  The  *)
(* two that change state on their own, the age of a pose and the recovery     *)
(* permit, end in actions of their own.                                       *)
EXTENDS Integers, Sequences

CONSTANTS
  MaxX,               \* the motor's travel is 1..MaxX
  LeftInner,          \* left_inner; 0 when there is no left limit
  RightInner,         \* right_inner
  Home,               \* position of the safe preset that is recalled
  StableSamples,      \* stable_samples
  RecoverAttempts,    \* recover_attempts
  OffFailsToUnverify, \* _OFF_FAILS_TO_UNVERIFY
  Disturbances        \* bound: failed calls, app interference, privacy switches

ASSUME EndstopAssumption ==
  /\ MaxX \in Nat /\ LeftInner \in 0..MaxX /\ RightInner \in 1..MaxX
  /\ Home \in 1..MaxX /\ LeftInner < Home /\ Home < RightInner
  /\ StableSamples \in Nat /\ StableSamples >= 2
  /\ RecoverAttempts \in Nat /\ OffFailsToUnverify \in Nat \ {0}
  /\ Disturbances \in Nat

VARIABLES
  native,   \* the camera's own tracking: "off", or who switched it on
  privacy,  \* suspended(): the lens is parked
  guard,    \* the guard's fields, under its lock
  poll,     \* the observing thread
  reaction,     \* what is left of its poll_once
  off,      \* the thread that switches tracking off
  offGen,   \* the session that thread uses
  home,     \* the thread that sends the camera home
  ctl,      \* the control pass on the loop thread
  on,       \* the auto-track value that pass is about to assert
  session,  \* number of the camera session the daemon holds
  live,     \* FALSE once that session is retired
  holder,   \* who holds its lock
  closed,   \* shutdown has closed the guard
  calm      \* disturbances left

cameraVars == <<native, privacy>>
sessionVars == <<session, live, holder>>
endstopVars == <<native, privacy, guard, poll, reaction, off, offGen,
                 home, ctl, on, session, live, holder, closed, calm>>

NoPose == 0
Positions == 1..MaxX
Safe(p) == LeftInner < p /\ p < RightInner
Sign(n) == IF n > 0 THEN 1 ELSE IF n < 0 THEN -1 ELSE 0
Lesser(m, n) == IF m < n THEN m ELSE n

----------------------------------------------------------------------------
(* The guard's state and its pure steps *)

Guards == [seen: Positions \cup {NoPose}, fresh: BOOLEAN, healthy: BOOLEAN,
           latched: BOOLEAN, verified: BOOLEAN, early: BOOLEAN, armed: BOOLEAN,
           samples: 0..StableSamples, delta: {-1, 0, 1}, permit: {-1, 0, 1},
           offFails: 0..OffFailsToUnverify, stopped: BOOLEAN,
           recoveries: 0..RecoverAttempts]

StartedGuard == [seen |-> NoPose, fresh |-> FALSE, healthy |-> FALSE, latched |-> FALSE,
                 verified |-> FALSE, early |-> FALSE, armed |-> FALSE, samples |-> 0,
                 delta |-> 0,
                 permit |-> 0, offFails |-> 0, stopped |-> FALSE, recoveries |-> 0]

(* A pose that no longer counts is forgotten: nothing reads it again. *)
Suspended(g) == [g EXCEPT !.seen = NoPose, !.healthy = FALSE, !.armed = FALSE, !.delta = 0,
                          !.samples = 0, !.fresh = FALSE, !.permit = 0]

(* snapshot() notes a suspension before it answers. *)
Noted == IF privacy THEN Suspended(guard) ELSE guard
Healthy(g) == g.healthy /\ g.fresh /\ ~closed
Allowed(g) == Healthy(g) /\ ~g.latched /\ g.armed

\* Mutant: a new episode keeps the verdict of an older OFF.
TripKeepsOff(g) ==
  [g EXCEPT !.latched = TRUE, !.armed = FALSE, !.samples = 0, !.permit = 0]

Trip(g) ==
  IF g.latched
  THEN [g EXCEPT !.armed = FALSE]
  ELSE [g EXCEPT !.latched = TRUE, !.armed = FALSE, !.verified = FALSE, !.early = FALSE,
                 !.samples = 0, !.permit = 0, !.offFails = 0, !.stopped = FALSE, !.recoveries = 0]

PoseLost(g) ==
  Trip([g EXCEPT !.seen = NoPose, !.healthy = FALSE, !.fresh = FALSE, !.delta = 0,
                 !.samples = 0, !.permit = 0])

Previous(g) == IF g.healthy /\ g.fresh THEN g.seen ELSE NoPose
Moved(g, p) == IF Previous(g) = NoPose THEN 0 ELSE Sign(p - Previous(g))
Inward(g, p) == Moved(g, p) = (IF p >= RightInner THEN -1 ELSE 1)

(* The permit covers a move towards Home only: the lens may neither go the    *)
(* other way nor pass it.                                                     *)
RecoveryOutward(g, p) ==
  /\ g.permit # 0
  /\ Moved(g, p) * g.permit < 0 \/ (p - Home) * g.permit > 0

Steady(g, p) ==
  IF ~Safe(p) THEN 0
  ELSE IF Previous(g) = p THEN Lesser(g.samples + 1, StableSamples) ELSE 1

(* The critical section of a good read: note the pose, arm or trip. *)
Observe(g, p) ==
  LET kept == [g EXCEPT
        !.seen = p, !.fresh = TRUE, !.healthy = TRUE, !.delta = Moved(g, p),
        !.samples = Steady(g, p),
        !.permit = IF RecoveryOutward(g, p) \/ Previous(g) = NoPose THEN 0 ELSE @,
        !.armed = \/ Safe(p) /\ ~g.latched /\ Steady(g, p) >= StableSamples
                  \/ @ /\ Previous(g) # NoPose]
  IN IF RecoveryOutward(g, p) \/ ~Safe(p) THEN Trip(kept) ELSE kept

(* What poll_once still does after that section, in order.  OFF is dispatched  *)
(* early while a failed Stop has stretched the budget of Stop (ptzrpc).       *)
Reaction(g, p, early) ==
  (IF RecoveryOutward(g, p) THEN <<"force">> ELSE <<>>) \o
  (IF Safe(p)
   THEN IF g.latched THEN <<"ack", "off">> ELSE <<>>
   ELSE (IF early /\ calm < Disturbances THEN <<"off">> ELSE <<>>) \o
        (IF g.latched /\ Inward(g, p) THEN <<>> ELSE <<"stop">>) \o <<"off", "home">>)

\* Mutant: the motion seen last is not asked.
MayRecoverBlind(g) == Healthy(g) /\ g.verified /\ off = "none"

(* prepare_recovery: OFF verified, pose fresh, and not seen moving away. *)
MayRecover(g) ==
  /\ Healthy(g) /\ g.verified /\ off = "none"
  /\ g.delta * (Home - g.seen) >= 0
Permitted(g) == [g EXCEPT !.permit = IF Home > g.seen THEN 1 ELSE -1]

\* Mutant: an OFF under way does not block.
MayRearmEarly(g) ==
  Healthy(g) /\ g.samples >= StableSamples /\ Safe(g.seen) /\ (g.latched => g.verified)

MayRearm(g) ==
  /\ Healthy(g) /\ g.samples >= StableSamples /\ Safe(g.seen)
  /\ off = "none"
  /\ g.latched => g.verified
Rearmed(g) == [g EXCEPT !.latched = FALSE, !.armed = TRUE, !.verified = FALSE,
                        !.early = FALSE, !.permit = 0]

----------------------------------------------------------------------------
(* The observing thread *)

Continue(rest) == reaction' = rest /\ poll' = IF rest = <<>> THEN "idle" ELSE "acting"
Doing(items) == poll = "acting" /\ Head(reaction) \in items

PollStarts ==
  /\ poll = "idle" /\ ~closed
  /\ IF privacy
     THEN /\ guard' = Suspended(guard)
          /\ Continue(IF guard.latched THEN <<"off">> ELSE <<>>)
     ELSE poll' = "reading" /\ UNCHANGED <<guard, reaction>>
  /\ UNCHANGED <<cameraVars, off, offGen, home, ctl, on, sessionVars, closed, calm>>

ReadOk ==
  /\ poll = "reading"
  /\ IF privacy
     THEN guard' = Suspended(guard) /\ Continue(<<>>)
     ELSE \E p \in Positions, early \in BOOLEAN :
            guard' = Observe(guard, p) /\ Continue(Reaction(guard, p, early))
  /\ UNCHANGED <<cameraVars, off, offGen, home, ctl, on, sessionVars, closed, calm>>

ReadFails ==
  /\ poll = "reading" /\ calm > 0
  /\ calm' = calm - 1
  /\ guard' = PoseLost(guard)
  /\ Continue(<<"off", "stop">>)
  /\ UNCHANGED <<cameraVars, off, offGen, home, ctl, on, sessionVars, closed>>

(* _stop_if_due.  Only a forced Stop ignores the permit and the gap. *)
StopSkipped ==
  /\ Doing({"stop", "ack", "force"})
  /\ IF privacy THEN guard' = Suspended(guard)
                ELSE Head(reaction) # "force" /\ UNCHANGED guard
  /\ Continue(Tail(reaction))
  /\ UNCHANGED <<cameraVars, off, offGen, home, ctl, on, sessionVars, closed, calm>>

StopSent ==
  /\ Doing({"stop", "ack", "force"}) /\ ~privacy
  /\ Head(reaction) # "force" => guard.permit = 0
  /\ Head(reaction) = "ack" => ~guard.verified \/ ~guard.stopped
  /\ poll' = "halting" /\ reaction' = Tail(reaction)
  /\ UNCHANGED <<cameraVars, guard, off, offGen, home, ctl, on, sessionVars, closed, calm>>

StopDone ==
  /\ poll = "halting"
  /\ guard' = [guard EXCEPT !.stopped = guard.latched]
  /\ Continue(reaction)
  /\ UNCHANGED <<cameraVars, off, offGen, home, ctl, on, sessionVars, closed, calm>>

StopFails ==
  /\ poll = "halting" /\ calm > 0
  /\ calm' = calm - 1
  /\ Continue(reaction)
  /\ UNCHANGED <<cameraVars, guard, off, offGen, home, ctl, on, sessionVars, closed>>

(* _request_disable: once more while latched, for the re-verification. *)
OffDispatched ==
  /\ Doing({"off"}) /\ off = "none"
  /\ ~guard.verified \/ guard.latched
  /\ off' = "begin"
  /\ Continue(Tail(reaction))
  /\ UNCHANGED <<cameraVars, guard, offGen, home, ctl, on, sessionVars, closed, calm>>

HomeDispatched ==
  /\ Doing({"home"}) /\ ~privacy
  /\ guard.latched /\ guard.healthy /\ guard.verified
  /\ home = "none" /\ off = "none"
  /\ guard.recoveries < RecoverAttempts /\ ~Safe(guard.seen)
  /\ home' = "ask"
  /\ guard' = [guard EXCEPT !.recoveries = @ + 1]
  /\ Continue(Tail(reaction))
  /\ UNCHANGED <<cameraVars, off, offGen, ctl, on, sessionVars, closed, calm>>

NotDispatched ==
  /\ Doing({"off", "home"})
  /\ Continue(Tail(reaction))
  /\ UNCHANGED <<cameraVars, guard, off, offGen, home, ctl, on, sessionVars, closed, calm>>

(* The thread leaves its loop once closed; its last act is a Stop. *)
PollLeaves ==
  /\ poll = "idle" /\ closed
  /\ poll' = "acting" /\ reaction' = <<"stop", "leave">>
  /\ UNCHANGED <<cameraVars, guard, off, offGen, home, ctl, on, sessionVars, closed, calm>>

PollEnds ==
  /\ Doing({"leave"})
  /\ poll' = "ended" /\ reaction' = <<>>
  /\ UNCHANGED <<cameraVars, guard, off, offGen, home, ctl, on, sessionVars, closed, calm>>

----------------------------------------------------------------------------
(* The thread that switches native tracking off: native_tracking_off writes    *)
(* and reads back under the session lock; what it found is stored under the    *)
(* guard's own lock, after the session lock is free again.  A trip, and before *)
(* it an ON, fit between the two: the verdict is then older than the episode   *)
(* it is stored in (early).                                                    *)

Verified(g, before) ==
  [g EXCEPT !.verified = TRUE, !.offFails = 0, !.early = (before /\ g.latched)]
Unverified(g) ==
  LET fails == Lesser(g.offFails + 1, OffFailsToUnverify)
  IN [g EXCEPT !.offFails = fails, !.verified = @ /\ fails < OffFailsToUnverify]

OffTakesSession ==
  /\ off = "begin"
  /\ IF live THEN off' = "wait" /\ offGen' = session
             ELSE off' = "bad" /\ UNCHANGED offGen
  /\ UNCHANGED <<cameraVars, guard, poll, reaction, home, ctl, on, sessionVars, closed, calm>>

OffLocks ==
  /\ off = "wait"
  /\ IF live /\ offGen = session
     THEN holder = "free" /\ holder' = "off" /\ off' = "set" /\ UNCHANGED offGen
     ELSE off' = "bad" /\ offGen' = 0 /\ UNCHANGED holder
  /\ UNCHANGED <<cameraVars, guard, poll, reaction, home, ctl, on, session, live, closed, calm>>

OffSet ==
  /\ off = "set"
  /\ native' = "off" /\ off' = "read"
  /\ UNCHANGED <<privacy, guard, poll, reaction, offGen, home, ctl, on,
                 sessionVars, closed, calm>>

OffRead ==
  /\ off = "read"
  /\ off' = IF native # "off" THEN "bad" ELSE IF guard.latched THEN "good" ELSE "early"
  /\ holder' = "free" /\ offGen' = 0
  /\ UNCHANGED <<cameraVars, guard, poll, reaction, home, ctl, on, session, live, closed, calm>>

OffCallFails ==
  /\ off \in {"set", "read"} /\ calm > 0
  /\ calm' = calm - 1
  /\ native' \in {native, IF off = "set" THEN "off" ELSE native}
  /\ off' = "bad" /\ holder' = "free" /\ offGen' = 0
  /\ UNCHANGED <<privacy, guard, poll, reaction, home, ctl, on, session, live, closed>>

(* _disable after the call, which is logged in between. *)
OffStores ==
  /\ off \in {"good", "early", "bad"}
  /\ guard' = IF off = "bad" THEN Unverified(guard) ELSE Verified(guard, off = "early")
  /\ off' = "none"
  /\ UNCHANGED <<cameraVars, poll, reaction, offGen, home, ctl, on, sessionVars, closed, calm>>

----------------------------------------------------------------------------
(* _recall_preset, on the home thread and in the control pass: the permit is  *)
(* asked again before its one retry.                                          *)

Granted == guard.latched => MayRecover(Noted)
Prepared == guard' = IF guard.latched /\ MayRecover(Noted) THEN Permitted(Noted) ELSE Noted

(* After the permit the camera may refuse the move: a retired session, a       *)
(* parked lens, a lost answer.                                                 *)
Recall(step) == IF Granted THEN {"done"} \cup (IF step = "ask" THEN {"again"} ELSE {})
                           ELSE {"done"}

HomeAsks ==
  /\ home \in {"ask", "again"}
  /\ IF home = "ask" /\ ~live
     THEN home' = "none" /\ UNCHANGED guard
     ELSE /\ \E after \in Recall(home) : home' = IF after = "done" THEN "none" ELSE after
          /\ Prepared
  /\ UNCHANGED <<cameraVars, poll, reaction, off, offGen, ctl, on, sessionVars, closed, calm>>

----------------------------------------------------------------------------
(* The control pass, at night: auto-track wanted on.  Whether the recall is   *)
(* wanted, and allowed by the motor arbitration, is open here.                *)

PassStarts ==
  /\ ctl = "idle" /\ live /\ ~closed
  /\ \E cooled \in BOOLEAN :
       LET rearms == MayRearm(Noted) /\ (guard.latched => cooled)
       IN guard' = IF rearms THEN Rearmed(Noted) ELSE Noted
  /\ on' = Allowed(guard')
  /\ ctl' \in {"ask", "assert"}
  /\ UNCHANGED <<cameraVars, poll, reaction, off, offGen, home, sessionVars, closed, calm>>

PassAsks ==
  /\ ctl \in {"ask", "again"}
  /\ Prepared
  /\ \E after \in Recall(ctl) : ctl' = IF after = "done" THEN "assert" ELSE after
  /\ UNCHANGED <<cameraVars, poll, reaction, off, offGen, home, on, sessionVars, closed, calm>>

(* ensure_autotrack: nothing is written when the camera reads back the wish. *)
PassKeeps ==
  /\ ctl = "assert" /\ holder = "free"
  /\ guard' = Noted
  /\ (native # "off") = (on /\ Allowed(Noted))
  /\ ctl' = "idle" /\ on' = FALSE
  /\ UNCHANGED <<cameraVars, poll, reaction, off, offGen, home, sessionVars, closed, calm>>

(* perform_request under the lock.  The policy is asked twice, the second time *)
(* by the transport after any login, and only the last answer counts.  From    *)
(* there on the request cannot be recalled.                                    *)
PassSends ==
  /\ ctl = "assert" /\ holder = "free"
  /\ guard' = Noted
  /\ on' = (on /\ Allowed(Noted))
  /\ holder' = "pass" /\ ctl' = "flight"
  /\ UNCHANGED <<cameraVars, poll, reaction, off, offGen, home, session, live, closed,
                 calm>>

PassLands ==
  /\ ctl = "flight"
  /\ native' = IF on THEN "ours" ELSE "off"
  /\ holder' = "free" /\ ctl' = "idle" /\ on' = FALSE
  /\ UNCHANGED <<privacy, guard, poll, reaction, off, offGen, home,
                 session, live, closed, calm>>

(* No answer, or another value read back: one more assertion. *)
PassFails ==
  /\ ctl = "flight" /\ calm > 0
  /\ calm' = calm - 1
  /\ native' \in {native, IF on THEN "ours" ELSE "off"}
  /\ holder' = "free"
  /\ ctl' = "assert" \/ ctl' = "idle"
  /\ on' = (on /\ ctl' = "assert")
  /\ UNCHANGED <<privacy, guard, poll, reaction, off, offGen, home,
                 session, live, closed>>

\* Mutant: the session is retired without its lock.
RetireAtOnce ==
  /\ ctl = "idle" /\ live /\ ~closed /\ calm > 0
  /\ calm' = calm - 1 /\ live' = FALSE
  /\ UNCHANGED <<cameraVars, guard, poll, reaction, off, offGen, home, ctl, on, session,
                 holder, closed>>

(* close_client before a new login: retire_client waits for the lock. *)
SessionRetires ==
  /\ ctl = "idle" /\ live /\ ~closed /\ calm > 0
  /\ holder = "free"
  /\ calm' = calm - 1 /\ live' = FALSE
  /\ UNCHANGED <<cameraVars, guard, poll, reaction, off, offGen, home, ctl, on, session,
                 holder, closed>>

Login ==
  /\ ctl = "idle" /\ ~live /\ ~closed
  /\ session' = session + 1 /\ live' = TRUE
  /\ UNCHANGED <<cameraVars, guard, poll, reaction, off, offGen, home, ctl, on, holder,
                 closed, calm>>

(* close(): latch and request OFF; the process ends soon after. *)
Shutdown ==
  /\ ctl = "idle" /\ ~closed
  /\ closed' = TRUE /\ ctl' = "gone"
  /\ guard' = Trip([guard EXCEPT !.permit = 0])
  /\ off' \in {off, IF off = "none" THEN "begin" ELSE off}
  /\ UNCHANGED <<cameraVars, poll, reaction, offGen, home, on, sessionVars, calm>>

----------------------------------------------------------------------------
(* The camera, its app, and time *)

AppTracks ==
  /\ calm > 0 /\ native = "off"
  /\ calm' = calm - 1 /\ native' = "app"
  /\ UNCHANGED <<privacy, guard, poll, reaction, off, offGen, home,
                 ctl, on, sessionVars, closed>>

PrivacyOn ==
  /\ ~privacy /\ calm > 0
  /\ calm' = calm - 1 /\ privacy' = TRUE
  /\ UNCHANGED <<native, guard, poll, reaction, off, offGen, home, ctl, on,
                 sessionVars, closed>>

PrivacyOff ==
  /\ privacy /\ privacy' = FALSE
  /\ UNCHANGED <<native, guard, poll, reaction, off, offGen, home,
                 ctl, on, sessionVars, closed, calm>>

\* Only the recall still looks at a pose that has aged, not at how it was reached.
PoseAges ==
  /\ guard.fresh
  /\ guard' = [guard EXCEPT !.fresh = FALSE, !.armed = FALSE, !.delta = 0, !.samples = 0]
  /\ UNCHANGED <<cameraVars, poll, reaction, off, offGen, home, ctl, on, sessionVars,
                 closed, calm>>

PermitEnds ==
  /\ guard.permit # 0
  /\ guard' = [guard EXCEPT !.permit = 0]
  /\ UNCHANGED <<cameraVars, poll, reaction, off, offGen, home, ctl, on, sessionVars,
                 closed, calm>>

EndstopInit ==
  /\ native = "off" /\ privacy = FALSE
  /\ guard = StartedGuard
  /\ poll = "idle" /\ reaction = <<>>
  /\ off = "none" /\ offGen = 0 /\ home = "none"
  /\ ctl = "idle" /\ on = FALSE
  /\ session = 0 /\ live = TRUE /\ holder = "free"
  /\ closed = FALSE /\ calm = Disturbances

Observing ==
  \/ PollStarts \/ ReadOk \/ ReadFails
  \/ StopSkipped \/ StopSent \/ StopDone \/ StopFails
  \/ OffDispatched \/ HomeDispatched \/ NotDispatched
  \/ PollLeaves \/ PollEnds
SwitchingOff ==
  OffTakesSession \/ OffLocks \/ OffSet \/ OffRead \/ OffCallFails \/ OffStores
ControlPass ==
  \/ PassStarts \/ PassAsks
  \/ PassKeeps \/ PassSends \/ PassLands \/ PassFails
  \/ SessionRetires \/ Login \/ Shutdown
Surroundings ==
  \/ AppTracks \/ PrivacyOn \/ PrivacyOff \/ PoseAges \/ PermitEnds

EndstopNext == Observing \/ SwitchingOff \/ HomeAsks \/ ControlPass \/ Surroundings

EndstopSpec == EndstopInit /\ [][EndstopNext]_endstopVars

----------------------------------------------------------------------------
(* Properties *)

EndstopTypeOK ==
  /\ native \in {"off", "ours", "app"} /\ privacy \in BOOLEAN
  /\ guard \in Guards
  /\ poll \in {"idle", "reading", "acting", "halting", "ended"}
  /\ \A i \in 1..Len(reaction) : reaction[i] \in {"force", "stop", "ack", "off", "home", "leave"}
  /\ off \in {"none", "begin", "wait", "set", "read", "good", "early", "bad"}
  /\ home \in {"none", "ask", "again"}
  /\ ctl \in {"idle", "ask", "again", "assert", "flight", "gone"}
  /\ on \in BOOLEAN /\ live \in BOOLEAN /\ closed \in BOOLEAN
  /\ {session, offGen} \subseteq 0..Disturbances
  /\ holder \in {"free", "off", "pass"}
  /\ calm \in 0..Disturbances

(* While the guard is latched and its OFF counts as verified, the daemon has  *)
(* not switched tracking on behind it and no request that would is under way: *)
(* what a write checked before the trip did is undone by the OFF after it.    *)
(* The one exception is the verdict of an OFF that read the camera before the *)
(* trip and is stored after it: the session lock does not cover the store.    *)
VerifiedMeansOff ==
  guard.latched /\ guard.verified /\ ~guard.early =>
    native # "ours" /\ ~(ctl = "flight" /\ on)

(* A recovery permit suppresses Stop only for a latched lens whose OFF was    *)
(* verified when it was granted and that was not seen to move away since.     *)
PermitInward ==
  guard.permit # 0 =>
    /\ guard.latched
    /\ guard.verified \/ guard.offFails = OffFailsToUnverify
    /\ guard.delta * guard.permit >= 0 \/ guard.seen = Home

(* No request is under way on a session that was retired or replaced.         *)
NothingOnRetired ==
  /\ holder # "free" => live
  /\ holder = "off" => offGen = session

(* What the two threads keep up together: a verified OFF stays off, Stop is      *)
(* suppressed only inward, and no request runs on a session that is gone.       *)
EndstopHolds == VerifiedMeansOff /\ PermitInward /\ NothingOnRetired

(* The latch opens only when the daemon's tracking is off (or counts as off by *)
(* a verdict read before the trip), no OFF is still being sent and the last    *)
(* pose was inside.                                                            *)
LatchOpensSafely ==
  [][guard.latched /\ ~guard'.latched =>
       /\ native # "ours" \/ guard.early
       /\ off = "none" /\ Safe(guard.seen)]_endstopVars

=============================================================================
