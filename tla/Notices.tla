------------------------------- MODULE Notices --------------------------------
(* The operational notices about one camera and about the daemon: the outage  *)
(* and event-API watchdog of a control pass, the notices about the camera's   *)
(* own switches, the stall watchdog of the outer loop and the log-disk check  *)
(* (daemon.py), with what the health file and the runtime file keep of them   *)
(* (health.py, runtime_state.py).                                             *)
(*                                                                            *)
(* A duration is only ever compared with its threshold, so it is "young"      *)
(* until an action makes it "due".                                            *)
EXTENDS Integers

CONSTANTS Changes  \* bound: changes of what is observed, failed sends and crashes

ASSUME NoticesAssumption == Changes \in Nat

Switches == {"privacy", "app", "motion"}
Alarms == {"outage", "events", "stall", "disk", "person"}
Kinds == Switches \cup Alarms
HealthKinds == {"outage", "events"}
RuntimeKinds == Switches \cup {"person"}

VARIABLES
  pings,     \* network_reachable
  logins,    \* no login failure is counted (connect_fails)
  answers,   \* events_reachable, "none" before the first poll
  muted,     \* camera_muted: the camera's quiet hours
  roomy,     \* free space above the floor
  reads,     \* the camera's switches as the last control pass read them
  person,    \* person detection as that pass read it
  outage,    \* fail_since, outage_alerted, recovery_pending
  event,     \* event_fail_since, event_alerted, event_restart_attempted
  announced, \* privacy_announced, app_push_announced, detection_announced.motion
  restored,  \* detection_announced: person, restored_unsent, restored_at
  stalled,   \* tick_fail_since, stall_alerted
  warned,    \* log_disk_warned
  health,    \* the health file
  runtime,   \* the runtime file, and whether it is over MAX_AGE old
  turn,      \* the next step of the tick, and whether its watchdog changed something
  told,      \* history: what the last delivered notice of each kind said
  unwritten, \* history: kinds delivered since their file was last written
  lost,      \* history: kinds whose delivered bad news a restart forgot
  budget     \* changes left

worldVars == <<pings, logins, answers, muted, roomy, reads, person>>
memoryVars == <<outage, event, announced, restored, stalled, warned>>
noticeFiles == <<health, runtime>>
heardVars == <<told, unwritten, lost, budget>>
noticesVars == <<worldVars, memoryVars, noticeFiles, turn, heardVars>>

NoOutage == [since |-> "no", alerted |-> FALSE, pending |-> FALSE]
NoFailure == [since |-> "no", alerted |-> FALSE, restarted |-> FALSE]
NothingAnnounced == [k \in Switches |-> "none"]
NoPerson == [said |-> "none", owed |-> FALSE, recent |-> FALSE]
NoStall == [since |-> "no", alerted |-> FALSE]

Began(since) == IF since = "no" THEN "young" ELSE since

(* notify.send_operational answers whether Telegram took the message, a save    *)
(* whether the file was written.                                              *)
SendAnswers == IF budget > 0 THEN BOOLEAN ELSE {TRUE}
Heard(kind, sends, taken, what) ==
  /\ told' = IF sends /\ taken THEN [told EXCEPT ![kind] = what] ELSE told
  /\ unwritten' = IF sends /\ taken THEN unwritten \cup {kind} ELSE unwritten
  /\ lost' = IF sends /\ taken THEN lost \ {kind} ELSE lost
  /\ budget' = IF sends /\ ~taken THEN budget - 1 ELSE budget

Saved(kinds, done) ==
  /\ unwritten' = IF done THEN unwritten \ kinds ELSE unwritten
  /\ budget' = IF done THEN budget ELSE budget - 1

----------------------------------------------------------------------------
(* The watchdog of the control pass *)

(* Something answers the ping, but while an outage lasts only a login proves   *)
(* that it is the camera.                                                     *)
Back == pings /\ (outage.since # "no" => logins)

\* Mutant: the debt of a recovery notice ends with the outage, sent or not.
OutageOverDropped(taken) == [NoOutage EXCEPT !.pending = FALSE]

OutageOver(taken) ==
  [NoOutage EXCEPT !.pending = (outage.pending \/ outage.alerted) /\ ~taken]

WatchOutage ==
  /\ turn = "outage"
  /\ IF muted THEN UNCHANGED <<outage, heardVars>>
     ELSE \E taken \in SendAnswers :
       IF Back
       THEN /\ outage' = OutageOver(taken)
            /\ Heard("outage", outage.pending \/ outage.alerted, taken, "well")
       ELSE LET due == outage.since = "due" /\ ~outage.alerted
            IN /\ outage' = [since |-> Began(outage.since), pending |-> outage.pending,
                             alerted |-> outage.alerted \/ (due /\ taken)]
               /\ Heard("outage", due, taken, "bad")
  /\ turn' = IF outage' = outage THEN "event" ELSE "eventAndSave"
  /\ UNCHANGED <<worldVars, event, announced, restored, stalled, warned, noticeFiles>>

(* While the network outage lasts the event API is not to blame: its clock     *)
(* starts again, unless it was announced before.                              *)
WatchEvents ==
  /\ turn \in {"event", "eventAndSave"}
  /\ IF muted \/ answers = "none" THEN UNCHANGED <<event, heardVars>>
     ELSE IF answers = "fail" /\ outage.since # "no"
     THEN /\ event' = IF event.alerted THEN event ELSE [event EXCEPT !.since = "no"]
          /\ UNCHANGED heardVars
     ELSE \E taken \in SendAnswers :
       IF answers = "fail"
       THEN LET due == event.since = "due" /\ ~event.alerted
            IN /\ \E reboot \in BOOLEAN :
                    event' = [since |-> Began(event.since),
                              alerted |-> event.alerted \/ (due /\ taken),
                              restarted |-> event.restarted \/ (event.since = "due" /\ reboot)]
               /\ Heard("events", due, taken, "bad")
       ELSE /\ event' = [NoFailure EXCEPT !.alerted = event.alerted /\ ~taken]
            /\ Heard("events", event.alerted, taken, "well")
  /\ turn' = "health" \/ (turn = "event" /\ event' = event /\ turn' = "switches")
  /\ UNCHANGED <<worldVars, outage, announced, restored, stalled, warned, noticeFiles>>

(* A pass that changed neither does not write again what a failed save or an    *)
(* exception before it left out, unless another part of the file differs.      *)
HealthFileSaved ==
  /\ turn = "health" /\ turn' = "switches"
  /\ \E done \in SendAnswers :
       /\ health' = IF done THEN [outage |-> outage, event |-> event] ELSE health
       /\ Saved(HealthKinds, done)
  /\ UNCHANGED <<worldVars, memoryVars, runtime, told, lost>>

----------------------------------------------------------------------------
(* The notices about the camera's switches *)

(* A first reading is announced only when it is bad; an unread switch says     *)
(* nothing.                                                                   *)
News(seen, said) == seen # "unread" /\ seen # said /\ ~(said = "none" /\ seen = "well")
SwitchNoted(seen, said, taken) ==
  IF seen = "unread" \/ (News(seen, said) /\ ~taken) THEN said ELSE seen

SwitchNotices ==
  /\ turn = "switches" /\ turn' = "person"
  /\ \E failed \in {{}} \cup (IF budget > 0 THEN {{k} : k \in Switches} ELSE {}) :
       LET news == {k \in Switches : News(reads[k], announced[k])}
       IN /\ failed \subseteq news
          /\ announced' = [k \in Switches |-> SwitchNoted(reads[k], announced[k], k \notin failed)]
          /\ told' = [k \in Kinds |-> IF k \in news \ failed THEN reads[k] ELSE told[k]]
          /\ unwritten' = unwritten \cup (news \ failed)
          /\ lost' = lost \ (news \ failed)
          /\ budget' = IF failed = {} THEN budget ELSE budget - 1
  /\ UNCHANGED <<worldVars, outage, event, restored, stalled, warned, noticeFiles>>

\* Mutant: the quiet day holds back the news that follows an announced "off".
HeldBackAlways == restored.recent /\ ~restored.owed

(* At most one "switched it back on" a day, but an announced "off" and a send  *)
(* that failed are always followed by it.                                      *)
HeldBack == restored.recent /\ ~restored.owed /\ restored.said # "bad"

PersonNotice ==
  /\ turn = "person" /\ turn' = "disk"
  /\ \E taken \in SendAnswers :
       IF person = "restored" /\ HeldBack
       THEN restored' = [restored EXCEPT !.said = "well"] /\ UNCHANGED heardVars
       ELSE IF person = "restored" \/ (person = "well" /\ restored.owed)
       THEN /\ restored' = [said |-> "well", owed |-> ~taken, recent |-> restored.recent \/ taken]
            /\ Heard("person", TRUE, taken, "well")
       ELSE /\ restored' = [restored EXCEPT !.said = SwitchNoted(person, @, taken)]
            /\ Heard("person", News(person, restored.said), taken, person)
  /\ UNCHANGED <<worldVars, outage, event, announced, stalled, warned, noticeFiles>>

----------------------------------------------------------------------------
(* The end of the tick, and the outer loop *)

DiskNotice ==
  /\ turn = "disk" /\ turn' = "runtime"
  /\ \E taken \in SendAnswers :
       LET sends == warned = roomy
       IN /\ warned' = IF sends /\ taken THEN ~warned ELSE warned
          /\ Heard("disk", sends, taken, IF roomy THEN "well" ELSE "bad")
  /\ UNCHANGED <<worldVars, outage, event, announced, restored, stalled, noticeFiles>>

(* save_if_changed writes, and renews saved_at, only when something differs     *)
(* from the last save: a notice, or a part of the file that is not the notices'.*)
Snapshot == [announced |-> announced, restored |-> restored, old |-> FALSE]
UpToDate(file) == file.announced = announced /\ file.restored = restored

RuntimeFileSaved ==
  /\ turn = "runtime" /\ turn' = "done"
  /\ \/ \E done \in SendAnswers :
            /\ runtime' = IF done THEN Snapshot ELSE runtime
            /\ Saved(RuntimeKinds, done)
     \/ UpToDate(runtime) /\ runtime' = runtime /\ Saved(RuntimeKinds, TRUE)
  /\ UNCHANGED <<worldVars, memoryVars, health, told, lost>>

(* An exception ends the tick; what it has changed so far stays in memory. *)
TickRaises ==
  /\ turn \notin {"idle", "done", "failed"} /\ budget > 0
  /\ turn' = "failed" /\ budget' = budget - 1
  /\ UNCHANGED <<worldVars, memoryVars, noticeFiles, told, unwritten, lost>>

(* stall_watchdog.  A recovery notice is sent once, delivered or not. *)
WatchStall ==
  /\ turn \in {"done", "failed"} /\ turn' = "idle"
  /\ \E taken \in SendAnswers :
       IF turn = "done"
       THEN /\ stalled' = NoStall
            /\ Heard("stall", stalled.alerted, taken, "well")
       ELSE LET due == stalled.since = "due" /\ ~stalled.alerted
            IN /\ stalled' = [since |-> Began(stalled.since),
                              alerted |-> stalled.alerted \/ (due /\ taken)]
               /\ Heard("stall", due, taken, "bad")
  /\ UNCHANGED <<worldVars, outage, event, announced, restored, warned, noticeFiles>>

(* The control pass is not due in every tick. *)
TickStarts ==
  /\ turn = "idle"
  /\ turn' \in {"outage", "disk"}
  /\ UNCHANGED <<worldVars, memoryVars, noticeFiles, heardVars>>

----------------------------------------------------------------------------
(* Time, the world, and crashes *)

GrowsDue ==
  /\ \/ outage.since = "young" /\ outage' = [outage EXCEPT !.since = "due"]
        /\ UNCHANGED <<event, stalled, restored, runtime>>
     \/ event.since = "young" /\ event' = [event EXCEPT !.since = "due"]
        /\ UNCHANGED <<outage, stalled, restored, runtime>>
     \/ stalled.since = "young" /\ stalled' = [stalled EXCEPT !.since = "due"]
        /\ UNCHANGED <<outage, event, restored, runtime>>
     \* The file's restored_at is memory's or an earlier one.
     \/ restored.recent /\ restored' = [restored EXCEPT !.recent = FALSE]
        /\ runtime' = [runtime EXCEPT !.restored.recent = FALSE]
        /\ UNCHANGED <<outage, event, stalled>>
     \/ ~runtime.old /\ runtime' = [runtime EXCEPT !.old = TRUE]
        /\ UNCHANGED <<outage, event, stalled, restored>>
  /\ turn = "idle"
  /\ UNCHANGED <<worldVars, announced, warned, health, turn, heardVars>>

WorldChanges ==
  /\ turn = "idle" /\ budget > 0 /\ budget' = budget - 1
  /\ \/ pings' = ~pings /\ UNCHANGED <<logins, answers, muted, roomy, reads, person>>
     \/ logins' = ~logins /\ UNCHANGED <<pings, answers, muted, roomy, reads, person>>
     \/ answers' \in {"ok", "fail"} \ {answers}
        /\ UNCHANGED <<pings, logins, muted, roomy, reads, person>>
     \/ muted' = ~muted /\ UNCHANGED <<pings, logins, answers, roomy, reads, person>>
     \/ roomy' = ~roomy /\ UNCHANGED <<pings, logins, answers, muted, reads, person>>
     \/ \E k \in Switches, seen \in {"well", "bad", "unread"} :
          reads' = [reads EXCEPT ![k] = seen]
        /\ UNCHANGED <<pings, logins, answers, muted, roomy, person>>
     \/ person' \in {"well", "bad", "restored", "unread"}
        /\ UNCHANGED <<pings, logins, answers, muted, roomy, reads>>
  /\ UNCHANGED <<memoryVars, noticeFiles, turn, told, unwritten, lost>>

(* What memory holds that a last word of "bad" will be taken back by. *)
Owed(kind) ==
  \/ kind = "outage" /\ (outage.alerted \/ outage.pending)
  \/ kind = "events" /\ event.alerted
  \/ kind = "disk" /\ warned
  \/ kind = "person" /\ (restored.said = "bad" \/ restored.owed)
  \/ kind \in Switches /\ announced[kind] = "bad"
  \/ kind = "stall"

(* What a restart forgets: the disk warning, which no file keeps, a notice      *)
(* whose file was not written since, and all a runtime file over MAX_AGE keeps. *)
RestartForgets(file, old) ==
  {"disk"} \cup (unwritten \ (IF UpToDate(file) THEN RuntimeKinds ELSE {}))
    \cup (IF old THEN RuntimeKinds ELSE {})

(* The daemon ends and starts again.  A stop writes the runtime file once more  *)
(* when it differs from the last save, a crash does not; load discards the     *)
(* whole of a file that is too old when the daemon starts.                     *)
NoticesCrash ==
  /\ budget > 0 /\ budget' = budget - 1
  /\ outage' = health.outage /\ event' = health.event
  /\ \E file \in {runtime, Snapshot}, longDown \in BOOLEAN :
       LET old == file.old \/ longDown
       IN /\ runtime' = [file EXCEPT !.old = old]
          /\ announced' = IF old THEN NothingAnnounced ELSE file.announced
          /\ restored' = IF old THEN NoPerson ELSE file.restored
          /\ lost' = lost \cup {k \in RestartForgets(file, old) : told[k] = "bad"}
  /\ stalled' = NoStall /\ warned' = FALSE
  /\ turn' = "idle" /\ unwritten' = {}
  /\ UNCHANGED <<worldVars, health, told>>

NoticesInit ==
  /\ pings = TRUE /\ logins = TRUE /\ answers = "none" /\ muted = FALSE /\ roomy = TRUE
  /\ reads = [k \in Switches |-> "well"] /\ person = "well"
  /\ outage = NoOutage /\ event = NoFailure
  /\ announced = NothingAnnounced /\ restored = NoPerson
  /\ stalled = NoStall /\ warned = FALSE
  /\ health = [outage |-> NoOutage, event |-> NoFailure]
  /\ runtime = [announced |-> NothingAnnounced, restored |-> NoPerson, old |-> TRUE]
  /\ turn = "idle"
  /\ told = [k \in Kinds |-> "well"] /\ unwritten = {} /\ lost = {} /\ budget = Changes

NoticesTick ==
  \/ WatchOutage \/ WatchEvents \/ HealthFileSaved \/ SwitchNotices \/ PersonNotice
  \/ DiskNotice \/ RuntimeFileSaved \/ WatchStall
NoticesNext ==
  \/ NoticesTick \/ TickStarts \/ TickRaises \/ GrowsDue \/ WorldChanges \/ NoticesCrash

(* The loop goes on, and a control pass is due again and again. *)
NoticesFairness ==
  /\ WF_noticesVars(NoticesTick \/ TickStarts)
  /\ SF_noticesVars(TickStarts /\ turn' = "outage")

NoticesSpec == NoticesInit /\ [][NoticesNext]_noticesVars /\ NoticesFairness

----------------------------------------------------------------------------
(* Properties *)

NoticesTypeOK ==
  /\ {pings, logins, muted, roomy, warned} \subseteq BOOLEAN
  /\ answers \in {"none", "ok", "fail"}
  /\ reads \in [Switches -> {"unread", "well", "bad"}]
  /\ person \in {"unread", "well", "bad", "restored"}
  /\ outage \in [since : {"no", "young", "due"}, alerted : BOOLEAN, pending : BOOLEAN]
  /\ event \in [since : {"no", "young", "due"}, alerted : BOOLEAN, restarted : BOOLEAN]
  /\ announced \in [Switches -> {"none", "well", "bad"}]
  /\ restored \in [said : {"none", "well", "bad"}, owed : BOOLEAN, recent : BOOLEAN]
  /\ stalled \in [since : {"no", "young", "due"}, alerted : BOOLEAN]
  /\ told \in [Kinds -> {"well", "bad"}]
  /\ unwritten \subseteq Kinds /\ lost \subseteq Kinds
  /\ budget \in 0..Changes

(* Whatever was sent, refused or raised in between: as long as the operator's  *)
(* last word on something is bad news, the daemon holds what makes it send the *)
(* good news later.  Only a restart breaks the chain, and only where the file   *)
(* was not written since the delivery or is discarded for its age; no file     *)
(* keeps the disk warning, and the stall notice is sent once.                  *)
BadNewsIsOwed ==
  \A k \in Kinds : told[k] = "bad" => k \in lost \/ Owed(k)

(* Once the camera is back for good, in its hours and logging in, a delivered  *)
(* outage alert is followed by the recovery notice.                            *)
OutageIsOver ==
  <>[](pings /\ logins /\ ~muted) => <>[](told["outage"] = "well" \/ "outage" \in lost)
=============================================================================
