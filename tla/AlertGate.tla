------------------------------ MODULE AlertGate ------------------------------
(***************************************************************************)
(* The alert gate of one camera: what may reach the phone now, and what a  *)
(* delivery or a queued follow-up arms.  Pure operators over the two       *)
(* tables the daemon keeps, last_alert (wall clock of the newest arming)   *)
(* and last_event_start (camera start time of the event that armed it).    *)
(*                                                                         *)
(* Times are naturals; NoTime stands for a key that is absent.             *)
(***************************************************************************)
EXTENDS Integers

CONSTANT Cooldown    \* alerts.cooldown, in the time unit of the model

ASSUME CooldownAssumption == Cooldown \in Nat \ {0}

NoTime == -1

\* The classes an alert falls in; a vehicle alert is a separate side channel
\* (scorer.alert_vehicles, off by default) and is not modelled.
EventTypes == {"confirmed", "motion"}

\* The keys of the two tables.
GateKeys == EventTypes \cup {"person_photo"}

\* Mutant: one unit short of the cooldown.
ShouldSendEarly(stamp, now) == stamp = NoTime \/ now - stamp >= Cooldown - 1

\* notify.should_send_alert: an absent stamp, or one a whole cooldown old.
ShouldSend(stamp, now) == stamp = NoTime \/ now - stamp >= Cooldown

\* Two camera event starts that belong to one passage in front of the camera.
SamePassage(a, b) == a - b < Cooldown /\ b - a < Cooldown

\* The gate's event-time half: no key was armed by an event of this passage.
PassageFree(starts, keys, s) ==
    \A k \in keys : starts[k] = NoTime \/ ~SamePassage(s, starts[k])

\* Wall-clock half.  A confirmed alert quiets motion, motion never quiets it.
ClockOpen(alerts, etype, now) ==
    /\ ShouldSend(alerts["confirmed"], now)
    /\ etype = "motion" => ShouldSend(alerts["motion"], now)

\* The keys whose event start an event of this type is compared with.
PassageKeys(etype) ==
    IF etype = "motion" THEN {"confirmed", "motion"}
                        ELSE {"confirmed", "person_photo"}

\* can_alert(etype, event) of alert_gate.
CanAlert(alerts, starts, etype, s, now) ==
    /\ ClockOpen(alerts, etype, now)
    /\ PassageFree(starts, PassageKeys(etype), s)

\* Mutant: only the event's own key is stamped.
StampOwnKey(table, etype, person, v) == [table EXCEPT ![etype] = v]

\* on_alert: stamp value v under the event's own key and, when the delivered
\* photo showed a person, under person_photo.
Stamp(table, etype, person, v) ==
    [k \in GateKeys |-> IF k = etype \/ (k = "person_photo" /\ person)
                        THEN v ELSE table[k]]
=============================================================================
