--------------------------------- MODULE Push ---------------------------------
(* Cameras without getEvents.  A Reolink camera pushes its state to a worker    *)
(* thread that turns edges into a bounded queue of events (reolink.py); a       *)
(* camera without a card tells only its last alarm (alarminfo.py).  Both feed   *)
(* the watermark of the live pass (monitor.run_monitor), and list an event      *)
(* once, whatever becomes of it.                                               *)
(*                                                                            *)
(* Times are whole seconds, as the events carry them.  The triggers include     *)
(* people; the AI's other labels are "motion".                                  *)
EXTENDS Integers, Sequences, FiniteSets

CONSTANTS
  PushRoom,    \* MAX_QUEUED
  AlarmMaxAge, \* DEFAULT_MAX_AGE_S
  LastPush,    \* bound: seconds
  LastVisit,   \* bound: active spells of the camera
  PushTrouble  \* bound: subscriptions lost, processings that raise

ASSUME PushAssumption ==
  PushRoom \in Nat \ {0} /\ {AlarmMaxAge, LastPush, LastVisit, PushTrouble} \subseteq Nat

VARIABLES
  pushSource, \* "reolink" or "lastalarm"
  pushNow,
  lensSees,   \* "idle", "motion" or "people"
  visit,      \* history: active spells so far
  spell,      \* EdgeTracker: active, person_sent
  pushed,     \* _queue
  pushLink,   \* the client in cam_clients: "none", "alive" or "dead"
  lastAlarm,  \* what getLastAlarmInfo answers
  listed,     \* SeenAlarms (its limit is not reached)
  pushSeen,   \* last_seen
  pushShown,      \* history: visits whose people the source has shown to the daemon
  persons,    \* history: visit -> person events processed
  excused,    \* history: visits with an event lost on the way
  renewals,   \* history: visit -> subscriptions begun during it
  pushTrouble

sourceVars == <<spell, pushed, pushLink, lastAlarm, listed>>
pushVars == <<pushSource, pushNow, lensSees, visit, sourceVars, pushSeen, pushShown, persons,
              excused, renewals, pushTrouble>>

Visits == 1..LastVisit
Idle == [active |-> FALSE, person |-> FALSE]
NoAlarm == [at |-> 0, type |-> "none", visit |-> 0]
EventOf(type, v) == [at |-> pushNow, type |-> type, visit |-> v]

(* The visits whose people the events at these places tell of. *)
PersonsAt(events, S) == {events[i].visit : i \in {j \in S : events[j].type = "person"}}
PersonsOf(events) == PersonsAt(events, DOMAIN events)

----------------------------------------------------------------------------
(* The Reolink worker *)

(* EdgeTracker.update: one event when the camera turns active, one more when    *)
(* people appear later in the spell.                                           *)
Edge(s) ==
  IF s = "people" /\ (~spell.active \/ ~spell.person) THEN "person"
  ELSE IF s = "motion" /\ ~spell.active THEN "motion" ELSE "none"

\* Mutant: going idle does not forget that the person was told.
TrackedOn(s) ==
  [active |-> s # "idle", person |-> spell.person \/ s = "people"]

Tracked(s) ==
  IF s = "idle" THEN Idle ELSE [active |-> TRUE, person |-> spell.person \/ s = "people"]

(* push_state: a full queue drops its oldest event. *)
PushState(s, v) ==
  LET all == IF Edge(s) = "none" THEN pushed ELSE Append(pushed, EventOf(Edge(s), v))
      lost == IF Len(all) > PushRoom THEN PersonsAt(all, {1}) ELSE {}
  IN /\ pushed' = IF Len(all) > PushRoom THEN Tail(all) ELSE all
     /\ spell' = Tracked(s)
     /\ excused' = excused \cup lost
     /\ pushShown' = IF s = "people" THEN pushShown \cup {v} ELSE pushShown

(* The camera's state changes and, subscribed, pushes it; a card-less camera    *)
(* remembers the alarm.                                                        *)
LensChanges ==
  \E s \in {"idle", "motion", "people"} \ {lensSees} :
    LET v == IF lensSees = "idle" THEN visit + 1 ELSE visit IN
    /\ v <= LastVisit /\ lensSees' = s /\ visit' = v
    /\ IF pushLink = "alive" THEN PushState(s, v)
       ELSE UNCHANGED <<spell, pushed, excused, pushShown>>
    /\ lastAlarm' = IF pushSource = "lastalarm" /\ s # "idle"
                    THEN EventOf(IF s = "people" THEN "person" ELSE "motion", v)
                    ELSE lastAlarm
    /\ UNCHANGED <<pushSource, pushNow, pushLink, listed, pushSeen, persons, renewals, pushTrouble>>

\* A push that repeats the state, as the first one of a subscription does.
PushRepeats ==
  /\ pushLink = "alive" /\ lensSees # "idle" /\ PushState(lensSees, visit)
  /\ UNCHANGED <<pushSource, pushNow, lensSees, visit, pushLink, lastAlarm, listed, pushSeen,
                 persons, renewals, pushTrouble>>

SubscriptionDies ==
  /\ pushLink = "alive" /\ pushTrouble > 0
  /\ pushLink' = "dead" /\ pushTrouble' = pushTrouble - 1
  /\ UNCHANGED <<pushSource, pushNow, lensSees, visit, spell, pushed, lastAlarm, listed,
                 pushSeen, pushShown, persons, excused, renewals>>

----------------------------------------------------------------------------
(* The daemon *)

(* _connect_reolink: a client that is not alive is closed, and its queue with   *)
(* it; the next one starts from an idle tracker.                               *)
ClientReplaced ==
  /\ pushSource = "reolink" /\ pushLink # "alive"
  /\ pushLink' \in {"none", "alive"}   \* the login may fail
  /\ pushed' = <<>> /\ spell' = Idle /\ excused' = excused \cup PersonsOf(pushed)
  /\ renewals' = IF pushLink' = "alive" /\ visit > 0
                 THEN [renewals EXCEPT ![visit] = @ + 1] ELSE renewals
  /\ UNCHANGED <<pushSource, pushNow, lensSees, visit, lastAlarm, listed, pushSeen, pushShown,
                 persons, pushTrouble>>

(* run_monitor over the listed events, oldest first: what is not newer than the *)
(* watermark is dropped, and an event that raises ends the pass with the        *)
(* watermark just before it.                                                   *)
Processes(events) ==
  LET fresh == {i \in DOMAIN events : events[i].at > pushSeen}
  IN \E raises \in fresh \cup {0} :
       LET done == {i \in fresh : raises = 0 \/ i < raises}
           last == CHOOSE i \in fresh : \A j \in fresh : j <= i
       IN /\ raises # 0 => pushTrouble > 0
          /\ pushTrouble' = IF raises # 0 THEN pushTrouble - 1 ELSE pushTrouble
          /\ pushSeen' = IF fresh = {} THEN pushSeen
                         ELSE IF raises = 0 THEN events[last].at
                         ELSE IF events[raises].at - 1 > pushSeen THEN events[raises].at - 1
                         ELSE pushSeen
          /\ persons' = [v \in Visits |-> persons[v] + Cardinality(
               {i \in done : events[i].type = "person" /\ events[i].visit = v})]
          /\ excused' = excused \cup PersonsAt(events, DOMAIN events \ done)
  /\ UNCHANGED <<pushSource, pushNow, lensSees, visit, spell, pushLink, lastAlarm, renewals>>

(* ReolinkClient.getEvents takes the whole queue; a dead subscription raises    *)
(* only once the queue is empty.                                               *)
QueuePolled ==
  /\ pushSource = "reolink" /\ pushLink # "none" /\ pushed # <<>>
  /\ pushed' = <<>> /\ UNCHANGED <<listed, pushShown>>
  /\ Processes(pushed)

(* parse_last_alarm, the watermark, then dedupe. *)
FreshAlarms ==
  IF \/ lastAlarm = NoAlarm \/ pushNow - lastAlarm.at > AlarmMaxAge
     \/ lastAlarm.at <= pushSeen \/ <<lastAlarm.at, lastAlarm.type>> \in listed
  THEN <<>> ELSE <<lastAlarm>>

(* LastAlarmClient.getEvents, when the camera is asked and answers. *)
AlarmPolled ==
  /\ pushSource = "lastalarm" /\ FreshAlarms # <<>>
  /\ listed' = listed \cup {<<lastAlarm.at, lastAlarm.type>>}
  /\ pushShown' = pushShown \cup PersonsOf(FreshAlarms) /\ UNCHANGED pushed
  /\ Processes(FreshAlarms)

PushSecond ==
  /\ pushNow < LastPush /\ pushNow' = pushNow + 1
  /\ UNCHANGED <<pushSource, lensSees, visit, sourceVars, pushSeen, pushShown, persons, excused,
                 renewals, pushTrouble>>

PushInit ==
  /\ pushSource \in {"reolink", "lastalarm"} /\ pushNow = 1 /\ lensSees = "idle" /\ visit = 0
  /\ spell = Idle /\ pushed = <<>> /\ pushLink = "none" /\ lastAlarm = NoAlarm /\ listed = {}
  /\ pushSeen = 0 /\ pushShown = {} /\ persons = [v \in Visits |-> 0] /\ excused = {}
  /\ renewals = [v \in Visits |-> 0] /\ pushTrouble = PushTrouble

PushNext ==
  \/ LensChanges \/ PushRepeats \/ SubscriptionDies \/ ClientReplaced
  \/ QueuePolled \/ AlarmPolled \/ PushSecond

PushSpec == PushInit /\ [][PushNext]_pushVars

----------------------------------------------------------------------------
(* Properties *)

PushTypeOK ==
  /\ Len(pushed) <= PushRoom /\ pushSeen <= pushNow
  /\ {pushShown, excused} \subseteq SUBSET Visits /\ persons \in [Visits -> Nat]

(* A visit whose people a subscription or an alarm showed is told as a person's *)
(* unless that event was dropped by a full queue, with a dead client, in the    *)
(* watermark's own second or by a processing that raised.                      *)
PersonIsTold ==
  \A v \in pushShown \ excused :
    persons[v] > 0 \/ \E i \in DOMAIN pushed : pushed[i].visit = v /\ pushed[i].type = "person"

(* One visit is told as a person's once per subscription, however often the     *)
(* camera repeats its state.                                                   *)
PersonToldOnce ==
  pushSource = "reolink" => \A v \in Visits :
    LET waiting == {i \in DOMAIN pushed : pushed[i].visit = v /\ pushed[i].type = "person"}
    IN persons[v] + Cardinality(waiting) <= 1 + renewals[v]
=============================================================================
