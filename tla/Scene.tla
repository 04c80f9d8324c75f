-------------------------------- MODULE Scene --------------------------------
(* The duplicate gate of cameras whose views overlap (scene.py): a delivery of *)
(* one camera keeps its peers quiet for events close to it in event time.  The *)
(* live pass, the sampler, its held frames and the SD follow-ups share it;     *)
(* what they deliver, the SD follow-up excepted, becomes the group's record.   *)
EXTENDS Integers, Sequences, FiniteSets

CONSTANTS
  Views,        \* cameras of one group
  SceneWindow,  \* scene_window
  LastEvent,    \* bound on event times
  Deliveries,   \* bound: photos delivered
  RecordLimit   \* deliveries a group remembers (32)

ASSUME SceneAssumption ==
  /\ IsFiniteSet(Views) /\ SceneWindow \in Nat \ {0} /\ LastEvent \in Nat
  /\ Deliveries \in Nat /\ RecordLimit \in Nat \ {0}

VARIABLES
  clock,       \* event time of the newest event
  deliveries,  \* SceneCoordinator._deliveries[group]: their places in shown
  shown        \* every photo the phone got, in order

sceneVars == <<clock, deliveries, shown>>

Near(s, t, d) == s - t <= d /\ t - s <= d

\* Mutant: the record forgets what is one window away.
ForgetsOne(s, t) == Near(s, t, SceneWindow)

Remembers(s, t) == Near(s, t, 2 * SceneWindow)

(* allows(): any peer's delivery stops motion, a confirmed type only its own. *)
SceneAllows(v, type, t) ==
  \A n \in deliveries :
    LET d == shown[n]
    IN ~(d.view # v /\ Near(d.at, t, SceneWindow) /\ type \in {"motion", d.type})

(* The newest of them, as many as the limit. *)
Newest(S) == {n \in S : Cardinality({m \in S : m > n}) < RecordLimit}

(* record_delivery(): the record keeps what is near the new delivery in event  *)
(* time, which for a late one is not what is newest.                           *)
SceneRecords(t) ==
  deliveries' = Newest({n \in deliveries : Remembers(shown[n].at, t)} \cup {Len(shown) + 1})

(* A live photo, a sampler photo, or a hold that expired: of an event up to now. *)
SceneDelivers(v, type, t) ==
  /\ Len(shown) < Deliveries /\ t <= clock
  /\ SceneAllows(v, type, t)
  /\ SceneRecords(t)
  /\ shown' = Append(shown, [view |-> v, type |-> type, at |-> t, by |-> "gate"])
  /\ UNCHANGED clock

(* The SD follow-up asks the gate and records nothing. *)
SceneDeliversSd(v, type, t) ==
  /\ Len(shown) < Deliveries /\ t <= clock
  /\ SceneAllows(v, type, t)
  /\ shown' = Append(shown, [view |-> v, type |-> type, at |-> t, by |-> "sd"])
  /\ UNCHANGED <<clock, deliveries>>

(* A held frame rescued from a pan-limit recall does not ask the gate. *)
SceneRescues(v, t) ==
  /\ Len(shown) < Deliveries /\ t <= clock
  /\ SceneRecords(t)
  /\ shown' = Append(shown, [view |-> v, type |-> "motion", at |-> t, by |-> "rescue"])
  /\ UNCHANGED clock

(* scene_event(): the first and the last camera of the deliveries around t.    *)
Around(t) == {n \in deliveries : Near(shown[n].at, t, SceneWindow)}
InOrder(m, n) == shown[m].at < shown[n].at \/ (shown[m].at = shown[n].at /\ m <= n)
FirstOf(S) == CHOOSE m \in S : \A n \in S : InOrder(m, n)
FinalOf(S) == CHOOSE m \in S : \A n \in S : InOrder(n, m)
ViewsOf(S) == {shown[n].view : n \in S}

(* dict.fromkeys: a camera stands where its first delivery stands. *)
Entry(v, S) == FirstOf({n \in S : shown[n].view = v})

SceneOf(t) ==
  LET entries == {Entry(v, Around(t)) : v \in ViewsOf(Around(t))}
  IN IF Cardinality(ViewsOf(Around(t))) < 2
     THEN [lead |-> "none", follow |-> "none", delta |-> 0]
     ELSE [lead |-> shown[FirstOf(Around(t))].view, follow |-> shown[FinalOf(entries)].view,
           delta |-> shown[FinalOf(Around(t))].at - shown[FirstOf(Around(t))].at]

SceneTimePasses == clock < LastEvent /\ clock' = clock + 1 /\ UNCHANGED <<deliveries, shown>>

SceneInit == clock = 0 /\ deliveries = {} /\ shown = <<>>

SceneNext ==
  \/ \E v \in Views, type \in {"motion", "person"}, t \in 0..LastEvent :
       SceneDelivers(v, type, t) \/ SceneDeliversSd(v, type, t)
  \/ \E v \in Views, t \in 0..LastEvent : SceneRescues(v, t)
  \/ SceneTimePasses

SceneSpec == SceneInit /\ [][SceneNext]_sceneVars

----------------------------------------------------------------------------
(* Properties *)

SceneTypeOK ==
  /\ clock \in 0..LastEvent /\ Cardinality(deliveries) <= RecordLimit
  /\ deliveries \subseteq DOMAIN shown /\ \A n \in DOMAIN shown : shown[n].at \in 0..LastEvent
  /\ \A t \in 0..LastEvent : SceneOf(t).lead = "none" \/ SceneOf(t).lead # SceneOf(t).follow

(* Of one passage the phone is told by one camera: a peer's photo of the same  *)
(* type within the window follows only when the first was an SD follow-up, the *)
(* second a rescued hold, or when another delivery, more than two windows away *)
(* in event time, or as many as the record holds, came between the two and     *)
(* pushed the first out.                                                       *)
SceneToldOnce ==
  \A i, j \in DOMAIN shown :
    /\ i < j /\ shown[i].view # shown[j].view
    /\ Near(shown[i].at, shown[j].at, SceneWindow)
    /\ shown[j].type \in {"motion", shown[i].type}
    => \/ shown[i].by = "sd" \/ shown[j].by = "rescue"
       \/ \E k \in (i + 1)..(j - 1) :
            shown[k].by # "sd" /\ ~Near(shown[k].at, shown[i].at, 2 * SceneWindow)
       \/ Cardinality({k \in (i + 1)..(j - 1) : shown[k].by # "sd"}) >= RecordLimit

=============================================================================
