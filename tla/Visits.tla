------------------------------- MODULE Visits -------------------------------
(* The quality report per incident (labeling.py): the indexed frames of one    *)
(* camera, in time order, are walked once; a frame joins the incident its id   *)
(* names, or the one just before it when it is close, and each incident is     *)
(* then judged by its labels and by the first frame that was delivered.        *)
EXTENDS Integers, Sequences, FiniteSets

CONSTANTS
  VisitIds,    \* incident ids the index names
  LongestVisit,\* bound: frames
  LastFrameAt, \* bound on their times
  VisitGap     \* INCIDENT_GAP

ASSUME VisitAssumption ==
  /\ "none" \notin VisitIds /\ LongestVisit \in Nat /\ LastFrameAt \in Nat /\ VisitGap \in Nat

VARIABLES
  walk,     \* the frames so far, in time order
  visits,   \* group_incidents' list: [id, frames, last]
  byId,     \* id -> its place in the list, 0 for none
  visitNow  \* the incident of the last frame, 0 before the first

visitVars == <<walk, visits, byId, visitNow>>

NoId == "none"
Labels == {"person", "no_person", "unlabeled"}

(* Delivered, or refused or kept for review only. *)
Sources == {"delivered", "kept"}

NearCurrent(f) == visitNow # 0 /\ f.ts - visits[visitNow].last <= VisitGap

\* Mutant: an incident that has an id takes a second one.
AdoptsAny(f) == NearCurrent(f)

(* An incident without an id takes the one of a frame close by. *)
Adopts(f) == NearCurrent(f) /\ visits[visitNow].id = NoId

VisitOf(f) ==
  IF f.id = NoId THEN (IF NearCurrent(f) THEN visitNow ELSE 0)
  ELSE IF byId[f.id] # 0 THEN byId[f.id]
  ELSE IF Adopts(f) THEN visitNow ELSE 0

With(v, f) ==
  [id |-> IF f.id # NoId THEN f.id ELSE v.id,
   frames |-> v.frames \cup {Len(walk) + 1},
   last |-> IF v.last > f.ts THEN v.last ELSE f.ts]

FrameWalked(f) ==
  /\ Len(walk) < LongestVisit
  /\ walk # <<>> => walk[Len(walk)].ts <= f.ts
  /\ walk' = Append(walk, f)
  /\ LET n == VisitOf(f)
         at == IF n = 0 THEN Len(visits) + 1 ELSE n
     IN /\ visits' = IF n = 0
                     THEN Append(visits, [id |-> f.id, frames |-> {Len(walk) + 1},
                                          last |-> f.ts])
                     ELSE [visits EXCEPT ![n] = With(@, f)]
        /\ byId' = IF f.id = NoId THEN byId ELSE [byId EXCEPT ![f.id] = at]
        /\ visitNow' = at

VisitsInit ==
  /\ walk = <<>> /\ visits = <<>> /\ byId = [i \in VisitIds |-> 0] /\ visitNow = 0

VisitsNext ==
  \E f \in [ts : 0..LastFrameAt, id : VisitIds \cup {NoId}, label : Labels, source : Sources] :
    FrameWalked(f)

VisitsSpec == VisitsInit /\ [][VisitsNext]_visitVars

----------------------------------------------------------------------------
(* summarize_incident() and _incident_block() *)

Status(v) ==
  LET labels == {walk[n].label : n \in v.frames} \ {"unlabeled"}
  IN IF "person" \in labels THEN "person"
     ELSE IF labels = {"no_person"} THEN "no_person" ELSE "unlabeled"

Delivered(v) == {n \in v.frames : walk[n].source = "delivered"}
Alerted(v) == Delivered(v) # {}

Earliest(S) == CHOOSE n \in S : \A m \in S : n <= m
Delay(v) == walk[Earliest(Delivered(v))].ts - walk[Earliest(v.frames)].ts

MissedVisits ==
  {n \in DOMAIN visits : Status(visits[n]) = "person" /\ ~Alerted(visits[n])}
FalseAlarms ==
  {n \in DOMAIN visits : Status(visits[n]) = "no_person" /\ Alerted(visits[n])}

----------------------------------------------------------------------------
(* Properties *)

SameVisit(m, n) == \E v \in DOMAIN visits : {m, n} \subseteq visits[v].frames

(* Every frame is in exactly one incident; frames of one id are together and   *)
(* of two ids apart; a frame without an id is with the one before it exactly   *)
(* when that is close; of a missed visit no frame was delivered, a false alarm *)
(* holds no person, and no alert comes before its visit begins.                *)
VisitsAreWhole ==
  /\ UNION {visits[v].frames : v \in DOMAIN visits} = DOMAIN walk
  /\ \A v, w \in DOMAIN visits : v # w => visits[v].frames \cap visits[w].frames = {}
  /\ \A m, n \in DOMAIN walk :
       walk[m].id # NoId /\ walk[n].id # NoId => (SameVisit(m, n) <=> walk[m].id = walk[n].id)
  /\ \A n \in DOMAIN walk :
       n > 1 /\ walk[n].id = NoId =>
         (SameVisit(n - 1, n) <=> walk[n].ts - walk[n - 1].ts <= VisitGap)
  /\ \A v \in MissedVisits : \A n \in visits[v].frames :
       walk[n].source # "delivered"
  /\ \A v \in FalseAlarms : \A n \in visits[v].frames : walk[n].label # "person"
  /\ \A v \in DOMAIN visits : Alerted(visits[v]) => Delay(visits[v]) >= 0

=============================================================================
