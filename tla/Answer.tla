------------------------------- MODULE Answer -------------------------------
(* One answer of the scoring service on its way to the camera that asked       *)
(* (scorer_service.py, scorer.py): the people of the full frame and the tiles  *)
(* fold into one reply, the ensemble weighs it against a second model, and the *)
(* client takes out the people its zones and boxes exclude.  A person is the   *)
(* place it stands at; confidences are whole numbers.                          *)
EXTENDS Integers, FiniteSets

CONSTANTS
  Places,       \* where a person or a vehicle can be in the view
  IgnoreZone,   \* places inside one of ignore_zones
  IgnoreBox,    \* places whose box is one of ignore_boxes
  Oversized,    \* places whose box exceeds max_person_box both ways
  AlertZone,    \* places whose foot is in an alert zone
  Confidences,  \* confidences a model reports
  ListFloor,    \* PERSON_LIST_FLOOR
  Low, Trust, Host, Band  \* EnsembleConfig; Host is the clients' threshold

ASSUME AnswerAssumption ==
  /\ IsFiniteSet(Places) /\ Places # {}
  /\ IgnoreZone \cup IgnoreBox \cup Oversized \cup AlertZone \subseteq Places
  /\ Confidences \subseteq Nat /\ IsFiniteSet(Confidences) /\ 0 \in Confidences
  /\ ListFloor \in Nat \ {0}

(* load_ensemble refuses to start with anything else. *)
ASSUME EnsembleAssumption ==
  /\ {Low, Trust, Host, Band} \subseteq Nat
  /\ 0 < Low /\ Low < Trust /\ Trust <= Host

(* "The floor sits well under any configured threshold": nothing checks it. *)
ASSUME FloorAssumption == ListFloor <= Trust

VARIABLES
  observing, \* alert_zones_mode = "observe"
  awaits,  \* what the answer waits for next
  reply,   \* the answer: person, list, box, vehicle, vehicleAt
  used,    \* combine_ensemble's verdict on it
  served,  \* the person and the list the service replied with
  notes    \* the counters the filters and the observe modes left in it

answerVars == <<observing, awaits, reply, used, served, notes>>

NoList == [p \in {} |-> 0]   \* an older service sends none
Nowhere == "nowhere"

Smaller(a, b) == IF a < b THEN a ELSE b
Larger(a, b) == IF a > b THEN a ELSE b

(* A list of people: the confidence found at each place, 0 where nobody is. *)
Listed(l) == {p \in Places : l[p] > 0}
Best(l) == CHOOSE m \in {l[p] : p \in Places} : \A p \in Places : l[p] <= m
BestPlaces(l) == {p \in Places : l[p] = Best(l)}
BestPlace(l) == CHOOSE p \in BestPlaces(l) : TRUE
Only(l, S) == [p \in Places |-> IF p \in S THEN l[p] ELSE 0]

(* _scores_and_boxes(): overlapping anchors thin out to the best of the place, *)
(* and what is under the floor is not listed.                                  *)
PersonList(found) == Only(found, {p \in Places : found[p] >= ListFloor})

\* Mutant: a tile's confidence decides.
CombineTileDecides(found, tile, first) ==
  [person |-> Larger(Best(found), tile), list |-> PersonList(found),
   box |-> IF Best(found) > 0 THEN first ELSE "tile"]

(* combine_rect_scores(): the full frame decides, a tile may only locate; of   *)
(* equal confidences any anchor may come first.                                *)
CombineRects(found, tile, first) ==
  [person |-> Best(found), list |-> PersonList(found),
   box |-> IF Best(found) > 0 THEN first
           ELSE IF tile > 0 THEN "tile" ELSE Nowhere]

Marginal(s) == Trust <= s /\ s < Host
Remap(s) == IF Marginal(s) THEN Host + ((s - Trust) * Band) \div (Host - Trust) ELSE s

Verdict(p, s) ==
  CASE s >= Host -> "shadow"
    [] Marginal(s) -> "shadow_marginal"
    [] s < Trust /\ p >= Host /\ s >= Low -> "primary"
    [] OTHER -> "neither"

RemapList(l) == IF l = NoList THEN l ELSE [p \in Places |-> Remap(l[p])]

\* Mutant: the list keeps what the second model denied.
CapListNot(l) == l

CapList(l) == [p \in Places |-> Smaller(l[p], Host - 1)]

Rejudged(r, person, list, box) ==
  [person |-> person, list |-> list, box |-> box, vehicle |-> r.vehicle, vehicleAt |-> r.vehicleAt]

(* combine_ensemble() *)
Combined(r, shadow) ==
  LET verdict == Verdict(r.person, shadow.person)
  IN IF verdict = "shadow" THEN Rejudged(r, shadow.person, shadow.list, shadow.box)
     ELSE IF verdict = "shadow_marginal"
     THEN Rejudged(r, Remap(shadow.person), RemapList(shadow.list), shadow.box)
     ELSE IF verdict = "primary" THEN r
     ELSE Rejudged(r, Smaller(Larger(r.person, shadow.person), Host - 1), CapList(r.list), r.box)

----------------------------------------------------------------------------
(* The service *)

FullFrames == [Places -> Confidences]

ScoresFrame(found, tile, vehicle, at) ==
  /\ awaits = "scores"
  /\ \E first \in BestPlaces(found) :
       LET r == CombineRects(found, tile, first)
       IN reply' = [person |-> r.person, list |-> r.list, box |-> r.box,
                    vehicle |-> vehicle, vehicleAt |-> at]
  /\ awaits' = "ensemble"
  /\ UNCHANGED <<observing, used, served, notes>>

(* What the second service says; an older one lists nobody and boxes nobody. *)
ShadowReplies ==
  {[person |-> Best(f), list |-> PersonList(f), box |-> BestPlace(f)] : f \in FullFrames}
    \cup {[person |-> c, list |-> NoList, box |-> Nowhere] : c \in Confidences}

Serves(r) == served' = [person |-> r.person, list |-> r.list]

JoinsShadow(shadow) ==
  /\ awaits = "ensemble"
  /\ reply' = Combined(reply, shadow)
  /\ used' = Verdict(reply.person, shadow.person)
  /\ Serves(reply') /\ awaits' = "ignore_zones"
  /\ UNCHANGED <<observing, notes>>

(* No ensemble, a call that failed or came late: the primary reply stands. *)
ServesPrimary ==
  /\ awaits = "ensemble"
  /\ used' = "primary_only"
  /\ Serves(reply) /\ awaits' = "ignore_zones"
  /\ UNCHANGED <<observing, reply, notes>>

----------------------------------------------------------------------------
(* The client's filters, in the order score_image runs them *)

LeftOutOf(kept) == Cardinality(Listed(reply.list) \ kept)

\* Mutant: the best remaining person does not replace the one that was dropped.
WithoutKeepsBest(r, kept) ==
  Rejudged(r, IF kept = {} THEN 0 ELSE r.person, Only(r.list, kept), r.box)

(* _without_persons(): the box changes only when the confidence falls. *)
WithoutPersons(r, kept) ==
  LET left == Only(r.list, kept)
  IN IF kept = {} THEN Rejudged(r, 0, left, Nowhere)
     ELSE IF Best(left) < r.person THEN Rejudged(r, Best(left), left, BestPlace(left))
     ELSE Rejudged(r, r.person, left, r.box)

(* A reply without a list is left as it is; so is one that loses nobody. *)
Drops(excluded) ==
  IF reply.list = NoList THEN FALSE ELSE Listed(reply.list) \cap excluded # {}

Filtered(excluded, counter, then) ==
  /\ awaits' = then
  /\ IF Drops(excluded)
     THEN LET kept == Listed(reply.list) \ excluded
          IN /\ reply' = WithoutPersons(reply, kept)
             /\ notes' = [notes EXCEPT ![counter] = LeftOutOf(kept)]
     ELSE UNCHANGED <<reply, notes>>
  /\ UNCHANGED <<observing, used, served>>

ApplyIgnoreZones ==
  awaits = "ignore_zones" /\ Filtered(IgnoreZone, "ignored_persons", "ignore_boxes")

ApplyIgnoreBoxes ==
  awaits = "ignore_boxes" /\ Filtered(IgnoreBox, "ignored_boxes", "max_person_box")

(* observe_ignore_boxes(): the reply is noted, never changed. *)
ObserveIgnoreBoxes ==
  /\ awaits = "ignore_boxes"
  /\ notes' = [notes EXCEPT !.box_observe =
                 IF Drops(IgnoreBox) THEN Cardinality(Listed(reply.list) \cap IgnoreBox) ELSE 0]
  /\ awaits' = "max_person_box"
  /\ UNCHANGED <<observing, reply, used, served>>

ApplyMaxPersonBox ==
  awaits = "max_person_box" /\ Filtered(Oversized, "oversized_persons", "alert_zones")

(* apply_vehicle_alert_zones(): a vehicle that cannot be placed does not pass. *)
VehicleInZones(r) ==
  IF r.vehicle > 0 /\ r.vehicleAt \notin AlertZone THEN [r EXCEPT !.vehicle = 0] ELSE r

(* apply_alert_zones(): the best person left is the answer, whatever it was. *)
InAlertZones(r) ==
  LET kept == Listed(r.list) \cap AlertZone
      left == Only(r.list, kept)
  IN IF kept = {} THEN Rejudged(r, 0, left, Nowhere)
     ELSE Rejudged(r, Best(left), left, BestPlace(left))

ApplyAlertZones ==
  /\ awaits = "alert_zones" /\ ~observing
  /\ reply' = VehicleInZones(IF Drops(Places \ AlertZone) THEN InAlertZones(reply) ELSE reply)
  /\ notes' = [notes EXCEPT !.outside =
                 IF Drops(Places \ AlertZone) THEN LeftOutOf(AlertZone) ELSE 0]
  /\ awaits' = "verdict"
  /\ UNCHANGED <<observing, used, served>>

ObserveAlertZones ==
  /\ awaits = "alert_zones" /\ observing
  /\ notes' = [notes EXCEPT !.outside =
                 IF Drops(Places \ AlertZone) THEN LeftOutOf(AlertZone) ELSE 0]
  /\ awaits' = "verdict"
  /\ UNCHANGED <<observing, reply, used, served>>

(* subject_score(): the count of people at the threshold, unknown without a list. *)
PersonCount(r) ==
  IF r.list = NoList THEN -1 ELSE Cardinality({p \in Places : r.list[p] >= Host})

SubjectScore ==
  /\ awaits = "verdict"
  /\ notes' = [notes EXCEPT !.persons = PersonCount(reply)]
  /\ awaits' = "nothing"
  /\ UNCHANGED <<observing, reply, used, served>>

AnswerInit ==
  /\ observing \in BOOLEAN
  /\ awaits = "scores"
  /\ reply = [person |-> 0, list |-> NoList, box |-> Nowhere, vehicle |-> 0,
              vehicleAt |-> Nowhere]
  /\ used = "primary_only" /\ served = [person |-> 0, list |-> NoList]
  /\ notes = [ignored_persons |-> 0, ignored_boxes |-> 0, oversized_persons |-> 0,
              box_observe |-> 0, outside |-> 0, persons |-> 0]

AnswerNext ==
  \/ \E found \in FullFrames, tile \in Confidences, v \in {0, Host},
        at \in Places \cup {Nowhere} : ScoresFrame(found, tile, v, at)
  \/ \E shadow \in ShadowReplies : JoinsShadow(shadow)
  \/ ServesPrimary
  \/ ApplyIgnoreZones \/ ApplyIgnoreBoxes \/ ObserveIgnoreBoxes \/ ApplyMaxPersonBox
  \/ ApplyAlertZones \/ ObserveAlertZones \/ SubjectScore

AnswerSpec == AnswerInit /\ [][AnswerNext]_answerVars

----------------------------------------------------------------------------
(* Properties *)

AnswerTypeOK ==
  /\ reply.person \in Nat /\ reply.vehicle \in {0, Host}
  /\ reply.list = NoList \/ reply.list \in [Places -> Nat]
  /\ used \in {"shadow", "shadow_marginal", "primary", "neither", "primary_only"}

(* Who still counts once the filters have run; observed boxes count. *)
Counts(p) ==
  p \notin IgnoreZone \cup Oversized /\ (observing \/ p \in AlertZone)
    /\ (p \notin IgnoreBox \/ notes.box_observe > 0)

(* The person who counts decides: an answer at the threshold has one that no   *)
(* filter excludes, such a person is never lost with the excluded ones, and    *)
(* one the second model denied comes back through no filter.                   *)
AnswerIsOfACounted ==
  awaits = "nothing" =>
    /\ served.list # NoList =>
         (reply.person >= Host
            <=> \E p \in Places : Counts(p) /\ served.list[p] >= Host)
    /\ reply.person <= served.person
    /\ used = "neither" => reply.person < Host
    /\ reply.vehicle > 0 => observing \/ reply.vehicleAt \in AlertZone

(* The box the photo is cropped to is of a person who was kept, unless two of  *)
(* equal confidence were found: then it may still be the excluded one's.       *)
BoxIsOfAKept ==
  (/\ awaits = "nothing" /\ reply.list # NoList /\ reply.person >= Host
   /\ \A p, q \in Listed(served.list) : served.list[p] = served.list[q] => p = q)
    => reply.box \in Places /\ reply.list[reply.box] = reply.person

=============================================================================
