-------------------------------- MODULE Match --------------------------------
(* match_observations (ledger.py): the two-finger walk that pairs what a       *)
(* camera reported with what the scorer or the recorder saw, each side in      *)
(* event-time order, each observation used at most once.  The walk is run one  *)
(* step at a time from every pair of short timelines.                          *)
EXTENDS Naturals, Sequences, FiniteSets

CONSTANTS
  Longest,     \* bound: observations per side
  LastSecond,  \* bound on the timelines
  PairWindow   \* window_seconds

ASSUME MatchAssumption ==
  Longest \in Nat /\ LastSecond \in Nat /\ PairWindow \in Nat

VARIABLES
  cameraSaw, shadowSaw,      \* event times of one type, sorted
  cameraIndex, shadowIndex,  \* the loop's two fingers
  pairs                      \* <<camera, shadow>> index pairs

sawVars == <<cameraSaw, shadowSaw>>
matchVars == <<sawVars, cameraIndex, shadowIndex, pairs>>

Timelines ==
  {s \in UNION {[1..n -> 0..LastSecond] : n \in 0..Longest} :
     \A i, j \in DOMAIN s : i < j => s[i] <= s[j]}

CameraTime == cameraSaw[cameraIndex]
ShadowTime == shadowSaw[shadowIndex]
Walking == cameraIndex <= Len(cameraSaw) /\ shadowIndex <= Len(shadowSaw)

\* Mutant: the window is open at its end.
TooEarlyOpen(a, b) == a + PairWindow <= b

TooEarly(a, b) == a + PairWindow < b

CameraSkipped ==
  /\ Walking /\ TooEarly(CameraTime, ShadowTime)
  /\ cameraIndex' = cameraIndex + 1
  /\ UNCHANGED <<sawVars, shadowIndex, pairs>>

ShadowSkipped ==
  /\ Walking /\ TooEarly(ShadowTime, CameraTime)
  /\ shadowIndex' = shadowIndex + 1
  /\ UNCHANGED <<sawVars, cameraIndex, pairs>>

Paired ==
  /\ Walking /\ ~TooEarly(CameraTime, ShadowTime) /\ ~TooEarly(ShadowTime, CameraTime)
  /\ pairs' = pairs \cup {<<cameraIndex, shadowIndex>>}
  /\ cameraIndex' = cameraIndex + 1 /\ shadowIndex' = shadowIndex + 1
  /\ UNCHANGED sawVars

MatchInit ==
  /\ cameraSaw \in Timelines /\ shadowSaw \in Timelines
  /\ cameraIndex = 1 /\ shadowIndex = 1 /\ pairs = {}

MatchNext == CameraSkipped \/ ShadowSkipped \/ Paired

MatchSpec == MatchInit /\ [][MatchNext]_matchVars

----------------------------------------------------------------------------
(* Properties *)

Compatible(c, s) ==
  /\ cameraSaw[c] <= shadowSaw[s] + PairWindow
  /\ shadowSaw[s] <= cameraSaw[c] + PairWindow

(* The shadow observations a set of camera observations could be paired with. *)
Reachable(C) == {s \in DOMAIN shadowSaw : \E c \in C : Compatible(c, s)}

(* The reference: by Koenig and Hall, the largest matching leaves unmatched    *)
(* the worst deficit over the sets of camera observations.                     *)
LargestMatching ==
  LET deficits == {Cardinality(C) - Cardinality(Reachable(C)) :
                     C \in {D \in SUBSET DOMAIN cameraSaw :
                              Cardinality(D) >= Cardinality(Reachable(D))}}
  IN Len(cameraSaw) - (CHOOSE d \in deficits : \A e \in deficits : e <= d)

(* No observation is used twice, every pair lies within the window, and when   *)
(* the walk ends no pairing of these timelines matches more: the recall and    *)
(* precision of the report are not an artefact of the greedy choice.           *)
MatchIsLargest ==
  /\ \A p, q \in pairs : p # q => p[1] # q[1] /\ p[2] # q[2]
  /\ \A p \in pairs : Compatible(p[1], p[2])
  /\ ~Walking => Cardinality(pairs) = LargestMatching

=============================================================================
