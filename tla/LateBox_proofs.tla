--------------------------- MODULE LateBox_proofs ----------------------------
(* What follows from the outbox's promise for any number of incidents: no late  *)
(* photo comes without a text, beyond one for each crash.                      *)
EXTENDS LateBox, TLAPS

LateAfterText == \A k \in Keys : seen[k] <= heard[k] + crashes

(* An incident whose text went out, or may have, has one text more than photos, *)
(* or a crash to explain it: that is what a photo uses up.                     *)
BoxInv ==
  /\ life \in [Keys -> Lives] /\ crashes \in Nat
  /\ heard \in [Keys -> Nat] /\ seen \in [Keys -> Nat]
  /\ LateAfterText
  /\ \A k \in Keys : life[k] \in {"told", "unsure"} => seen[k] + 1 <= heard[k] + crashes

LEMMA BoxInvInit == BoxInit => BoxInv
  BY DEF BoxInit, BoxInv, Lives, LateAfterText

(* A calm move leads away from the announced lives. *)
LEMMA CalmLeaves ==
  ASSUME NEW l \in Lives, NEW m \in Lives, l = m \/ <<l, m>> \in Calm
  PROVE  m \in {"told", "unsure"} => l = m
  BY DEF Calm, Lives

LEMMA BoxInvStep ==
  ASSUME Summary = TRUE, BoxInv, [BoxNext]_boxVars PROVE BoxInv'
<1>1. CASE Silent
  <2>1. life' \in [Keys -> Lives] /\ UNCHANGED <<heard, seen, crashes>>
    BY <1>1 DEF Silent
  <2>2. \A k \in Keys : life'[k] \in {"told", "unsure"} => life[k] = life'[k]
    BY <1>1, <2>1, CalmLeaves DEF Silent, Moves, BoxInv
  <2> QED BY <2>1, <2>2 DEF BoxInv, LateAfterText
<1>2. CASE Crashed
  <2>1. \A k \in Keys : seen'[k] + 1 <= heard'[k] + crashes'
    BY <1>2 DEF Crashed, BoxInv, LateAfterText
  <2> QED BY <1>2, <2>1 DEF Crashed, BoxInv, LateAfterText
<1>3. ASSUME NEW S \in SUBSET Keys, Announced(S) PROVE BoxInv'
  <2>1. life' \in [Keys -> Lives] /\ heard' \in [Keys -> Nat]
    BY <1>3 DEF Announced, BoxInv, Lives
  <2>2. ASSUME NEW k \in Keys
        PROVE  /\ seen'[k] <= heard'[k] + crashes'
               /\ life'[k] \in {"told", "unsure"} => seen'[k] + 1 <= heard'[k] + crashes'
    <3>1. CASE k \in S
      BY <1>3, <3>1 DEF Announced, BoxInv, LateAfterText
    <3>2. CASE k \notin S
      BY <1>3, <3>2 DEF Announced, BoxInv, LateAfterText
    <3> QED BY <3>1, <3>2
  <2> QED BY <1>3, <2>1, <2>2 DEF Announced, BoxInv, LateAfterText
<1>4. ASSUME NEW k \in Keys, ShownLate(k) PROVE BoxInv'
  <2>1. life[k] \in {"told", "unsure"}
    BY <1>4 DEF ShownLate
  <2>2. life' \in [Keys -> Lives] /\ seen' \in [Keys -> Nat]
    BY <1>4 DEF ShownLate, BoxInv, Lives
  <2>3. ASSUME NEW j \in Keys
        PROVE  /\ seen'[j] <= heard'[j] + crashes'
               /\ life'[j] \in {"told", "unsure"} => seen'[j] + 1 <= heard'[j] + crashes'
    BY <1>4, <2>1 DEF ShownLate, BoxInv, LateAfterText
  <2> QED BY <1>4, <2>2, <2>3 DEF ShownLate, BoxInv, LateAfterText
<1>5. CASE UNCHANGED boxVars
  BY <1>5 DEF boxVars, BoxInv, LateAfterText
<1> QED BY <1>1, <1>2, <1>3, <1>4, <1>5 DEF BoxNext

(* Where the summary is on, every behaviour that keeps the outbox's promise     *)
(* shows at most one late photo per text, but for one more after each crash     *)
(* (outbox.drain: photos only after their announcement).                       *)
THEOREM PromiseMeansTextFirst ==
  ASSUME Summary = TRUE PROVE BoxSpec => []LateAfterText
<1>1. BoxInv => LateAfterText BY DEF BoxInv
<1> QED BY <1>1, BoxInvInit, BoxInvStep, PTL DEF BoxSpec
==============================================================================
