------------------------------- MODULE LateBox -------------------------------
(* What the outbox promises about the alerts that could not be delivered, seen *)
(* by the phone: a late photo follows the text that announces it, and neither   *)
(* comes twice while the incident stays, unless the process dies between a send *)
(* and its record.  No directory, sidecar, frame or drain appears here.         *)
EXTENDS Integers

CONSTANTS
  Keys,     \* incidents
  Summary   \* whether a text announces the late photos

VARIABLES
  life,     \* incident -> where it stands
  heard,    \* incident -> texts the phone got that count it
  seen,     \* incident -> late photos of it the phone got
  crashes

(* "unsure": a crash left it open whether the text went out; "over": the phone  *)
(* has the photo, or the box decided it gets none.                             *)
Lives == {"out", "waiting", "unsure", "told", "over"}

boxVars == <<life, heard, seen, crashes>>

(* Without news for the phone, incidents enter, leave, or leave and come back;  *)
(* an unsure text counts as not sent.                                           *)
Calm ==
  {<<"out", "waiting">>, <<"unsure", "waiting">>, <<"told", "waiting">>, <<"over", "waiting">>}
    \cup {<<l, "over">> : l \in {"waiting", "unsure", "told"}}
    \cup {<<l, "out">> : l \in Lives}

(* A crash also forgets what was not yet written down. *)
Amnesia ==
  Calm \cup 
    {<<"waiting", "unsure">>, <<"told", "unsure">>, <<"over", "unsure">>, <<"over", "told">>}

Moves(pairs) == \A k \in Keys : life'[k] = life[k] \/ <<life[k], life'[k]>> \in pairs

BoxInit ==
  /\ life = [k \in Keys |-> "out"] /\ crashes = 0
  /\ heard = [k \in Keys |-> 0] /\ seen = [k \in Keys |-> 0]

Silent == life' \in [Keys -> Lives] /\ Moves(Calm) /\ UNCHANGED <<heard, seen, crashes>>

(* One text for several incidents, none of them announced before. *)
Announced(S) ==
  /\ S # {} /\ \A k \in S : life[k] = "waiting"
  /\ life' = [k \in Keys |-> IF k \in S THEN "told" ELSE life[k]]
  /\ heard' = [k \in Keys |-> IF k \in S THEN heard[k] + 1 ELSE heard[k]]
  /\ UNCHANGED <<seen, crashes>>

ShownLate(k) ==
  /\ life[k] \in (IF Summary THEN {"told", "unsure"} ELSE {"waiting", "told", "unsure"})
  /\ life' = [life EXCEPT ![k] = "over"] /\ seen' = [seen EXCEPT ![k] = @ + 1]
  /\ UNCHANGED <<heard, crashes>>

Crashed ==
  /\ life' \in [Keys -> Lives] /\ Moves(Amnesia) /\ crashes' = crashes + 1
  /\ UNCHANGED <<heard, seen>>

BoxNext ==
  \/ Silent \/ Crashed
  \/ \E S \in SUBSET Keys : Announced(S)
  \/ \E k \in Keys : ShownLate(k)

BoxSpec == BoxInit /\ [][BoxNext]_boxVars
=============================================================================
