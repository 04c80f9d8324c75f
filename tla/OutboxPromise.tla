---------------------------- MODULE OutboxPromise -----------------------------
(* The outbox keeps its promise: every behaviour of Outbox is one of LateBox.   *)
EXTENDS Outbox

(* While a drain works, it goes by its own copy of the sidecars, whatever other *)
(* threads capture or evict.                                                   *)
InHand(k) == stage \notin {"idle", "release"} /\ snap[k] # NoMeta

(* This drain has sent its photo, or has decided that it gets none. *)
Handled(k) ==
  \/ stage = "delivered" /\ Oldest(snap, k, todo)
  \/ stage \in {"photos", "delivered"} /\ k \in ready \ todo
  \/ stage = "review" /\ k \in (ready \ late) \ todo

(* What a sidecar says of its incident. *)
Says(m) ==
  IF m = NoMeta THEN "out"
  ELSE IF ~m.announced THEN "waiting"
  ELSE IF m.confirmed THEN "told" ELSE "unsure"

(* Between the intent to announce and the text, the intent counts for nothing:  *)
(* before an entry has its intent, its sidecar still speaks.                    *)
LifeOf(k) ==
  IF ~InHand(k) \/ (stage = "announce" /\ k \in todo) THEN Says(meta[k])
  ELSE IF Handled(k) THEN "over" ELSE Says(snap[k])

Promise == INSTANCE LateBox WITH life <- [k \in Keys |-> LifeOf(k)]

(* The outbox as the phone sees it: a text and a photo at most once per stay,   *)
(* the photo after its text, whatever is captured, evicted, resolved, refused   *)
(* or crashes while a drain works (module LateBox).                             *)
PromiseKept == Promise!BoxSpec
===============================================================================
