-------------------------------- MODULE Pick --------------------------------
(* The photo of a recording (daemon.py, recclip.py): every frame cut from it   *)
(* is scored, a frame the scorer failed on is asked for once more when others  *)
(* scored, and of the confirmed ones the steadiest, then the one with a face,  *)
(* then the sharpest, largest or tallest subject is picked.                    *)
EXTENDS Integers, Sequences, FiniteSets

CONSTANTS
  Shots,      \* what a frame can look like: [detail, blur, size, edge, face]
  Scores,     \* confidences the scorer answers with
  Threshold,  \* cfg.scorer.threshold
  ClipFrames  \* bound: frames of a clip

ASSUME PickAssumption ==
  /\ Shots \subseteq [detail : Nat, blur : Nat \cup {-1}, size : Nat \cup {-1},
                      edge : BOOLEAN, face : BOOLEAN]
  /\ Scores \subseteq Nat /\ Threshold \in Nat /\ ClipFrames \in Nat

VARIABLES
  clipAt,       \* "cutting", "rescoring", "choosing", "done"
  clipFrames,   \* the frames, oldest first
  frameScores,  \* their scores, NoAnswer where the scorer failed
  picked        \* what the clip came to

pickVars == <<clipAt, clipFrames, frameScores, picked>>

NoAnswer == -1
Unmeasured == -1   \* a blur or a box the frame has none of
Undecided == [kind |-> "none", image |-> 0, by |-> "none"]

Decided(kind, image, by) ==
  /\ picked' = [kind |-> kind, image |-> image, by |-> by]
  /\ clipAt' = "done"
  /\ UNCHANGED <<clipFrames, frameScores>>

FrameFailed(n) == frameScores[n] = NoAnswer
Scored == {n \in DOMAIN frameScores : ~FrameFailed(n)}
Confirmed == {n \in Scored : frameScores[n] >= Threshold}

----------------------------------------------------------------------------
(* The picks, over a set of candidates *)

Detail(n) == clipFrames[n].detail
Blur(n) == clipFrames[n].blur
Size(n) == clipFrames[n].size

(* Candidates come best score first, the earlier frame first among equals. *)
Ahead(m, n) == frameScores[m] > frameScores[n] \/ (frameScores[m] = frameScores[n] /\ m <= n)
First(C) == CHOOSE m \in C : \A n \in C : Ahead(m, n)

Sharpest(C) ==
  LET measured == {n \in C : Blur(n) # Unmeasured}
  IN IF measured = {} THEN First(C)
     ELSE First({m \in measured : \A n \in measured : Blur(m) <= Blur(n)})

(* No frame more than three times as blurred as the sharpest competes. *)
SharpEnough(C) ==
  LET blurs == {Blur(n) : n \in C} \ {Unmeasured}
  IN IF blurs = {} THEN C
     ELSE {n \in C : Blur(n) # Unmeasured /\ \A b \in blurs : Blur(n) <= 3 * b}

Biggest(C) == First({m \in C : \A n \in C : Size(m) >= Size(n)})

(* The winner must beat the sharpest by the gain, given in percent. *)
Gains(C, pool, gain) ==
  IF 100 * Size(Biggest(pool)) < gain * Size(Sharpest(C)) THEN Sharpest(C)
  ELSE Biggest(pool)

Largest(C) == Gains(C, SharpEnough(C), 125)

Tallest(C) ==
  LET clear == {n \in SharpEnough(C) : ~clipFrames[n].edge}
  IN Gains(C, IF clear = {} THEN SharpEnough(C) ELSE clear, 110)

(* The middle of the clip's details, doubled so that it stays whole. *)
TwiceMedian ==
  LET N == Len(clipFrames)
      below(n) == {m \in 1..N : Detail(m) < Detail(n) \/ (Detail(m) = Detail(n) /\ m < n)}
      at(k) == Detail(CHOOSE n \in 1..N : Cardinality(below(n)) = k)
  IN IF N % 2 = 1 THEN 2 * at(N \div 2) ELSE at(N \div 2 - 1) + at(N \div 2)

\* Mutant: a frame at its clip's median counts as smeared.
SmearedHigh == {n \in 1..Len(clipFrames) : 2 * Detail(n) <= TwiceMedian}

(* smeared_frames(): under two fifths of the median of at least three frames. *)
Smeared ==
  IF Len(clipFrames) < 3 THEN {}
  ELSE {n \in 1..Len(clipFrames) : 10 * Detail(n) < 2 * TwiceMedian}

(* A preference holds when some candidates have it; otherwise all stay. *)
Preferring(C, P) == IF C \cap P = {} THEN C ELSE C \cap P

Hopefuls(preferFace) ==
  LET steady == Preferring(Confirmed, (1..Len(clipFrames)) \ Smeared)
  IN IF preferFace
     THEN Preferring(steady, {n \in steady : clipFrames[n].face /\ Size(n) # Unmeasured})
     ELSE steady

----------------------------------------------------------------------------

(* A frame is cut and scored while the next is being cut. *)
FrameCut(shot, answer) ==
  /\ clipAt = "cutting" /\ Len(clipFrames) < ClipFrames
  /\ clipFrames' = Append(clipFrames, shot)
  /\ frameScores' = Append(frameScores, answer)
  /\ UNCHANGED <<clipAt, picked>>

CuttingEnds ==
  /\ clipAt = "cutting" /\ clipFrames # <<>>
  /\ clipAt' = IF Scored # {} /\ Scored # DOMAIN frameScores THEN "rescoring" ELSE "choosing"
  /\ UNCHANGED <<clipFrames, frameScores, picked>>

(* Some answered: each frame that failed is asked for once more. *)
Rescored(again) ==
  /\ clipAt = "rescoring"
  /\ frameScores' = [n \in DOMAIN frameScores |->
                       IF FrameFailed(n) THEN again[n] ELSE frameScores[n]]
  /\ clipAt' = "choosing"
  /\ UNCHANGED <<clipFrames, picked>>

\* Mutant: one frame the scorer failed on lets the clip through.
OutageOfOne == Scored # DOMAIN frameScores

(* Only a scorer that answered for no frame lets one through unscored. *)
Outage == Scored = {}

PassesUnscored ==
  /\ clipAt = "choosing" /\ Outage
  /\ Decided("unscored", 1, "none")

(* Nobody confirmed: dropped, or for the hub its best frame is handed back. *)
NobodyConfirmed(keepBelow) ==
  /\ clipAt = "choosing" /\ ~Outage /\ Confirmed = {}
  /\ IF keepBelow THEN Decided("below", First(Scored), "score") ELSE Decided("drop", 0, "none")

PickedFrame(pick, preferFace) ==
  /\ clipAt = "choosing" /\ ~Outage /\ Confirmed # {}
  /\ LET C == Hopefuls(preferFace)
         boxed == \A n \in C : Size(n) # Unmeasured
         by == IF boxed THEN pick ELSE "sharpest"
     IN Decided("send",
          CASE by = "largest" -> Largest(C)
            [] by = "tallest" -> Tallest(C)
            [] by = "sharpest" -> Sharpest(C), by)

PickInit == clipAt = "cutting" /\ clipFrames = <<>> /\ frameScores = <<>> /\ picked = Undecided

PickNext ==
  \/ \E shot \in Shots, answer \in Scores \cup {NoAnswer} : FrameCut(shot, answer)
  \/ CuttingEnds
  \/ \E again \in [DOMAIN frameScores -> Scores \cup {NoAnswer}] : Rescored(again)
  \/ PassesUnscored
  \/ \E keepBelow \in BOOLEAN : NobodyConfirmed(keepBelow)
  \/ \E pick \in {"sharpest", "largest", "tallest"}, preferFace \in BOOLEAN :
       PickedFrame(pick, preferFace)

PickSpec == PickInit /\ [][PickNext]_pickVars

----------------------------------------------------------------------------
(* Properties *)

(* The clip ends as its frames deserve: it passes unscored only in an outage,  *)
(* is dropped only when some frame was looked at and none confirmed, and what  *)
(* is sent was confirmed, is not a smear of the camera's own motion while a    *)
(* confirmed steady frame exists, and was not preferred for its size to a      *)
(* subject it does not outgrow or one three times as sharp.                    *)
PickDeserved ==
  /\ picked.kind = "unscored" => \A n \in DOMAIN frameScores : FrameFailed(n)
  /\ picked.kind \in {"drop", "below"} =>
       Scored # {} /\ \A n \in Scored : frameScores[n] < Threshold
  /\ picked.kind = "send" =>
       /\ picked.image \in Confirmed
       /\ LET image == picked.image
              steady(n) == Len(clipFrames) < 3 \/ 5 * Detail(n) >= TwiceMedian
          IN /\ steady(image) \/ \A n \in Confirmed : ~steady(n)
             /\ \A n \in Confirmed :
                  (/\ picked.by \in {"largest", "tallest"} /\ n # image
                   /\ steady(n) = steady(image) /\ clipFrames[n].face = clipFrames[image].face
                   /\ Unmeasured \notin {Blur(n), Blur(image), Size(n)})
                  => Blur(image) <= 3 * Blur(n)

=============================================================================
