----------------------------- MODULE Outbox_proofs -----------------------------
(* Proofs about the outbox, for any number of incidents, captures, drains and   *)
(* crashes: its types, that a sidecar names a frame that is on disk, that a     *)
(* running drain keeps its frames, and that it keeps the promise of LateBox.    *)
EXTENDS OutboxPromise, FiniteSetTheorems, TLAPS

-----------------------------------------------------------------------------
(* Sidecars *)

LEMMA NoMetaIsNone == NoMeta \notin Sidecar
  BY OutboxAssumption DEF NoMeta, Sidecar

LEMMA ScoredSidecar ==
  ASSUME NEW m \in Sidecar, NEW sc \in Scores
  PROVE  [m EXCEPT !.score = sc] \in Sidecar /\ [m EXCEPT !.score = sc].ver = m.ver
  BY DEF Sidecar

LEMMA AnnouncedSidecar ==
  ASSUME NEW m \in Sidecar, NEW t \in Times
  PROVE  /\ [m EXCEPT !.announced = TRUE, !.startedAt = t, !.confirmed = FALSE] \in Sidecar
         /\ [m EXCEPT !.announced = TRUE, !.startedAt = t, !.confirmed = FALSE].ver = m.ver
  BY DEF Sidecar

LEMMA TakenBackSidecar ==
  ASSUME NEW m \in Sidecar
  PROVE  /\ [m EXCEPT !.announced = FALSE, !.startedAt = 0] \in Sidecar
         /\ [m EXCEPT !.announced = FALSE] \in Sidecar
<1>1. 0 \in Times BY OutboxAssumption DEF Times
<1> QED BY <1>1 DEF Sidecar

LEMMA ConfirmedSidecar ==
  ASSUME NEW m \in Sidecar
  PROVE  /\ [m EXCEPT !.confirmed = TRUE] \in Sidecar
         /\ [m EXCEPT !.confirmed = TRUE].ver = m.ver
         /\ [m EXCEPT !.announced = TRUE, !.confirmed = TRUE] \in Sidecar
  BY DEF Sidecar

LEMMA TriedSidecar ==
  ASSUME NEW m \in Sidecar, NEW n \in 0 .. MaxAttempts - 1
  PROVE  [m EXCEPT !.attempts = n] \in Sidecar /\ [m EXCEPT !.attempts = n].ver = m.ver
  BY DEF Sidecar

(* The sidecar of an incident that enters the box. *)
Fresh(v, t, sc) == [NoMeta EXCEPT !.ver = v, !.since = t, !.score = sc]

LEMMA FreshSidecar ==
  ASSUME NEW v \in Vers, NEW t \in Times, NEW sc \in Scores
  PROVE  /\ Fresh(v, t, sc) \in Sidecar
         /\ Fresh(v, t, sc).ver = v /\ Fresh(v, t, sc).announced = FALSE
<1> DEFINE Tries == 0 .. MaxAttempts - 1
           Loose == [ver : Int, since : Times, score : Scores, announced : BOOLEAN,
                     startedAt : Times, confirmed : BOOLEAN, attempts : Tries]
<1>1. NoMeta \in Loose /\ NoMeta.announced = FALSE
  BY OutboxAssumption DEF NoMeta, Times, Scores
<1>2. Sidecar = [ver : Vers, since : Times, score : Scores, announced : BOOLEAN,
                 startedAt : Times, confirmed : BOOLEAN, attempts : Tries]
  BY DEF Sidecar
<1> HIDE DEF Tries
<1>3. ASSUME NEW m \in Loose
      PROVE  LET n == [m EXCEPT !.ver = v, !.since = t, !.score = sc]
             IN n \in Sidecar /\ n.ver = v /\ n.announced = m.announced
  BY <1>2
<1> QED BY <1>1, <1>3 DEF Fresh

LEMMA CapturedSidecar ==
  ASSUME TypeOK, NEW k \in Keys, NEW v \in Vers, NEW sc \in Scores
  PROVE  Captured(k, v, sc) \in Sidecar /\ Captured(k, v, sc).ver = v
<1>1. CASE meta[k] = NoMeta
  <2>1. clock \in Times BY DEF TypeOK
  <2>2. Captured(k, v, sc) = Fresh(v, clock, sc)
    BY <1>1 DEF Captured, Fresh
  <2>3. Fresh(v, clock, sc) \in Sidecar /\ Fresh(v, clock, sc).ver = v
    BY <2>1, FreshSidecar
  <2> QED BY <2>2, <2>3
<1>2. CASE meta[k] # NoMeta
  <2>1. meta[k] \in Sidecar BY <1>2 DEF TypeOK
  <2> QED BY <1>2, <2>1 DEF Captured, Sidecar
<1> QED BY <1>1, <1>2

-----------------------------------------------------------------------------
(* Types *)

(* What a drain has at hand it has read from the box, and it has nothing at     *)
(* hand before it has sorted what it read.                                     *)
HandInv ==
    /\ ready \subseteq InSnap
    /\ todo \subseteq ready /\ batch \subseteq ready /\ late \subseteq ready
    /\ stage \in {"idle", "sort"} => ready = {}
    /\ stage \in {"idle", "sort", "score", "decide"} => batch = {} /\ late = {}

TypeInv == TypeOK /\ HandInv

LEMMA TypeInvInit == Init => TypeInv
<1> SUFFICES ASSUME Init PROVE TypeInv
  OBVIOUS
<1>1. 0 \in Times /\ 0 \in 0 .. MaxSends /\ 0 \in 0 .. MaxCaptures /\ 0 \in 0 .. MaxCrashes
  BY OutboxAssumption DEF Times
<1>2. TypeOK
  BY <1>1 DEF Init, TypeOK, Stages
<1>3. HandInv
  BY DEF Init, HandInv, InSnap
<1> QED BY <1>2, <1>3 DEF TypeInv

(* A drain works on entries of its copy. *)
LEMMA InHandSidecar ==
  ASSUME TypeInv, NEW k \in ready
  PROVE  k \in Keys /\ snap[k] \in Sidecar
  BY DEF TypeInv, TypeOK, HandInv, InSnap

LEMMA UpdateType ==
  ASSUME TypeInv, NEW k \in Keys, NEW rec, Update(k, rec), meta[k] # NoMeta => rec \in Sidecar
  PROVE  meta' \in [Keys -> Sidecar \cup {NoMeta}]
  BY DEF TypeInv, TypeOK, Update

LEMMA FramesType ==
  ASSUME TypeInv, NEW gone
  PROVE  (retired \cup Kept(gone)) \subseteq Keys \X Vers
  BY DEF TypeInv, TypeOK, Kept

LEMMA RemoveType ==
  ASSUME TypeInv, NEW S, Remove(S)
  PROVE  /\ meta' \in [Keys -> Sidecar \cup {NoMeta}]
         /\ frames' \subseteq Keys \X Vers /\ retired' \subseteq Keys \X Vers
<1> DEFINE gone == UNION {FramesOf(meta, k) : k \in S}
<1>1. /\ meta' = [k \in Keys |-> IF k \in S THEN NoMeta ELSE meta[k]]
      /\ frames' = frames \ (gone \ Kept(gone)) /\ retired' = retired \cup Kept(gone)
  BY DEF Remove, Retire
<1> HIDE DEF gone
<1>2. retired' \subseteq Keys \X Vers
  BY <1>1, FramesType
<1> QED BY <1>1, <1>2 DEF TypeInv, TypeOK

LEMMA WrittenType ==
  ASSUME TypeInv, NEW k \in Keys, NEW v \in Vers, NEW sc \in Scores
  PROVE  Written(k, v, sc) \in [Keys -> Sidecar \cup {NoMeta}]
  BY CapturedSidecar DEF TypeInv, TypeOK, Written

LEMMA EntersType ==
  ASSUME TypeInv, NEW k \in Keys, Enters(k)
  PROVE  stays' \in [Keys -> Nat]
  BY DEF TypeInv, TypeOK, Enters

LEMMA CaptureType ==
  ASSUME TypeInv, NEW k \in Keys, NEW v \in Vers, NEW sc \in Scores, Capture(k, v, sc)
  PROVE  TypeInv'
<1> DEFINE m    == Written(k, v, sc)
           out  == Victims(m, Entries \cup {k})
           old  == IF meta[k] = NoMeta THEN {} ELSE {Image(meta, k)}
           gone == old \cup UNION {FramesOf(m, j) : j \in out}
<1>1. /\ captures < MaxCaptures /\ captures' = captures + 1 /\ Enters(k)
      /\ meta' = [j \in Keys |-> IF j \in out THEN NoMeta ELSE m[j]]
      /\ frames' = (frames \cup {<<k, v>>}) \ (gone \ Kept(gone))
      /\ retired' = retired \cup Kept(gone)
      /\ UNCHANGED <<clock, stage, snap, borrowed, ready, batch, todo, late, sends, crashes,
                     heard, seen>>
  BY DEF Capture, Retire
<1>2. m \in [Keys -> Sidecar \cup {NoMeta}]
  BY WrittenType
<1> HIDE DEF m, out, gone
<1>3. retired' \subseteq Keys \X Vers
  BY <1>1, FramesType
<1>4. stays' \in [Keys -> Nat]
  BY <1>1, EntersType
<1>5. captures' \in 0 .. MaxCaptures
  BY <1>1, OutboxAssumption DEF TypeInv, TypeOK
<1>6. TypeOK'
  BY <1>1, <1>2, <1>3, <1>4, <1>5 DEF TypeInv, TypeOK
<1>7. HandInv'
  BY <1>1 DEF TypeInv, HandInv, InSnap
<1> QED BY <1>6, <1>7 DEF TypeInv

LEMMA MemoryLostType ==
  ASSUME TypeInv, MemoryLost
  PROVE  /\ HandInv'
         /\ snap' \in [Keys -> Sidecar \cup {NoMeta}] /\ stage' \in Stages
         /\ borrowed' = {} /\ retired' = {} /\ ready' = {} /\ todo' = {} /\ batch' = {}
         /\ late' = {} /\ sends' \in 0 .. MaxSends
  BY OutboxAssumption DEF MemoryLost, HandInv, InSnap, Stages

LEMMA CrashType ==
  ASSUME TypeInv, Crash PROVE TypeInv'
<1>1. crashes' \in 0 .. MaxCrashes
  BY OutboxAssumption DEF Crash, TypeInv, TypeOK
<1> QED BY <1>1, MemoryLostType DEF Crash, TypeInv, TypeOK, diskVars, toldVars

LEMMA CrashInCaptureType ==
  ASSUME TypeInv, NEW k \in Keys, NEW v \in Vers, NEW sc \in Scores, CrashInCapture(k, v, sc)
  PROVE  TypeInv'
<1>1. crashes' \in 0 .. MaxCrashes /\ captures' \in 0 .. MaxCaptures
  BY OutboxAssumption DEF CrashInCapture, TypeInv, TypeOK
<1>2. meta' \in [Keys -> Sidecar \cup {NoMeta}] /\ stays' \in [Keys -> Nat]
  BY WrittenType, EntersType DEF CrashInCapture, TypeInv, TypeOK
<1> QED BY <1>1, <1>2, MemoryLostType DEF CrashInCapture, TypeInv, TypeOK

LEMMA CrashInRemoveType ==
  ASSUME TypeInv, NEW k \in Keys, CrashInRemove(k) PROVE TypeInv'
<1>1. crashes' \in 0 .. MaxCrashes
  BY OutboxAssumption DEF CrashInRemove, TypeInv, TypeOK
<1> QED BY <1>1, MemoryLostType DEF CrashInRemove, TypeInv, TypeOK, toldVars

LEMMA DrainBeginsType ==
  ASSUME TypeInv, DrainBegins PROVE TypeInv'
<1>1. borrowed' \subseteq Keys \X Vers
  <2>1. \A k \in Entries : k \in Keys /\ meta[k].ver \in Vers
    BY DEF TypeInv, TypeOK, Entries, Sidecar
  <2> QED BY <2>1 DEF DrainBegins, Image
<1>2. HandInv'
  BY DEF DrainBegins, TypeInv, HandInv, InSnap
<1> QED BY <1>1, <1>2 DEF DrainBegins, TypeInv, TypeOK, Stages, diskVars, toldVars

LEMMA SortType ==
  ASSUME TypeInv, Sort PROVE TypeInv'
<1> DEFINE old == {k \in InSnap : clock - snap[k].since > MaxAge}
           orphans == {f \in frames \ borrowed : \A k \in Entries : f # Image(meta, k)}
           gone == UNION {FramesOf(meta, k) : k \in old}
<1>1. /\ stage = "sort"
      /\ meta' = [k \in Keys |-> IF k \in old THEN NoMeta ELSE meta[k]]
      /\ frames' \subseteq frames
      /\ retired' = retired \cup Kept(gone)
      /\ ready' \subseteq InSnap /\ todo' \subseteq ready' /\ stage' \in {"release", "score"}
      /\ UNCHANGED <<clock, snap, borrowed, batch, late, sends, captures, crashes, toldVars>>
  BY DEF Sort, Retire
<1> HIDE DEF old, gone
<1>2. retired' \subseteq Keys \X Vers
  BY <1>1, FramesType
<1>3. InSnap \subseteq Keys /\ InSnap' = InSnap
  BY <1>1 DEF InSnap
<1>4. TypeOK'
  BY <1>1, <1>2, <1>3 DEF TypeInv, TypeOK, Stages, toldVars
<1>5. HandInv'
  BY <1>1, <1>3 DEF TypeInv, HandInv
<1> QED BY <1>4, <1>5 DEF TypeInv

LEMMA ScoreType ==
  ASSUME TypeInv, NEW k \in Keys, Score(k) PROVE TypeInv'
<1>1. k \in ready
  BY DEF Score, Oldest, TypeInv, HandInv
<1>2. PICK sc \in {"person", "nobody"} :
         /\ snap' = [snap EXCEPT ![k].score = sc]
         /\ Update(k, [meta[k] EXCEPT !.score = sc])
  BY DEF Score
<1>3. meta' \in [Keys -> Sidecar \cup {NoMeta}]
  <2>1. meta[k] # NoMeta => [meta[k] EXCEPT !.score = sc] \in Sidecar
    BY ScoredSidecar DEF TypeInv, TypeOK, Scores
  <2> QED BY <1>2, <2>1, UpdateType
<1>4. [snap[k] EXCEPT !.score = sc] \in Sidecar
  BY <1>1, InHandSidecar, ScoredSidecar DEF Scores
<1>5. snap' \in [Keys -> Sidecar \cup {NoMeta}] /\ InSnap' = InSnap
  <2>1. snap' = [snap EXCEPT ![k] = [snap[k] EXCEPT !.score = sc]]
    BY <1>2
  <2> QED BY <2>1, <1>1, <1>4, InHandSidecar, NoMetaIsNone DEF TypeInv, TypeOK, InSnap
<1>6. TypeOK'
  BY <1>3, <1>5 DEF Score, TypeInv, TypeOK, Stages, toldVars
<1>7. HandInv'
  BY <1>5 DEF Score, TypeInv, HandInv
<1> QED BY <1>6, <1>7 DEF TypeInv

LEMMA DecideType ==
  ASSUME TypeInv, Decide PROVE TypeInv'
<1> DEFINE decided == {k \in ready : Decidable(k)}
           fresh   == {k \in decided : ~snap[k].announced \/ Unconfirmed(k)}
           phone   == Planned(decided)
<1>1. /\ stage = "decide"
      /\ snap' = [k \in Keys |-> IF k \in fresh THEN [snap[k] EXCEPT !.announced = FALSE]
                                               ELSE snap[k]]
      /\ ready' = decided /\ late' = phone /\ batch' = fresh
      /\ stage' \in {"release", "announce", "review"} /\ todo' \subseteq decided
      /\ UNCHANGED <<clock, diskVars, borrowed, retired, sends, captures, crashes, toldVars>>
  BY DEF Decide
<1>2. fresh \subseteq decided /\ decided \subseteq ready /\ phone \subseteq decided
  BY DEF Planned
<1> HIDE DEF fresh, decided, phone
<1>3. \A k \in fresh : k \in Keys /\ [snap[k] EXCEPT !.announced = FALSE] \in Sidecar
  BY <1>2, InHandSidecar, TakenBackSidecar
<1>4. snap' \in [Keys -> Sidecar \cup {NoMeta}]
  BY <1>1, <1>3 DEF TypeInv, TypeOK
<1>5. InSnap \subseteq InSnap'
  BY <1>1, <1>3, NoMetaIsNone DEF InSnap
<1>6. TypeOK'
  BY <1>1, <1>2, <1>4 DEF TypeInv, TypeOK, Stages, diskVars, toldVars
<1>7. HandInv'
  BY <1>1, <1>2, <1>5 DEF TypeInv, HandInv
<1> QED BY <1>6, <1>7 DEF TypeInv

LEMMA TakenBackType ==
  ASSUME TypeInv, NEW S
  PROVE  TakenBack(S) \in [Keys -> Sidecar \cup {NoMeta}]
<1>1. \A j \in Keys : meta[j] # NoMeta =>
        [meta[j] EXCEPT !.announced = FALSE, !.startedAt = 0] \in Sidecar
  BY TakenBackSidecar DEF TypeInv, TypeOK
<1> QED BY <1>1 DEF TypeInv, TypeOK, TakenBack

LEMMA AnnounceType ==
  ASSUME TypeInv, NEW k \in Keys, Announce(k) PROVE TypeInv'
<1>1. meta' \in [Keys -> Sidecar \cup {NoMeta}]
  <2>1. meta[k] # NoMeta =>
          [meta[k] EXCEPT !.announced = TRUE, !.startedAt = clock, !.confirmed = FALSE] \in Sidecar
    BY AnnouncedSidecar DEF TypeInv, TypeOK
  <2> QED BY <2>1, UpdateType, TakenBackType DEF Announce
<1>2. /\ stage = "announce" /\ stage' \in {"announce", "text", "release"} /\ todo' \subseteq todo
      /\ UNCHANGED <<clock, frames, snap, borrowed, retired, ready, batch, late, sends,
                     captures, crashes, toldVars>>
  BY DEF Announce
<1> QED BY <1>1, <1>2 DEF TypeInv, TypeOK, HandInv, InSnap, Stages, toldVars

LEMMA SummarySentType ==
  ASSUME TypeInv, SummarySent PROVE TypeInv'
<1>1. \A k \in batch : k \in Keys
                       /\ [snap[k] EXCEPT !.announced = TRUE, !.confirmed = TRUE] \in Sidecar
  BY InHandSidecar, ConfirmedSidecar DEF TypeInv, HandInv
<1>2. snap' \in [Keys -> Sidecar \cup {NoMeta}] /\ InSnap \subseteq InSnap'
  <2> DEFINE told(k) == [snap[k] EXCEPT !.announced = TRUE, !.confirmed = TRUE]
  <2>1. snap' = [k \in Keys |-> IF k \in batch THEN told(k) ELSE snap[k]]
    BY DEF SummarySent
  <2>2. \A k \in batch : told(k) \in Sidecar
    BY <1>1
  <2> HIDE DEF told
  <2> QED BY <2>1, <2>2, NoMetaIsNone DEF TypeInv, TypeOK, InSnap
<1>3. heard' \in [Keys -> Nat]
  <2>1. heard' = [k \in Keys |-> IF k \in batch THEN heard[k] + 1 ELSE heard[k]]
    BY DEF SummarySent
  <2>2. heard \in [Keys -> Nat]
    BY DEF TypeInv, TypeOK
  <2> QED BY <2>1, <2>2
<1> QED BY <1>2, <1>3 DEF SummarySent, TypeInv, TypeOK, HandInv, Stages, diskVars

LEMMA SummaryFailsType ==
  ASSUME TypeInv, SummaryFails PROVE TypeInv'
  BY TakenBackType DEF SummaryFails, TypeInv, TypeOK, HandInv, InSnap, Stages, toldVars

LEMMA ConfirmType ==
  ASSUME TypeInv, NEW k \in Keys, Confirm(k) PROVE TypeInv'
<1>1. meta' \in [Keys -> Sidecar \cup {NoMeta}]
  <2>1. meta[k] # NoMeta => [meta[k] EXCEPT !.confirmed = TRUE] \in Sidecar
    BY ConfirmedSidecar DEF TypeInv, TypeOK
  <2> QED BY <2>1, UpdateType DEF Confirm
<1>2. /\ stage = "confirm" /\ stage' \in {"confirm", "review"} /\ todo' \subseteq ready
      /\ UNCHANGED <<clock, frames, snap, borrowed, retired, ready, batch, late, sends,
                     captures, crashes, toldVars>>
  BY DEF Confirm, TypeInv, HandInv
<1> QED BY <1>1, <1>2 DEF TypeInv, TypeOK, HandInv, InSnap, Stages, toldVars

LEMMA ReviewType ==
  ASSUME TypeInv, NEW k \in Keys, Review(k) PROVE TypeInv'
  BY RemoveType DEF Review, TypeInv, TypeOK, HandInv, InSnap, toldVars

LEMMA PhotoSentType ==
  ASSUME TypeInv, NEW k \in Keys, PhotoSent(k) PROVE TypeInv'
  BY OutboxAssumption
  DEF PhotoSent, TypeInv, TypeOK, HandInv, InSnap, Stages, diskVars

LEMMA DeliveredType ==
  ASSUME TypeInv, NEW k \in Keys, Delivered(k) PROVE TypeInv'
  BY RemoveType DEF Delivered, TypeInv, TypeOK, HandInv, InSnap, Stages, toldVars

LEMMA PhotoFailsType ==
  ASSUME TypeInv, NEW k \in Keys, PhotoFails(k) PROVE TypeInv'
<1>1. k \in ready /\ sends' \in 0 .. MaxSends
  BY OutboxAssumption DEF PhotoFails, Oldest, TypeInv, TypeOK, HandInv
<1>2. CASE LastAttempt(k) /\ Remove({k}) /\ todo' = todo \ {k} /\ UNCHANGED <<stage, snap>>
  BY <1>1, <1>2, RemoveType DEF PhotoFails, TypeInv, TypeOK, HandInv, InSnap, toldVars
<1>3. CASE /\ ~LastAttempt(k)
           /\ snap' = [snap EXCEPT ![k].attempts = @ + 1]
           /\ Update(k, [meta[k] EXCEPT !.attempts = snap[k].attempts + 1])
           /\ stage' = "release" /\ UNCHANGED <<frames, retired, todo>>
  <2>1. snap[k] \in Sidecar /\ snap[k].attempts \in 0 .. MaxAttempts - 1
    BY <1>1, InHandSidecar DEF Sidecar
  <2>2. snap[k].attempts + 1 \in 0 .. MaxAttempts - 1
    BY <1>3, <2>1, OutboxAssumption DEF LastAttempt
  <2>3. [snap[k] EXCEPT !.attempts = snap[k].attempts + 1] \in Sidecar
    BY <2>1, <2>2, TriedSidecar
  <2>4. meta[k] # NoMeta => [meta[k] EXCEPT !.attempts = snap[k].attempts + 1] \in Sidecar
    BY <2>2, TriedSidecar DEF TypeInv, TypeOK
  <2>5. meta' \in [Keys -> Sidecar \cup {NoMeta}]
    BY <1>3, <2>4, UpdateType
  <2>6. snap' = [snap EXCEPT ![k] = [snap[k] EXCEPT !.attempts = snap[k].attempts + 1]]
    BY <1>3
  <2>7. snap' \in [Keys -> Sidecar \cup {NoMeta}] /\ InSnap' = InSnap
    BY <2>1, <2>3, <2>6, NoMetaIsNone DEF TypeInv, TypeOK, InSnap
  <2> QED BY <1>1, <1>3, <2>5, <2>7 DEF PhotoFails, TypeInv, TypeOK, HandInv, Stages, toldVars
<1> QED BY <1>2, <1>3 DEF PhotoFails

LEMMA TypeInvStep == TypeInv /\ [Next]_vars => TypeInv'
<1> SUFFICES ASSUME TypeInv, [Next]_vars PROVE TypeInv'
  OBVIOUS
<1>1. CASE Tick
  BY <1>1, OutboxAssumption
  DEF Tick, TypeInv, TypeOK, HandInv, InSnap, Times, diskVars, drainVars, toldVars
<1>2. ASSUME NEW k \in Keys, Resolve(k) PROVE TypeInv'
  BY <1>2, RemoveType DEF Resolve, TypeInv, TypeOK, HandInv, InSnap, toldVars
<1>3. CASE ScoringEnds \/ DrainStops \/ ReviewEnds
  BY <1>3
  DEF ScoringEnds, DrainStops, ReviewEnds, TypeInv, TypeOK, HandInv, InSnap, Stages,
      diskVars, toldVars
<1>4. CASE DrainEnds
  BY <1>4, MemoryLostType DEF DrainEnds, TypeInv, TypeOK, toldVars
<1>5. CASE UNCHANGED vars
  BY <1>5 DEF vars, diskVars, drainVars, toldVars, TypeInv, TypeOK, HandInv, InSnap
<1> QED BY <1>1, <1>2, <1>3, <1>4, <1>5, CaptureType, DrainBeginsType, SortType, DecideType,
           ScoreType, AnnounceType, ConfirmType, ReviewType, SummarySentType,
           SummaryFailsType, PhotoSentType, DeliveredType, PhotoFailsType, CrashType,
           CrashInCaptureType, CrashInRemoveType
        DEF Next

(* Every variable has its type: counters stay within their limits and sidecars  *)
(* are whole, whichever of the box's operations meet (outbox.Outbox).          *)
THEOREM OutboxTypeCorrect == Spec => []TypeOK
<1>1. TypeInv => TypeOK BY DEF TypeInv
<1> QED BY <1>1, TypeInvInit, TypeInvStep, PTL DEF Spec

-----------------------------------------------------------------------------
(* The directory *)

ImagesStay == \A k \in Entries : Image(meta, k) \notin retired

(* A frame that is to be unlinked at the end of a drain is no entry's frame.    *)
DirInv == SidecarHasFrame /\ BorrowedOnDisk /\ ImagesStay
DiskInv == TypeInv /\ DirInv

LEMMA FramesOfOwn ==
  ASSUME NEW m, NEW S, NEW k, NEW v, <<k, v>> \in UNION {FramesOf(m, j) : j \in S}
  PROVE  k \in S
  BY DEF FramesOf, Image

LEMMA RemoveDir ==
  ASSUME DiskInv, NEW S, Remove(S), borrowed' = borrowed PROVE DirInv'
<1> DEFINE gone == UNION {FramesOf(meta, k) : k \in S}
<1>1. /\ meta' = [k \in Keys |-> IF k \in S THEN NoMeta ELSE meta[k]]
      /\ frames' = frames \ (gone \ Kept(gone)) /\ retired' = retired \cup Kept(gone)
  BY DEF Remove, Retire
<1>2. \A k, v : <<k, v>> \in gone => k \in S
  BY FramesOfOwn
<1> HIDE DEF gone
<1>3. ASSUME NEW k \in Entries'
      PROVE  Image(meta', k) \in frames' /\ Image(meta', k) \notin retired'
  <2>1. k \in Entries /\ k \notin S /\ meta'[k] = meta[k]
    BY <1>1 DEF Entries
  <2>2. Image(meta', k) = Image(meta, k) /\ Image(meta, k) \notin gone
    BY <1>2, <2>1 DEF Image
  <2> QED BY <1>1, <2>1, <2>2 DEF DiskInv, DirInv, SidecarHasFrame, ImagesStay, Kept
<1>4. BorrowedOnDisk'
  BY <1>1 DEF DiskInv, DirInv, BorrowedOnDisk, Kept
<1> QED BY <1>3, <1>4 DEF DirInv, SidecarHasFrame, ImagesStay

SameFrames == \A k \in Keys : (meta'[k] = NoMeta <=> meta[k] = NoMeta) /\ meta'[k].ver = meta[k].ver

LEMMA SameFramesDir ==
  ASSUME DirInv, SameFrames, UNCHANGED <<frames, borrowed, retired>> PROVE DirInv'
<1>1. Entries' = Entries /\ \A k \in Entries : Image(meta', k) = Image(meta, k)
  BY DEF SameFrames, Entries, Image
<1> QED BY <1>1 DEF DirInv, SidecarHasFrame, BorrowedOnDisk, ImagesStay

LEMMA UpdateSameFrames ==
  ASSUME TypeInv, NEW k \in Keys, NEW rec, Update(k, rec),
         meta[k] # NoMeta => rec # NoMeta /\ rec.ver = meta[k].ver
  PROVE  SameFrames
  BY DEF TypeInv, TypeOK, Update, SameFrames

LEMMA TakenBackSameFrames ==
  ASSUME TypeInv, NEW S, meta' = TakenBack(S) PROVE SameFrames
<1>1. ASSUME NEW j \in Keys, meta[j] # NoMeta
      PROVE  LET m == [meta[j] EXCEPT !.announced = FALSE, !.startedAt = 0]
             IN m # NoMeta /\ m.ver = meta[j].ver
  <2>1. meta[j] \in Sidecar BY <1>1 DEF TypeInv, TypeOK
  <2>2. [meta[j] EXCEPT !.announced = FALSE, !.startedAt = 0].ver = meta[j].ver
    BY <2>1 DEF Sidecar
  <2> QED BY <2>1, <2>2, TakenBackSidecar, NoMetaIsNone
<1> QED BY <1>1 DEF TakenBack, SameFrames

(* The name a capture takes is no frame that is kept for a drain, and the old    *)
(* frame of the entry has another one.                                         *)
LEMMA FreeNameIsFree ==
  ASSUME DiskInv, NEW k \in Keys, NEW v \in Vers, FreeName(k, v)
  PROVE  <<k, v>> \notin borrowed \cup retired /\ (meta[k] # NoMeta => Image(meta, k) # <<k, v>>)
  BY DEF DiskInv, DirInv, SidecarHasFrame, FreeName, Entries

LEMMA CaptureDir ==
  ASSUME DiskInv, NEW k \in Keys, NEW v \in Vers, NEW sc \in Scores, Capture(k, v, sc)
  PROVE  DirInv'
<1> DEFINE m    == Written(k, v, sc)
           out  == Victims(m, Entries \cup {k})
           old  == IF meta[k] = NoMeta THEN {} ELSE {Image(meta, k)}
           ofOut == UNION {FramesOf(m, j) : j \in out}
           gone == old \cup ofOut
<1>1. /\ meta' = [j \in Keys |-> IF j \in out THEN NoMeta ELSE m[j]]
      /\ frames' = (frames \cup {<<k, v>>}) \ (gone \ Kept(gone))
      /\ retired' = retired \cup Kept(gone) /\ borrowed' = borrowed /\ FreeName(k, v)
  BY DEF Capture, Retire
<1>2. \A j, w : <<j, w>> \in ofOut => j \in out
  BY FramesOfOwn
<1>3. /\ m[k].ver = v
      /\ \A j \in Keys : j # k => m[j] = meta[j]
  BY CapturedSidecar DEF Written, DiskInv, TypeInv, TypeOK
<1>4. \A j, w : <<j, w>> \in old => j = k /\ w # v
  BY <1>1, FreeNameIsFree DEF Image
<1> HIDE DEF m, out, old, ofOut
<1>5. ASSUME NEW j \in Entries'
      PROVE  Image(meta', j) \in frames' /\ Image(meta', j) \notin retired'
  <2>1. j \in Keys /\ j \notin out /\ meta'[j] = m[j] /\ meta'[j] # NoMeta
    BY <1>1 DEF Entries
  <2>2. Image(meta', j) \notin gone
    BY <1>2, <1>3, <1>4, <2>1 DEF Image
  <2>3. Image(meta', j) \in frames \cup {<<k, v>>} /\ Image(meta', j) \notin retired
    <3>1. CASE j = k
      BY <1>1, <1>3, <2>1, <3>1, FreeNameIsFree DEF Image
    <3>2. CASE j # k
      <4>1. j \in Entries /\ Image(meta', j) = Image(meta, j)
        BY <1>3, <2>1, <3>2 DEF Entries, Image
      <4> QED BY <4>1 DEF DiskInv, DirInv, SidecarHasFrame, ImagesStay
    <3> QED BY <3>1, <3>2
  <2> QED BY <1>1, <2>2, <2>3 DEF Kept
<1>6. BorrowedOnDisk'
  BY <1>1 DEF DiskInv, DirInv, BorrowedOnDisk, Kept
<1> QED BY <1>5, <1>6 DEF DirInv, SidecarHasFrame, ImagesStay

LEMMA SortDir ==
  ASSUME DiskInv, Sort PROVE DirInv'
<1> DEFINE old == {k \in InSnap : clock - snap[k].since > MaxAge}
           orphans == {f \in frames \ borrowed : \A k \in Entries : f # Image(meta, k)}
           gone == UNION {FramesOf(meta, k) : k \in old}
<1>1. /\ meta' = [k \in Keys |-> IF k \in old THEN NoMeta ELSE meta[k]]
      /\ \E swept \in {{}, orphans} : frames' = frames \ (swept \cup (gone \ Kept(gone)))
      /\ retired' = retired \cup Kept(gone) /\ borrowed' = borrowed
  BY DEF Sort, Retire
<1>2. \A k, v : <<k, v>> \in gone => k \in old
  BY FramesOfOwn
<1>3. \A k \in Entries : Image(meta, k) \notin orphans
  OBVIOUS
<1>4. orphans \cap borrowed = {}
  OBVIOUS
<1> HIDE DEF old, orphans, gone
<1>5. ASSUME NEW k \in Entries'
      PROVE  Image(meta', k) \in frames' /\ Image(meta', k) \notin retired'
  <2>1. k \in Entries /\ k \notin old /\ meta'[k] = meta[k]
    BY <1>1 DEF Entries
  <2>2. Image(meta', k) = Image(meta, k) /\ Image(meta, k) \notin gone
    BY <1>2, <2>1 DEF Image
  <2> QED BY <1>1, <1>3, <2>1, <2>2 DEF DiskInv, DirInv, SidecarHasFrame, ImagesStay, Kept
<1>6. BorrowedOnDisk'
  BY <1>1, <1>4 DEF DiskInv, DirInv, BorrowedOnDisk, Kept
<1> QED BY <1>5, <1>6 DEF DirInv, SidecarHasFrame, ImagesStay

(* After a crash nothing is borrowed and nothing waits to be unlinked. *)
LEMMA CrashDir ==
  ASSUME DiskInv, MemoryLost, frames \subseteq frames',
         \A k \in Entries' : Image(meta', k) \in frames'
  PROVE  DirInv'
  BY DEF MemoryLost, DirInv, SidecarHasFrame, BorrowedOnDisk, ImagesStay

LEMMA CrashInCaptureDir ==
  ASSUME DiskInv, NEW k \in Keys, NEW v \in Vers, NEW sc \in Scores, CrashInCapture(k, v, sc)
  PROVE  DirInv'
<1>1. CASE UNCHANGED meta
  BY <1>1, CrashDir DEF CrashInCapture, DiskInv, DirInv, SidecarHasFrame, Entries, Image
<1>2. CASE meta' = Written(k, v, sc)
  <2>1. ASSUME NEW j \in Entries' PROVE Image(meta', j) \in frames'
    <3>1. CASE j = k
      BY <1>2, <3>1, CapturedSidecar
      DEF CrashInCapture, Written, Image, DiskInv, TypeInv, TypeOK
    <3>2. CASE j # k
      <4>1. j \in Entries /\ Image(meta', j) = Image(meta, j)
        BY <1>2, <3>2 DEF Written, Entries, Image, DiskInv, TypeInv, TypeOK
      <4> QED BY <4>1 DEF CrashInCapture, DiskInv, DirInv, SidecarHasFrame
    <3> QED BY <3>1, <3>2
  <2> QED BY <2>1, CrashDir DEF CrashInCapture
<1> QED BY <1>1, <1>2 DEF CrashInCapture

LEMMA DirInvStep ==
  ASSUME DiskInv, [Next]_vars PROVE DirInv'
<1> USE DEF DiskInv
<1>1. CASE Tick \/ ScoringEnds \/ DrainStops \/ Decide \/ SummarySent \/ ReviewEnds
           \/ (\E k \in Keys : PhotoSent(k)) \/ UNCHANGED vars
  <2>1. UNCHANGED <<meta, frames, borrowed, retired>>
    BY <1>1
    DEF Tick, ScoringEnds, DrainStops, Decide, SummarySent, ReviewEnds, PhotoSent, vars,
        diskVars, drainVars
  <2> QED BY <2>1, SameFramesDir DEF SameFrames
<1>2. ASSUME NEW k \in Keys, Resolve(k) \/ Review(k) \/ Delivered(k) PROVE DirInv'
  <2>1. Remove({k}) /\ borrowed' = borrowed
    BY <1>2 DEF Resolve, Review, Delivered
  <2> QED BY <2>1, RemoveDir
<1>3. CASE DrainBegins
  <2>1. /\ meta' = meta /\ frames' = frames /\ retired' = retired
        /\ borrowed' = {Image(meta, k) : k \in Entries}
    BY <1>3 DEF DrainBegins, diskVars
  <2> QED BY <2>1 DEF DirInv, SidecarHasFrame, BorrowedOnDisk, ImagesStay, Entries, Image
<1>4. ASSUME NEW k \in Keys, Score(k) PROVE DirInv'
  <2>1. PICK sc \in Scores : Update(k, [meta[k] EXCEPT !.score = sc])
    BY <1>4 DEF Score, Scores
  <2>2. meta[k] # NoMeta => LET m == [meta[k] EXCEPT !.score = sc]
                            IN m # NoMeta /\ m.ver = meta[k].ver
    BY ScoredSidecar, NoMetaIsNone DEF TypeInv, TypeOK
  <2> QED BY <1>4, <2>1, <2>2, UpdateSameFrames, SameFramesDir DEF Score
<1>5. ASSUME NEW k \in Keys, Announce(k) PROVE DirInv'
  <2>1. meta[k] # NoMeta =>
          LET m == [meta[k] EXCEPT !.announced = TRUE, !.startedAt = clock, !.confirmed = FALSE]
          IN m # NoMeta /\ m.ver = meta[k].ver
    <3>1. clock \in Times /\ (meta[k] # NoMeta => meta[k] \in Sidecar)
      BY DEF TypeInv, TypeOK
    <3> QED BY <3>1, AnnouncedSidecar, NoMetaIsNone
  <2>2. SameFrames
    BY <1>5, <2>1, UpdateSameFrames, TakenBackSameFrames DEF Announce
  <2> QED BY <1>5, <2>2, SameFramesDir DEF Announce
<1>6. CASE SummaryFails
  BY <1>6, TakenBackSameFrames, SameFramesDir DEF SummaryFails
<1>7. ASSUME NEW k \in Keys, Confirm(k) PROVE DirInv'
  <2>1. meta[k] # NoMeta => LET m == [meta[k] EXCEPT !.confirmed = TRUE]
                            IN m # NoMeta /\ m.ver = meta[k].ver
    BY ConfirmedSidecar, NoMetaIsNone DEF TypeInv, TypeOK
  <2> QED BY <1>7, <2>1, UpdateSameFrames, SameFramesDir DEF Confirm
<1>8. ASSUME NEW k \in Keys, PhotoFails(k) PROVE DirInv'
  <2>1. CASE Remove({k})
    BY <1>8, <2>1, RemoveDir DEF PhotoFails
  <2>2. CASE /\ ~LastAttempt(k)
             /\ Update(k, [meta[k] EXCEPT !.attempts = snap[k].attempts + 1])
             /\ UNCHANGED <<frames, retired>>
    <3>1. snap[k].attempts + 1 \in 0 .. MaxAttempts - 1
      <4>1. k \in ready BY <1>8 DEF PhotoFails, Oldest, TypeInv, HandInv
      <4>2. snap[k].attempts \in 0 .. MaxAttempts - 1
        BY <4>1, InHandSidecar DEF Sidecar
      <4> QED BY <2>2, <4>2, OutboxAssumption DEF LastAttempt
    <3>2. meta[k] # NoMeta => LET m == [meta[k] EXCEPT !.attempts = snap[k].attempts + 1]
                              IN m # NoMeta /\ m.ver = meta[k].ver
      BY <3>1, TriedSidecar, NoMetaIsNone DEF TypeInv, TypeOK
    <3> QED BY <1>8, <2>2, <3>2, UpdateSameFrames, SameFramesDir DEF PhotoFails
  <2> QED BY <1>8, <2>1, <2>2 DEF PhotoFails
<1>9. CASE DrainEnds
  BY <1>9
  DEF DrainEnds, MemoryLost, DirInv, SidecarHasFrame, BorrowedOnDisk, ImagesStay, Entries, Image
<1>10. CASE Crash
  BY <1>10, CrashDir DEF Crash, diskVars, DirInv, SidecarHasFrame, Entries, Image
<1>11. ASSUME NEW k \in Keys, CrashInRemove(k) PROVE DirInv'
  <2>1. \A j \in Entries' : j \in Entries /\ meta'[j] = meta[j]
    BY <1>11 DEF CrashInRemove, Entries, TypeInv, TypeOK
  <2> QED BY <1>11, <2>1, CrashDir DEF CrashInRemove, DirInv, SidecarHasFrame, Image
<1> QED BY <1>1, <1>2, <1>3, <1>4, <1>5, <1>6, <1>7, <1>8, <1>9, <1>10, <1>11, CaptureDir,
           SortDir, CrashInCaptureDir
        DEF Next

LEMMA DiskInvHolds == Spec => []DiskInv
<1>1. Init => DiskInv
  BY TypeInvInit
  DEF Init, DiskInv, DirInv, SidecarHasFrame, BorrowedOnDisk, ImagesStay, Entries
<1>2. DiskInv /\ [Next]_vars => DiskInv'
  BY TypeInvStep, DirInvStep DEF DiskInv
<1> QED BY <1>1, <1>2, PTL DEF Spec

(* A sidecar on disk always names a frame on disk, through captures during a    *)
(* drain, evictions, retired frames and crashes (outbox.capture, _retire_image,  *)
(* release).                                                                   *)
THEOREM SidecarHasFrameCorrect == Spec => []SidecarHasFrame
<1>1. DiskInv => SidecarHasFrame BY DEF DiskInv, DirInv
<1> QED BY <1>1, DiskInvHolds, PTL

(* What a running drain has borrowed stays on disk until it lets go            *)
(* (outbox.borrow_entries, _retire_image).                                     *)
THEOREM BorrowedOnDiskCorrect == Spec => []BorrowedOnDisk
<1>1. DiskInv => BorrowedOnDisk BY DEF DiskInv, DirInv
<1> QED BY <1>1, DiskInvHolds, PTL

(* No frame is missing that a sidecar names or that the drain works on, for any  *)
(* captures, evictions, retired frames and crashes.                            *)
THEOREM FramesKeptCorrect == Spec => []FramesKept
<1>1. SidecarHasFrame /\ BorrowedOnDisk => FramesKept BY DEF FramesKept
<1> QED BY <1>1, SidecarHasFrameCorrect, BorrowedOnDiskCorrect, PTL

-----------------------------------------------------------------------------
(* The promise *)

(* What a stage has still to do. *)
PhaseInv ==
    /\ stage \in {"announce", "confirm"} => todo \subseteq batch
    /\ stage = "review" => todo \subseteq ready \ late
    /\ stage \in {"photos", "delivered"} => todo \subseteq late

(* The drain's copy: what the summary counts was not announced, the rest was;   *)
(* after the text all is.                                                      *)
MarkInv ==
    /\ stage \in {"announce", "text"} =>
         batch # {} /\ \A k \in ready : snap[k].announced <=> k \notin batch
    /\ stage \in {"confirm", "review", "photos", "delivered"} =>
         \A k \in ready : snap[k].announced
    /\ stage = "confirm" => \A k \in batch : snap[k].confirmed

(* An entry whose sidecar says more than the drain's copy: the intent to        *)
(* announce is on disk before the text, its confirmation after it, and the      *)
(* sidecar of a photo that was sent is not removed yet.                        *)
Pending(k) ==
    \/ stage = "announce" /\ k \in batch \ todo
    \/ stage = "text" /\ k \in batch
    \/ stage = "confirm" /\ k \in todo
Speaks(k) == stage = "announce" /\ k \in todo
Leaving(k) == stage = "delivered" /\ Oldest(snap, k, todo)

(* What a sidecar may say while a drain has a copy of it. *)
Sayable(k) ==
    IF Speaks(k) \/ Leaving(k) THEN {"out", "waiting", "unsure", "told"}
    ELSE IF Pending(k) THEN {"out", "waiting", "unsure"}
    ELSE {"out", "waiting", LifeOf(k)}

AgreeInv == stage \notin {"idle", "release"} => \A k \in InSnap : Says(meta[k]) \in Sayable(k)

LifeInv == PhaseInv /\ MarkInv /\ AgreeInv
BoxInv  == TypeInv /\ LifeInv

(* What a step that shows the phone nothing may make of an incident. *)
Quiet(k) ==
    \/ LifeOf(k)' = LifeOf(k)
    \/ LifeOf(k)' \in {"out", "waiting"}
    \/ LifeOf(k)' = "over" /\ LifeOf(k) # "out"

LEMMA SaysLife ==
  ASSUME NEW m PROVE Says(m) \in {"out", "waiting", "unsure", "told"}
  BY DEF Says

LEMMA LifeIsLife ==
  ASSUME NEW k PROVE LifeOf(k) \in Promise!Lives /\ LifeOf(k)' \in Promise!Lives
<1>1. LifeOf(k) \in Promise!Lives
  BY SaysLife DEF LifeOf, Promise!Lives
<1>2. LifeOf(k)' \in Promise!Lives
  BY SaysLife DEF LifeOf, Promise!Lives
<1> QED BY <1>1, <1>2

LEMMA QuietIsSilent ==
  ASSUME \A k \in Keys : Quiet(k), UNCHANGED <<heard, seen, crashes>>
  PROVE  Promise!Silent
<1> DEFINE life == [k \in Keys |-> LifeOf(k)]
<1>1. \A k \in Keys : LifeOf(k) \in Promise!Lives /\ LifeOf(k)' \in Promise!Lives
  BY LifeIsLife
<1>2. \A k \in Keys : life'[k] = LifeOf(k)' /\ life[k] = LifeOf(k)
  OBVIOUS
<1>3. ASSUME NEW k \in Keys
      PROVE  LifeOf(k)' = LifeOf(k) \/ <<LifeOf(k), LifeOf(k)'>> \in Promise!Calm
  BY <1>1 DEF Quiet, Promise!Calm, Promise!Lives
<1> QED BY <1>1, <1>2, <1>3 DEF Promise!Silent, Promise!Moves

(* What a changed sidecar says. *)
LEMMA SaysScored ==
  ASSUME NEW m \in Sidecar, NEW sc \in Scores
  PROVE  Says([m EXCEPT !.score = sc]) = Says(m)
<1>1. /\ [m EXCEPT !.score = sc].announced = m.announced
      /\ [m EXCEPT !.score = sc].confirmed = m.confirmed
  BY DEF Sidecar
<1> QED BY <1>1, ScoredSidecar, NoMetaIsNone DEF Says

LEMMA SaysTried ==
  ASSUME NEW m \in Sidecar, NEW n \in 0 .. MaxAttempts - 1
  PROVE  Says([m EXCEPT !.attempts = n]) = Says(m)
<1>1. /\ [m EXCEPT !.attempts = n].announced = m.announced
      /\ [m EXCEPT !.attempts = n].confirmed = m.confirmed
  BY DEF Sidecar
<1> QED BY <1>1, TriedSidecar, NoMetaIsNone DEF Says

LEMMA SaysAnnounced ==
  ASSUME NEW m \in Sidecar, NEW t \in Times
  PROVE  Says([m EXCEPT !.announced = TRUE, !.startedAt = t, !.confirmed = FALSE]) = "unsure"
<1> DEFINE n == [m EXCEPT !.announced = TRUE, !.startedAt = t, !.confirmed = FALSE]
<1>1. n.announced = TRUE /\ n.confirmed = FALSE
  BY DEF Sidecar
<1> QED BY <1>1, AnnouncedSidecar, NoMetaIsNone DEF Says

LEMMA SaysTakenBack ==
  ASSUME NEW m \in Sidecar
  PROVE  /\ Says([m EXCEPT !.announced = FALSE, !.startedAt = 0]) = "waiting"
         /\ Says([m EXCEPT !.announced = FALSE]) = "waiting"
         /\ [m EXCEPT !.announced = FALSE].announced = FALSE
<1> DEFINE n == [m EXCEPT !.announced = FALSE, !.startedAt = 0]
           o == [m EXCEPT !.announced = FALSE]
<1>1. n.announced = FALSE /\ o.announced = FALSE
  BY DEF Sidecar
<1> QED BY <1>1, TakenBackSidecar, NoMetaIsNone DEF Says

LEMMA SaysConfirmed ==
  ASSUME NEW m \in Sidecar
  PROVE  /\ Says([m EXCEPT !.confirmed = TRUE]) \in {"waiting", "told"}
         /\ Says([m EXCEPT !.announced = TRUE, !.confirmed = TRUE]) = "told"
         /\ [m EXCEPT !.announced = TRUE, !.confirmed = TRUE].announced = TRUE
         /\ [m EXCEPT !.announced = TRUE, !.confirmed = TRUE].confirmed = TRUE
<1> DEFINE n == [m EXCEPT !.confirmed = TRUE]
           o == [m EXCEPT !.announced = TRUE, !.confirmed = TRUE]
<1>1. n.confirmed = TRUE /\ o.announced = TRUE /\ o.confirmed = TRUE
  BY DEF Sidecar
<1> QED BY <1>1, ConfirmedSidecar, NoMetaIsNone DEF Says

LEMMA SaysCaptured ==
  ASSUME TypeOK, NEW k \in Keys, NEW v \in Vers, NEW sc \in Scores
  PROVE  Says(Captured(k, v, sc)) \in {Says(meta[k]), "waiting"}
<1>1. CASE meta[k] = NoMeta
  <2>1. clock \in Times
    BY DEF TypeOK
  <2>2. Captured(k, v, sc) = Fresh(v, clock, sc)
    BY <1>1 DEF Captured, Fresh
  <2>3. Fresh(v, clock, sc).announced = FALSE
    BY <2>1, FreshSidecar
  <2> QED BY <2>2, <2>3, CapturedSidecar, NoMetaIsNone DEF Says
<1>2. CASE meta[k] # NoMeta
  <2>1. meta[k] \in Sidecar BY <1>2 DEF TypeOK
  <2>2. /\ Captured(k, v, sc).announced = meta[k].announced
        /\ Captured(k, v, sc).confirmed = meta[k].confirmed
    BY <1>2, <2>1 DEF Captured, Sidecar
  <2> QED BY <1>2, <2>2, CapturedSidecar, NoMetaIsNone DEF Says
<1> QED BY <1>1, <1>2

(* Where nothing is pending, the sidecar says what the incident's life is, or   *)
(* that it is new or gone.                                                     *)
LEMMA SaysBehind ==
  ASSUME BoxInv, NEW k \in Keys, ~Pending(k), ~Leaving(k)
  PROVE  Says(meta[k]) \in {"out", "waiting", LifeOf(k)}
<1>1. CASE ~InHand(k) \/ Speaks(k)
  BY <1>1 DEF LifeOf, Speaks
<1>2. CASE InHand(k) /\ ~Speaks(k)
  BY <1>2 DEF BoxInv, LifeInv, AgreeInv, Sayable, InHand, InSnap
<1> QED BY <1>1, <1>2

(* Other threads may write sidecars at any time. *)
LEMMA OthersWrite ==
  ASSUME BoxInv, UNCHANGED drainVars \/ UNCHANGED <<stage, snap, ready, todo, batch, late>>,
         \A k \in Keys : Says(meta'[k]) \in {Says(meta[k]), "out", "waiting"}
  PROVE  LifeInv' /\ \A k \in Keys : Quiet(k)
<1>1. UNCHANGED <<stage, snap, ready, todo, batch, late>>
  BY DEF drainVars
<1>2. ASSUME NEW k \in Keys PROVE Quiet(k)
  BY <1>1 DEF Quiet, LifeOf, InHand, Handled, Oldest, Before
<1>3. ASSUME NEW k \in InSnap', stage' \notin {"idle", "release"}
      PROVE  Says(meta'[k]) \in Sayable(k)'
  <2>1. k \in InSnap /\ k \in Keys
    BY <1>1 DEF InSnap
  <2>2. Says(meta[k]) \in Sayable(k)
    BY <1>1, <1>3, <2>1 DEF BoxInv, LifeInv, AgreeInv
  <2>3. ~Speaks(k) => LifeOf(k)' = LifeOf(k)
    BY <1>1, <1>3, <2>1 DEF LifeOf, Speaks, InHand, InSnap, Handled, Oldest, Before
  <2>4. (Speaks(k)' <=> Speaks(k)) /\ (Leaving(k)' <=> Leaving(k)) /\ (Pending(k)' <=> Pending(k))
    BY <1>1 DEF Speaks, Leaving, Pending, Oldest, Before
  <2> QED BY <2>1, <2>2, <2>3, <2>4 DEF Sayable
<1> QED BY <1>1, <1>2, <1>3 DEF BoxInv, LifeInv, PhaseInv, MarkInv, AgreeInv

(* A drain that lets go leaves the word to the sidecars. *)
LEMMA LetsGo ==
  ASSUME stage' \in {"idle", "release"},
         \A k \in Keys : Says(meta'[k]) \in {LifeOf(k), "out", "waiting"}
  PROVE  LifeInv' /\ \A k \in Keys : Quiet(k)
<1>1. \A k \in Keys : LifeOf(k)' = Says(meta'[k])
  BY DEF LifeOf, InHand
<1>2. \A k \in Keys : Quiet(k)
  BY <1>1 DEF Quiet
<1>3. LifeInv'
  BY DEF LifeInv, PhaseInv, MarkInv, AgreeInv
<1> QED BY <1>2, <1>3

LEMMA CaptureLife ==
  ASSUME BoxInv, NEW k \in Keys, NEW v \in Vers, NEW sc \in Scores, Capture(k, v, sc)
  PROVE  LifeInv' /\ \A j \in Keys : Quiet(j)
<1> DEFINE out == Victims(Written(k, v, sc), Entries \cup {k})
<1>1. /\ meta' = [j \in Keys |-> IF j \in out THEN NoMeta ELSE Written(k, v, sc)[j]]
      /\ UNCHANGED <<stage, snap, ready, todo, batch, late>>
  BY DEF Capture
<1> HIDE DEF out
<1>2. \A j \in Keys : Says(Written(k, v, sc)[j]) \in {Says(meta[j]), "waiting"}
  BY SaysCaptured DEF Written, BoxInv, TypeInv, TypeOK
<1>3. Says(NoMeta) = "out"
  BY DEF Says
<1> QED BY <1>1, <1>2, <1>3, OthersWrite

LEMMA RemoveSays ==
  ASSUME NEW S, Remove(S), NEW k \in Keys
  PROVE  Says(meta'[k]) = IF k \in S THEN "out" ELSE Says(meta[k])
  BY DEF Remove, Says

LEMMA UpdateSays ==
  ASSUME TypeInv, NEW k \in Keys, NEW rec, Update(k, rec), NEW j \in Keys
  PROVE  Says(meta'[j]) = IF j = k /\ meta[k] # NoMeta THEN Says(rec) ELSE Says(meta[j])
  BY DEF TypeInv, TypeOK, Update, Says

LEMMA TakenBackSays ==
  ASSUME TypeInv, NEW S, meta' = TakenBack(S), NEW j \in Keys
  PROVE  /\ j \notin S => Says(meta'[j]) = Says(meta[j])
         /\ j \in S => Says(meta'[j]) \in {"out", "waiting"}
<1>1. meta[j] # NoMeta => Says([meta[j] EXCEPT !.announced = FALSE, !.startedAt = 0]) = "waiting"
  BY SaysTakenBack DEF TypeInv, TypeOK
<1> QED BY <1>1 DEF TakenBack, Says

LEMMA ResolveLife ==
  ASSUME BoxInv, NEW k \in Keys, Resolve(k) PROVE LifeInv' /\ \A j \in Keys : Quiet(j)
<1>1. \A j \in Keys : Says(meta'[j]) \in {Says(meta[j]), "out"}
  BY RemoveSays DEF Resolve
<1> QED BY <1>1, OthersWrite DEF Resolve

LEMMA DrainBeginsLife ==
  ASSUME BoxInv, DrainBegins PROVE LifeInv' /\ \A k \in Keys : LifeOf(k)' = LifeOf(k)
<1>1. /\ stage = "idle" /\ stage' = "sort" /\ snap' = meta /\ meta' = meta
      /\ ready = {} /\ ready' = ready /\ todo' = todo
  BY DEF DrainBegins, diskVars, BoxInv, TypeInv, HandInv
<1>2. \A k \in Keys : LifeOf(k)' = Says(meta[k]) /\ LifeOf(k) = Says(meta[k])
  BY <1>1 DEF LifeOf, InHand, Handled, Says
<1>3. LifeInv'
  BY <1>1, <1>2 DEF LifeInv, PhaseInv, MarkInv, AgreeInv, Sayable, Speaks, Leaving, Pending, InSnap
<1> QED BY <1>2, <1>3

LEMMA SortLife ==
  ASSUME BoxInv, Sort PROVE LifeInv' /\ \A k \in Keys : Quiet(k)
<1> DEFINE old == {k \in InSnap : clock - snap[k].since > MaxAge}
<1>1. /\ stage = "sort" /\ stage' \in {"release", "score"} /\ snap' = snap
      /\ meta' = [k \in Keys |-> IF k \in old THEN NoMeta ELSE meta[k]]
  BY DEF Sort
<1>2. old \subseteq InSnap
  OBVIOUS
<1> HIDE DEF old
<1>3. ASSUME NEW k \in Keys
      PROVE  /\ Says(meta'[k]) \in {Says(meta[k]), "out"}
             /\ Says(meta[k]) \in {"out", "waiting", LifeOf(k)}
  BY <1>1, SaysBehind DEF Pending, Leaving, Says
<1>4. CASE stage' = "release"
  BY <1>3, <1>4, LetsGo
<1>5. CASE stage' = "score"
  <2>1. \A k \in InSnap : LifeOf(k)' = Says(snap[k]) /\ LifeOf(k) = Says(snap[k])
    BY <1>1, <1>5 DEF LifeOf, InHand, Handled, InSnap
  <2>2. \A k \in Keys : k \notin InSnap => LifeOf(k)' = LifeOf(k)
    BY <1>1, <1>2 DEF LifeOf, InHand, InSnap
  <2>3. LifeInv'
    BY <1>1, <1>3, <1>5, <2>1
    DEF LifeInv, PhaseInv, MarkInv, AgreeInv, Sayable, Speaks, Leaving, Pending, InSnap
  <2> QED BY <2>1, <2>2, <2>3 DEF Quiet
<1> QED BY <1>1, <1>4, <1>5

LEMMA ScoreLife ==
  ASSUME BoxInv, NEW k \in Keys, Score(k) PROVE LifeInv' /\ \A j \in Keys : Quiet(j)
<1>1. PICK sc \in Scores : /\ snap' = [snap EXCEPT ![k].score = sc]
                           /\ Update(k, [meta[k] EXCEPT !.score = sc])
  BY DEF Score, Scores
<1>2. /\ stage = "score" /\ stage' \in {"score", "release"}
      /\ snap[k] \in Sidecar /\ (meta[k] # NoMeta => meta[k] \in Sidecar)
  BY InHandSidecar DEF Score, Oldest, BoxInv, TypeInv, TypeOK, HandInv
<1>3. \A j \in Keys : Says(meta'[j]) = Says(meta[j])
  <2>1. meta[k] # NoMeta => Says([meta[k] EXCEPT !.score = sc]) = Says(meta[k])
    BY <1>2, SaysScored
  <2> QED BY <1>1, <2>1, UpdateSays DEF BoxInv
<1>4. \A j \in Keys : Says(snap'[j]) = Says(snap[j]) /\ (snap'[j] = NoMeta <=> snap[j] = NoMeta)
  <2>1. snap' = [snap EXCEPT ![k] = [snap[k] EXCEPT !.score = sc]]
    BY <1>1
  <2>2. Says([snap[k] EXCEPT !.score = sc]) = Says(snap[k])
    BY <1>2, SaysScored
  <2>3. [snap[k] EXCEPT !.score = sc] # NoMeta /\ snap[k] # NoMeta
    BY <1>2, ScoredSidecar, NoMetaIsNone
  <2> QED BY <2>1, <2>2, <2>3 DEF BoxInv, TypeInv, TypeOK
<1>5. \A j \in Keys : Says(meta[j]) \in {"out", "waiting", LifeOf(j)}
  BY <1>2, SaysBehind DEF Pending, Leaving
<1>6. CASE stage' = "release"
  BY <1>3, <1>5, <1>6, LetsGo
<1>7. CASE stage' = "score"
  <2>1. \A j \in Keys : LifeOf(j)' = LifeOf(j)
    BY <1>2, <1>3, <1>4, <1>7 DEF LifeOf, InHand, Handled
  <2>2. LifeInv'
    BY <1>3, <1>5, <1>7, <2>1
    DEF LifeInv, PhaseInv, MarkInv, AgreeInv, Sayable, Speaks, Leaving, Pending, InSnap
  <2> QED BY <2>1, <2>2 DEF Quiet
<1> QED BY <1>2, <1>6, <1>7

LEMMA ScoringEndsLife ==
  ASSUME BoxInv, ScoringEnds PROVE LifeInv' /\ \A k \in Keys : Quiet(k)
<1>1. /\ stage = "score" /\ stage' = "decide" /\ UNCHANGED <<meta, snap, ready, late, batch>>
  BY DEF ScoringEnds, diskVars
<1>2. \A k \in Keys : LifeOf(k)' = LifeOf(k)
  BY <1>1 DEF LifeOf, InHand, Handled
<1>3. \A k \in Keys : Says(meta[k]) \in {"out", "waiting", LifeOf(k)}
  BY <1>1, SaysBehind DEF Pending, Leaving
<1>4. LifeInv'
  BY <1>1, <1>2, <1>3
  DEF LifeInv, PhaseInv, MarkInv, AgreeInv, Sayable, Speaks, Leaving, Pending, InSnap
<1> QED BY <1>2, <1>4 DEF Quiet

LEMMA DrainStopsLife ==
  ASSUME BoxInv, DrainStops PROVE LifeInv' /\ \A k \in Keys : Quiet(k)
<1>1. stage \in {"score", "photos"} /\ stage' = "release" /\ meta' = meta
  BY DEF DrainStops, diskVars
<1>2. \A k \in Keys : Says(meta[k]) \in {"out", "waiting", LifeOf(k)}
  BY <1>1, SaysBehind DEF Pending, Leaving
<1> QED BY <1>1, <1>2, LetsGo

LEMMA DecideLife ==
  ASSUME Summary = TRUE, BoxInv, Decide PROVE LifeInv' /\ \A k \in Keys : Quiet(k)
<1> DEFINE decided == {k \in ready : Decidable(k)}
           fresh   == {k \in decided : ~snap[k].announced \/ Unconfirmed(k)}
           phone   == Planned(decided)
<1>1. /\ stage = "decide" /\ meta' = meta
      /\ snap' = [k \in Keys |-> IF k \in fresh THEN [snap[k] EXCEPT !.announced = FALSE]
                                               ELSE snap[k]]
      /\ ready' = decided /\ late' = phone /\ batch' = fresh
      /\ IF decided = {} THEN stage' = "release" /\ todo' = {}
         ELSE IF fresh # {} THEN stage' = "announce" /\ todo' = fresh
         ELSE stage' = "review" /\ todo' = decided \ phone
  BY DEF Decide, diskVars
<1>2. fresh \subseteq decided /\ decided \subseteq ready /\ phone \subseteq decided
  BY DEF Planned
<1>3. \A k \in decided : k \notin fresh => snap[k].announced
  OBVIOUS
<1> HIDE DEF decided, fresh, phone
<1>4. \A k \in fresh : /\ [snap[k] EXCEPT !.announced = FALSE].announced = FALSE
                       /\ [snap[k] EXCEPT !.announced = FALSE] # NoMeta
                       /\ k \in Keys /\ snap[k] # NoMeta
  BY <1>2, InHandSidecar, SaysTakenBack, TakenBackSidecar, NoMetaIsNone DEF BoxInv
<1>5. InSnap' = InSnap
  BY <1>1, <1>4 DEF InSnap
<1>6. \A k \in Keys : Says(meta[k]) \in {"out", "waiting", LifeOf(k)}
  BY <1>1, SaysBehind DEF Pending, Leaving
<1>7. CASE stage' = "release"
  BY <1>1, <1>6, <1>7, LetsGo
<1>8. CASE fresh # {} /\ stage' = "announce" /\ todo' = fresh
  <2>1. ASSUME NEW k \in Keys
        PROVE  LifeOf(k)' = IF k \in fresh THEN Says(meta[k]) ELSE LifeOf(k)
    BY <1>1, <1>4, <1>8 DEF LifeOf, InHand, Handled
  <2>2. MarkInv' /\ PhaseInv'
    <3>1. \A k \in ready' : snap'[k].announced <=> k \notin batch'
      <4>1. \A k \in decided : k \in Keys
        BY <1>2 DEF BoxInv, TypeInv, TypeOK
      <4> QED BY <4>1, <1>1, <1>3, <1>4
    <3> QED BY <3>1, <1>1, <1>8 DEF MarkInv, PhaseInv
  <2>3. AgreeInv'
    <3>1. ASSUME NEW k \in InSnap PROVE Says(meta[k]) \in Sayable(k)'
      <4>1. CASE k \in fresh
        BY <4>1, <1>1, <1>8, SaysLife DEF Sayable, Speaks
      <4>2. CASE k \notin fresh
        BY <4>2, <1>1, <1>6, <1>8, <2>1 DEF Sayable, Speaks, Pending, Leaving, InSnap
      <4> QED BY <4>1, <4>2
    <3> QED BY <3>1, <1>1, <1>5 DEF AgreeInv
  <2> QED BY <1>6, <2>1, <2>2, <2>3 DEF Quiet, LifeInv
<1>9. CASE fresh = {} /\ stage' = "review" /\ todo' = decided \ phone
  <2>1. ASSUME NEW k \in Keys PROVE LifeOf(k)' = LifeOf(k) /\ snap'[k] = snap[k]
    BY <1>1, <1>9 DEF LifeOf, InHand, Handled
  <2>2. MarkInv' /\ PhaseInv'
    <3>1. \A k \in ready' : snap'[k].announced
      <4>1. \A k \in decided : k \in Keys
        BY <1>2 DEF BoxInv, TypeInv, TypeOK
      <4> QED BY <4>1, <1>1, <1>3, <1>9, <2>1
    <3> QED BY <3>1, <1>1, <1>9 DEF MarkInv, PhaseInv
  <2>3. AgreeInv'
    <3>1. ASSUME NEW k \in InSnap PROVE Says(meta[k]) \in Sayable(k)'
      BY <1>1, <1>6, <1>9, <2>1 DEF Sayable, Speaks, Pending, Leaving, InSnap
    <3> QED BY <3>1, <1>1, <1>5 DEF AgreeInv
  <2> QED BY <2>1, <2>2, <2>3 DEF Quiet, LifeInv
<1> QED BY <1>1, <1>7, <1>8, <1>9

(* Until the text goes out, the drain's copy of what it counts says nothing.    *)
LEMMA CountedWaits ==
  ASSUME BoxInv, NEW k \in batch, stage \in {"announce", "text"}, ~Speaks(k)
  PROVE  LifeOf(k) = "waiting" /\ k \in Keys /\ k \in InSnap
<1>1. k \in ready /\ k \in InSnap /\ k \in Keys
  BY DEF BoxInv, TypeInv, HandInv, TypeOK
<1>2. Says(snap[k]) = "waiting"
  BY <1>1 DEF BoxInv, LifeInv, MarkInv, InSnap, Says
<1> QED BY <1>1, <1>2 DEF LifeOf, InHand, InSnap, Speaks, Handled

LEMMA AnnounceLife ==
  ASSUME BoxInv, NEW k \in Keys, Announce(k) PROVE LifeInv' /\ \A j \in Keys : Quiet(j)
<1>1. /\ stage = "announce" /\ k \in todo /\ k \in batch /\ todo \subseteq batch
      /\ UNCHANGED <<snap, ready, batch, late>>
  BY DEF Announce, Oldest, BoxInv, LifeInv, PhaseInv
<1>2. InSnap' = InSnap
  BY <1>1 DEF InSnap
<1>3. CASE /\ meta[k] # NoMeta
           /\ Update(k, [meta[k] EXCEPT !.announced = TRUE, !.startedAt = clock,
                                        !.confirmed = FALSE])
           /\ todo' = todo \ {k}
           /\ stage' = IF todo' = {} THEN "text" ELSE stage
  <2>1. Says([meta[k] EXCEPT !.announced = TRUE, !.startedAt = clock, !.confirmed = FALSE])
          = "unsure"
    <3>1. clock \in Times /\ meta[k] \in Sidecar
      BY <1>3 DEF BoxInv, TypeInv, TypeOK
    <3> QED BY <3>1, SaysAnnounced
  <2>2. \A j \in Keys : Says(meta'[j]) = IF j = k THEN "unsure" ELSE Says(meta[j])
    BY <1>3, <2>1, UpdateSays DEF BoxInv
  <2>3. stage' \in {"announce", "text"}
    BY <1>1, <1>3
  <2>4. LifeOf(k)' = "waiting"
    <3>1. snap[k] # NoMeta /\ Says(snap[k]) = "waiting"
      BY <1>1 DEF BoxInv, TypeInv, HandInv, InSnap, LifeInv, MarkInv, Says
    <3> QED BY <1>1, <1>3, <2>3, <3>1 DEF LifeOf, InHand, Handled
  <2>5. ASSUME NEW j \in Keys, j # k PROVE LifeOf(j)' = LifeOf(j)
    BY <1>1, <1>3, <2>2, <2>3, <2>5 DEF LifeOf, InHand, Handled
  <2>6. MarkInv' /\ PhaseInv'
    BY <1>1, <1>3, <2>3 DEF BoxInv, LifeInv, MarkInv, PhaseInv
  <2>7. ASSUME NEW j \in InSnap PROVE Says(meta'[j]) \in Sayable(j)'
    <3>1. j \in Keys /\ Says(meta[j]) \in Sayable(j)
      BY <1>1 DEF BoxInv, LifeInv, AgreeInv, InSnap
    <3>2. CASE j = k
      BY <1>1, <1>3, <2>2, <2>3, <3>1, <3>2 DEF Sayable, Speaks, Leaving, Pending
    <3>3. CASE j # k
      BY <1>1, <1>3, <2>2, <2>3, <2>5, <3>1, <3>3 DEF Sayable, Speaks, Leaving, Pending
    <3> QED BY <3>2, <3>3
  <2> QED BY <1>2, <2>4, <2>5, <2>6, <2>7 DEF Quiet, LifeInv, AgreeInv
<1>4. CASE meta[k] = NoMeta /\ meta' = TakenBack(batch \ todo) /\ stage' = "release"
  <2>1. ASSUME NEW j \in Keys PROVE Says(meta'[j]) \in {LifeOf(j), "out", "waiting"}
    <3>1. CASE j \in batch \ todo
      BY <1>4, <3>1, TakenBackSays DEF BoxInv
    <3>2. CASE j \notin batch \ todo
      BY <1>1, <1>4, <3>2, TakenBackSays, SaysBehind DEF BoxInv, Pending, Leaving
    <3> QED BY <3>1, <3>2
  <2> QED BY <1>4, <2>1, LetsGo
<1> QED BY <1>3, <1>4 DEF Announce

LEMMA SummaryFailsLife ==
  ASSUME BoxInv, SummaryFails PROVE LifeInv' /\ \A j \in Keys : Quiet(j)
<1>1. stage = "text" /\ meta' = TakenBack(batch) /\ stage' = "release"
  BY DEF SummaryFails
<1>2. ASSUME NEW j \in Keys PROVE Says(meta'[j]) \in {LifeOf(j), "out", "waiting"}
  <2>1. CASE j \in batch
    BY <1>1, <2>1, TakenBackSays DEF BoxInv
  <2>2. CASE j \notin batch
    BY <1>1, <2>2, TakenBackSays, SaysBehind DEF BoxInv, Pending, Leaving
  <2> QED BY <2>1, <2>2
<1> QED BY <1>1, <1>2, LetsGo

(* The one step that shows the phone a text. *)
LEMMA SummarySentLife ==
  ASSUME BoxInv, SummarySent PROVE LifeInv' /\ Promise!Announced(batch)
<1>1. /\ stage = "text" /\ stage' = "confirm" /\ todo' = batch
      /\ heard' = [k \in Keys |-> IF k \in batch THEN heard[k] + 1 ELSE heard[k]]
      /\ UNCHANGED <<meta, ready, batch, late, seen, crashes>>
  BY DEF SummarySent, diskVars
<1>2. batch \subseteq ready /\ ready \subseteq InSnap /\ batch # {}
  BY <1>1 DEF BoxInv, TypeInv, HandInv, LifeInv, MarkInv
<1>3. /\ \A k \in batch : /\ k \in Keys /\ snap'[k] # NoMeta /\ Says(snap'[k]) = "told"
                          /\ snap'[k].announced /\ snap'[k].confirmed
      /\ \A k \in Keys \ batch : snap'[k] = snap[k]
  <2> DEFINE told(k) == [snap[k] EXCEPT !.announced = TRUE, !.confirmed = TRUE]
  <2>1. snap' = [k \in Keys |-> IF k \in batch THEN told(k) ELSE snap[k]]
    BY DEF SummarySent
  <2>2. ASSUME NEW k \in batch
        PROVE  /\ told(k) \in Sidecar /\ Says(told(k)) = "told"
               /\ told(k).announced = TRUE /\ told(k).confirmed = TRUE /\ k \in Keys
    <3>1. snap[k] \in Sidecar /\ k \in Keys
      BY <1>2, InHandSidecar DEF BoxInv
    <3> QED BY <3>1, ConfirmedSidecar, SaysConfirmed
  <2> HIDE DEF told
  <2> QED BY <2>1, <2>2, NoMetaIsNone
<1>4. InSnap' = InSnap
  BY <1>2, <1>3 DEF InSnap
<1>5. ASSUME NEW k \in Keys
      PROVE  /\ k \in batch => LifeOf(k) = "waiting" /\ LifeOf(k)' = "told"
             /\ k \notin batch => LifeOf(k)' = LifeOf(k)
  <2>1. k \in batch => LifeOf(k) = "waiting"
    BY <1>1, CountedWaits DEF Speaks
  <2>2. k \in batch => LifeOf(k)' = "told"
    BY <1>1, <1>3 DEF LifeOf, InHand, Handled
  <2>3. k \notin batch => LifeOf(k)' = LifeOf(k)
    BY <1>1, <1>3 DEF LifeOf, InHand, Handled
  <2> QED BY <2>1, <2>2, <2>3
<1>6. MarkInv' /\ PhaseInv'
  <2>1. \A k \in ready' : snap'[k].announced
    <3>1. \A k \in ready : k \in Keys /\ (k \notin batch => snap[k].announced)
      BY <1>1, <1>2 DEF BoxInv, TypeInv, TypeOK, LifeInv, MarkInv
    <3> QED BY <1>1, <1>3, <3>1
  <2> QED BY <1>1, <1>3, <2>1 DEF MarkInv, PhaseInv
<1>7. ASSUME NEW k \in InSnap PROVE Says(meta'[k]) \in Sayable(k)'
  <2>1. k \in Keys /\ Says(meta[k]) \in Sayable(k)
    BY <1>1 DEF BoxInv, LifeInv, AgreeInv, InSnap
  <2> QED BY <1>1, <1>5, <2>1 DEF Sayable, Speaks, Leaving, Pending
<1>8. Promise!Announced(batch)
  BY <1>1, <1>2, <1>3, <1>5 DEF Promise!Announced
<1> QED BY <1>4, <1>6, <1>7, <1>8 DEF LifeInv, AgreeInv

LEMMA ConfirmLife ==
  ASSUME BoxInv, NEW k \in Keys, Confirm(k) PROVE LifeInv' /\ \A j \in Keys : Quiet(j)
<1>1. /\ stage = "confirm" /\ k \in todo /\ k \in batch /\ todo \subseteq batch
      /\ Update(k, [meta[k] EXCEPT !.confirmed = TRUE])
      /\ IF todo = {k} THEN stage' = "review" /\ todo' = ready \ late
                       ELSE todo' = todo \ {k} /\ UNCHANGED stage
      /\ UNCHANGED <<snap, ready, batch, late>>
  BY DEF Confirm, Oldest, BoxInv, LifeInv, PhaseInv
<1>2. \A j \in Keys : /\ j # k => Says(meta'[j]) = Says(meta[j])
                      /\ Says(meta'[k]) \in {"out", "waiting", "told"}
  <2>1. meta[k] # NoMeta => Says([meta[k] EXCEPT !.confirmed = TRUE]) \in {"waiting", "told"}
    BY SaysConfirmed DEF BoxInv, TypeInv, TypeOK
  <2>2. meta[k] = NoMeta => Says(meta[k]) = "out"
    BY DEF Says
  <2> QED BY <1>1, <2>1, <2>2, UpdateSays DEF BoxInv
<1>3. k \in InSnap /\ Says(snap[k]) = "told"
  BY <1>1 DEF BoxInv, TypeInv, HandInv, InSnap, LifeInv, MarkInv, Says
<1>4. ASSUME NEW j \in InSnap
      PROVE  LifeOf(j) = Says(snap[j]) /\ LifeOf(j)' = Says(snap[j])
  BY <1>1, <1>4 DEF LifeOf, InHand, Handled, InSnap
<1>5. ASSUME NEW j \in Keys, j \notin InSnap
      PROVE  LifeOf(j)' = LifeOf(j)
  <2>1. j # k BY <1>3, <1>5
  <2> QED BY <1>1, <1>2, <1>5, <2>1 DEF LifeOf, InHand, InSnap
<1>6. MarkInv' /\ PhaseInv'
  BY <1>1 DEF BoxInv, LifeInv, MarkInv, PhaseInv
<1>7. ASSUME NEW j \in InSnap PROVE Says(meta'[j]) \in Sayable(j)'
  <2>1. j \in Keys /\ Says(meta[j]) \in Sayable(j)
    BY <1>1 DEF BoxInv, LifeInv, AgreeInv, InSnap
  <2>2. CASE j = k
    BY <1>1, <1>2, <1>3, <1>4, <2>1, <2>2 DEF Sayable, Speaks, Leaving, Pending
  <2>3. CASE j # k
    BY <1>1, <1>2, <1>4, <2>1, <2>3 DEF Sayable, Speaks, Leaving, Pending
  <2> QED BY <2>2, <2>3
<1>8. InSnap' = InSnap
  BY <1>1 DEF InSnap
<1> QED BY <1>4, <1>5, <1>6, <1>7, <1>8 DEF Quiet, LifeInv, AgreeInv

LEMMA OldestIsOne ==
  ASSUME TypeInv, NEW j, NEW k, Oldest(snap, j, todo), Oldest(snap, k, todo)
  PROVE  j = k
<1>1. j \in ready /\ k \in ready
  BY DEF Oldest, TypeInv, HandInv
<1>2. j \in Nat /\ k \in Nat /\ snap[j].since \in Int /\ snap[k].since \in Int
  <2>1. j \in Keys /\ k \in Keys /\ snap[j] \in Sidecar /\ snap[k] \in Sidecar
    BY <1>1, InHandSidecar
  <2>2. snap[j].since \in Times /\ snap[k].since \in Times
    BY <2>1 DEF Sidecar
  <2> QED BY <2>1, <2>2, OutboxAssumption DEF Times
<1>3. Before(snap, j, k) /\ Before(snap, k, j)
  BY DEF Oldest
<1> QED BY <1>2, <1>3 DEF Before

(* What is left of a stage's work is in the drain's copy and still counts. *)
LEMMA LateIsTold ==
  ASSUME BoxInv, NEW k \in ready, stage \in {"confirm", "review", "photos", "delivered"}
  PROVE  k \in Keys /\ k \in InSnap /\ Says(snap[k]) \in {"told", "unsure"}
  BY DEF BoxInv, TypeInv, TypeOK, HandInv, LifeInv, MarkInv, InSnap, Says

LEMMA ReviewLife ==
  ASSUME BoxInv, NEW k \in Keys, Review(k) PROVE LifeInv' /\ \A j \in Keys : Quiet(j)
<1>1. /\ stage = "review" /\ stage' = stage /\ k \in todo /\ k \in ready \ late
      /\ Remove({k}) /\ todo' = todo \ {k}
      /\ UNCHANGED <<snap, ready, batch, late>>
  BY DEF Review, Oldest, BoxInv, LifeInv, PhaseInv
<1>2. \A j \in Keys : Says(meta'[j]) = IF j = k THEN "out" ELSE Says(meta[j])
  BY <1>1, RemoveSays
<1>3. LifeOf(k)' = "over" /\ LifeOf(k) # "out"
  <2>1. k \in InSnap /\ Says(snap[k]) \in {"told", "unsure"}
    BY <1>1, LateIsTold
  <2> QED BY <1>1, <2>1 DEF LifeOf, InHand, InSnap, Handled
<1>4. ASSUME NEW j \in Keys, j # k PROVE LifeOf(j)' = LifeOf(j)
  BY <1>1, <1>2, <1>4 DEF LifeOf, InHand, Handled
<1>5. MarkInv' /\ PhaseInv'
  BY <1>1 DEF BoxInv, LifeInv, MarkInv, PhaseInv
<1>6. ASSUME NEW j \in InSnap PROVE Says(meta'[j]) \in Sayable(j)'
  <2>1. j \in Keys /\ Says(meta[j]) \in Sayable(j)
    BY <1>1 DEF BoxInv, LifeInv, AgreeInv, InSnap
  <2> QED BY <1>1, <1>2, <1>4, <2>1 DEF Sayable, Speaks, Leaving, Pending
<1>7. InSnap' = InSnap
  BY <1>1 DEF InSnap
<1> QED BY <1>3, <1>4, <1>5, <1>6, <1>7 DEF Quiet, LifeInv, AgreeInv

LEMMA ReviewEndsLife ==
  ASSUME BoxInv, ReviewEnds PROVE LifeInv' /\ \A j \in Keys : Quiet(j)
<1>1. /\ stage = "review" /\ stage' = "photos" /\ todo = {} /\ todo' = late
      /\ UNCHANGED <<meta, snap, ready, batch, late>>
  BY DEF ReviewEnds, diskVars
<1>2. ASSUME NEW j \in Keys PROVE LifeOf(j)' = LifeOf(j)
  BY <1>1 DEF LifeOf, InHand, Handled
<1>3. MarkInv' /\ PhaseInv'
  BY <1>1 DEF BoxInv, LifeInv, MarkInv, PhaseInv
<1>4. ASSUME NEW j \in InSnap PROVE Says(meta'[j]) \in Sayable(j)'
  <2>1. j \in Keys /\ Says(meta[j]) \in {"out", "waiting", LifeOf(j)}
    BY <1>1, SaysBehind DEF InSnap, Pending, Leaving
  <2> QED BY <1>1, <1>2, <2>1 DEF Sayable, Speaks, Leaving, Pending
<1>5. InSnap' = InSnap
  BY <1>1 DEF InSnap
<1> QED BY <1>2, <1>3, <1>4, <1>5 DEF Quiet, LifeInv, AgreeInv

(* The one step that shows the phone a photo. *)
LEMMA PhotoSentLife ==
  ASSUME BoxInv, NEW k \in Keys, PhotoSent(k) PROVE LifeInv' /\ Promise!ShownLate(k)
<1>1. /\ stage = "photos" /\ stage' = "delivered" /\ Oldest(snap, k, todo)
      /\ seen' = [seen EXCEPT ![k] = @ + 1]
      /\ UNCHANGED <<meta, snap, ready, todo, batch, late, heard, crashes>>
  BY DEF PhotoSent, diskVars
<1>2. k \in todo /\ k \in ready /\ k \in InSnap /\ Says(snap[k]) \in {"told", "unsure"}
  BY <1>1, LateIsTold DEF Oldest, BoxInv, TypeInv, HandInv
<1>3. Oldest(snap, k, todo)' /\ \A j \in Keys : Oldest(snap, j, todo)' => j = k
  BY <1>1, OldestIsOne DEF Oldest, Before, BoxInv
<1>4. LifeOf(k) \in {"told", "unsure"} /\ LifeOf(k)' = "over"
  BY <1>1, <1>2, <1>3 DEF LifeOf, InHand, InSnap, Handled
<1>5. ASSUME NEW j \in Keys, j # k PROVE LifeOf(j)' = LifeOf(j)
  BY <1>1, <1>3, <1>5 DEF LifeOf, InHand, Handled
<1>6. MarkInv' /\ PhaseInv'
  BY <1>1 DEF BoxInv, LifeInv, MarkInv, PhaseInv
<1>7. ASSUME NEW j \in InSnap PROVE Says(meta'[j]) \in Sayable(j)'
  <2>1. j \in Keys /\ Says(meta[j]) \in {"out", "waiting", LifeOf(j)}
    BY <1>1, SaysBehind DEF InSnap, Pending, Leaving
  <2>2. CASE j = k
    BY <1>1, <1>3, <2>2, SaysLife DEF Sayable, Leaving
  <2>3. CASE j # k
    BY <1>1, <1>3, <1>5, <2>1, <2>3 DEF Sayable, Speaks, Leaving, Pending
  <2> QED BY <2>2, <2>3
<1>8. InSnap' = InSnap
  BY <1>1 DEF InSnap
<1>9. Promise!ShownLate(k)
  BY <1>1, <1>4, <1>5 DEF Promise!ShownLate
<1> QED BY <1>6, <1>7, <1>8, <1>9 DEF LifeInv, AgreeInv

LEMMA DeliveredLife ==
  ASSUME BoxInv, NEW k \in Keys, Delivered(k) PROVE LifeInv' /\ \A j \in Keys : Quiet(j)
<1>1. /\ stage = "delivered" /\ stage' = "photos" /\ Oldest(snap, k, todo)
      /\ Remove({k}) /\ todo' = todo \ {k}
      /\ UNCHANGED <<snap, ready, batch, late>>
  BY DEF Delivered
<1>2. k \in todo /\ k \in ready /\ k \in InSnap
  BY <1>1, LateIsTold DEF Oldest, BoxInv, TypeInv, HandInv
<1>3. \A j \in Keys : Says(meta'[j]) = IF j = k THEN "out" ELSE Says(meta[j])
  BY <1>1, RemoveSays
<1>4. \A j \in Keys : Oldest(snap, j, todo) => j = k
  BY <1>1, OldestIsOne DEF BoxInv
<1>5. LifeOf(k)' = LifeOf(k)
  BY <1>1, <1>2 DEF LifeOf, InHand, InSnap, Handled
<1>6. ASSUME NEW j \in Keys, j # k PROVE LifeOf(j)' = LifeOf(j)
  BY <1>1, <1>3, <1>4, <1>6 DEF LifeOf, InHand, Handled
<1>7. MarkInv' /\ PhaseInv'
  BY <1>1 DEF BoxInv, LifeInv, MarkInv, PhaseInv
<1>8. ASSUME NEW j \in InSnap PROVE Says(meta'[j]) \in Sayable(j)'
  <2>1. j \in Keys /\ Says(meta[j]) \in Sayable(j)
    BY <1>1 DEF BoxInv, LifeInv, AgreeInv, InSnap
  <2> QED BY <1>1, <1>3, <1>4, <1>6, <2>1 DEF Sayable, Speaks, Leaving, Pending
<1>9. InSnap' = InSnap
  BY <1>1 DEF InSnap
<1> QED BY <1>5, <1>6, <1>7, <1>8, <1>9 DEF Quiet, LifeInv, AgreeInv

LEMMA PhotoFailsLife ==
  ASSUME BoxInv, NEW k \in Keys, PhotoFails(k) PROVE LifeInv' /\ \A j \in Keys : Quiet(j)
<1>1. /\ stage = "photos" /\ Oldest(snap, k, todo) /\ UNCHANGED <<ready, batch, late>>
  BY DEF PhotoFails
<1>2. k \in todo /\ k \in ready /\ k \in InSnap /\ Says(snap[k]) \in {"told", "unsure"}
  BY <1>1, LateIsTold DEF Oldest, BoxInv, TypeInv, HandInv
<1>3. \A j \in Keys : Says(meta[j]) \in {"out", "waiting", LifeOf(j)}
  BY <1>1, SaysBehind DEF Pending, Leaving
<1>4. CASE Remove({k}) /\ todo' = todo \ {k} /\ UNCHANGED <<stage, snap>>
  <2>1. \A j \in Keys : Says(meta'[j]) = IF j = k THEN "out" ELSE Says(meta[j])
    BY <1>4, RemoveSays
  <2>2. LifeOf(k)' = "over" /\ LifeOf(k) # "out"
    BY <1>1, <1>2, <1>4 DEF LifeOf, InHand, InSnap, Handled
  <2>3. ASSUME NEW j \in Keys, j # k PROVE LifeOf(j)' = LifeOf(j)
    BY <1>1, <1>4, <2>1, <2>3 DEF LifeOf, InHand, Handled
  <2>4. MarkInv' /\ PhaseInv'
    BY <1>1, <1>4 DEF BoxInv, LifeInv, MarkInv, PhaseInv
  <2>5. ASSUME NEW j \in InSnap PROVE Says(meta'[j]) \in Sayable(j)'
    <3>1. j \in Keys BY DEF InSnap
    <3> QED BY <1>1, <1>3, <1>4, <2>1, <2>3, <3>1 DEF Sayable, Speaks, Leaving, Pending
  <2>6. InSnap' = InSnap
    BY <1>4 DEF InSnap
  <2> QED BY <2>2, <2>3, <2>4, <2>5, <2>6 DEF Quiet, LifeInv, AgreeInv
<1>5. CASE /\ ~LastAttempt(k)
           /\ Update(k, [meta[k] EXCEPT !.attempts = snap[k].attempts + 1])
           /\ stage' = "release"
  <2>1. snap[k].attempts + 1 \in 0 .. MaxAttempts - 1
    <3>1. snap[k].attempts \in 0 .. MaxAttempts - 1
      BY <1>2, InHandSidecar DEF Sidecar, BoxInv
    <3> QED BY <1>5, <3>1, OutboxAssumption DEF LastAttempt
  <2>2. meta[k] # NoMeta =>
          Says([meta[k] EXCEPT !.attempts = snap[k].attempts + 1]) = Says(meta[k])
    BY <2>1, SaysTried DEF BoxInv, TypeInv, TypeOK
  <2>3. \A j \in Keys : Says(meta'[j]) = Says(meta[j])
    BY <1>5, <2>2, UpdateSays DEF BoxInv
  <2> QED BY <1>3, <1>5, <2>3, LetsGo
<1> QED BY <1>4, <1>5 DEF PhotoFails

(* After a crash the sidecars speak, and may know less than the phone.          *)
LEMMA CrashForgets ==
  ASSUME BoxInv, MemoryLost, UNCHANGED <<heard, seen>>, crashes' = crashes + 1,
         \A k \in Keys : Says(meta'[k]) \in {Says(meta[k]), "out", "waiting"}
  PROVE  LifeInv' /\ Promise!Crashed
<1> DEFINE life == [k \in Keys |-> LifeOf(k)]
<1>1. stage' = "idle" BY DEF MemoryLost
<1>2. \A k \in Keys : /\ life[k] = LifeOf(k) /\ life'[k] = Says(meta'[k])
                      /\ LifeOf(k) \in Promise!Lives /\ Says(meta'[k]) \in Promise!Lives
  BY <1>1, LifeIsLife, SaysLife DEF LifeOf, InHand, Promise!Lives
<1>3. ASSUME NEW k \in Keys
      PROVE  LifeOf(k) = Says(meta'[k]) \/ <<LifeOf(k), Says(meta'[k])>> \in Promise!Amnesia
  <2>1. CASE Says(meta'[k]) \in {"out", "waiting"}
    BY <1>2, <2>1 DEF Promise!Amnesia, Promise!Calm, Promise!Lives
  <2>2. CASE Says(meta'[k]) = Says(meta[k])
    <3>1. CASE Pending(k)
      <4>1. k \in InSnap /\ stage \notin {"idle", "release"} /\ ~Speaks(k) /\ ~Leaving(k)
        BY <3>1 DEF Pending, BoxInv, TypeInv, HandInv, InSnap, Speaks, Leaving
      <4>2. Says(meta[k]) \in {"out", "waiting", "unsure"}
        BY <3>1, <4>1 DEF BoxInv, LifeInv, AgreeInv, Sayable
      <4>3. LifeOf(k) \in {"waiting", "told", "unsure"}
        <5>1. CASE stage \in {"announce", "text"}
          BY <3>1, <4>1, <5>1, CountedWaits DEF Pending
        <5>2. CASE stage = "confirm"
          <6>1. k \in ready
            BY <3>1, <5>2 DEF Pending, BoxInv, TypeInv, HandInv
          <6> QED BY <4>1, <5>2, <6>1, LateIsTold DEF LifeOf, InHand, InSnap, Handled
        <5> QED BY <3>1, <5>1, <5>2 DEF Pending
      <4> QED BY <2>2, <4>2, <4>3 DEF Promise!Amnesia, Promise!Calm, Promise!Lives
    <3>2. CASE Leaving(k)
      <4>1. k \in ready /\ stage = "delivered"
        BY <3>2 DEF Leaving, Oldest, BoxInv, TypeInv, HandInv
      <4>2. LifeOf(k) = "over"
        BY <3>2, <4>1, LateIsTold DEF Leaving, LifeOf, InHand, InSnap, Handled
      <4> QED BY <1>2, <2>2, <4>2 DEF Promise!Amnesia, Promise!Calm, Promise!Lives
    <3>3. CASE ~Pending(k) /\ ~Leaving(k)
      BY <1>2, <2>2, <3>3, SaysBehind DEF Promise!Amnesia, Promise!Calm, Promise!Lives
    <3> QED BY <3>1, <3>2, <3>3
  <2> QED BY <2>1, <2>2
<1>4. Promise!Crashed
  BY <1>2, <1>3 DEF Promise!Crashed, Promise!Moves
<1>5. LifeInv'
  BY <1>1 DEF LifeInv, PhaseInv, MarkInv, AgreeInv
<1> QED BY <1>4, <1>5

LEMMA CrashesLife ==
  ASSUME BoxInv,
         \/ Crash
         \/ \E k \in Keys, v \in Vers, sc \in Scores : CrashInCapture(k, v, sc)
         \/ \E k \in Keys : CrashInRemove(k)
  PROVE  LifeInv' /\ Promise!Crashed
<1>1. CASE Crash
  BY <1>1, CrashForgets DEF Crash, diskVars, toldVars
<1>2. ASSUME NEW k \in Keys, NEW v \in Vers, NEW sc \in Scores, CrashInCapture(k, v, sc)
      PROVE  LifeInv' /\ Promise!Crashed
  <2>1. \A j \in Keys : Says(meta'[j]) \in {Says(meta[j]), "waiting"}
    BY <1>2, SaysCaptured DEF CrashInCapture, Written, BoxInv, TypeInv, TypeOK
  <2> QED BY <1>2, <2>1, CrashForgets DEF CrashInCapture
<1>3. ASSUME NEW k \in Keys, CrashInRemove(k) PROVE LifeInv' /\ Promise!Crashed
  <2>1. \A j \in Keys : Says(meta'[j]) \in {Says(meta[j]), "out"}
    BY <1>3 DEF CrashInRemove, Says, BoxInv, TypeInv, TypeOK
  <2> QED BY <1>3, <2>1, CrashForgets DEF CrashInRemove, toldVars
<1> QED BY <1>1, <1>2, <1>3

(* Every step of the outbox is one the promise allows. *)
LEMMA BoxStep ==
  ASSUME Summary = TRUE, BoxInv, [Next]_vars
  PROVE  LifeInv' /\ [Promise!BoxNext]_(Promise!boxVars)
<1> USE DEF Promise!BoxNext
<1>1. ASSUME \A k \in Keys : Quiet(k), UNCHANGED <<heard, seen, crashes>>
      PROVE  Promise!BoxNext
  BY <1>1, QuietIsSilent
<1>2. CASE UNCHANGED drainVars /\ meta' = meta /\ UNCHANGED <<heard, seen, crashes>>
  <2>1. LifeInv' /\ \A k \in Keys : Quiet(k)
    BY <1>2, OthersWrite
  <2> QED BY <1>1, <1>2, <2>1
<1>3. ASSUME NEW k \in Keys, NEW v \in Vers, NEW sc \in Scores, Capture(k, v, sc)
      PROVE  LifeInv' /\ Promise!BoxNext
  BY <1>1, <1>3, CaptureLife DEF Capture
<1>4. CASE DrainBegins
  BY <1>1, <1>4, DrainBeginsLife DEF DrainBegins, Quiet, toldVars
<1>5. CASE Sort \/ ScoringEnds \/ DrainStops \/ Decide \/ SummaryFails \/ ReviewEnds
  <2>1. LifeInv' /\ \A k \in Keys : Quiet(k)
    BY <1>5, SortLife, ScoringEndsLife, DrainStopsLife, DecideLife, SummaryFailsLife,
       ReviewEndsLife
  <2>2. UNCHANGED <<heard, seen, crashes>>
    BY <1>5 DEF Sort, ScoringEnds, DrainStops, Decide, SummaryFails, ReviewEnds, toldVars
  <2> QED BY <1>1, <2>1, <2>2
<1>6. ASSUME NEW k \in Keys,
             Resolve(k) \/ Score(k) \/ Announce(k) \/ Confirm(k) \/ Review(k) \/ Delivered(k)
               \/ PhotoFails(k)
      PROVE  LifeInv' /\ Promise!BoxNext
  <2>1. LifeInv' /\ \A j \in Keys : Quiet(j)
    BY <1>6, ResolveLife, ScoreLife, AnnounceLife, ConfirmLife, ReviewLife, DeliveredLife,
       PhotoFailsLife
  <2>2. UNCHANGED <<heard, seen, crashes>>
    BY <1>6 DEF Resolve, Score, Announce, Confirm, Review, Delivered, PhotoFails, toldVars
  <2> QED BY <1>1, <2>1, <2>2
<1>7. CASE SummarySent
  <2>1. batch \in SUBSET Keys
    BY DEF BoxInv, TypeInv, TypeOK
  <2> QED BY <1>7, <2>1, SummarySentLife
<1>8. ASSUME NEW k \in Keys, PhotoSent(k) PROVE LifeInv' /\ Promise!BoxNext
  BY <1>8, PhotoSentLife
<1>9. CASE DrainEnds
  <2>1. stage = "release" /\ stage' = "idle" /\ meta' = meta /\ UNCHANGED <<heard, seen, crashes>>
    BY <1>9 DEF DrainEnds, MemoryLost, toldVars
  <2>2. \A k \in Keys : Says(meta'[k]) \in {LifeOf(k), "out", "waiting"}
    BY <2>1 DEF LifeOf, InHand
  <2>3. LifeInv' /\ \A k \in Keys : Quiet(k)
    BY <2>1, <2>2, LetsGo
  <2> QED BY <1>1, <2>1, <2>3
<1>10. CASE Tick \/ UNCHANGED vars
  BY <1>2, <1>10 DEF Tick, vars, diskVars, toldVars
<1>11. CASE \/ Crash
            \/ \E k \in Keys, v \in Vers, sc \in Scores : CrashInCapture(k, v, sc)
            \/ \E k \in Keys : CrashInRemove(k)
  BY <1>11, CrashesLife
<1> QED BY <1>3, <1>4, <1>5, <1>6, <1>7, <1>8, <1>9, <1>10, <1>11 DEF Next

LEMMA BoxInvHolds == ASSUME Summary = TRUE PROVE Spec => []BoxInv
<1>1. Init => BoxInv
  BY TypeInvInit DEF Init, BoxInv, LifeInv, PhaseInv, MarkInv, AgreeInv
<1>2. BoxInv /\ [Next]_vars => BoxInv'
  BY TypeInvStep, BoxStep DEF BoxInv
<1> QED BY <1>1, <1>2, PTL DEF Spec

(* With the summary on, the outbox keeps its promise, for any box, drain,       *)
(* captures of other threads and crashes: every behaviour of Outbox is one of   *)
(* LateBox under the mapping LifeOf (outbox.Outbox, drain).                     *)
THEOREM PromiseKeptCorrect == ASSUME Summary = TRUE PROVE Spec => PromiseKept
<1>1. Init => Promise!BoxInit
  BY DEF Init, Promise!BoxInit, LifeOf, InHand, Says
<1>2. BoxInv /\ [Next]_vars => [Promise!BoxNext]_(Promise!boxVars)
  BY BoxStep
<1> QED BY <1>1, <1>2, BoxInvHolds, PTL DEF Spec, PromiseKept, Promise!BoxSpec


\* What every keeper of the promise owes, read on the box itself.
Late == INSTANCE LateBox_proofs WITH life <- [k \in Keys |-> LifeOf(k)]

LEMMA LateInvStep ==
  ASSUME Summary = TRUE, Late!BoxInv, BoxInv, [Next]_vars PROVE Late!BoxInv'
<1>1. [Late!BoxNext]_(Late!boxVars)
  BY BoxStep DEF
    Promise!BoxNext, Promise!boxVars, Promise!Silent, Promise!Crashed, Promise!Announced,
    Promise!ShownLate, Promise!Moves, Promise!Calm, Promise!Amnesia, Promise!Lives,
    Late!BoxNext, Late!boxVars, Late!Silent, Late!Crashed, Late!Announced,
    Late!ShownLate, Late!Moves, Late!Calm, Late!Amnesia, Late!Lives
<1> QED BY <1>1, Late!BoxInvStep

(* No late photo of an incident comes without a text that counts it, but for    *)
(* one more after each crash (outbox.drain: photos only after the summary).     *)
THEOREM PhotosAnnouncedCorrect == ASSUME Summary = TRUE PROVE Spec => []PhotosAnnounced
<1>1. Init => Late!BoxInv
  BY Late!BoxInvInit DEF Init, Late!BoxInit, LifeOf, InHand, Says
<1>2. BoxInv /\ Late!BoxInv /\ [Next]_vars => Late!BoxInv'
  BY LateInvStep
<1>3. Late!BoxInv => PhotosAnnounced
  BY DEF Late!BoxInv, Late!LateAfterText, PhotosAnnounced
<1> QED BY <1>1, <1>2, <1>3, BoxInvHolds, PTL DEF Spec

-----------------------------------------------------------------------------
(* One text for one stay *)

(* The text that counts k is decided but not sent; or sent, and its record not  *)
(* yet in the sidecar.                                                         *)
Unsent(k) ==
    \/ stage = "announce" /\ k \in batch \ todo
    \/ stage = "text" /\ k \in batch
Unwritten(k) == stage = "confirm" /\ k \in todo

Summing == {"announce", "text", "confirm"}

(* The texts that may still count k without a new failure or a crash: an entry  *)
(* evicted and captured again under a drain that counts it is owed two.        *)
DueOf(said) == IF said \in {"waiting", "unsure"} THEN 1 ELSE 0
Due(k) ==
    IF Unsent(k) THEN IF Says(meta[k]) = "waiting" THEN 2 ELSE 1
    ELSE IF Unwritten(k) THEN IF Says(meta[k]) = "waiting" THEN 1 ELSE 0
    ELSE DueOf(Says(meta[k]))

DueInv    == \A k \in Keys : heard[k] + Due(k) <= stays[k] + crashes
UntoldInv == stage = "announce" => \A k \in todo : Says(meta[k]) # "told"
OnceInv   == DueInv /\ UntoldInv

LEMMA Counts ==
  ASSUME TypeInv, NEW k \in Keys
  PROVE  heard[k] \in Nat /\ stays[k] \in Nat /\ crashes \in Nat
  BY OutboxAssumption DEF TypeInv, TypeOK

LEMMA DueSettled ==
  ASSUME NEW k
  PROVE  /\ stage \notin Summing => Due(k) = DueOf(Says(meta[k]))
         /\ stage' \notin Summing => Due(k)' = DueOf(Says(meta'[k]))
  BY DEF Due, Summing, Unsent, Unwritten

LEMMA DueCovers ==
  ASSUME NEW k
  PROVE  /\ Due(k) \in 0 .. 2 /\ Due(k)' \in 0 .. 2
         /\ ~Unwritten(k) => DueOf(Says(meta[k])) <= Due(k)
         /\ Says(meta[k]) = "waiting" => 1 <= Due(k)
         /\ Says(meta[k]) = "out" => DueOf(Says(meta[k])) = 0
  BY DEF Due, DueOf, Unsent, Unwritten

(* A step that sends no text owes no more than before.                         *)
LEMMA NothingSent ==
  ASSUME TypeInv, TypeInv', DueInv, heard' = heard, crashes' = crashes,
         \A k \in Keys : stays[k] + Due(k)' <= stays'[k] + Due(k)
  PROVE  DueInv'
<1>1. ASSUME NEW k \in Keys PROVE heard'[k] + Due(k)' <= stays'[k] + crashes'
  <2>1. Due(k) \in Nat /\ Due(k)' \in Nat
    BY DEF Due, DueOf
  <2>2. stays'[k] \in Nat
    BY DEF TypeInv, TypeOK
  <2>3. heard[k] + Due(k) <= stays[k] + crashes
    BY DEF DueInv
  <2>4. stays[k] + Due(k)' <= stays'[k] + Due(k)
    OBVIOUS
  <2> QED BY <2>1, <2>2, <2>3, <2>4, Counts
<1> QED BY <1>1 DEF DueInv

(* Outside the summary, entries only leave; so they do when it is taken back.   *)
LEMMA Settles ==
  ASSUME TypeInv, TypeInv', DueInv, stage' \notin Summing, UNCHANGED <<heard, stays, crashes>>,
         \A k \in Keys : DueOf(Says(meta'[k])) <= Due(k)
  PROVE  OnceInv'
<1>1. \A k \in Keys : stays[k] + Due(k)' <= stays'[k] + Due(k)
  <2>1. \A k \in Keys : Due(k)' = DueOf(Says(meta'[k])) /\ Due(k)' \in 0 .. 1 /\ Due(k) \in 0 .. 2
    BY DueSettled, DueCovers DEF DueOf
  <2> QED BY <2>1, Counts
<1>2. DueInv'
  BY <1>1, NothingSent
<1> QED BY <1>2 DEF OnceInv, UntoldInv, Summing

LEMMA Leave ==
  ASSUME TypeInv, TypeInv', DueInv, stage \notin Summing, stage' \notin Summing,
         UNCHANGED <<heard, stays, crashes>>,
         \A k \in Keys : Says(meta'[k]) \in {Says(meta[k]), "out"}
  PROVE  OnceInv'
<1>1. \A k \in Keys : DueOf(Says(meta'[k])) <= Due(k)
  BY DueSettled, DueCovers DEF DueOf
<1> QED BY <1>1, Settles

LEMMA SaysKept ==
  ASSUME TypeOK, NEW k \in Keys, NEW v \in Vers, NEW sc \in Scores, meta[k] # NoMeta
  PROVE  Says(Captured(k, v, sc)) = Says(meta[k])
<1>1. meta[k] \in Sidecar BY DEF TypeOK
<1>2. /\ Captured(k, v, sc).announced = meta[k].announced
      /\ Captured(k, v, sc).confirmed = meta[k].confirmed
  BY <1>1 DEF Captured, Sidecar
<1> QED BY <1>2, CapturedSidecar, NoMetaIsNone DEF Says

LEMMA CaptureOnce ==
  ASSUME TypeInv, TypeInv', OnceInv,
         NEW k \in Keys, NEW v \in Vers, NEW sc \in Scores, Capture(k, v, sc)
  PROVE  OnceInv'
<1> DEFINE out == Victims(Written(k, v, sc), Entries \cup {k})
<1>1. /\ meta' = [j \in Keys |-> IF j \in out THEN NoMeta ELSE Written(k, v, sc)[j]]
      /\ stays' = [stays EXCEPT ![k] = IF meta[k] = NoMeta THEN @ + 1 ELSE @]
      /\ UNCHANGED <<stage, todo, batch, heard, crashes>>
  BY DEF Capture, Enters
<1> HIDE DEF out
<1>2. \A j \in Keys : Written(k, v, sc)[j] = IF j = k THEN Captured(k, v, sc) ELSE meta[j]
  BY DEF Written, TypeInv, TypeOK
<1>3. Says(NoMeta) = "out"
  BY DEF Says
<1>4. Says(Captured(k, v, sc)) \in {Says(meta[k]), "waiting"}
  BY SaysCaptured DEF TypeInv
<1>5. meta[k] # NoMeta => Says(Captured(k, v, sc)) = Says(meta[k])
  BY SaysKept DEF TypeInv
<1>6. ASSUME NEW j \in Keys
      PROVE  /\ Says(meta'[j]) \in {Says(meta[j]), "out", "waiting"}
             /\ Says(meta'[j]) = "waiting" /\ Says(meta[j]) # "waiting"
                  => j = k /\ meta[k] = NoMeta
  BY <1>1, <1>2, <1>3, <1>4, <1>5
<1>7. ASSUME NEW j \in Keys PROVE stays[j] + Due(j)' <= stays'[j] + Due(j)
  <2>1. (Unsent(j)' <=> Unsent(j)) /\ (Unwritten(j)' <=> Unwritten(j))
    BY <1>1 DEF Unsent, Unwritten
  <2>2. CASE j = k /\ meta[k] = NoMeta
    <3>1. stays'[j] = stays[j] + 1 /\ stays[j] \in Nat
      BY <1>1, <2>2, Counts DEF TypeInv, TypeOK
    <3>2. Says(meta[j]) = "out"
      BY <1>3, <2>2
    <3>3. Due(j)' <= Due(j) + 1 /\ Due(j) \in 0 .. 2 /\ Due(j)' \in 0 .. 2
      BY <1>6, <2>1, <3>2 DEF Due, DueOf
    <3> QED BY <3>1, <3>3
  <2>3. CASE ~(j = k /\ meta[k] = NoMeta)
    <3>1. stays'[j] = stays[j] /\ stays[j] \in Nat
      BY <1>1, <2>3, Counts DEF TypeInv, TypeOK
    <3>2. Says(meta'[j]) \in {Says(meta[j]), "out"}
      BY <1>6, <2>3
    <3>3. Due(j)' <= Due(j) /\ Due(j) \in 0 .. 2 /\ Due(j)' \in 0 .. 2
      BY <2>1, <3>2 DEF Due, DueOf
    <3> QED BY <3>1, <3>3
  <2> QED BY <2>2, <2>3
<1>8. DueInv'
  BY <1>1, <1>7, NothingSent DEF OnceInv
<1>9. UntoldInv'
  BY <1>1, <1>6 DEF OnceInv, UntoldInv, TypeInv, TypeOK
<1> QED BY <1>8, <1>9 DEF OnceInv


(* The steps outside the summary. *)
LEMMA LeavingOnce ==
  ASSUME TypeInv, TypeInv', OnceInv,
         \/ Tick \/ DrainBegins \/ Sort \/ ScoringEnds \/ DrainStops \/ ReviewEnds \/ DrainEnds
         \/ \E k \in Keys : \/ Resolve(k) \/ Score(k) \/ Review(k) \/ PhotoSent(k)
                            \/ Delivered(k) \/ PhotoFails(k)
  PROVE  OnceInv'
<1>1. Says(NoMeta) = "out"
  BY DEF Says
<1>2. CASE Tick \/ DrainBegins \/ ScoringEnds \/ DrainStops \/ ReviewEnds \/ DrainEnds
  <2>1. /\ stage \notin Summing /\ stage' \notin Summing
        /\ UNCHANGED <<meta, heard, stays, crashes>>
    BY <1>2 DEF Tick, DrainBegins, ScoringEnds, DrainStops, ReviewEnds, DrainEnds, MemoryLost,
                diskVars, drainVars, toldVars, Summing
  <2> QED BY <2>1, Leave DEF OnceInv
<1>3. CASE Sort
  <2> DEFINE old == {k \in InSnap : clock - snap[k].since > MaxAge}
  <2>1. /\ stage = "sort" /\ stage' \in {"release", "score"}
        /\ meta' = [k \in Keys |-> IF k \in old THEN NoMeta ELSE meta[k]]
        /\ UNCHANGED <<heard, stays, crashes>>
    BY <1>3 DEF Sort, toldVars
  <2> HIDE DEF old
  <2>2. \A k \in Keys : Says(meta'[k]) \in {Says(meta[k]), "out"}
    BY <2>1, <1>1
  <2> QED BY <2>1, <2>2, Leave DEF OnceInv, Summing
<1>4. ASSUME NEW k \in Keys, Resolve(k) \/ Review(k) \/ Delivered(k) PROVE OnceInv'
  <2>1. /\ Remove({k}) /\ stage \notin Summing /\ stage' \notin Summing
        /\ UNCHANGED <<heard, stays, crashes>>
    BY <1>4 DEF Resolve, Review, Delivered, toldVars, Summing
  <2>2. \A j \in Keys : Says(meta'[j]) \in {Says(meta[j]), "out"}
    BY <2>1, RemoveSays
  <2> QED BY <2>1, <2>2, Leave DEF OnceInv
<1>5. ASSUME NEW k \in Keys, PhotoSent(k) PROVE OnceInv'
  <2>1. /\ stage \notin Summing /\ stage' \notin Summing
        /\ UNCHANGED <<meta, heard, stays, crashes>>
    BY <1>5 DEF PhotoSent, diskVars, Summing
  <2> QED BY <2>1, Leave DEF OnceInv
<1>6. ASSUME NEW k \in Keys, Score(k) PROVE OnceInv'
  <2>1. PICK sc \in Scores : Update(k, [meta[k] EXCEPT !.score = sc])
    BY <1>6 DEF Score, Scores
  <2>2. /\ stage = "score" /\ stage' \in {"score", "release"}
        /\ UNCHANGED <<heard, stays, crashes>>
    BY <1>6 DEF Score, toldVars
  <2>3. meta[k] # NoMeta => Says([meta[k] EXCEPT !.score = sc]) = Says(meta[k])
    BY SaysScored DEF TypeInv, TypeOK
  <2>4. \A j \in Keys : Says(meta'[j]) = Says(meta[j])
    BY <2>1, <2>3, UpdateSays
  <2> QED BY <2>2, <2>4, Leave DEF OnceInv, Summing
<1>7. ASSUME NEW k \in Keys, PhotoFails(k) PROVE OnceInv'
  <2>1. /\ stage = "photos" /\ stage' \in {"photos", "release"} /\ k \in todo
        /\ UNCHANGED <<heard, stays, crashes>>
    BY <1>7 DEF PhotoFails, Oldest, toldVars
  <2>2. \A j \in Keys : Says(meta'[j]) \in {Says(meta[j]), "out"}
    <3>1. CASE Remove({k})
      BY <3>1, RemoveSays
    <3>2. CASE ~LastAttempt(k) /\ Update(k, [meta[k] EXCEPT !.attempts = snap[k].attempts + 1])
      <4>1. snap[k] \in Sidecar
        BY <2>1, InHandSidecar DEF TypeInv, HandInv
      <4>2. snap[k].attempts + 1 \in 0 .. MaxAttempts - 1
        <5>1. snap[k].attempts \in 0 .. MaxAttempts - 1
          BY <4>1 DEF Sidecar
        <5> QED BY <3>2, <5>1, OutboxAssumption DEF LastAttempt
      <4>3. meta[k] # NoMeta =>
              Says([meta[k] EXCEPT !.attempts = snap[k].attempts + 1]) = Says(meta[k])
        BY <4>2, SaysTried DEF TypeInv, TypeOK
      <4> QED BY <3>2, <4>3, UpdateSays
    <3> QED BY <1>7, <3>1, <3>2 DEF PhotoFails
  <2> QED BY <2>1, <2>2, Leave DEF OnceInv, Summing
<1> QED BY <1>2, <1>3, <1>4, <1>5, <1>6, <1>7

(* What the summary will count has not been counted in its stay. *)
LEMMA DecideOnce ==
  ASSUME BoxInv, TypeInv', OnceInv, Decide PROVE OnceInv'
<1> DEFINE fresh == {k \in {j \in ready : Decidable(j)} : ~snap[k].announced \/ Unconfirmed(k)}
<1>1. /\ stage = "decide" /\ stage' \in {"release", "announce", "review"}
      /\ batch' = fresh /\ (stage' = "announce" => todo' = fresh)
      /\ UNCHANGED <<meta, heard, stays, crashes>>
  BY DEF Decide, diskVars, toldVars
<1>2. \A k \in fresh : k \in ready /\ (~snap[k].announced \/ ~snap[k].confirmed)
  BY DEF Unconfirmed
<1> HIDE DEF fresh
<1>3. ASSUME NEW k \in Keys PROVE Due(k)' = Due(k)
  BY <1>1 DEF Due, Unsent, Unwritten
<1>4. DueInv'
  BY <1>1, <1>3, NothingSent, Counts, DueCovers DEF OnceInv, BoxInv
<1>5. ASSUME NEW k \in fresh PROVE Says(meta[k]) # "told"
  <2>1. k \in Keys /\ k \in ready /\ k \in InSnap
    BY <1>2 DEF BoxInv, TypeInv, TypeOK, HandInv
  <2>2. LifeOf(k) = Says(snap[k]) /\ Says(snap[k]) # "told"
    BY <1>1, <1>2, <2>1 DEF LifeOf, InHand, InSnap, Handled, Says
  <2> QED BY <1>1, <2>1, <2>2, SaysBehind DEF Pending, Leaving
<1>6. UntoldInv'
  BY <1>1, <1>5 DEF UntoldInv
<1> QED BY <1>4, <1>6 DEF OnceInv

LEMMA AnnounceOnce ==
  ASSUME BoxInv, TypeInv', OnceInv, NEW k \in Keys, Announce(k) PROVE OnceInv'
<1>1. /\ stage = "announce" /\ k \in todo /\ k \in batch
      /\ UNCHANGED <<batch, heard, stays, crashes>>
  BY DEF Announce, Oldest, BoxInv, LifeInv, PhaseInv, toldVars
<1>2. CASE /\ meta[k] # NoMeta
           /\ Update(k, [meta[k] EXCEPT !.announced = TRUE, !.startedAt = clock,
                                        !.confirmed = FALSE])
           /\ todo' = todo \ {k}
           /\ stage' = IF todo' = {} THEN "text" ELSE stage
  <2>1. Says([meta[k] EXCEPT !.announced = TRUE, !.startedAt = clock, !.confirmed = FALSE])
          = "unsure"
    <3>1. clock \in Times /\ meta[k] \in Sidecar
      BY <1>2 DEF BoxInv, TypeInv, TypeOK
    <3> QED BY <3>1, SaysAnnounced
  <2>2. \A j \in Keys : Says(meta'[j]) = IF j = k THEN "unsure" ELSE Says(meta[j])
    BY <1>2, <2>1, UpdateSays DEF BoxInv
  <2>3. stage' \in {"announce", "text"}
    BY <1>1, <1>2
  <2>4. ASSUME NEW j \in Keys PROVE Due(j)' <= Due(j)
    <3>1. ~Unwritten(j) /\ ~Unwritten(j)'
      BY <1>1, <2>3 DEF Unwritten
    <3>2. CASE j = k
      <4>1. Says(meta[k]) \in {"waiting", "unsure"}
        BY <1>1, <1>2, SaysLife, NoMetaIsNone DEF OnceInv, UntoldInv, Says
      <4>2. Due(k)' = 1 /\ Due(k) = 1
        BY <1>1, <1>2, <2>2, <2>3, <3>1, <3>2, <4>1 DEF Due, DueOf, Unsent
      <4> QED BY <3>2, <4>2
    <3>3. CASE j # k
      <4>1. Unsent(j)' <=> Unsent(j)
        BY <1>1, <1>2, <2>3, <3>3 DEF Unsent
      <4> QED BY <2>2, <3>1, <3>3, <4>1 DEF Due, DueOf
    <3> QED BY <3>2, <3>3
  <2>5. DueInv'
    <3>1. ASSUME NEW j \in Keys PROVE stays[j] + Due(j)' <= stays'[j] + Due(j)
      BY <1>1, <2>4, Counts, DueCovers DEF BoxInv
    <3> QED BY <1>1, <3>1, NothingSent DEF OnceInv, BoxInv
  <2>6. UntoldInv'
    BY <1>1, <1>2, <2>2 DEF OnceInv, UntoldInv, BoxInv, TypeInv, TypeOK
  <2> QED BY <2>5, <2>6 DEF OnceInv
<1>3. CASE meta[k] = NoMeta /\ meta' = TakenBack(batch \ todo) /\ stage' = "release"
  <2>1. ASSUME NEW j \in Keys PROVE DueOf(Says(meta'[j])) <= Due(j)
    <3>1. CASE j \in batch \ todo
      BY <1>1, <1>3, <3>1, TakenBackSays DEF BoxInv, Due, DueOf, Unsent
    <3>2. CASE j \notin batch \ todo
      BY <1>1, <1>3, <3>2, TakenBackSays, DueCovers DEF BoxInv, Unwritten
    <3> QED BY <3>1, <3>2
  <2> QED BY <1>1, <1>3, <2>1, Settles DEF OnceInv, BoxInv, Summing
<1> QED BY <1>2, <1>3 DEF Announce


(* The text that is owed goes out. *)
LEMMA SummarySentOnce ==
  ASSUME BoxInv, TypeInv', OnceInv, SummarySent PROVE OnceInv'
<1>1. /\ stage = "text" /\ stage' = "confirm" /\ todo' = batch
      /\ heard' = [k \in Keys |-> IF k \in batch THEN heard[k] + 1 ELSE heard[k]]
      /\ UNCHANGED <<meta, batch, stays, crashes>>
  BY DEF SummarySent, diskVars
<1>2. ASSUME NEW k \in Keys PROVE heard'[k] + Due(k)' <= stays'[k] + crashes'
  <2>1. /\ heard[k] + Due(k) <= stays[k] + crashes /\ heard[k] \in Nat /\ stays[k] \in Nat
        /\ Due(k) \in 0 .. 2 /\ Due(k)' \in 0 .. 2 /\ crashes \in Nat
    BY Counts, DueCovers DEF OnceInv, DueInv, BoxInv
  <2>2. CASE k \in batch
    <3>1. heard'[k] = heard[k] + 1 /\ Due(k)' + 1 = Due(k)
      BY <1>1, <2>2 DEF Due, DueOf, Unsent, Unwritten
    <3> QED BY <1>1, <2>1, <3>1
  <2>3. CASE k \notin batch
    <3>1. heard'[k] = heard[k] /\ Due(k)' = Due(k)
      BY <1>1, <2>3 DEF Due, DueOf, Unsent, Unwritten
    <3> QED BY <1>1, <2>1, <3>1
  <2> QED BY <2>2, <2>3
<1> QED BY <1>1, <1>2 DEF OnceInv, DueInv, UntoldInv

LEMMA SummaryFailsOnce ==
  ASSUME BoxInv, TypeInv', OnceInv, SummaryFails PROVE OnceInv'
<1>1. /\ stage = "text" /\ meta' = TakenBack(batch) /\ stage' = "release"
      /\ UNCHANGED <<heard, stays, crashes>>
  BY DEF SummaryFails, toldVars
<1>2. ASSUME NEW j \in Keys PROVE DueOf(Says(meta'[j])) <= Due(j)
  <2>1. CASE j \in batch
    BY <1>1, <2>1, TakenBackSays DEF BoxInv, Due, DueOf, Unsent
  <2>2. CASE j \notin batch
    BY <1>1, <2>2, TakenBackSays, DueCovers DEF BoxInv, Unwritten
  <2> QED BY <2>1, <2>2
<1> QED BY <1>1, <1>2, Settles DEF OnceInv, BoxInv, Summing

LEMMA ConfirmOnce ==
  ASSUME BoxInv, TypeInv', OnceInv, NEW k \in Keys, Confirm(k) PROVE OnceInv'
<1>1. /\ stage = "confirm" /\ k \in todo
      /\ Update(k, [meta[k] EXCEPT !.confirmed = TRUE])
      /\ IF todo = {k} THEN stage' = "review" /\ todo' = ready \ late
                       ELSE todo' = todo \ {k} /\ UNCHANGED stage
      /\ UNCHANGED <<heard, stays, crashes>>
  BY DEF Confirm, Oldest, toldVars
<1>2. /\ \A j \in Keys : j # k => Says(meta'[j]) = Says(meta[j])
      /\ meta[k] = NoMeta => Says(meta'[k]) = "out"
      /\ Says(meta'[k]) = "waiting" => Says(meta[k]) = "waiting"
      /\ Says(meta'[k]) # "unsure"
  <2>1. meta[k] # NoMeta => /\ Says([meta[k] EXCEPT !.confirmed = TRUE]) \in {"waiting", "told"}
                            /\ [meta[k] EXCEPT !.confirmed = TRUE].announced = meta[k].announced
                            /\ [meta[k] EXCEPT !.confirmed = TRUE] # NoMeta
    <3>1. meta[k] # NoMeta => meta[k] \in Sidecar
      BY DEF BoxInv, TypeInv, TypeOK
    <3>2. meta[k] # NoMeta => [meta[k] EXCEPT !.confirmed = TRUE] \in Sidecar
      BY <3>1, ConfirmedSidecar
    <3> QED BY <3>1, <3>2, SaysConfirmed, NoMetaIsNone DEF Sidecar
  <2>2. meta[k] # NoMeta /\ Says([meta[k] EXCEPT !.confirmed = TRUE]) = "waiting"
          => Says(meta[k]) = "waiting"
    BY <2>1 DEF Says
  <2>3. meta[k] = NoMeta => Says(meta[k]) = "out"
    BY DEF Says
  <2> QED BY <1>1, <2>1, <2>2, <2>3, UpdateSays DEF BoxInv
<1>3. ASSUME NEW j \in Keys PROVE Due(j)' <= Due(j)
  <2>1. ~Unsent(j) /\ ~Unsent(j)'
    BY <1>1 DEF Unsent
  <2>2. CASE j = k
    <3>1. Unwritten(k) /\ ~Unwritten(k)'
      BY <1>1 DEF Unwritten
    <3> QED BY <1>2, <2>1, <2>2, <3>1, SaysLife DEF Due, DueOf
  <2>3. CASE j # k
    <3>1. Unwritten(j)' <=> Unwritten(j)
      BY <1>1, <2>3 DEF Unwritten
    <3> QED BY <1>2, <2>1, <2>3, <3>1 DEF Due, DueOf
  <2> QED BY <2>2, <2>3
<1>4. ASSUME NEW j \in Keys PROVE stays[j] + Due(j)' <= stays'[j] + Due(j)
  BY <1>1, <1>3, Counts, DueCovers DEF BoxInv
<1>5. DueInv'
  BY <1>1, <1>4, NothingSent DEF OnceInv, BoxInv
<1> QED BY <1>1, <1>5 DEF OnceInv, UntoldInv

(* A crash may cost one text. *)
LEMMA CrashOnce ==
  ASSUME TypeInv, TypeInv', OnceInv,
         \/ Crash
         \/ \E k \in Keys, v \in Vers, sc \in Scores : CrashInCapture(k, v, sc)
         \/ \E k \in Keys : CrashInRemove(k)
  PROVE  OnceInv'
<1>1. stage' = "idle" /\ heard' = heard /\ crashes' = crashes + 1
  BY DEF Crash, CrashInCapture, CrashInRemove, MemoryLost, toldVars
<1>2. \A k \in Keys : stays'[k] \in Nat /\ stays[k] <= stays'[k]
  <2>1. stays' = stays \/ \E k \in Keys : Enters(k)
    BY DEF Crash, CrashInCapture, CrashInRemove, toldVars
  <2>2. stays \in [Keys -> Nat]
    BY DEF TypeInv, TypeOK
  <2> QED BY <2>1, <2>2 DEF Enters
<1>3. \A k \in Keys : Due(k)' \in 0 .. 1
  BY <1>1, DueSettled DEF Summing, DueOf
<1>4. ASSUME NEW k \in Keys PROVE heard'[k] + Due(k)' <= stays'[k] + crashes'
  <2>1. heard[k] + Due(k) <= stays[k] + crashes
    BY DEF OnceInv, DueInv
  <2> QED BY <1>1, <1>2, <1>3, <2>1, Counts, DueCovers
<1> QED BY <1>1, <1>4 DEF OnceInv, DueInv, UntoldInv

LEMMA OnceStep ==
  ASSUME BoxInv, TypeInv', OnceInv, [Next]_vars PROVE OnceInv'
<1>1. ASSUME NEW k \in Keys, NEW v \in Vers, NEW sc \in Scores, Capture(k, v, sc)
      PROVE  OnceInv'
  BY <1>1, CaptureOnce DEF BoxInv
<1>2. CASE \/ Tick \/ DrainBegins \/ Sort \/ ScoringEnds \/ DrainStops \/ ReviewEnds \/ DrainEnds
           \/ \E k \in Keys : \/ Resolve(k) \/ Score(k) \/ Review(k) \/ PhotoSent(k)
                              \/ Delivered(k) \/ PhotoFails(k)
  BY <1>2, LeavingOnce DEF BoxInv
<1>3. CASE Decide \/ SummarySent \/ SummaryFails
  BY <1>3, DecideOnce, SummarySentOnce, SummaryFailsOnce
<1>4. ASSUME NEW k \in Keys, Announce(k) \/ Confirm(k) PROVE OnceInv'
  BY <1>4, AnnounceOnce, ConfirmOnce
<1>5. CASE \/ Crash
           \/ \E k \in Keys, v \in Vers, sc \in Scores : CrashInCapture(k, v, sc)
           \/ \E k \in Keys : CrashInRemove(k)
  BY <1>5, CrashOnce DEF BoxInv
<1>6. CASE UNCHANGED vars
  BY <1>6 DEF vars, diskVars, drainVars, toldVars, OnceInv, DueInv, UntoldInv, Due, Unsent,
              Unwritten
<1> QED BY <1>1, <1>2, <1>3, <1>4, <1>5, <1>6 DEF Next

(* Without the summary no text counts anything. *)
MuteInv == TypeInv /\ stage \notin Summing /\ \A k \in Keys : heard[k] = 0

LEMMA MuteHolds == ASSUME Summary = FALSE PROVE Spec => []MuteInv
<1>1. Init => MuteInv
  BY TypeInvInit DEF Init, MuteInv, Summing
<1>2. ASSUME MuteInv, [Next]_vars PROVE MuteInv'
  <2>1. heard' = heard /\ stage' \notin Summing
    BY <1>2 DEF MuteInv, Summing, Next, vars, Tick, Capture, Resolve, DrainBegins, Sort, Score,
      ScoringEnds, DrainStops, Decide, Announce, SummarySent, SummaryFails, Confirm, Review,
      ReviewEnds, PhotoSent, Delivered, PhotoFails, DrainEnds, Crash, CrashInCapture,
      CrashInRemove, MemoryLost, diskVars, drainVars, toldVars
  <2> QED BY <1>2, <2>1, TypeInvStep DEF MuteInv
<1> QED BY <1>1, <1>2, PTL DEF Spec

(* The phone hears of an incident at most once for each stay in the box, but    *)
(* for one text more after each crash, however captures, evictions, refused    *)
(* texts and crashes fall between the steps of a drain (outbox.drain).         *)
THEOREM SummaryOnceCorrect == Spec => []SummaryOnce
<1>1. CASE Summary = TRUE
  <2>1. Init => OnceInv
    BY DEF Init, OnceInv, DueInv, UntoldInv, Due, DueOf, Unsent, Unwritten, Says
  <2>2. BoxInv /\ BoxInv' /\ OnceInv /\ [Next]_vars => OnceInv'
    BY OnceStep DEF BoxInv
  <2>3. BoxInv /\ OnceInv => SummaryOnce
    <3>1. ASSUME BoxInv, OnceInv, NEW k \in Keys PROVE heard[k] <= stays[k] + crashes
      BY <3>1, Counts, DueCovers DEF OnceInv, DueInv, BoxInv
    <3> QED BY <3>1 DEF SummaryOnce
  <2>4. Spec => []BoxInv
    BY <1>1, BoxInvHolds
  <2> QED BY <2>1, <2>2, <2>3, <2>4, PTL DEF Spec
<1>2. CASE Summary = FALSE
  <2>1. MuteInv => SummaryOnce
    <3>1. ASSUME MuteInv, NEW k \in Keys PROVE heard[k] <= stays[k] + crashes
      BY <3>1, Counts DEF MuteInv
    <3> QED BY <3>1 DEF SummaryOnce
  <2>2. Spec => []MuteInv
    BY <1>2, MuteHolds
  <2> QED BY <2>1, <2>2, PTL
<1>3. Summary = TRUE \/ Summary = FALSE
  BY OutboxAssumption
<1> QED BY <1>1, <1>2, <1>3

-----------------------------------------------------------------------------
(* Eviction *)

BoxFinite == IsFiniteSet(Entries)

(* Only a capture adds an entry, and only one. *)
LEMMA EntriesGrow ==
  ASSUME TypeInv, [Next]_vars PROVE \E k \in Keys \cup {0} : Entries' \subseteq Entries \cup {k}
<1>1. ASSUME NEW k \in Keys, NEW v \in Vers, NEW sc \in Scores,
             Capture(k, v, sc) \/ CrashInCapture(k, v, sc)
      PROVE  Entries' \subseteq Entries \cup {k}
  BY <1>1 DEF Capture, CrashInCapture, Written, Entries, TypeInv, TypeOK
<1>2. ASSUME NEW k \in Keys,
             \/ Resolve(k) \/ Score(k) \/ Announce(k) \/ Confirm(k) \/ Review(k)
             \/ PhotoSent(k) \/ Delivered(k) \/ PhotoFails(k) \/ CrashInRemove(k)
      PROVE  Entries' \subseteq Entries
  BY <1>2 DEF Resolve, Score, Announce, Confirm, Review, PhotoSent, Delivered, PhotoFails,
              CrashInRemove, Remove, Update, TakenBack, Entries, TypeInv, TypeOK, diskVars
<1>3. CASE \/ Tick \/ DrainBegins \/ Sort \/ ScoringEnds \/ DrainStops \/ Decide \/ SummarySent
           \/ SummaryFails \/ ReviewEnds \/ DrainEnds \/ Crash \/ UNCHANGED vars
  <2>1. Entries' \subseteq Entries
    BY <1>3 DEF Tick, DrainBegins, Sort, ScoringEnds, DrainStops, Decide, SummarySent,
                SummaryFails, ReviewEnds, DrainEnds, Crash, TakenBack, Entries, TypeInv, TypeOK,
                vars, diskVars
  <2> QED BY <2>1
<1> QED BY <1>1, <1>2, <1>3 DEF Next

LEMMA BoxFiniteStep ==
  ASSUME TypeInv, BoxFinite, [Next]_vars PROVE BoxFinite'
<1>1. PICK k \in Keys \cup {0} : Entries' \subseteq Entries \cup {k} BY EntriesGrow
<1>2. IsFiniteSet(Entries \cup {k}) BY FS_AddElement DEF BoxFinite
<1> QED BY <1>1, <1>2, FS_Subset DEF BoxFinite

(* Where a person is dropped, so is everything that is none: what goes before   *)
(* such an entry also goes before the person.                                  *)
LEMMA VictimsPersonsLast ==
  ASSUME NEW m, NEW e, IsFiniteSet(e), NEW k \in Victims(m, e), NEW j \in e,
         LikelyPerson(m, k), ~LikelyPerson(m, j)
  PROVE  j \in Victims(m, e)
<1> DEFINE Ahead(i) == {h \in e : DropsFirst(m, h, i)}
<1>1. Ahead(j) \subseteq Ahead(k)
  BY DEF DropsFirst
<1>2. IsFiniteSet(Ahead(k)) /\ IsFiniteSet(Ahead(j))
  BY FS_Subset
<1>3. Cardinality(Ahead(j)) <= Cardinality(Ahead(k))
  BY <1>1, <1>2, FS_Subset
<1>4. Cardinality(Ahead(j)) \in Nat /\ Cardinality(Ahead(k)) \in Nat /\ Cardinality(e) \in Nat
  BY <1>2, FS_CardinalityType
<1>5. Cardinality(Ahead(k)) < Cardinality(e) - MaxEntries
  BY DEF Victims
<1>6. Cardinality(Ahead(j)) < Cardinality(e) - MaxEntries
  <2> HIDE DEF Ahead
  <2> QED BY <1>3, <1>4, <1>5, OutboxAssumption
<1> QED BY <1>6 DEF Victims

(* A full box gives up persons last, whichever entry was captured and whatever  *)
(* a crash left over the limit (outbox._enforce_cap, _likely_person).          *)
THEOREM PersonsEvictedLastCorrect == Spec => PersonsEvictedLast
<1> DEFINE Last == captures' # captures =>
           \A i \in Keys, v \in Vers, sc \in Scores :
             Capture(i, v, sc) =>
                 \A k, j \in Keys :
                     /\ Written(i, v, sc)[k] # NoMeta /\ meta'[k] = NoMeta
                     /\ LikelyPerson(Written(i, v, sc), k) /\ meta'[j] # NoMeta
                     => LikelyPerson(meta', j)
<1>1. Init => TypeInv /\ BoxFinite
  BY TypeInvInit, FS_EmptySet DEF Init, BoxFinite, Entries
<1>2. TypeInv /\ BoxFinite /\ [Next]_vars => (TypeInv /\ BoxFinite)'
  BY TypeInvStep, BoxFiniteStep
<1>3. TypeInv /\ BoxFinite /\ [Next]_vars => [Last]_vars
  <2> SUFFICES ASSUME TypeInv, BoxFinite, NEW i \in Keys, NEW v \in Vers, NEW sc \in Scores,
                      Capture(i, v, sc), NEW k \in Keys, NEW j \in Keys,
                      Written(i, v, sc)[k] # NoMeta, meta'[k] = NoMeta,
                      LikelyPerson(Written(i, v, sc), k), meta'[j] # NoMeta
               PROVE  LikelyPerson(meta', j)
    OBVIOUS
  <2> DEFINE m == Written(i, v, sc)
             e == Entries \cup {i}
             out == Victims(m, e)
  <2>1. meta' = [h \in Keys |-> IF h \in out THEN NoMeta ELSE m[h]]
    BY DEF Capture
  <2>2. IsFiniteSet(e) BY FS_AddElement DEF BoxFinite
  <2>3. k \in out /\ j \notin out /\ meta'[j] = m[j]
    BY <2>1
  <2>4. j \in e
    BY <2>3 DEF Written, Entries, TypeInv, TypeOK
  <2>5. LikelyPerson(m, j)
    BY <2>2, <2>3, <2>4, VictimsPersonsLast
  <2> QED BY <2>3, <2>5 DEF LikelyPerson
<1> QED BY <1>1, <1>2, <1>3, PTL DEF Spec, PersonsEvictedLast
===============================================================================
