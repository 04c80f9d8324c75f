------------------------------- MODULE Outbox -------------------------------
(***************************************************************************)
(* The outbox of undelivered alerts: a directory of JPEGs, each named by a *)
(* JSON sidecar, and the drain that delivers them late.  Every operation   *)
(* on the directory holds the budget lock; the drain releases it around    *)
(* its calls of Telegram and of the scorer, so a capture of another thread *)
(* can come between any two of its steps, and a crash after any of them.   *)
(*                                                                         *)
(* One camera; byte sizes, texts and the late caption are left out.        *)
(***************************************************************************)
EXTENDS Integers, FiniteSets

CONSTANTS
    Keys,            \* incidents, in the order of their names
    PersonEvents,    \* those of a camera event of type person
    MaxEntries, MaxPhotos, MaxSends, MaxAttempts,
    MinAge, MaxAge, UnscoredWait, ConfirmWait,
    HasScorer, Summary,          \* configuration
    Vers,                        \* bound: frame names an incident can have
    Horizon, MaxCaptures, MaxCrashes     \* bounds

ASSUME OutboxAssumption ==
    /\ Keys \subseteq Nat /\ PersonEvents \subseteq Keys
    /\ MaxEntries \in Nat /\ MaxPhotos \in Nat /\ MaxSends \in Nat
    /\ MaxAttempts \in Nat \ {0}
    /\ MinAge \in Nat /\ MaxAge \in Nat /\ UnscoredWait \in Nat /\ ConfirmWait \in Nat
    /\ {HasScorer, Summary} \subseteq BOOLEAN
    /\ Vers \subseteq Nat /\ 0 \in Vers
    /\ Horizon \in Nat /\ MaxCaptures \in Nat /\ MaxCrashes \in Nat

VARIABLES
    clock,
    meta,        \* the sidecars
    frames,      \* the JPEGs on disk, by incident and name
    stage,       \* what the drain does next
    snap,        \* the drain's own copy of the entries it read
    borrowed,    \* frames a drain holds
    retired,     \* frames to unlink when it lets go of them
    ready,       \* entries this drain may decide
    todo,        \* those the stage has not handled yet
    batch,       \* entries the summary counts
    late,        \* entries whose photo goes to the phone
    sends,       \* photos sent by this drain
    captures, crashes,
    stays,       \* times the incident entered the box
    heard,       \* summaries the phone got that count it
    seen         \* late photos of it the phone got

diskVars  == <<meta, frames>>
drainVars == <<stage, snap, borrowed, retired, ready, todo, batch, late, sends>>
toldVars  == <<stays, heard, seen>>
vars == <<clock, diskVars, drainVars, captures, crashes, toldVars>>

Times  == 0 .. Horizon
Scores == {"none", "person", "nobody"}
Stages == {"idle", "sort", "score", "decide", "announce", "text", "confirm", "review", "photos",
           "delivered", "release"}

Sidecar == [ver : Vers, since : Times, score : Scores, announced : BOOLEAN,
            startedAt : Times, confirmed : BOOLEAN, attempts : 0 .. MaxAttempts - 1]
\* Absent sidecar; "ver" is no name of a frame.
NoMeta == [ver |-> -1, since |-> 0, score |-> "none", announced |-> FALSE,
           startedAt |-> 0, confirmed |-> FALSE, attempts |-> 0]

Entries == {k \in Keys : meta[k] # NoMeta}

\* _likely_person: worth keeping when the box is full.
LikelyPerson(m, k) == k \in PersonEvents \/ m[k].score = "person"

\* is_person: worth a late photo.
IsPerson(m, k) ==
    IF m[k].score = "none" THEN k \in PersonEvents ELSE m[k].score = "person"

\* Oldest failure first, then by name.
Before(m, j, k) == m[j].since < m[k].since \/ (m[j].since = m[k].since /\ j <= k)
Oldest(m, k, S) == k \in S /\ \A j \in S : Before(m, k, j)
-----------------------------------------------------------------------------
(* The directory *)

Image(m, k) == <<k, m[k].ver>>

\* Mutant: unlink at once, whoever reads it.
KeptAtOnce(gone) == {}

\* _retire_image: a borrowed frame stays until the drain lets go of it.
Kept(gone) == gone \cap borrowed
Retire(gone) == retired' = retired \cup Kept(gone)

\* The frames an entry's removal retires: its own and the canonical one.
FramesOf(m, k) == {Image(m, k), <<k, 0>>}

\* remove(): the sidecar first, then its frames.
Remove(S) ==
    LET gone == UNION {FramesOf(meta, k) : k \in S}
    IN /\ meta' = [k \in Keys |-> IF k \in S THEN NoMeta ELSE meta[k]]
       /\ frames' = frames \ (gone \ Kept(gone))
       /\ Retire(gone)

\* Mutant: a second failure starts the sidecar anew.
CapturedAnew(k, v, sc) == [NoMeta EXCEPT !.ver = v, !.since = clock, !.score = sc]

\* The sidecar a capture writes over the previous one: the time of the first
\* failure and the drain's own marks stay, a score is never lost.
Captured(k, v, sc) ==
    IF meta[k] = NoMeta
    THEN [NoMeta EXCEPT !.ver = v, !.since = clock, !.score = sc]
    ELSE [meta[k] EXCEPT !.ver = v, !.score = IF sc = "none" THEN @ ELSE sc]

\* Mutant: only a live entry keeps its frame name.
FreeNameAnew(k, v) ==
    IF meta[k] # NoMeta THEN v # 0 /\ <<k, v>> \notin frames \cup borrowed \cup retired
                        ELSE v = 0

\* A frame name no one uses: the canonical one, unless the entry exists or a
\* drain still holds a frame of that name.
FreeName(k, v) ==
    IF meta[k] # NoMeta \/ <<k, 0>> \in borrowed \cup retired
    THEN v # 0 /\ <<k, v>> \notin frames \cup borrowed \cup retired
    ELSE v = 0

\* Mutant: the oldest entries go, whatever they show.
DropsOldest(m, j, k) == j # k /\ Before(m, j, k)

\* _enforce_cap drops j before k: entries that are no person first.
DropsFirst(m, j, k) ==
    \/ ~LikelyPerson(m, j) /\ LikelyPerson(m, k)
    \/ /\ LikelyPerson(m, j) = LikelyPerson(m, k)
       /\ j # k /\ Before(m, j, k)

\* What _enforce_cap drops of the entries e: as many as there are too many.
Victims(m, e) ==
    {k \in e : Cardinality({j \in e : DropsFirst(m, j, k)}) < Cardinality(e) - MaxEntries}

Init ==
    /\ clock = 0
    /\ meta = [k \in Keys |-> NoMeta] /\ frames = {}
    /\ stage = "idle" /\ snap = [k \in Keys |-> NoMeta]
    /\ borrowed = {} /\ retired = {} /\ ready = {} /\ todo = {} /\ batch = {} /\ late = {}
    /\ sends = 0 /\ captures = 0 /\ crashes = 0
    /\ stays = [k \in Keys |-> 0] /\ heard = [k \in Keys |-> 0] /\ seen = [k \in Keys |-> 0]

\* One call of the drain is over within a unit of time (TICK_BUDGET_S).  The
\* clock saturates at its bound.
Tick ==
    /\ stage = "idle"
    /\ clock' = IF clock < Horizon THEN clock + 1 ELSE clock
    /\ UNCHANGED <<diskVars, drainVars, captures, crashes, toldVars>>

\* The disk after a capture has written the frame and its sidecar.
Written(k, v, sc) == [meta EXCEPT ![k] = Captured(k, v, sc)]

\* The incident enters the box when it had no sidecar.
Enters(k) == stays' = [stays EXCEPT ![k] = IF meta[k] = NoMeta THEN @ + 1 ELSE @]

\* capture(): write the frame, the sidecar, retire the old frame, trim the box.
Capture(k, v, sc) ==
    LET m    == Written(k, v, sc)
        out  == Victims(m, Entries \cup {k})
        old  == IF meta[k] = NoMeta THEN {} ELSE {Image(meta, k)}
        gone == old \cup UNION {FramesOf(m, j) : j \in out}
    IN /\ captures < MaxCaptures /\ captures' = captures + 1
       /\ FreeName(k, v) /\ Enters(k)
       /\ meta' = [j \in Keys |-> IF j \in out THEN NoMeta ELSE m[j]]
       /\ frames' = (frames \cup {<<k, v>>}) \ (gone \ Kept(gone))
       /\ Retire(gone)
       /\ UNCHANGED <<clock, stage, snap, borrowed, ready, todo, batch, late, sends, crashes,
                      heard, seen>>

\* resolve(): another path delivered the incident or decided it must not go
\* out.  Those paths run on the drain's own thread.
Resolve(k) ==
    /\ stage = "idle" /\ meta[k] # NoMeta
    /\ Remove({k})
    /\ UNCHANGED <<clock, stage, snap, borrowed, ready, todo, batch, late, sends,
                   captures, crashes, toldVars>>
-----------------------------------------------------------------------------
(* The drain *)

MemoryLost ==
    /\ stage' = "idle" /\ snap' = [k \in Keys |-> NoMeta]
    /\ borrowed' = {} /\ retired' = {} /\ ready' = {} /\ todo' = {} /\ batch' = {}
    /\ late' = {} /\ sends' = 0

\* update() of one sidecar that is still there.
Update(k, rec) == meta' = [meta EXCEPT ![k] = IF @ = NoMeta THEN @ ELSE rec]

\* borrow_entries.
DrainBegins ==
    /\ stage = "idle" /\ Entries # {}
    /\ snap' = meta /\ borrowed' = {Image(meta, k) : k \in Entries}
    /\ stage' = "sort"
    /\ UNCHANGED <<clock, diskVars, retired, ready, todo, batch, late, sends, captures,
                   crashes, toldVars>>

InSnap == {k \in Keys : snap[k] # NoMeta}

\* The sweep of frames without a sidecar that are an hour old, the entries
\* dropped for their age, and the ones left for this drain: old enough, and no
\* in-memory retry owns them.  Telegram may be unreachable.
Sort ==
    LET old == {k \in InSnap : clock - snap[k].since > MaxAge}
        orphans == {f \in frames \ borrowed : \A k \in Entries : f # Image(meta, k)}
        gone == UNION {FramesOf(meta, k) : k \in old}
    IN /\ stage = "sort"
       /\ meta' = [k \in Keys |-> IF k \in old THEN NoMeta ELSE meta[k]]
       /\ \E swept \in {{}, orphans} : frames' = frames \ (swept \cup (gone \ Kept(gone)))
       /\ Retire(gone)
       /\ \E busy \in SUBSET InSnap :
             ready' = {k \in InSnap \ (old \cup busy) : clock - snap[k].since >= MinAge}
       /\ \/ stage' = "release" /\ todo' = {}
          \/ /\ ready' # {} /\ stage' = "score"
             /\ todo' = {k \in ready' : HasScorer /\ snap[k].score = "none"}
       /\ UNCHANGED <<clock, snap, borrowed, batch, late, sends, captures, crashes, toldVars>>

\* The scorer answers for one entry; an entry gone meanwhile stops the drain.
Score(k) ==
    /\ stage = "score" /\ Oldest(snap, k, todo)
    /\ todo' = todo \ {k}
    /\ \E sc \in {"person", "nobody"} :
          /\ snap' = [snap EXCEPT ![k].score = sc]
          /\ Update(k, [meta[k] EXCEPT !.score = sc])
    /\ stage' = IF meta[k] = NoMeta THEN "release" ELSE stage
    /\ UNCHANGED <<clock, frames, borrowed, retired, ready, batch, late, sends, captures,
                   crashes, toldVars>>

\* All scored, or the scorer is down: the rest goes unscored.
ScoringEnds ==
    /\ stage = "score" /\ stage' = "decide" /\ todo' = {}
    /\ UNCHANGED <<clock, diskVars, snap, borrowed, retired, ready, batch, late, sends,
                   captures, crashes, toldVars>>

\* The tick's budget is spent, or nothing is left to do.
DrainStops ==
    /\ \/ stage = "score" /\ todo # {}
       \/ stage = "photos"
    /\ stage' = "release"
    /\ UNCHANGED <<clock, diskVars, snap, borrowed, retired, ready, todo, batch, late,
                   sends, captures, crashes, toldVars>>

Decidable(k) ==
    \/ snap[k].score # "none" \/ ~HasScorer \/ k \in PersonEvents
    \/ clock - snap[k].since >= UnscoredWait

\* A summary that was never confirmed counts for nothing after ConfirmWait.
Unconfirmed(k) ==
    /\ snap[k].announced /\ ~snap[k].confirmed
    /\ clock - snap[k].startedAt > ConfirmWait

\* plan_batch: the first persons up to the cap go to the phone.
Planned(S) ==
    {k \in S : /\ IsPerson(snap, k)
               /\ Cardinality({j \in S : IsPerson(snap, j) /\ Before(snap, j, k)}) <= MaxPhotos}

Decide ==
    LET decided == {k \in ready : Decidable(k)}
        fresh   == {k \in decided : ~snap[k].announced \/ Unconfirmed(k)}
        phone   == Planned(decided)
    IN /\ stage = "decide"
       /\ snap' = [k \in Keys |-> IF k \in fresh THEN [snap[k] EXCEPT !.announced = FALSE]
                                                ELSE snap[k]]
       /\ ready' = decided /\ late' = phone /\ batch' = fresh
       /\ IF decided = {} THEN stage' = "release" /\ todo' = {}
          ELSE IF Summary /\ fresh # {} THEN stage' = "announce" /\ todo' = fresh
          ELSE stage' = "review" /\ todo' = decided \ phone
       /\ UNCHANGED <<clock, diskVars, borrowed, retired, sends, captures, crashes, toldVars>>

\* The sidecars of S once the summary that counts them is taken back.
TakenBack(S) ==
    [j \in Keys |-> IF j \in S /\ meta[j] # NoMeta
                    THEN [meta[j] EXCEPT !.announced = FALSE, !.startedAt = 0] ELSE meta[j]]

\* The intent to announce is on disk before the text goes out.
Announce(k) ==
    /\ stage = "announce" /\ Oldest(snap, k, todo)
    /\ \/ /\ meta[k] # NoMeta
          /\ Update(k, [meta[k] EXCEPT !.announced = TRUE, !.startedAt = clock,
                                       !.confirmed = FALSE])
          /\ todo' = todo \ {k}
          /\ stage' = IF todo' = {} THEN "text" ELSE stage
       \/ /\ meta[k] = NoMeta
          /\ meta' = TakenBack(batch \ todo)
          /\ stage' = "release" /\ UNCHANGED todo
    /\ UNCHANGED <<clock, frames, snap, borrowed, retired, ready, batch, late, sends,
                   captures, crashes, toldVars>>

SummarySent ==
    /\ stage = "text"
    /\ heard' = [k \in Keys |-> IF k \in batch THEN heard[k] + 1 ELSE heard[k]]
    /\ snap' = [k \in Keys |-> IF k \in batch
                               THEN [snap[k] EXCEPT !.announced = TRUE, !.confirmed = TRUE]
                               ELSE snap[k]]
    /\ stage' = "confirm" /\ todo' = batch
    /\ UNCHANGED <<clock, diskVars, borrowed, retired, ready, batch, late, sends, captures,
                   crashes, stays, seen>>

\* Mutant: a refused summary does not stop the drain.
SummaryFailsGoesOn ==
    /\ stage = "text"
    /\ meta' = TakenBack(batch)
    /\ stage' = "review" /\ todo' = ready \ late
    /\ UNCHANGED <<clock, frames, snap, borrowed, retired, ready, batch, late, sends,
                   captures, crashes, toldVars>>

SummaryFails ==
    /\ stage = "text"
    /\ meta' = TakenBack(batch)
    /\ stage' = "release"
    /\ UNCHANGED <<clock, frames, snap, borrowed, retired, ready, todo, batch, late, sends,
                   captures, crashes, toldVars>>

Confirm(k) ==
    /\ stage = "confirm" /\ Oldest(snap, k, todo)
    /\ Update(k, [meta[k] EXCEPT !.confirmed = TRUE])
    /\ IF todo = {k} THEN stage' = "review" /\ todo' = ready \ late
                     ELSE todo' = todo \ {k} /\ UNCHANGED stage
    /\ UNCHANGED <<clock, frames, snap, borrowed, retired, ready, batch, late, sends,
                   captures, crashes, toldVars>>

\* Nobody on it, or past the photo cap: review log.
Review(k) ==
    /\ stage = "review" /\ Oldest(snap, k, todo)
    /\ Remove({k}) /\ todo' = todo \ {k}
    /\ UNCHANGED <<clock, stage, snap, borrowed, ready, batch, late, sends, captures,
                   crashes, toldVars>>

ReviewEnds ==
    /\ stage = "review" /\ todo = {}
    /\ stage' = "photos" /\ todo' = late
    /\ UNCHANGED <<clock, diskVars, snap, borrowed, retired, ready, batch, late, sends,
                   captures, crashes, toldVars>>

\* Telegram took the late photo; the entry is not removed yet.
PhotoSent(k) ==
    /\ stage = "photos" /\ Oldest(snap, k, todo) /\ sends < MaxSends
    /\ seen' = [seen EXCEPT ![k] = @ + 1]
    /\ sends' = sends + 1 /\ stage' = "delivered"
    /\ UNCHANGED <<clock, diskVars, snap, borrowed, retired, ready, todo, batch, late,
                   captures, crashes, stays, heard>>

\* Mutant: the sidecar survives its delivery.
DeliveredStays(k) ==
    /\ stage = "delivered" /\ Oldest(snap, k, todo)
    /\ todo' = todo \ {k} /\ stage' = "photos"
    /\ UNCHANGED <<clock, diskVars, snap, borrowed, retired, ready, batch, late, sends,
                   captures, crashes, toldVars>>

Delivered(k) ==
    /\ stage = "delivered" /\ Oldest(snap, k, todo)
    /\ Remove({k}) /\ todo' = todo \ {k}
    /\ stage' = "photos"
    /\ UNCHANGED <<clock, snap, borrowed, ready, batch, late, sends, captures, crashes,
                   toldVars>>

\* Mutant: one attempt too many.
LastAttemptLate(k) == snap[k].attempts + 1 > MaxAttempts

LastAttempt(k) == snap[k].attempts + 1 >= MaxAttempts

\* A refused photo stops the camera's batch; the last attempt moves the entry to
\* the review log and the batch goes on.
PhotoFails(k) ==
    /\ stage = "photos" /\ Oldest(snap, k, todo) /\ sends < MaxSends
    /\ sends' = sends + 1
    /\ \/ /\ LastAttempt(k)
          /\ Remove({k}) /\ todo' = todo \ {k} /\ UNCHANGED <<stage, snap>>
       \/ /\ ~LastAttempt(k)
          /\ snap' = [snap EXCEPT ![k].attempts = @ + 1]
          /\ Update(k, [meta[k] EXCEPT !.attempts = snap[k].attempts + 1])
          /\ stage' = "release" /\ UNCHANGED <<frames, retired, todo>>
    /\ UNCHANGED <<clock, borrowed, ready, batch, late, captures, crashes, toldVars>>

\* The drain lets go of its frames; the retired ones are unlinked.
DrainEnds ==
    /\ stage = "release"
    /\ frames' = frames \ retired
    /\ MemoryLost
    /\ UNCHANGED <<clock, meta, captures, crashes, toldVars>>
-----------------------------------------------------------------------------
(* Crashes; the daemon starts again with an empty memory *)

Crash ==
    /\ crashes < MaxCrashes /\ crashes' = crashes + 1
    /\ MemoryLost
    /\ UNCHANGED <<clock, diskVars, captures, toldVars>>

\* Between the frame and its sidecar, or between the sidecar and the rest.
CrashInCapture(k, v, sc) ==
    /\ crashes < MaxCrashes /\ crashes' = crashes + 1
    /\ captures < MaxCaptures /\ captures' = captures + 1
    /\ FreeName(k, v)
    /\ frames' = frames \cup {<<k, v>>}
    /\ \/ UNCHANGED <<meta, stays>>
       \/ meta' = Written(k, v, sc) /\ Enters(k)
    /\ MemoryLost
    /\ UNCHANGED <<clock, heard, seen>>

\* Between a sidecar's removal and its frames'.
CrashInRemove(k) ==
    /\ crashes < MaxCrashes /\ crashes' = crashes + 1
    /\ meta[k] # NoMeta
    /\ stage = "idle" \/ (stage \in {"review", "delivered"} /\ Oldest(snap, k, todo))
    /\ meta' = [meta EXCEPT ![k] = NoMeta]
    /\ MemoryLost
    /\ UNCHANGED <<clock, frames, captures, toldVars>>

Next ==
    \/ Tick
    \/ \E k \in Keys, v \in Vers, sc \in Scores : Capture(k, v, sc)
    \/ \E k \in Keys : Resolve(k)
    \/ DrainBegins \/ Sort \/ ScoringEnds \/ DrainStops \/ Decide
    \/ \E k \in Keys : Score(k) \/ Announce(k) \/ Confirm(k) \/ Review(k)
    \/ SummarySent \/ SummaryFails \/ ReviewEnds
    \/ \E k \in Keys : PhotoSent(k) \/ Delivered(k) \/ PhotoFails(k)
    \/ DrainEnds
    \/ Crash
    \/ \E k \in Keys, v \in Vers, sc \in Scores : CrashInCapture(k, v, sc)
    \/ \E k \in Keys : CrashInRemove(k)

Spec == Init /\ [][Next]_vars
-----------------------------------------------------------------------------
TypeOK ==
    /\ clock \in Times
    /\ meta \in [Keys -> Sidecar \cup {NoMeta}] /\ snap \in [Keys -> Sidecar \cup {NoMeta}]
    /\ frames \subseteq Keys \X Vers
    /\ borrowed \subseteq Keys \X Vers /\ retired \subseteq Keys \X Vers
    /\ stage \in Stages
    /\ ready \subseteq Keys /\ todo \subseteq Keys /\ batch \subseteq Keys /\ late \subseteq Keys
    /\ sends \in 0 .. MaxSends /\ captures \in 0 .. MaxCaptures /\ crashes \in 0 .. MaxCrashes
    /\ stays \in [Keys -> Nat] /\ heard \in [Keys -> Nat] /\ seen \in [Keys -> Nat]

\* A sidecar always names a frame that is on disk: an entry that a crash or a
\* concurrent drain left without one could never be sent.
SidecarHasFrame == \A k \in Entries : Image(meta, k) \in frames

\* The frame a drain is about to score or send stays on disk until it ends,
\* whatever is captured, replaced or evicted meanwhile.
BorrowedOnDisk == borrowed \subseteq frames

\* No frame that a sidecar names or a drain works on is ever missing.
FramesKept == SidecarHasFrame /\ BorrowedOnDisk

\* An incident is announced once for one stay in the box; only a crash between
\* the send and the record of it repeats it.
SummaryOnce == \A k \in Keys : heard[k] <= stays[k] + crashes

\* No late photo without the text that announces it: Telegram refusing the
\* summary leaves the photos in the box.
PhotosAnnounced == \A k \in Keys : seen[k] <= heard[k] + crashes

\* A capture into a full box drops a person only when nothing else is left, the
\* captured one and what a crash left over the limit included: every entry that
\* stays is then a person's.
PersonsEvictedLast ==
    [][captures' # captures =>
         \A i \in Keys, v \in Vers, sc \in Scores :
           Capture(i, v, sc) =>
             \A k, j \in Keys :
               /\ Written(i, v, sc)[k] # NoMeta /\ meta'[k] = NoMeta
               /\ LikelyPerson(Written(i, v, sc), k) /\ meta'[j] # NoMeta
               => LikelyPerson(meta', j)]_vars
=============================================================================
