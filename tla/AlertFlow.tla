------------------------------ MODULE AlertFlow ------------------------------
(***************************************************************************)
(* The alert pipeline of one camera: the live getEvents pass, the sampler  *)
(* group, the SD-card follow-up queue with its background reader, and the  *)
(* net of the outbox below them.  One daemon loop runs the passes in a     *)
(* fixed order (phase); the card reader is the only other thread.          *)
(*                                                                         *)
(* An event is named by its camera start time, which is also what the      *)
(* incident ID and the outbox key are made of.                             *)
(***************************************************************************)
EXTENDS AlertGate, FiniteSets

CONSTANTS
    Horizon,        \* bound: the clock stops here
    LastReport,     \* bound: no event is reported after this time
    MaxEvents,      \* bound: events the camera reports
    Late,           \* how long after its start an event may be reported
    Kinds,          \* kinds of event the camera may report
    EarlyDelay, SdDelay,   \* when the first / the whole card window is due
    RetryDelay,     \* the wait after a refused follow-up photo
    MaxAge,         \* PENDING_MAX_AGE
    Interval, MaxFrames, GroupGap,   \* the sampler's schedule
    MinAge,         \* outbox.MIN_AGE
    FailureLimit,   \* monitor.EVENT_FAILURE_LIMIT
    MuteTimes,      \* quiet hours of the camera
    SamplerOn, SdSnapshot, SdMotion, EarlyLook, MotionExtends,
    KeepSampling, Corroborate, HoldUnscored, HoldSends, OnErrorHold,
    UseOutbox,      \* configuration switches
    Refusals        \* environment: Telegram may refuse a photo

Times  == 0 .. Horizon
Starts == 1 .. LastReport    \* events start, and are listed, until then
MaybeTime == Times \cup {NoTime}

\* "face" is a person event with a configured known face, "pir" a bare-motion
\* event that carries the PIR bit.
AllKinds == {"person", "face", "motion", "pir"}

ASSUME FlowAssumption ==
    /\ Horizon \in Nat /\ LastReport \in 0 .. Horizon /\ MaxEvents \in Nat /\ Late \in Nat
    /\ Kinds \subseteq AllKinds
    /\ EarlyDelay \in Nat /\ SdDelay \in Nat /\ RetryDelay \in Nat /\ MaxAge \in Nat
    /\ Interval \in Nat /\ MaxFrames \in Nat /\ GroupGap \in Nat /\ MinAge \in Nat
    /\ FailureLimit \in Nat \ {0}
    /\ MuteTimes \subseteq Times
    /\ {SamplerOn, SdSnapshot, SdMotion, EarlyLook, MotionExtends, KeepSampling,
        Corroborate, HoldUnscored, HoldSends, OnErrorHold, UseOutbox,
        Refusals} \subseteq BOOLEAN
    /\ (Corroborate \/ KeepSampling) => SamplerOn

VARIABLES
    now, phase,
    online,      \* the camera's control session is up in this iteration
    events,      \* what the camera has reported, by start time
    lastSeen,    \* the watermark of the live pass
    batch,       \* events of the running poll still to process
    newest,      \* the watermark this poll returns if nothing raises
    fails,       \* failures of an event's processing
    lastAlert, lastStart,   \* the alert gate's two tables
    group,       \* the sampler's group
    pending,     \* the follow-up queue
    todo,        \* queued entries the running drain has not looked at
    job, jobDone,   \* the entry the reader holds, and whether it has ended
    box,         \* outbox: time of the first failed send of each incident
    phone,       \* every photo Telegram accepted
    fate         \* the newest audit verdict of each event

loopVars  == <<now, phase, online>>
liveVars  == <<events, lastSeen, batch, newest, fails>>
gateVars  == <<lastAlert, lastStart>>
readVars  == <<todo, job, jobDone>>
vars == <<now, phase, online, events, lastSeen, batch, newest, fails, lastAlert, lastStart,
          group, pending, todo, job, jobDone, box, phone, fate>>

Phases == {"idle", "poll", "live", "sampler", "sdcollect", "sdscan", "outbox"}

\* "skipped": a path decided it must not go out; "cooled": the card photo was
\* within the cooldown; "lost": too old, muted, no media, no scorer at night;
\* "missed": listed only after the watermark had passed its start.
Fates == {"none", "queued", "sent", "refused", "skipped", "cooled", "lost", "missed"}

\* What a live or sampler frame scores: no frame at all, at or above
\* motion_send_threshold, between that and the threshold, below it, or the
\* scorer did not answer.
Frames == {"none", "person", "marginal", "empty", "unscored"}
ShowsPerson(f) == f \in {"person", "marginal"}

EType(s) == IF events[s] \in {"person", "face"} THEN "confirmed" ELSE "motion"

NoEntry == [queued |-> FALSE, due |-> 0, armed |-> NoTime, keep |-> FALSE, done |-> FALSE,
            rest |-> FALSE, early |-> FALSE, ext |-> FALSE, gone |-> FALSE]
Entry == [queued : BOOLEAN, due : Nat, armed : MaybeTime, keep : BOOLEAN, done : BOOLEAN,
          rest : BOOLEAN, early : BOOLEAN, ext : BOOLEAN, gone : BOOLEAN]
Queued == {s \in Starts : pending[s].queued}

NoGroup == [open |-> FALSE, etype |-> "motion", ev |-> 0, started |-> 0, lastAt |-> 0,
            frames |-> 0, nextDue |-> 0, sent |-> FALSE, delivered |-> FALSE,
            pir |-> FALSE, cand |-> 0, scored |-> FALSE]
Group == [open : BOOLEAN, etype : EventTypes, ev : Times, started : Times, lastAt : Times,
          frames : 0 .. MaxFrames, nextDue : Nat, sent : BOOLEAN, delivered : BOOLEAN,
          pir : BOOLEAN, cand : 0 .. 2, scored : BOOLEAN]

Photo == [start : Starts, at : Times, person : BOOLEAN,
          path : {"live", "sampler", "hold", "sd", "outbox"}]

\* The loop takes events, and queued entries, in the order they started.
First(s, S) == s \in S /\ \A t \in S : s <= t

Muted == now \in MuteTimes
-----------------------------------------------------------------------------
(* The sampler group *)

\* ensure_group: the open group, or a fresh one once the burst is over.
EnsureGroup(g, s) ==
    IF g.open /\ now - g.lastAt <= GroupGap THEN g
    ELSE [NoGroup EXCEPT !.open = TRUE, !.etype = EType(s), !.ev = s, !.started = s,
                         !.lastAt = now, !.nextDue = s + Interval,
                         !.pir = (events[s] = "pir")]

\* Mutant: a confirmed event makes the group confirmed but leaves its name.
ObserveFirstName(g, s, sent, delivered) ==
    LET h == EnsureGroup(g, s)
    IN IF ~SamplerOn THEN g
       ELSE [h EXCEPT !.lastAt = now, !.sent = @ \/ sent, !.delivered = @ \/ delivered,
                      !.pir = @ \/ events[s] = "pir",
                      !.etype = IF EType(s) = "confirmed" THEN "confirmed" ELSE @]

\* Mutant: the group does not learn that a photo went out or was queued.
ObserveUntold(g, s, sent, delivered) ==
    LET h == EnsureGroup(g, s)
        confirmed == EType(s) = "confirmed"
    IN IF ~SamplerOn THEN g
       ELSE [h EXCEPT !.lastAt = now,
                      !.delivered = @ \/ delivered,
                      !.pir = @ \/ events[s] = "pir",
                      !.etype = IF confirmed THEN "confirmed" ELSE @,
                      !.ev = IF confirmed THEN s ELSE @]

\* observe_event: fold one event into the group.
Observe(g, s, sent, delivered) ==
    LET h == EnsureGroup(g, s)
        confirmed == EType(s) = "confirmed"
    IN IF ~SamplerOn THEN g
       ELSE [h EXCEPT !.lastAt = now,
                      !.sent = @ \/ sent,
                      !.delivered = @ \/ delivered,
                      !.pir = @ \/ events[s] = "pir",
                      !.etype = IF confirmed THEN "confirmed" ELSE @,
                      !.ev = IF confirmed THEN s ELSE @]

\* corroborate_motion: the verdict on a scored motion frame ...
Verdict(g, f) ==
    CASE f = "person"   -> "send"
      [] f = "marginal" -> IF g.cand + 1 >= 2 THEN "send" ELSE "hold"
      [] OTHER          -> "drop"
\* ... and the candidate it leaves on the group.
Counted(g, f) == IF f = "marginal" /\ g.cand < 2 THEN [g EXCEPT !.cand = @ + 1] ELSE g

\* burst_sent: a photo of the running burst was delivered.
BurstSent == group.open /\ group.delivered /\ now - group.lastAt <= GroupGap

\* Mutant: the frame budget is not asked.
DueOverBudget(g) == ~g.sent /\ now >= g.nextDue

Expired(g) ==
    IF g.sent \/ g.frames >= MaxFrames THEN now > g.lastAt + GroupGap
    ELSE now > g.started + Interval * MaxFrames + GroupGap

Due(g) == ~g.sent /\ g.frames < MaxFrames /\ now >= g.nextDue
-----------------------------------------------------------------------------
(* The follow-up queue *)

\* Queued keep_sampling follow-ups of the passage first..last that no delivery
\* has marked yet.
OpenBurst(first, last) ==
    LET lo == IF first <= last THEN first ELSE last
        hi == IF first <= last THEN last ELSE first
    IN {s \in Queued : /\ EType(s) = "confirmed" /\ pending[s].keep /\ ~pending[s].done
                       /\ lo - Cooldown < s /\ s < hi + Cooldown}

\* Mutant: nothing is marked.
NotePassageNever(first, last, person) == pending

\* note_passage_delivered: a person photo of the passage marks them.
NotePassage(first, last, person) ==
    [s \in Starts |-> IF person /\ s \in OpenBurst(first, last)
                      THEN [pending[s] EXCEPT !.done = TRUE] ELSE pending[s]]

\* Mutant: only the very same event is a duplicate.
DuplicateSameStart(s) == \E t \in Queued : EType(t) = EType(s) /\ s = t

\* The defer closure's duplicate test: one motion follow-up at all, one
\* confirmed follow-up per passage.
Duplicate(s) ==
    \E t \in Queued : /\ EType(t) = EType(s)
                      /\ EType(s) = "motion" \/ SamePassage(s, t)

NewEntry(s, armed, keep) ==
    [NoEntry EXCEPT !.queued = TRUE,
                    !.due = s + (IF EarlyLook THEN EarlyDelay ELSE SdDelay),
                    !.armed = IF EType(s) = "motion" THEN NoTime ELSE armed,
                    !.keep = keep, !.rest = EarlyLook]

\* defer(event, etype, False): queue a follow-up unless its passage has one.
Defer(s, armed, keep) ==
    pending' = IF Duplicate(s) THEN pending
               ELSE [pending EXCEPT ![s] = NewEntry(s, armed, keep)]

\* _sd_within_cooldown: would this card photo reach the phone too soon after
\* another?  The arming of a queued follow-up is not a message.
WithinCooldown(s) ==
    /\ EType(s) = "confirmed"
    /\ \/ ~ShouldSend(lastAlert["person_photo"], now)
       \/ /\ ~ShouldSend(lastAlert["confirmed"], now)
          /\ \A t \in Queued : EType(t) = "confirmed"
                                => pending[t].armed # lastAlert["confirmed"]

\* Mutant: the delivered mark is not read.
BlockedUnmarked(s) ==
    IF EType(s) = "motion" /\ ~CanAlert(lastAlert, lastStart, "motion", s, now)
    THEN IF ClockOpen(lastAlert, "motion", now) THEN "drop" ELSE "wait"
    ELSE "go"

\* _sd_followup_blocked: "go", "wait" or "drop".
Blocked(s) ==
    IF pending[s].done THEN "drop"
    ELSE IF EType(s) = "motion" /\ ~CanAlert(lastAlert, lastStart, "motion", s, now)
         THEN IF ClockOpen(lastAlert, "motion", now) THEN "drop" ELSE "wait"
         ELSE "go"
-----------------------------------------------------------------------------
(* Effects shared by the passes *)

Arm(etype, s, person) ==
    /\ lastAlert' = Stamp(lastAlert, etype, person, now)
    /\ lastStart' = Stamp(lastStart, etype, person, s)

\* resolve_outbox, and the bookkeeping of a delivered incident.
Resolve(s) == box' = [box EXCEPT ![s] = NoTime]
\* _note_outbox after a refused send: the first failure time is kept.
Capture(s) == box' = [box EXCEPT ![s] = IF UseOutbox /\ @ = NoTime THEN now ELSE @]

ToPhone(s, person, path) ==
    phone' = phone \cup {[start |-> s, at |-> now, person |-> person, path |-> path]}

Decide(s, verdict) == fate' = [fate EXCEPT ![s] = verdict]
-----------------------------------------------------------------------------
Init ==
    /\ now = 0 /\ phase = "idle" /\ online = TRUE
    /\ events = [s \in Starts |-> "none"]
    /\ lastSeen = 0 /\ batch = {} /\ newest = 0
    /\ fails = [s \in Starts |-> 0]
    /\ lastAlert = [k \in GateKeys |-> NoTime]
    /\ lastStart = [k \in GateKeys |-> NoTime]
    /\ group = NoGroup
    /\ pending = [s \in Starts |-> NoEntry]
    /\ todo = {} /\ job = 0 /\ jobDone = FALSE
    /\ box = [s \in Starts |-> NoTime]
    /\ phone = {}
    /\ fate = [s \in Starts |-> "none"]

\* The camera lists an event, possibly some time after it started.
CameraReports(s, k) ==
    /\ phase = "idle" /\ now <= LastReport
    /\ s <= now /\ now - s <= Late
    /\ events[s] = "none"
    /\ Cardinality({t \in Starts : events[t] # "none"}) < MaxEvents
    /\ events' = [events EXCEPT ![s] = k]
    /\ fate' = [fate EXCEPT ![s] = IF s <= lastSeen THEN "missed" ELSE @]
    /\ UNCHANGED <<loopVars, lastSeen, batch, newest, fails, gateVars, group, pending,
                   readVars, box, phone>>

\* The next loop iteration; a reconnect may fail.  The clock saturates at its
\* bound.
Tick ==
    /\ phase = "idle"
    /\ now' = IF now < Horizon THEN now + 1 ELSE now
    /\ phase' = "poll" /\ online' \in BOOLEAN
    /\ UNCHANGED <<liveVars, gateVars, group, pending, readVars, box, phone, fate>>
-----------------------------------------------------------------------------
(* run_monitor: the live pass *)

\* getEvents raises, or there is no session to ask.
PollFails ==
    /\ phase = "poll" /\ phase' = "sampler"
    /\ UNCHANGED <<now, online, liveVars, gateVars, group, pending, readVars, box, phone, fate>>

\* A muted camera drains its watermark and does nothing else.
Fresh == {s \in Starts : events[s] # "none" /\ s > lastSeen}

\* The watermark of a poll: the newest start it saw.
IsWatermark(m) == m \in Fresh \cup {lastSeen} /\ \A s \in Fresh : s <= m

Poll ==
    \E mark \in Times :
       /\ phase = "poll" /\ online /\ IsWatermark(mark)
       /\ IF Muted
          THEN /\ phase' = "sampler" /\ lastSeen' = mark
               /\ fate' = [s \in Starts |-> IF s \in Fresh THEN "lost" ELSE fate[s]]
               /\ UNCHANGED <<batch, newest>>
          ELSE /\ phase' = "live" /\ batch' = Fresh /\ newest' = mark
               /\ UNCHANGED <<lastSeen, fate>>
       /\ UNCHANGED <<now, online, events, fails, gateVars, group, pending, readVars, box, phone>>

LiveEnds ==
    /\ phase = "live" /\ batch = {}
    /\ phase' = "sampler" /\ lastSeen' = newest
    /\ UNCHANGED <<now, online, events, batch, newest, fails, gateVars, group, pending, readVars,
                   box, phone, fate>>

\* Mutants: the retry starts at the failed event, or at the poll's own start.
RetryAfter(s) == IF lastSeen >= s THEN lastSeen ELSE s
RetryFromStart(s) == lastSeen

\* The watermark that makes the next poll start again with event s.
RetryFrom(s) == IF lastSeen >= s - 1 THEN lastSeen ELSE s - 1

\* Mutant: the event is retried for ever.
NeverGivesUp(s) == FALSE

\* _event_failed: this failure is the event's last.
GivesUp(s) == fails[s] + 1 >= FailureLimit

\* An exception out of one event: retried from just before it at the next
\* poll, skipped after FailureLimit failures.
LiveRaises(s) ==
    /\ phase = "live" /\ First(s, batch)
    /\ IF GivesUp(s)
       THEN /\ batch' = batch \ {s} /\ Decide(s, "lost")
            /\ UNCHANGED <<phase, lastSeen>>
       ELSE /\ batch' = {} /\ phase' = "sampler"
            /\ lastSeen' = RetryFrom(s)
            /\ UNCHANGED fate
    /\ fails' = [fails EXCEPT ![s] = IF @ < FailureLimit THEN @ + 1 ELSE @]
    /\ UNCHANGED <<now, online, events, newest, gateVars, group, pending, readVars, box, phone>>

\* The event's turn; a success clears its failure count.
Process(s) ==
    /\ phase = "live" /\ First(s, batch)
    /\ batch' = batch \ {s}
    /\ fails' = [fails EXCEPT ![s] = 0]
    /\ UNCHANGED <<loopVars, events, lastSeen, newest, readVars>>

Open(s) == CanAlert(lastAlert, lastStart, EType(s), s, now)

\* The cooldown is closed, but a queued keep_sampling follow-up of this
\* passage lets a frame that shows the person through.
CooledOpen(s) ==
    /\ ~Open(s) /\ events[s] # "face"
    /\ KeepSampling /\ OpenBurst(s, s) # {}

Admitted(s) == Open(s) \/ events[s] = "face" \/ CooledOpen(s)

\* Bare motion that may be handed to the card.
DeferMotion(s) == SdSnapshot /\ SdMotion /\ events[s] = "pir"
CanDefer(s) == IF EType(s) = "motion" THEN DeferMotion(s) ELSE SdSnapshot

LiveCooldown(s) ==
    /\ Process(s) /\ ~Admitted(s)
    /\ Decide(s, "skipped")
    /\ UNCHANGED <<gateVars, group, pending, box, phone>>

\* The observe call of an event that put nothing on the phone or the queue.
Unsent(s, verdict) ==
    /\ group' = Observe(group, s, FALSE, FALSE)
    /\ Decide(s, verdict)
    /\ UNCHANGED <<gateVars, pending, box, phone>>

\* Arm the gate, then queue the follow-up; the sampler stands down.
ArmAndDefer(s) ==
    /\ Arm(EType(s), s, FALSE)
    /\ Defer(s, now, FALSE)
    /\ group' = Observe(group, s, TRUE, FALSE)
    /\ Decide(s, "queued")
    /\ UNCHANGED <<box, phone>>

\* No frame after one retry, or no score at night under unscored_at_night:
\* hold.  Either is checked before the open burst's own rule.
LiveBlind(s) ==
    \E f \in {"none", "unscored"} :
       /\ Process(s) /\ Admitted(s)
       /\ f = "unscored" => HoldUnscored
       /\ IF CanDefer(s) THEN ArmAndDefer(s) ELSE Unsent(s, "lost")

\* An open burst's frame that shows nobody stays under the cooldown.
LiveOpenBurstNoPerson(s) ==
    \E f \in {"empty", "unscored"} :
       /\ Process(s) /\ CooledOpen(s)
       /\ f = "unscored" => ~HoldUnscored
       /\ Unsent(s, "skipped")

\* Empty PIR motion goes to the card without arming anything.
LiveDeferMotion(s) ==
    /\ Process(s) /\ Admitted(s) /\ ~CooledOpen(s)
    /\ EType(s) = "motion" /\ DeferMotion(s)
    /\ Defer(s, NoTime, FALSE)
    /\ group' = Observe(group, s, FALSE, FALSE)
    /\ Decide(s, "queued")
    /\ UNCHANGED <<gateVars, box, phone>>

\* Bare motion that shows nobody, or one marginal frame of it.
LiveMotionHeld(s) ==
    \E f \in {"marginal", "empty"} :
       LET g == EnsureGroup(group, s) IN
       /\ Process(s) /\ Admitted(s) /\ EType(s) = "motion"
       /\ f = "empty" => ~CooledOpen(s) /\ ~DeferMotion(s)
       /\ f = "marginal" => Corroborate /\ Verdict(g, f) = "hold"
       /\ group' = Observe(IF Corroborate THEN Counted(g, f) ELSE group, s, FALSE, FALSE)
       /\ Decide(s, "skipped")
       /\ UNCHANGED <<gateVars, pending, box, phone>>

\* A confirmed event whose frame shows nobody: a delivered burst needs no
\* follow-up, keep_sampling queues one and leaves the burst open, otherwise
\* the sampler stands down.
LiveConfirmedEmpty(s) ==
    /\ Process(s) /\ Admitted(s) /\ ~CooledOpen(s)
    /\ EType(s) = "confirmed" /\ SdSnapshot
    /\ IF BurstSent THEN Unsent(s, "skipped")
       ELSE IF KeepSampling
       THEN /\ Arm("confirmed", s, FALSE)
            /\ Defer(s, now, TRUE)
            /\ group' = Observe(group, s, FALSE, FALSE)
            /\ Decide(s, IF Duplicate(s) THEN "skipped" ELSE "queued")
            /\ UNCHANGED <<box, phone>>
       ELSE ArmAndDefer(s)

\* The frame goes out: it shows a person, nobody can tell, or (without a
\* card) the camera alone is trusted.
LiveSendable(s, f) ==
    /\ Admitted(s)
    /\ \/ ShowsPerson(f)
       \/ f = "unscored" /\ ~HoldUnscored /\ ~CooledOpen(s)
       \/ f = "empty" /\ EType(s) = "confirmed" /\ ~SdSnapshot
    /\ (Corroborate /\ EType(s) = "motion" /\ f = "marginal")
           => Verdict(EnsureGroup(group, s), f) = "send"

\* The group as the send finds it: corroboration has counted the frame.
Scored(s, f) ==
    IF Corroborate /\ EType(s) = "motion" /\ f # "unscored"
    THEN Counted(EnsureGroup(group, s), f) ELSE group

LiveSends(s) ==
    \E f \in Frames :
       /\ Process(s) /\ LiveSendable(s, f)
       /\ Arm(EType(s), s, ShowsPerson(f))
       /\ group' = Observe(Scored(s, f), s, TRUE, TRUE)
       /\ pending' = NotePassage(s, s, ShowsPerson(f))
       /\ ToPhone(s, ShowsPerson(f), "live")
       /\ Resolve(s) /\ Decide(s, "sent")

\* Telegram refused it: nothing is armed and the card follow-up takes over.
LiveSendRefused(s) ==
    \E f \in Frames :
       /\ Refusals
       /\ Process(s) /\ LiveSendable(s, f)
       /\ IF SdSnapshot THEN Defer(s, lastAlert["confirmed"], FALSE) ELSE UNCHANGED pending
       /\ group' = Observe(Scored(s, f), s, SdSnapshot, FALSE)
       /\ Capture(s) /\ Decide(s, "refused")
       /\ UNCHANGED <<gateVars, phone>>

Live(s) ==
    \/ LiveRaises(s) \/ LiveCooldown(s) \/ LiveBlind(s) \/ LiveOpenBurstNoPerson(s)
    \/ LiveDeferMotion(s) \/ LiveMotionHeld(s) \/ LiveConfirmedEmpty(s)
    \/ LiveSends(s) \/ LiveSendRefused(s)
-----------------------------------------------------------------------------
(* process_sampler *)

\* The loop moves on to the follow-up drain.
SamplerDone ==
    /\ phase = "sampler" /\ phase' = "sdcollect"
    /\ todo' = Queued
    /\ UNCHANGED <<now, online, liveVars, job, jobDone>>

SamplerIdle ==
    /\ SamplerDone
    /\ ~Muted
    /\ group.open => ~Expired(group) /\ ~Due(group)
    /\ UNCHANGED <<gateVars, group, pending, box, phone, fate>>

\* A muted camera drops its group; an expired one is closed.
SamplerCloses ==
    /\ SamplerDone
    /\ Muted \/ (group.open /\ Expired(group))
    /\ group' = NoGroup
    /\ UNCHANGED <<gateVars, pending, box, phone, fate>>

\* A held marginal frame whose second candidate never came may go out when its
\* group expires (a pan-limit recall, or hold_expiry: send).
HoldRipe ==
    /\ SamplerDone /\ ~Muted /\ HoldSends
    /\ group.open /\ Expired(group) /\ group.cand > 0 /\ ~group.sent
    /\ ClockOpen(lastAlert, "motion", now)
    /\ group' = NoGroup

HoldSent ==
    /\ HoldRipe
    /\ Arm("motion", group.ev, TRUE)
    /\ pending' = NotePassage(group.started, group.ev, TRUE)
    /\ ToPhone(group.ev, TRUE, "hold")
    /\ Resolve(group.ev) /\ Decide(group.ev, "sent")

HoldRefused ==
    /\ Refusals
    /\ HoldRipe
    /\ Capture(group.ev) /\ Decide(group.ev, "refused")
    /\ UNCHANGED <<gateVars, pending, phone>>

\* One follow-up grab is due; the schedule moves on whatever it shows.
Grabs ==
    /\ SamplerDone /\ ~Muted
    /\ group.open /\ ~Expired(group) /\ Due(group)

Grabbed(f) ==
    [group EXCEPT !.frames = @ + 1, !.nextDue = now + Interval,
                  !.scored = @ \/ f \in {"person", "marginal", "empty"}]

MotionCorr == Corroborate /\ group.etype = "motion" /\ ~group.pir

SamplerVerdict(f) ==
    CASE f = "none" -> "drop"
      [] f = "unscored" ->
           IF (OnErrorHold /\ group.scored /\ group.frames + 1 < MaxFrames) \/ HoldUnscored
           THEN "drop" ELSE "send"
      [] OTHER -> IF MotionCorr THEN Verdict(group, f)
                  ELSE IF ShowsPerson(f) THEN "send" ELSE "drop"

SamplerCounted(f) == IF MotionCorr THEN Counted(Grabbed(f), f) ELSE Grabbed(f)

SamplerSuppresses ==
    \E f \in Frames :
       /\ Grabs /\ SamplerVerdict(f) # "send"
       /\ group' = SamplerCounted(f)
       /\ UNCHANGED <<gateVars, pending, box, phone, fate>>

\* The sampler asks the wall clock only; a person frame of a burst that is
\* kept open may pass it.
SamplerAdmitted(f) ==
    \/ ClockOpen(lastAlert, group.etype, now)
    \/ KeepSampling /\ ShowsPerson(f) /\ OpenBurst(group.started, group.ev) # {}

SamplerCooldown ==
    \E f \in Frames :
       /\ Grabs /\ SamplerVerdict(f) = "send" /\ ~SamplerAdmitted(f)
       /\ group' = [SamplerCounted(f) EXCEPT !.sent = TRUE]
       /\ Decide(group.ev, "skipped")
       /\ UNCHANGED <<gateVars, pending, box, phone>>

SamplerSends ==
    \E f \in Frames :
       /\ Grabs /\ SamplerVerdict(f) = "send" /\ SamplerAdmitted(f)
       /\ Arm(group.etype, group.ev, ShowsPerson(f))
       /\ group' = [SamplerCounted(f) EXCEPT !.sent = TRUE, !.delivered = TRUE]
       /\ pending' = NotePassage(group.started, group.ev, ShowsPerson(f))
       /\ ToPhone(group.ev, ShowsPerson(f), "sampler")
       /\ Resolve(group.ev) /\ Decide(group.ev, "sent")

\* Telegram refused it: the group stays open for the next frame.
SamplerRefused ==
    \E f \in Frames :
       /\ Refusals
       /\ Grabs /\ SamplerVerdict(f) = "send" /\ SamplerAdmitted(f)
       /\ group' = SamplerCounted(f)
       /\ Capture(group.ev) /\ Decide(group.ev, "refused")
       /\ UNCHANGED <<gateVars, pending, phone>>

Sampler ==
    \/ SamplerIdle \/ SamplerCloses \/ HoldSent \/ HoldRefused
    \/ SamplerSuppresses \/ SamplerCooldown \/ SamplerSends \/ SamplerRefused
-----------------------------------------------------------------------------
(* process_pending_sd and the card reader *)

\* The reader's thread ends its job, with frames, without, or in an exception.
JobEnds ==
    /\ job # 0 /\ ~jobDone
    /\ jobDone' = TRUE
    /\ UNCHANGED <<loopVars, liveVars, gateVars, group, pending, todo, job, box, phone,
                   fate>>

\* collect() finds nothing to collect.
CollectNothing ==
    /\ phase = "sdcollect" /\ ~jobDone
    /\ phase' = "sdscan"
    /\ UNCHANGED <<now, online, liveVars, gateVars, group, pending, readVars, box, phone, fate>>

\* _finish_sd_followup takes over the collected result.
Collects(s) ==
    /\ phase = "sdcollect" /\ jobDone /\ s = job
    /\ phase' = "sdscan"
    /\ job' = 0 /\ jobDone' = FALSE
    /\ todo' = todo \ {s}
    /\ UNCHANGED <<now, online, liveVars>>

\* A decided entry leaves the queue at the end of the drain.
Leaves(s) == pending' = [pending EXCEPT ![s].gone = TRUE]

\* The window is muted by now, or the passage was alerted while it was read.
FinishBlocked(s) ==
    /\ Collects(s)
    /\ \/ /\ Muted
          /\ Leaves(s) /\ Decide(s, "lost")
          /\ UNCHANGED box
       \/ /\ ~Muted /\ Blocked(s) = "wait"
          /\ UNCHANGED <<pending, box, fate>>
       \/ /\ ~Muted /\ Blocked(s) = "drop"
          /\ Leaves(s) /\ Decide(s, "skipped") /\ Resolve(s)
    /\ UNCHANGED <<gateVars, group, phone>>

\* Mutants: the gate, or the quiet hours, are not asked again after the read.
FinishesUnasked(s) == Collects(s) /\ ~Muted
FinishesMuted(s) == Collects(s) /\ Blocked(s) = "go"

Finishes(s) == Collects(s) /\ ~Muted /\ Blocked(s) = "go"

\* The early look found nobody, or nothing at all: read the rest (the whole
\* window) at its usual time.
FinishEarlyLook(s) ==
    \E r \in {"nobody", "noframes"} :
       /\ Finishes(s) /\ pending[s].rest
       /\ pending' = [pending EXCEPT ![s].rest = FALSE, ![s].due = s + SdDelay,
                                     ![s].early = (r = "nobody")]
       /\ UNCHANGED <<gateVars, group, box, phone, fate>>

\* A motion window without a subject is extended once.
FinishExtend(s) ==
    /\ Finishes(s) /\ ~pending[s].rest
    /\ EType(s) = "motion" /\ MotionExtends /\ ~pending[s].ext
    /\ pending' = [pending EXCEPT ![s].ext = TRUE, ![s].due = now]
    /\ UNCHANGED <<gateVars, group, box, phone, fate>>

\* A checked window that shows nobody is dropped, and so is its outbox copy.
FinishNobody(s) ==
    \E r \in {"nobody", "noframes"} :
       /\ Finishes(s) /\ ~pending[s].rest
       /\ IF r = "nobody" THEN EType(s) = "motion" /\ MotionExtends => pending[s].ext
                          ELSE pending[s].early
       /\ Leaves(s) /\ Decide(s, "skipped") /\ Resolve(s)
       /\ UNCHANGED <<gateVars, group, phone>>

\* Nothing was read at all and nothing was checked before.
Unread(s) == Finishes(s) /\ ~pending[s].rest /\ ~pending[s].early

\* Unconfirmed motion is dropped; so is a person when the live fallback grab
\* fails too (its outbox copy stays).
FinishNoMedia(s) ==
    /\ Unread(s)
    /\ EType(s) = "confirmed" => ~WithinCooldown(s)
    /\ Leaves(s) /\ Decide(s, "lost")
    /\ UNCHANGED <<gateVars, group, box, phone>>

\* The live fallback grab scores below the threshold.
FinishFallbackEmpty(s) ==
    /\ Unread(s) /\ EType(s) = "confirmed" /\ ~WithinCooldown(s)
    /\ Leaves(s) /\ Decide(s, "skipped") /\ Resolve(s)
    /\ UNCHANGED <<gateVars, group, phone>>

\* There is a photo (or, for an unread card, there would be one), but another
\* one of this camera is too recent: review log instead of the phone.
FinishCooled(s) ==
    /\ Finishes(s) /\ WithinCooldown(s)
    /\ Leaves(s) /\ Decide(s, "cooled") /\ Resolve(s)
    /\ UNCHANGED <<gateVars, group, phone>>

\* A photo to send: a card frame, or a live grab standing in for an unread card.
FinishSendable(s) == Finishes(s) /\ ~WithinCooldown(s)

FinishHeld(s) ==
    /\ FinishSendable(s) /\ HoldUnscored
    /\ Leaves(s) /\ Decide(s, "lost")
    /\ UNCHANGED <<gateVars, group, box, phone>>

FinishSends(s) ==
    \E person \in BOOLEAN :
       /\ FinishSendable(s) /\ (person \/ ~HoldUnscored)
       /\ Arm(EType(s), s, person)
       /\ group' = IF group.open THEN [group EXCEPT !.delivered = TRUE] ELSE group
       /\ pending' = [NotePassage(s, s, person) EXCEPT ![s].gone = TRUE]
       /\ ToPhone(s, person, "sd")
       /\ Resolve(s) /\ Decide(s, "sent")

FinishRefused(s) ==
    /\ Refusals
    /\ FinishSendable(s)
    /\ pending' = [pending EXCEPT ![s].due = now + RetryDelay]
    /\ Capture(s) /\ Decide(s, "refused")
    /\ UNCHANGED <<gateVars, group, phone>>

Finish(s) ==
    \/ FinishBlocked(s) \/ FinishEarlyLook(s) \/ FinishExtend(s) \/ FinishNobody(s)
    \/ FinishNoMedia(s) \/ FinishFallbackEmpty(s) \/ FinishCooled(s) \/ FinishHeld(s)
    \/ FinishSends(s) \/ FinishRefused(s)

\* The drain looks at the next entry, oldest first.
Scans(s) ==
    /\ phase = "sdscan" /\ First(s, todo)
    /\ todo' = todo \ {s}
    /\ UNCHANGED <<now, online, liveVars, gateVars, group, phone>>

\* Mutant: nothing ever gets too old.
NeverTooOld(s) == FALSE

TooOld(s) == now - s > MaxAge

Ripe(s) == Scans(s) /\ job # s /\ ~Muted /\ ~TooOld(s) /\ now >= pending[s].due

\* Being read, not due, its camera offline, waiting out a cooldown, or behind
\* another read of the same card.
ScanKeeps(s) ==
    /\ \/ Scans(s) /\ job = s
       \/ Scans(s) /\ ~Muted /\ ~TooOld(s) /\ now < pending[s].due
       \/ Ripe(s) /\ (~online \/ Blocked(s) = "wait" \/ job # 0)
    /\ UNCHANGED <<phase, pending, job, jobDone, box, fate>>

\* Muted or older than PENDING_MAX_AGE.
ScanLoses(s) ==
    /\ Scans(s) /\ job # s
    /\ Muted \/ TooOld(s)
    /\ Leaves(s) /\ Decide(s, "lost")
    /\ UNCHANGED <<phase, job, jobDone, box>>

ScanDrops(s) ==
    /\ Ripe(s) /\ online /\ Blocked(s) = "drop"
    /\ Leaves(s) /\ Decide(s, "skipped") /\ Resolve(s)
    /\ UNCHANGED <<phase, job, jobDone>>

\* Hand the window to the reader and collect at once what it may have ready.
ScanSubmits(s) ==
    /\ Ripe(s) /\ online /\ Blocked(s) = "go" /\ job = 0
    /\ job' = s /\ jobDone' = FALSE
    /\ phase' = "sdcollect"
    /\ UNCHANGED <<pending, box, fate>>

\* Mutant: they stay.
ScanEndsKeeping ==
    /\ phase = "sdscan" /\ todo = {}
    /\ phase' = "outbox"
    /\ UNCHANGED <<now, online, liveVars, gateVars, group, pending, readVars, box, phone, fate>>

\* The decided entries leave the queue together.
ScanEnds ==
    /\ phase = "sdscan" /\ todo = {}
    /\ phase' = "outbox"
    /\ pending' = [s \in Starts |-> IF pending[s].gone THEN NoEntry ELSE pending[s]]
    /\ UNCHANGED <<now, online, liveVars, gateVars, group, readVars, box, phone, fate>>

Scan(s) == ScanKeeps(s) \/ ScanLoses(s) \/ ScanDrops(s) \/ ScanSubmits(s)
-----------------------------------------------------------------------------
(* outbox_pass, seen from the pipeline (module Outbox has the details) *)

\* Old enough, and no follow-up of the incident is queued.
Takeable(s) ==
    /\ phase = "outbox" /\ box[s] # NoTime
    /\ now - box[s] >= MinAge /\ ~pending[s].queued

\* A late photo arms nothing.
OutboxSends(s) ==
    /\ Takeable(s)
    /\ Resolve(s)
    /\ \E person \in BOOLEAN : ToPhone(s, person, "outbox")
    /\ Decide(s, "sent")
    /\ UNCHANGED <<loopVars, liveVars, gateVars, group, pending, readVars>>

\* Nobody on it, past the photo cap, or refused too often: review log.
OutboxReviews(s) ==
    /\ Takeable(s)
    /\ Resolve(s)
    /\ UNCHANGED <<loopVars, liveVars, gateVars, group, pending, readVars, phone, fate>>

OutboxEnds ==
    /\ phase = "outbox" /\ phase' = "idle"
    /\ UNCHANGED <<now, online, liveVars, gateVars, group, pending, readVars, box, phone, fate>>
-----------------------------------------------------------------------------
Next ==
    \/ \E s \in Starts, k \in Kinds : CameraReports(s, k)
    \/ Tick \/ PollFails \/ Poll \/ LiveEnds
    \/ \E s \in Starts : Live(s)
    \/ Sampler
    \/ JobEnds \/ CollectNothing
    \/ \E s \in Starts : Finish(s)
    \/ \E s \in Starts : Scan(s)
    \/ ScanEnds
    \/ \E s \in Starts : OutboxSends(s) \/ OutboxReviews(s)
    \/ OutboxEnds

Spec == Init /\ [][Next]_vars

\* One iteration of the loop thread always goes on, and the reader's thread
\* always ends its job: the subprocess and every call in it have timeouts.
Loop ==
    \/ Tick \/ PollFails \/ Poll \/ LiveEnds
    \/ \E s \in Starts : Live(s) \/ Finish(s) \/ Scan(s)
    \/ Sampler \/ CollectNothing \/ ScanEnds \/ OutboxEnds

FairSpec == Spec /\ WF_vars(Loop) /\ WF_vars(JobEnds)
-----------------------------------------------------------------------------
TypeOK ==
    /\ now \in Times /\ phase \in Phases /\ online \in BOOLEAN
    /\ events \in [Starts -> AllKinds \cup {"none"}]
    /\ lastSeen \in Times /\ newest \in Times /\ batch \subseteq Starts
    /\ fails \in [Starts -> 0 .. FailureLimit]
    /\ lastAlert \in [GateKeys -> MaybeTime]
    /\ lastStart \in [GateKeys -> MaybeTime]
    /\ group \in Group
    /\ pending \in [Starts -> Entry]
    /\ todo \subseteq Starts /\ job \in Starts \cup {0} /\ jobDone \in BOOLEAN
    /\ box \in [Starts -> MaybeTime]
    /\ phone \subseteq Photo
    /\ fate \in [Starts -> Fates]
-----------------------------------------------------------------------------
(* Safety *)

\* The queue holds at most one motion follow-up, and no two follow-ups of one
\* passage: the card would be read, and the phone told, twice.
QueueOnePerPassage ==
    \A s, t \in Queued :
        s # t /\ EType(s) = EType(t) => EType(s) = "confirmed" /\ ~SamePassage(s, t)

\* Retrying from just before a failed event replays nothing: the live pass puts
\* an event on the phone at most once.
LiveOnce ==
    \A p, q \in phone : p.path = "live" /\ q.path = "live" /\ p.start = q.start => p = q

\* The watermark never passes an event the live pass has not decided, unless
\* the camera listed it after the watermark had passed.
NothingSkipped ==
    \A s \in Starts :
        events[s] # "none" /\ s <= lastSeen /\ s \notin batch => fate[s] # "none"

\* The sampler's group is named after an event of its own type: a frame of it is
\* sent, and arms the gate, as what that event was.
GroupNamed ==
    group.open => events[group.ev] # "none" /\ EType(group.ev) = group.etype

\* The gate keeps every delivery of the alert paths: a table entry is never
\* older than the newest photo it stands for (a held frame counts as motion).
GateRemembers ==
    \A p \in phone :
        p.path # "outbox" =>
            /\ lastAlert[IF p.path = "hold" THEN "motion" ELSE EType(p.start)] >= p.at
            /\ p.person => lastAlert["person_photo"] >= p.at

Alerts == {p \in phone : p.path # "outbox"}

\* Two person photos of confirmed events reach the phone at least a cooldown
\* apart, whichever of the three paths sends them; exempt are a known face, the
\* late photos of the outbox and a held frame, which is sent as motion.
SpacedPersonPhotos ==
    \A p, q \in {a \in Alerts : a.path # "hold"} :
        /\ p # q /\ p.person /\ q.person
        /\ events[p.start] = "person" /\ events[q.start] = "person"
        => p.at - q.at >= Cooldown \/ q.at - p.at >= Cooldown

\* Bare motion never follows a confirmed alert within the cooldown, however
\* long the card read between the two checks took.
MotionQuieted ==
    \A p, q \in Alerts :
        /\ EType(p.start) = "motion" /\ EType(q.start) = "confirmed" /\ q.at < p.at
        => p.at - q.at >= Cooldown

\* The cooldown holds at the moment of every send, on all three paths.
CooldownKept == MotionQuieted /\ SpacedPersonPhotos

\* One visit is one message: while Telegram answers, the live pass, the sampler
\* and the card put at most one person photo of a confirmed passage on the phone.
OnePhotoPerPassage ==
    \A p, q \in Alerts :
        /\ p.person /\ q.person
        /\ events[p.start] = "person" /\ events[q.start] = "person"
        /\ SamePassage(p.start, q.start)
        => p = q

\* Nothing but a late photo reaches the phone in the camera's quiet hours, not
\* even a card photo whose read began before them.
QuietHours == \A p \in Alerts : p.at \notin MuteTimes

\* A follow-up whose passage the sampler or a live frame has delivered is never
\* sent, even when its card read was already running.
DeliveredPassageNotRepeated ==
    [][\A p \in phone' \ phone : p.path = "sd" => ~pending[p.start].done]_vars

\* A card photo is kept off the phone only because another photo of this camera
\* reached it less than a cooldown ago.
CooledMeansDelivered ==
    [][\A s \in Starts : fate[s] # "cooled" /\ fate'[s] = "cooled" =>
          \E p \in Alerts : now - p.at < Cooldown]_vars

\* What the live pass has sent, no path sends again; the sampler, a held frame
\* included, and the card send an incident once each.  Only the outbox may repeat
\* itself, and only the sampler be repeated by the card.
EachPathOnce ==
    \A p, q \in phone : p.start = q.start /\ p # q =>
        /\ "live" \notin {p.path, q.path}
        /\ ~({p.path, q.path} \subseteq {"sampler", "hold"})
        /\ p.path = "sd" => q.path # "sd"

\* An incident the camera reported once is on the phone once.
NothingTwice == \A p, q \in phone : p.start = q.start => p = q
-----------------------------------------------------------------------------
(* Liveness *)

\* Every follow-up leaves the queue: sent, dropped, or too old.
QueueDrains == \A s \in Starts : pending[s].queued ~> ~pending[s].queued

\* While polls keep succeeding now and then, every listed event gets a verdict:
\* one whose processing always raises does not block the others for ever.
EventsDecided ==
    []<><<Poll>>_vars => \A s \in Starts : events[s] # "none" ~> fate[s] # "none"
=============================================================================
