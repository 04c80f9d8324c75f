# Verification of tapo-monitor

Specifications of `tapo_monitor/` (the daemon that watches Tapo and Reolink cameras,
controls their lenses and sends alert photos to Telegram), their TLC runs and the TLAPS
proofs. The code is the reference: every definition is translated from it, and
`PROJECT.json` (`map`) names the lines each one stands for.

## 1. The system

### Components

| Component | State it keeps | Operations | What makes it correct | Modules |
|---|---|---|---|---|
| Alert gate (`daemon.alert_gate`, `notify.should_send_alert`) | `last_alert`, `last_event_start` per camera and key | `can_alert`, `on_alert` | every delivery is remembered; motion is quieted by a confirmed alert | AlertGate |
| Live pass (`monitor.run_monitor`, `daemon.run_monitor_pass`) | watermark, failure counts | poll, process one event, retry | no event skipped or sent twice; every event decided | AlertFlow, Resume |
| Sampler (`sampler.py`, `daemon.process_sampler`) | one group per camera | observe, grab, corroborate, send, expire | group named after its own event; one photo per visit | AlertFlow |
| SD follow-ups (`process_pending_sd`, `_finish_sd_followup`) | `pending_sd` | queue, wait, read, finish, drop | one follow-up per passage; asked again after the read; drains; survives a restart | AlertFlow, Resume, Pick |
| SD worker (`sdworker.py`) | one job per card, job directories | submit, collect, clean up | the loop never waits on a card; no directory leaks | AlertFlow, Clips |
| Outbox (`outbox.py`, `daemon.outbox_pass`) | JPEG + sidecar, borrowed and retired frames | capture, resolve, evict, drain | sidecars name frames; announced, then sent, once per stay | Outbox, LateBox, OutboxPromise |
| Daemon loop (`loop_step`, `tick`, `GracefulStop`, `shutdown`) | sessions, timers | the passes in a fixed order | a tick always ends; a signal finishes the tick | AlertFlow, Resume, Hub, Notices |
| Runtime and health state (`runtime_state.py`, `health.py`) | JSON files of work in flight | save, load | a restart keeps what was owed | Resume, Notices, Hub, Link |
| Hub polling and hub clips (`hubclient.py`, `daemon.py`) | cursor, clip queue, retries | poll, queue, deliver, retry, stop | a clip is decided once, none is lost | Hub |
| Pan endstop (`stopguard.py`, `stopcontrol.py`, `sessionguard.py`, `ptzrpc.py`) | position, latch, permit, session | poll, stop, switch off, recover, rearm | the stop and the OFF hold whoever owns the session | Endstop |
| Tracking and control (`tracking.py`, `motion.py`, `panlimit.py`) | plan, holds, recalls | one control pass, recall, hold | the camera ends as planned; a stray lens comes back | Control, Lens |
| Host failover (`daemon._fail_over` ..., `rediscover.py`) | active host, rejected, learned address | switch, confirm, revert, return, search | never keeps another device's address | Link |
| Watchdogs and notices (`daemon._watchdog_pass` ...) | failure timers, what was announced | outage, events, switches, person, stall, disk | bad news is followed by good news | Notices |
| Scorer client and service (`scorer.py`, `scorer_service.py`) | pool, counters, shadow queue | score, fail over, probe, serve, ensemble | a live scorer is found; a frame is asked once; an excluded person decides nothing | Scorer, Service, Answer |
| Scene coordination (`scene.py`) | recent deliveries per group | allow, record | overlapping views send one photo | Scene |
| Alert clips, photos (`alertclip.py`, `sdclip`, `recclip`, `snapshot`, `notify`) | clip queue, temporary files | queue, read, encode, send; grab, pick, crop, send | no clip stuck, no file left, the right frame | Clips, Pick, Shot |
| Ledger (`ledger.py`) | writer queue, rows | append, sweep, flush, match | young rows stay; lines are counted | Ledger, Match |
| Twin, drift, capabilities | alerted keys, bounded history | probe, compare, tell | what was told as drifted is told as recovered | Twin |
| Event sources (`reolink.py`, `alarminfo.py`) | push queue, seen alarms | push, poll | a visit is told once | Push (getEvents: AlertFlow) |
| MQTT bridge (`mqtt.py`) | cache, queue, pulses | hooks, resync, drain | the broker ends with the daemon's view | Bridge |
| Archives (`sentlog.py`, `incident_archive.py`) | frames, index, copies | write, prune, compact, copy | nothing young is lost | Archive, Evidence |
| Labelling and reports (`labeling.py`, `reviewdigest.py`) | queue, undo stack, visits, day and baseline | label, undo, group, digest | verdicts agree with the file; one true digest a day | Label, Visits, Digest |
| Other offline tools, configuration, deployment | files | batch | - | not modelled (section 6) |

### How they interact

One thread runs `loop_step`: control passes and watchdogs, live pass, hub pass, sampler, SD
follow-ups, alert clips, outbox, state files, in a fixed order and over every camera. Beside
it run the endstop's observer of each camera and its helper threads, one worker per card and
per hub, the clip sender, the outage copier, the probe of the scorers and the address search,
the retention thread, the ledger's writer and the MQTT worker. They share camera sessions, the
gate's tables, queues and directories. The scoring service and the labelling tool are
processes of their own.

Four paths can put one event on the phone: a live frame, a sampler frame (or a held one), a
card frame, a late photo from the outbox. What keeps them from doing so twice is the gate, the
`sent`/`delivered` marks of the group, the `passage_alerted` mark of queued entries and
`Outbox.resolve`.

### What is hard

Results of slow reads applied to a newer state; three notions of "already alerted" that must
agree; two threads on one camera session; files written in steps with a crash between any
two; answers that come too late; retries of what may have been done; queues at their limit.
`PROJECT.json` (`hazards`) lists each at its line with the property that would catch it.

## 2. The modules

| Module | Models |
|---|---|
| `AlertGate` | the gate's questions and answers, as operators over its tables |
| `AlertFlow` | one camera through one loop: live pass, sampler, follow-ups, reader, late photos |
| `MCAlertFlow` | what the Flow runs check |
| `Resume` | the live pass and the follow-up queue of one camera across retries, stops, kills and restarts |
| `Outbox` | the directory, the drain and crashes |
| `LateBox` | abstract: what the outbox promises the phone |
| `OutboxPromise` | the refinement mapping from Outbox to LateBox |
| `Endstop` | the guard's poll, its OFF thread and its recovery thread against the control pass and the session lock |
| `Link` | the address of one camera: failover, confirmation, return, search, restart |
| `Control` | one control pass over firmware that couples its switches |
| `Lens` | recall, hold, linkage, privacy and the pan guard of one lens |
| `Twin` | probe, drift notices, history, restart |
| `Hub` | cursor, clip jobs, retries, two writes, signals and kills |
| `Clips` | queue, card thread, sender thread, temporary directories, restarts |
| `Archive` | writers, retention and compaction of a photo archive; the drop sample |
| `Digest` | the daily digest and the scorer's counters |
| `Evidence` | footage of outages copied by one thread for all cameras |
| `Notices` | eight kinds of notices, the two files, a restart |
| `Scorer` | the pool, two scoring threads, the probe and its notices |
| `Service` | HTTP handlers, inference lock, ensemble call, shadow queue, counters |
| `Answer` | one answer through tiles, ensemble, zones and boxes |
| `Pick` | which frame of a clip is sent |
| `Shot` | one live photo: grabs, temporary files, album, crop, sent log |
| `Scene` | the duplicate gate of a group of cameras |
| `Ledger`, `Match` | bounded writer and retention; the pairing of two timelines |
| `Label`, `Visits` | the labelling session and its undo; frames grouped into visits |
| `Bridge` | hooks, worker, broker |
| `Push` | cameras that push events or tell their last alarm only |
| `MCLocks`, `MCCamera`, `MCHouse` | two or more of these for TLC, one at a time (below) |
| `AlertFlow_proofs`, `LateBox_proofs`, `Outbox_proofs` | theorems about the alert flow and the outbox |
| `Restart_proofs` | theorems about what a restart keeps: Hub and Resume |
| `Files_proofs` | theorems about Archive, Digest, Evidence and Clips |
| `Camera_proofs` | theorems about Endstop, Link, Control, Lens and Twin, and about `MCCamera`, where the nine parts stand side by side |
| `HouseParts_proofs` | theorems about Notices, Scorer, Service, Ledger, Scene, Shot, Push and Bridge |
| `House_proofs` | theorems about Label, Answer, Pick, Match and Visits, and about `MCHouse` |

### AlertFlow and the code

`phase` is the pass the loop is in. `Tick` starts an iteration (`loop_step`), `Poll` and
`Live(s)` are `run_monitor` and its `_process`, one action per way an event can end. The order
of the checks in the code is kept in the guards: a blind event is decided before the open
burst's own rule, for example. `Sampler` is one turn of `process_sampler`. `Scan(s)` is one
turn of the loop in `process_pending_sd`, `JobEnds` is the reader's thread, and `Finish(s)` is
`_finish_sd_followup` on a collected result. Between `ScanSubmits` and `Finish` the loop may
run any number of iterations, or none. `Takeable`, `OutboxSends` and `OutboxReviews` are
`outbox_pass` as the other passes see it.

`events` is what the camera lists; `lastSeen`, `batch`, `newest`, `fails` are the live pass's
watermark, its sorted events, its return value and `_EVENT_FAILURES`; `lastAlert`,
`lastStart` are the gate's tables; `group` is `state.groups[camera]`; `pending` is
`pending_sd` by event; `todo`, `job`, `jobDone` are the running drain and the worker; `box` is
the failure time of each captured incident. `phone` and `fate` are history variables: what
Telegram accepted, and the newest audit verdict of each event. An event is named by its start
time, of which the code makes the incident ID. A frame is one of five results: none, a person
at `motion_send_threshold`, a marginal score, nobody, no answer from the scorer.

### Resume and the code

AlertFlow has no restart, and its events have distinct starts; Resume has both, on less data.
`tickStep` is where one iteration of `loop_step` stands between the steps a crash can separate:
`PollTaken` (`collect_detections`), one `Turn(e)` per event, `PollOver` (the new watermark),
`MarkSaved` (`health.save_state`), the drain, `TablesSaved` (`runtime_state.save_if_changed`).
A turn ends as `_process` may end: cooled down, sent, deferred, refused, dropped, or in an
exception, after which the retry watermark is `RetryMark`. `failCounts` is keyed by the start
time, as `_EVENT_FAILURES` is. `markFile` is `last_seen` in health.json, which other callers
save too (`HealthWritten`), and `tables` is runtime.json. `Stops` is a signal between ticks,
`Unwinds` a second one within a tick, `Dies` everything that saves nothing, `TickRaises` what
`tick` catches, `Resumes` the start of `main`.

`turn`, `raised`, `gaveUp`, `photos` are history. So are two counters that keep the properties
honest: `torn` counts the deaths after which the tables on disk are older than the watermark
there, the one way to lose a follow-up; `excuses` counts what may repeat a photo: a refused live
photo (deferred without arming the gate), a watermark that was not written, a tick that was cut
off, and a card photo that stamps an older event over a newer one (`MovesGateBack`). The known
face is exempt: no cooldown applies to it, so a retry of its twin sends it again.

### Outbox and the code

`Capture` is `Outbox.capture` (frame, sidecar, retire the old frame, `_enforce_cap`),
`Resolve` and `Remove` are `resolve`/`remove`. The drain is split where the code releases the
lock: `DrainBegins` (borrow), `Sort` (sweep, age, busy), `Score`, `Decide` (`plan_batch`),
`Announce` one sidecar at a time, `SummarySent`/`SummaryFails`, `Confirm`, `Review`,
`PhotoSent` and `Delivered` (send, then remove), `PhotoFails`, `DrainEnds` (release and unlink
what was retired). `Crash` can follow any step; `CrashInCapture` and `CrashInRemove` stop
inside the two operations that write more than one file. `stays`, `heard` and `seen` count how
often an incident entered the box, was announced, was sent. Captures may fall between any two
steps of a drain: that is the contract of the class (its docstring; `tests/test_outbox.py:868`,
`:929`, `:941`), although in today's daemon every send is on the loop thread.

**Refinement.** `LateBox` knows of no directory: an incident is out, waiting, told, unsure
(a crash left it open whether the text went out) or over, and only two steps reach the phone:
a text for incidents that wait, and a photo of one that was told. `OutboxPromise` maps the
files and the drain's own copy of them (`LifeOf`) to these lives and checks
`Promise!BoxSpec` as a property of `OutboxBatch`. During a drain its copy counts, not the
sidecar: another thread may capture the incident again meanwhile.

### The other modules and the code

Each module's header says which functions it models, every variable is commented with the
attribute it stands for, and actions carry the names of the code's functions and branches.
What all of them share:

- A step of a thread ends where the code releases a lock, waits, calls a camera or a service,
  or writes a file. What happens under one lock is one action.
- A duration that the code only compares with a threshold is a flag or an age that stops
  there: `"young"`/`"due"` in Notices, `waiting`, `held` in Link, ages in Lens.
- A call that leaves the process has every outcome its handler distinguishes, including an
  answer that arrives but is not seen (Shot, Clips) or is seen too late (Service, Scorer).
- What a restart keeps is what the state file held at its last save; the files are variables
  (`health`, `runtime` in Notices, `file` in Link, `cursorFile`, `runtimeFile` in Hub,
  `saved` in Twin, `labelsFile` in Label, `sentDay`, `baseline` in Digest).
- History variables (`told`, `fate`, `shown`, `asked`, `sentTimes`, `vetted`, ...) are
  read by properties only.

`MCLocks` (Outbox and Endstop), `MCCamera` and `MCHouse` run several modules in one instance of
TLC. The components they hold share no state that the models keep, so a behaviour of the run is one of a single part, chosen
by `which` in the initial state; the other parts stand still. The named properties of these
runs are conjunctions over the parts, each with its own definition and comment in its module.
Where components do interact through state that the models keep, one module holds
both sides: guard and control pass in Endstop, live pass, sampler, card reader and outbox in
AlertFlow, poll, queue, worker and stop in Hub.

## 3. What the runs check

Violation runs state what a comment or a document says and what the code does not keep.

| Run | Bounds | Properties | Shows |
|---|---|---|---|
| FlowKeep | 2 person events, starts up to 3, horizon 8, listed up to 1 late, cooldown 3; `keep_sampling`, early look | TypeOK, QueueOnePerPassage, OnePhotoPerPassage, DeliveredPassageNotRepeated | one photo for one visit with three paths at work; a mark set during a read is honoured |
| FlowMotion | 2 events, person/motion/PIR, horizon 7, quiet at 5, corroboration, refusals | QuietHours, CooldownKept (MotionQuieted, SpacedPersonPhotos), GroupNamed, EachPathOnce | spacing and quiet hours hold at the moment of the send; no path but the outbox sends an incident it has sent |
| FlowOutbox | 3 events, person/known face, horizon 6, raising events, refusals, outbox | NothingSkipped | the retry watermark skips no event, whatever raises and however late the list shows it |
| FlowLive | 2 events, person/PIR, horizon 6, maximal age 3, refusals; no outbox, `sd_motion` or `keep_sampling` | NothingTwice, QueueDrains, EventsDecided | an incident is on the phone once; the queue drains; a poisonous event does not block the others |
| FlowCooled | FlowKeep with a cooldown of 2 and without the early look | CooledMeansDelivered (violated) | finding 1 |
| FlowLate | 1 event, no card, 4 frames, refusals, outbox | NothingTwice (violated) | finding 2 |
| FlowTwice | 3 person events, starts up to 4, horizon 9, early look, `keep_sampling` | OnePhotoPerPassage (violated) | finding 3 |
| OutboxBatch | 2 incidents in a box of 2, 3 captures, 1 crash, horizon 2 | TypeOK, FramesKept (SidecarHasFrame, BorrowedOnDisk), SummaryOnce, PromiseKept | what a drain holds and what a sidecar names stays on disk; the drain's marks survive captures and a crash; the refinement |
| Locks | outbox: 3 incidents in a box of 2, 3 captures, no crash, horizon 1; endstop: travel of 3 positions, limit at one side, 2 steady samples, 1 disturbance (failed call, app, privacy); 2.7 million states | PersonsEvictedLast, EndstopHolds (VerifiedMeansOff, PermitInward, NothingOnRetired), LatchOpensSafely | eviction during a drain: a capture drops a person only when every entry that stays is a person's; an OFF verified since the trip holds; a permit is inward; nothing is sent on a retired session; the latch opens only on a safe pose with tracking off, or off by a verdict older than the trip (finding 16) |
| Resume | 3 events in 2 seconds, one of a known face, cooldown 1, limit 2, 2 mishaps; 2.4 million states | ResumeTypeOK, NoneUnread, FollowUpsSurvive, EchoExplained, LimitIsOwn | what retries, twins of one second, failed writes, stops and kills do to the watermark, the queue and the gate |
| Camera | nine parts, 1.2 million states | see below | link, control, lens, twin, hub, clips, archive, digest, evidence |
| House | thirteen parts, three quarters of a million states | see below | notices, scorer, service, ledger, match, scene, answer, pick, shot, label, visits, bridge, push |

The Camera run:

| Property | Says | Bounds |
|---|---|---|
| HostSettled | address and session agree after every branch; a switch is proved or undone, but for three kinds it names (findings 6, 17) | 2 configured addresses and 2 that DHCP may hand out, 2 shuffles or restarts |
| PassLeavesPlan | an undisturbed pass leaves every switch as planned | 3 builds of camera, every repair policy, 1 disturbance |
| StrayEnds | holds end, a stray lens is recalled | hold 4, grace 2, polls 2, control 3; ages stop at their thresholds, events never end |
| DriftTold | what was told is remembered; the history's last word is true | history of 3, 4 flaps, refusals and crashes |
| ClipsHandled | no clip lost but one that a second signal cuts off (finding 18), none sent twice but for a kill | 2 clips, 3 attempts, 2 tries, 1 kill, signal, refusal or raise |
| FilesKept | a submitted clip is held by exactly one thread and sent once per run of the daemon (finding 19); young frames keep picture and line; outage footage is archived or each try failed | 2 incidents and 1 restart; 3 frames, 2 hours, 2 writers; 2 cameras and 1 trouble |
| DigestIsTrue | one digest a day, each failure told once but for what older or other counters bring (finding 20), "OK" only of what was read | 2 days, 2 requests, 1 slip, killed scorer or failover |

The House run:

| Property | Says | Bounds |
|---|---|---|
| OutagesAreOwed, OutageIsOver | the daemon remembers what it owes the operator, unless the file was not written since or is discarded for its age (finding 21); after an outage that ends the recovery is told | 8 kinds of notices, 3 changes, refusals, failed writes or crashes; 3 scorers, 2 changes |
| ScorerFound | the pool ends on the only scorer that answers | 3 services, 2 threads and a probe, 2 changes |
| DoneOnce | a frame is asked once; a scene is told once; a photo arrives once and leaves no file; a pushed visit is told once and is not dropped silently | 2 handlers, 2 uploads, 1 stop; 3 deliveries of 2 views; one photo with every outcome; 3 seconds, 2 visits, 1 trouble |
| KeepsWhatItShould | retention leaves young rows and counts lines; verdicts agree with the file | 2 events, 3 lines, 2 days; 3 pictures, 3 lines |
| RightPhoto | verdict, box and frame are of persons that count | 3 places, 4 confidences; clips of 3 of 6 kinds of frames |
| ReportsAddUp | counters, matches, visits and the broker agree with what happened, but for frames that no counter sees (finding 22) and topics not shown since the start (finding 23) | up to 3 observations a side within 4 seconds; 3 frames; 3 hooks, 2 cuts or restarts |

Three invariants are proved but no run of their own states them: LiveOnce is a part of
EachPathOnce, PhotosAnnounced follows from PromiseKept, and GateRemembers is what CooldownKept
rests on.

CameraTypeOK and HouseTypeOK are the type invariants of the parts; among them the bounds of
histories, queues and counters that the code promises.

**Bounds.** In AlertFlow the time unit is a minute: `alerts.cooldown` 2, a card window due
after 2, the early look after 1, a retry after 1, the sampler's interval 1 and
`outbox.MIN_AGE` 2. `PENDING_MAX_AGE` is 10 minutes; it is shortened to 3 to 6, still longer
than a cooldown plus a read, so an entry can wait out a cooldown and still be sent.
`EVENT_FAILURE_LIMIT` is 2 instead of 3: one retry and one skip. Two events give same-passage
and other-passage pairs, since starts lie 1 to 3 apart around a cooldown of 2 (in FlowKeep, of 3: two grabs of the
sampler take 2, see below). The clock
saturates at the horizon, and nothing is reported after `LastReport`. Deadlock is checked in
every run but Locks, Camera and House, whose parts end (a pass, a photo, a clip is over) or exhaust
the bound on disturbances.

Bounds on disturbances (crashes, refused sends, failed calls, changes of the world) are 1 to 4:
enough for each alone at any step, and for two or three to meet where the code has a path for
it, such as a refused recovery notice after a restart. Thresholds that count (failures, tries,
steady samples) are 2 or 3, so that "one less", "exactly" and "one more" occur.

OnePhotoPerPassage holds with two events and fails with three (FlowKeep, FlowTwice): the third
event is the queued entry the card's delivery does not mark. FlowKeep and the theorem
`OnePhotoPerPassageCorrect` say what does hold for a passage of two events, for every schedule
whose grabs all fall within the cooldown. Where the sampler may go on for longer than a cooldown
(the defaults, 6 grabs 30 s apart against 120 s, do), one event is enough for a second photo:
the card sends, the cooldown runs out, and the group that `keep_sampling` left open sends again.
Such a pair is a cooldown apart, never closer (`PassageSpacedCorrect`).

Three choices narrow what TLC itself runs. `RecordLimit` of Scene is 2 with three deliveries: the
third is asked about while the record is full, and what a fourth would find is left to the proof
(`RecordInv`); `Oversized` is empty in House.cfg, so the filter by size of box is left to `RightPhotoCorrect`;
and `SdMotion` is FALSE in FlowLive, without which NothingTwice is false (finding 4): bare-motion
follow-ups run in FlowMotion, where EachPathOnce allows one photo per path.

**Fairness.** `FairSpec` of AlertFlow has weak fairness of `Loop` (every call in it has a
timeout and every exception is caught per pass) and of `JobEnds` (the reader's subprocess has a
deadline). Notices: weak fairness of the tick's steps, as the loop goes on whatever raises, and
strong fairness of a tick that begins with the outage watchdog: control passes come due again
and again, even if ticks without one lie between. Scorer: weak fairness of each scoring thread;
frames keep coming and the probe thread is optional, so nothing is assumed of it. There is no
fairness of cameras, of Telegram, of services or of any choice between outcomes. OutageIsOver
assumes that the camera stays up, logs in and is in its hours from some time on, and its bound
on refused sends means that Telegram works again in the end.

**Mutants.** Every property is broken by a changed definition that `PROJECT.json` names.
Further mutated definitions stay in the modules, marked `Mutant`, each of which TLC finds as
well when put in place: `ShouldSendEarly`, `StampOwnKey` (FlowMotion), `RetryFromStart`
(EachPathOnce), `SummaryFailsGoesOn`, `KeptAtOnce` (Outbox), `MayRecoverBlind`, `RetireAtOnce`
(Endstop), `StayThere` (Link), `HoldDueForever` (Lens), `BoundedOldest` (Twin),
`DropSampledOffByOne`, `CompactedBlind` (Archive), `SubmitCounts` (Evidence), `GivenUpNever`
(Hub), `ReadStandsAnyway`, `DueAnyHour`, `SavesAnyway` (Digest), `ReportedTimerRuns` (Scorer),
`ForgetsOne` (Scene), `FilesWithoutTwin`, `AlbumThenSingle` (Shot), `TrackedOn` (Push),
`ComesBackAlways` (Label), `QueuedSilently`, `SweptAll` (Ledger), `CapListNot`,
`WithoutKeepsBest` (Answer), `SmearedHigh`, `OutageOfOne` (Pick), `AdoptsAny` (Visits),
`ResyncBlind` (Bridge).

## 4. What is proved

`AlertFlow_proofs`, for every value of the constants that `FlowAssumption` and
`CooldownAssumption` allow:

- `TypeCorrect`: `Spec => []TypeOK`.
- `QueueOnePerPassageCorrect`, `GroupNamedCorrect`, `GateRemembersCorrect`,
  `QuietHoursCorrect`.
- `MotionQuietedCorrect`, for configurations without `keep_sampling_on_defer`. With it, an
  open burst lets a motion frame pass the cooldown by design.
- `SpacedPersonPhotosCorrect`, likewise without `keep_sampling_on_defer`. The two together are
  `CooldownKeptCorrect`.
- `NothingSkippedCorrect`, `LiveOnceCorrect`.
- `EachPathOnceCorrect`, in every configuration: what the live pass has sent nobody sends again,
  and the sampler (with its held frames) and the card send an incident once each.
- `NothingTwiceCorrect`: an incident is on the phone once, without `keep_sampling_on_defer` and,
  where the sampler runs, without the outbox and without card follow-ups of bare motion
  (`sd_motion`). All three are off by default, and each is needed: FlowLate, FlowTwice (where the
  incident that is sent twice is one event) and finding 4 are the
  counterexamples, one for each hypothesis.

The argument is a chain of inductive invariants.

1. `TypeInv`: TypeOK and that an open group started at a listed start. Each pass has a type
   lemma (`LiveType`, `SamplerType`, `FinishType`, `ScanType`).
2. `KnownInv`: TypeInv and AllKnown, which says that everything the daemon handles was
   reported, and GroupNamed. It is needed because `EType(s)` means nothing for an event that was
   never listed, and it makes the type of an event stable: once reported, an event does not
   change its kind (`KindKept`).
3. QueueOnePerPassage is inductive over KnownInv: only `Defer` adds an entry, and it asks
   `Duplicate` first; every other step shrinks the queue.
4. `GateInv`: the live pass runs awake (a muted camera leaves it before its first event), no
   photo lies in the future, GateRemembers, QuietHours. One lemma per pass says that a photo it
   sends is stamped in the same step.
5. MotionQuieted: by GateRemembers a confirmed photo is no newer than `last_alert`, and a
   motion photo is sent only when that entry is a cooldown old.
6. SpacedPersonPhotos: likewise, every path asks the person's clocks at the moment of a person
   photo and stamps both. A held frame is exempt: it goes out as motion, arms only motion, and its
   group may since have been renamed after a confirmed event (`sampler.py:76`).
7. `WaterInv`: while a poll runs the batch lies between `lastSeen` and `newest`, whatever the
   list has been taken in up to is decided or in the batch, and every live photo lies behind the
   place where the poll stands (`Behind`). NothingSkipped and LiveOnce follow, also when an event
   raises and the watermark is set back to just before it.
8. `DeliveredPassageNotRepeatedCorrect`, an action property: of all the steps only
   `FinishSends` puts a card photo on the phone, and it asks the entry's mark again after the
   read (`CardPhotoUnmarked`).
9. `PassageSpacedCorrect` and `OnePhotoPerPassageCorrect`, with `keep_sampling` or not, for two
   events at most, while Telegram answers and the burst's gap is shorter than the cooldown (90 s
   against 120 s by default). `BurstInv` relates the three places that know of a passage: the
   gate's event starts, the queue's marks and the group. A follow-up whose passage has its photo
   is marked or leaves (`Answered`); one that stood the sampler down has no open group
   (`StoodDown`); while a group may still send, only the card has sent a photo of its passage
   (`OnlyCard`), and then no follow-up of that passage keeps the burst open (`Outside`,
   `ReadFirst`, `BurstShut`). `LastTouch` is the piece that needs the gap: a group that only its
   own queued event has touched was last touched when that event armed the gate, so an event that
   the cooldown admits again finds the burst over. Every step is one of five kinds
   (`StepShape`), and the invariant is proved for each kind. With grabs that all fall within the
   cooldown and no held frames going out late, `Sched` adds that from the card's photo on the
   group's frames keep to the interval: a grab that finds the clock open would come after the
   last. TLC checked BurstInv, `OnTime` and `Sched` on six sets of constants first;
   FlowTwice shows that two events are the limit.
10. `IncidentInv` follows one incident from path to path. The card waits for it, an open group
   grabs for it or the outbox holds it only once its turn in the live pass is over (`Behind`, so
   `WaterInv` is needed), and a path that has sent it no longer holds it: after a live photo no
   path does. For an incident every step is one of six kinds (`IncidentShape`): no path gains it
   (`Calm`); its turn in the live pass sends it or hands it on (`HasTurn`); the sampler or the card
   is refused and the outbox gets it (`GoesToBox`); or the sampler, the card or the outbox sends
   it. EachPathOnce is a part of the invariant. `Single` adds, under the hypotheses of
   `NothingTwiceCorrect`, that either the card or the sampler holds an incident and that nobody
   holds what is on the phone: the turn does not hand it to both, and no refused grab puts it
   into the outbox while the group goes on. TLC checked both on the constants of the passing
   runs and on variants first.

`LateBox_proofs`: `PromiseMeansTextFirst`. With the summary on, whatever keeps the outbox's
promise shows at most one late photo per text, but for one more after each crash. The
invariant charges a photo to the text before it.

`Outbox_proofs`, for every `OutboxAssumption` (any incidents, capacity, number of captures,
crashes and sends):

- `OutboxTypeCorrect`, with HandInv: what each stage of a drain may hold in hand.
- `SidecarHasFrameCorrect`, `BorrowedOnDiskCorrect`, by DiskInv: a retired frame is no entry's
  frame, a new capture never writes over a borrowed or retired one, and what is unlinked is
  neither borrowed nor an entry's. Together they are `FramesKeptCorrect`.
- `PromiseKeptCorrect`, with the summary on: the refinement of LateBox, for every instance. Its
  invariant BoxInv relates the drain's copy of a sidecar to the one on disk, stage by stage.
- `PhotosAnnouncedCorrect`, with the summary on: the invariant of `LateBox_proofs`, carried over by
  the refinement.
- `SummaryOnceCorrect`, for either setting: each stay owes at most one text. OnceInv
  counts the texts that may still come: for an entry that waits or is unsure, and for what the
  drain has in hand but not yet sent or not yet written down.

- `PersonsEvictedLastCorrect`, an action property of captures: the eviction takes entries in
  its order of worth one by one, so with a person dropped every entry left is a person's, also
  where a crash left more than the limit.

`Camera_proofs`, each for every value the part's own assumption allows:

- `EndstopNothingOnRetired`, `EndstopVerifiedMeansOff`, `EndstopPermitInward`,
  `EndstopLatchOpensSafely`, `EndstopTypeCorrect`, the first three together `EndstopHoldsCorrect`
  (any travel, limits, home, samples, tries and disturbances). The endstop's type is proved and
  not checked by a run. The
  invariant says who holds the session lock and of which generation (`Locks`), what the OFF
  thread may assert when it stores a verdict after the lock is free (`VerifiedInv`: one it read
  while the guard was latched still holds, one it read before the trip is marked `early`), and that a permit's direction
  is the sign of the way in (`PermitSound`). `EndstopInv` adds the types: a session's number
  plus the disturbances left never exceeds the bound, because each login replaces a session
  whose retirement was a disturbance.
- `HostSettledCorrect` (any list of addresses without duplicates, any counts). HostSettled
  speaks of a pass that is over; `LinkInv` says what holds inside one: no session is open while
  a switch has not been proved, and the address a refused switch goes back to (`left`) is a host
  and was proved or is one of the switches that the code lets stand, also when the list of
  hosts changes under it; where the address to go back to has left that list, the undo raises and
  the address tried is remembered as unproved (`Stuck`).
- `PassLeavesPlanCorrect`. `DoneSoFar` is the plan as far as the pass has come: every setting
  before `at` that may be repaired is in order, the filter after its step, auto-track after its.
- `StrayEndsCorrect` (any intervals, grace and holds). StrayEnds bounds how long a lens is out;
  `StrayInv` and `RecallInv` bound it at each value of the code's own timers, and `TurnsTaken`
  says that a due poll or pass is not missed once its turn of the loop is over.
- `DriftToldCorrect` (any length of the history). `EntryInv` holds of the memory and of the file,
  as a restart takes one for the other. Its core is `Tells`: the last item of each path says what
  holds. A transition appends an item for every subject that changed (`TransitionsTell`), and
  dropping the oldest items leaves the last of each path that is left (`BoundedTells`).

`Restart_proofs`: `ClipsHandledCorrect`, for any number of clips, attempts, tries, signals and kills.
`HubInv` has five parts: types; where the tick stands and what its loops have still to visit
(`PhaseInv`); tries (`TriesInv`); `CarryInv`, in memory and on disk: a clip the cursor has
passed is decided, on a queue that fits its fate or cut off by a second signal; and `OnceInv`, which counts the photos of a
clip that the memory (`Owed`) and the files (`Saved`) could still send, and lets their sum with
what was sent grow by a kill only. The two writes of a tick are why the files may be one ahead
in between. TLC checked HubInv, and that each step keeps it from all of its states with one
clip, before the proof. It showed that a given-up entry may be counted once more after each
second signal, which unwinds the tick: the type invariant bounds `tries` by
`FinishTries + kills`.

`Restart_proofs` also, for every `ResumeAssumption` and any cooldown (any number of events, events
of one second, known faces, limit, mishaps): `ResumeTypeCorrect`, `NoneUnreadCorrect`,
`FollowUpsSurviveCorrect`, `EchoExplainedCorrect`, `LimitIsOwnCorrect`. `ResumeInv` is the
conjunction of these parts; each is kept by one lemma per step that touches it:

- `LoopInv`: where the loop stands. A poll's batch is the rest, in order, of what is fresh behind
  `lastMark`; what the file says is never ahead of the memory.
- `CountInv`: an event that shares its second with no other and whose turn is still to come has
  all its failures in the count, and fewer than the limit. LimitIsOwn follows.
- `ReadInv`: an unread event lies behind the watermark of the memory and behind that of the file,
  and in the batch while a poll runs; so no retry mark may pass it, nor a restart from either.
- `FollowUpsKept`: a deferred event is queued or will be listed again, in the memory, and in the
  two files whenever a death would not tear them apart (`DeferredKept`). The memory's watermark is
  what a running daemon asks with and the file's what a restart does, so both are needed.
- `SavedInv`: between ticks the saved tables are those of the memory; without an excuse the
  saved watermark is too, but for the moment before its save.
- `EchoInv`, of behaviours without an excuse. An event is told when it has a photo or a follow-up
  in the queue. One that was told and will be listed again started in the second after the
  watermark, and the gate was armed by that second (`GateArmed`), in the memory or in the
  tables a restart takes up; while a poll runs the gate is not ahead of the events whose turn is
  to come (`GateNotAhead`), so a retry finds it shut. An event in the queue has no photo yet
  (`QueuedUntold`), and its second is at most the one after the watermark, or this poll has
  had it (`QueuedNear`).

TLC checked ResumeInv on the run's instance before it was proved.

`Files_proofs`:

- `ArchiveKeepsYoungCorrect` (any frames, hours, writers, retention, cap, crashes): a frame being
  written is as safe as one with a line, because frames are taken in the order of their times and
  a clean-up removes by a time that is past (`FramesInv`).
- `DigestIsTrueCorrect` (any day length, rates, checks, slips): `CountsInv` says that what the digests
  have counted together with what the next would count is all that happened while no counter went
  back, and at most that and what other counters brought, for the baseline on disk and for the one
  a digest under way will write; `DaysInv` that a digest under way is today's
  and that one too many costs a slip.
- `EvidenceKeptCorrect` (any cameras, threshold, tries, segments): types, GivenUpAfterTrying and
  OutageIsPreserved. `SpentOn` accounts for each try of an outage: failed, under way, or what
  preserved it. `InTime` bounds the wait of a camera by the copies that were given to the others
  (`turns`) and by the ticks the copy under way can still block.
- `ClipsHeldCorrect` (any incidents, tries, restarts): `PlacesInv` says that the places that may
  hold an entry exclude each other and that the queue's flag follows them, `UploadsInv` that a
  run of the daemon repeats an upload only for a lost answer, `DirsInv` whose a temporary directory is.

`Camera_proofs` also, for every value of the constants of all nine parts: `CameraTypeCorrect`,
`FilesKeptCorrect`, and `CameraPartsCorrect` for the other six invariants of the Camera run. A
step of the whole is a step of each part or leaves it alone (`CameraSteps`), so the conjunction
of the nine invariants is inductive.

`HouseParts_proofs` and `House_proofs`, for every value the assumptions of the thirteen parts
allow: `HouseTypeCorrect`, `OutagesAreOwedCorrect`, `DoneOnceCorrect`,
`KeepsWhatItShouldCorrect`, `RightPhotoCorrect`, `ReportsAddUpCorrect`, the six invariants of
the House run. As with the camera, `HouseInv` is the conjunction of the parts' invariants and
`HouseSteps` says that a step of the whole is a step of each part or leaves it alone. The part
theorems, such as `PersonToldOnceCorrect`, hold of the parts alone; the argument of each:

- Notices: the memory owes what was told and not forgotten, and a file owes it too unless the
  kind was told since the file was last written (`FilesOwe`); a restart forgets what is unwritten
  and, with a file over an hour old, all that file held.
- Scorer: until a transition is reported, the notices are of the belief before it
  (`NoticesFollow`).
- Service: a frame is in one place at a time (`PlacesInv`), and one that may still be sent to the
  second service was not (`AskedInv`). Under the ensemble each item has an outcome, so none ends
  in a call and none goes unseen by the counters.
- Ledger: the sweep under way removes by a cutoff no later than today's (`SweepInv`), so a young
  row is never below it; `LinesInv` counts the lines.
- Scene: a delivery that the record no longer holds was pushed out by later ones
  (`RecordInv`), so the gate misses a peer's photo only then.
- Shot: what is on the temporary directory, by where the photo stands (`OnTmpInv`).
- Push: `SpellInv` and `OnceInv` relate what the edge tracker believes of the visit that the camera
  shows now to how often that visit was told or waits.
- Bridge: on a session that stands, the last message of a topic that waits, or else what the
  broker keeps, is what the cache holds if it holds anything (`SessionInv`); a topic of an earlier
  run is out of its reach.
- Label: the oldest entry of the undo stack for a frame leads back to what the session opened
  with, and every younger one to a verdict (`StackInv`, `OpenedInv`).
- Answer: a person the filters have left has its score from the served reply (`ServedInv`), and
  the decisive score is that of the best of them.
- Pick: the fold over the frames is followed place by place; its result deserves the choice
  (`Deserved`) among the frames before that place.
- Match: greedy is the largest, by the dual argument. A set C of camera observations that can
  reach fewer shadow observations than it has members leaves some unmatched in every pairing;
  `Explained` keeps such a set for the observations left unmatched so far, and `SinceSkip` what
  makes a new one when an observation is skipped.
- Visits: the incidents divide the frames (`SharedInv`), an id leads to its incident and back
  (`NamedInv`), and no incident ends later than that of the last frame (`NowInv`), so the gap
  rule compares neighbours.

The induction over data that these need (a least place, a greatest one, the best of finitely many
scores) is taken from the well-foundedness of the finite sets: `LeastNat`, `GreatestNat`,
`GreatestOf`. TLC checked the invariants that were found by strengthening (of Answer, on two sets
of constants) before they were proved.

Two assumptions stand behind these theorems that nothing in the code enforces or that
need a word. `FloorAssumption`: the floor of the list of persons is not above the ensemble's trust
threshold, which a comment says (`scorer_service.py:92`) and nothing checks. `PickAssumption`: blur
and size of a frame are natural numbers, or -1 where they could not be measured: the blur is
`100 / (1 + variance)` and a box has sides of positive length.

**Not proved, checked by TLC only.**

- Nothing is claimed of OnePhotoPerPassage beyond the hypotheses of its theorem: with three
  events it is false (finding 3).
- Liveness (QueueDrains, EventsDecided, OutageIsOver, ScorerFound): no prover here handles
  fairness and ENABLED.
- What a recursive function or a fold computes for every input, as a closed formula: the library's
  induction rules take an operator as a parameter. The proofs above need invariants of their
  steps only.

**What the proofs changed in the models.** OutageIsPreserved had a constant bound, which holds
with two cameras only: with three, each try of the others starts the wait again, as the one
copier takes the first camera that asks and a waiting one has no turn of its own. The bound now
counts those turns. PersonsEvictedLast compared an evicted entry with the whole box before the
capture; it now speaks of the entries that stay, which is what the code's order gives.
Some definitions of the House parts were put into a form the provers can expand, with the
same states and steps: records written out instead of an EXCEPT of several fields, sets of places
instead of filtered sequences (the reports of Scorer, the deliveries of Scene, the pushed events
of Push), and helpers with a name of their own (`Turns`, `NextReport`, `Newest`, `Rejudged`).

## 5. Findings

Shown by a run:

1. **A follow-up is dropped as "within the cooldown" with nothing on the phone**
   (FlowCooled; `daemon.py:3675`). A duplicate defer arms the gate, and no queued entry
   carries that arming, so it passes for a message.
2. **Late photo, then the sampler's** (FlowLate; `daemon.py:2011`). The outbox does not
   count a sampler group as busy.
3. **A passage delivered by the card and again by the sampler** (FlowTwice;
   `daemon.py:3932`). The group is marked `delivered`, not `sent`, and its span still
   reaches an unmarked queued entry.

Met while modelling; the modules have the behaviour, and the properties of the passing runs are
stated so that they leave room for it:

4. A motion incident may be sent by the sampler and again by its own card follow-up
   (`daemon.py:1601`; AlertFlow): one event-start slot per key is not enough for a follow-up that
   waits for a cooldown while a later event takes the slot.
5. An event that always raises is never given up while a twin of its second succeeds
   (`monitor.py:769`; Resume): the failure count is kept by start time, and the twin's success
   resets it before each failure. LimitIsOwn is stated for events that are alone in their second.
6. A failover during the login backoff is never confirmed by MAC (`daemon.py:5740`; Link).
7. Job directories of a killed run are not removed when the new process has the same pid, as
   it does in a container (`sdworker.py:177`; Clips).
8. The start removes the job directory that holds the frame of a saved hub retry
   (`daemon.py:5401`; Hub).
9. A drift that is merely unread is told as recovered (`daemon.py:4757`; Twin).
10. SD follow-ups are not recorded for the scene gate, and a rescued hold does not ask it
   (`daemon.py:3600`, `daemon.py:4024`; Scene).
11. With two equal confidences the box may stay an excluded person's (`scorer.py:548`; Answer).
12. The scorer's metrics are fetched every tick, not once a day (`daemon.py:5314`; Digest).
13. A pulse that comes while the worker ends the last one is overwritten by OFF
    (`mqtt.py:349`; Bridge).
14. An event of a pushing camera whose processing raises is not retried
    (`monitor.py:765`; Push).
15. Leftovers of an interrupted copy fill the outage archive (`incident_archive.py:108`;
    Evidence).
16. The verdict of a tracking OFF is stored after the session lock is free: an ON and a trip in
    the gap leave the new episode with a verdict that is no longer true (`stopguard.py:312`;
    Endstop, `early`).
17. The undo of a switch raises when the address it goes back to is a rediscovered one that was
    dropped meanwhile; the address that refused the login stays (`daemon.py:6181`; Link, `Stuck`).
18. A second stop signal while a camera without the hub worker reads a clip saves the cursor past
    it (`daemon.py:2944`; Hub, `ClipCutOff`).
19. After a quick restart a further photo of an incident queues its clip again
    (`alertclip.py:274`; Clips, `ClipRestart`).
20. Counters below the digest's baseline are taken for new ones, though a killed scorer comes back
    with those it saved and a failover asks another scorer (`reviewdigest.py:716`; Digest,
    `ScorerKilled`, `ScorerChanged`).
21. A runtime file over an hour old is discarded with the announcements it holds, which have no
    time limit (`runtime_state.py:183`; Notices).
22. An exception of `http.client` leaves a frame of the shadow out of every counter
    (`scorer_service.py:1084`; Service, `unseen`).
23. A daemon that starts does not clear what the broker retains of the run before: an ON stays
    until the camera's next event (`mqtt.py:435`; Bridge, `BridgeRestart`).

The quotes are in `PROJECT.json` (`findings`).

Further observations, where no text of the repository says otherwise: a failed write of a
label may leave part of a line behind (`labeling.py:456`); a recovery notice after a stall is
sent once and lost if refused; texts on a scorer going down and up are sent outside the lock and
may overtake each other; a delta the digest calls that of a day may span a longer time; the
event API's watermark drops a pushed event of a second it has already seen.

## 6. What the models leave out

- AlertFlow: other cameras, vehicles, loitering, low-score early exit, `ignore_known`, the
  light trigger, inline and parallel card reads. Tamper and pet events behave as person events.
  Exceptions of one event come before any of its effects. Restarts and events of one second would
  multiply a state space that already takes minutes; they are in Resume.
- Resume: what AlertFlow has beyond persons (bare motion, the sampler, `keep_sampling_on_defer`, muted
  polls); the card reader's thread; a downtime of more than an hour, after which runtime.json is
  discarded; `_EVENT_FAILURES` losing its oldest of 256 entries. The clock is left open: a cooldown
  measured on it may have run out or not at every question, so what is proved needs the gate's
  event times only.
- Outbox: other cameras, the byte budget, unreadable sidecars, failing writes other than a
  missing sidecar, the backoff after a refusal (a drain may stop at once instead). The time of
  the first failure stands for the event's own time. One `person` score stands for the eviction
  hint and for the camera's threshold.
- Endstop: one axis, no ONVIF fallback, no handoff between processes.
- Hub: `check_hub_inactivity`, a refused `record_24h`, a cursor ahead of the clock, failing
  writes of the state files, a further signal while the pass's finally unwinds.
- Clips: what the phone holds over several runs of the daemon; each run counts its own clips.
- Digest: which scorer is asked; a change of scorer is a change of its counters to any value.
- Notices: the other parts of the two files. health.json is written at the end of a watchdog pass
  that changed something, as the code compares snapshots; that other callers save it too is left
  out: such a save leads to a state that a pass's own save leads to as well. runtime.json is written at the end of a tick when
  it differs, from the notices or from something else.
- Ledger: lines that `record_audit` passes over (no camera, type or start): neither row nor error.
- Evidence: the size limit of an archive appears as a copy that may fail.
- Answer: a malformed list of the second model.
- Bridge: discovery, availability and the last will.
- Scoring itself, image processing and decoding (`detectors.py`, `faces.py`, ffmpeg): numeric
  code and I/O, an answer or a frame that may be missing.
- Offline programs (`shadowscan.py`, `autolabel.py`, `replay.py`, `report.py`, `cli.py`,
  `audit.py`), configuration and parsing (`config.py`, `enrich.py`, `detection.py`,
  `incident.py`), read-only pages (`statusd.py`), wire formats, deployment scripts: batch or
  pure code without a state that several actors share. The switches of the configuration are
  CONSTANTS or initial choices of the modules.

## 7. What could come next

- The sampler's groups and `keep_sampling_on_defer` in Resume: a restart forgets an open group.
- An abstract specification of the notices (told, owed, taken back), with Notices and Scorer shown
  to implement it.
