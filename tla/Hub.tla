---------------------------------- MODULE Hub ----------------------------------
(* Clips of a battery camera that the hub indexes: the poll and its cursor,     *)
(* the clip queue with its worker thread, the retries of refused alerts, and    *)
(* what a stop, a kill and a restart make of them (daemon.run_hubpoll_pass,     *)
(* process_hub_clip_queue, process_pending_hub, GracefulStop, shutdown, main;   *)
(* hubclient.HubClient, sdworker.SdWorker, runtime_state).                      *)
(*                                                                            *)
(* A clip is its start time, a number; what the clip shows and the cooldown    *)
(* are open, so every verdict may follow; so are the timers (backoff, age of an *)
(* entry, job timeout, retry delay), which may or may not have run out when    *)
(* they are read.  Both files are replaced whole.                              *)
EXTENDS Integers, Sequences, FiniteSets

CONSTANTS
  HubClips,    \* bound: clips the hub ever indexes
  HubAttempts, \* HUB_RETRY_MAX_ATTEMPTS
  FinishTries, \* HUB_CLIP_FINISH_ATTEMPTS
  HubTrouble   \* bound: refused sends, decisions that raise, signals and kills

ASSUME HubAssumption ==
  /\ HubClips \in Nat /\ HubTrouble \in Nat
  /\ HubAttempts \in Nat \ {0} /\ FinishTries \in Nat \ {0}

VARIABLES
  indexed,      \* clips 1..indexed are on the hub
  resolved,     \* hub_devices has the camera
  inline,       \* the camera has no hub_clip_worker
  cursor,       \* hub_cursor
  cursorFile,
  queued,       \* pending_hub_clips
  job,          \* the worker: the job submitted for the hub and not yet collected
  retries,      \* pending_hub
  frames,       \* on disk: where the frame kept for a retry lies
  runtimeFile,  \* pending_hub_clips and pending_hub as last saved
  hubStep,      \* where the tick stands
  todoClips,        \* what is left of the loop of this step
  leaving,      \* entries that loop has decided
  stopping,     \* GracefulStop: "no", "asked", or "exit" for a second signal
  sentTimes,    \* history: photos of each clip on the phone
  fate,         \* history: what became of each clip
  kills,        \* history: stops that saved nothing, or unwound the tick
  trouble       \* troubles left

hubVars == <<indexed, resolved, inline, cursor, cursorFile, queued, job,
             retries, frames, runtimeFile, hubStep, todoClips, leaving, stopping, sentTimes, fate,
             kills, trouble>>
hubWorldVars == <<indexed, inline>>
filesVars == <<cursorFile, runtimeFile>>

NoCursor == -1
ClipIds == 1..HubClips
NoJob == [clip |-> 0, stage |-> "none", frames |-> FALSE]
HubFates == {"unseen", "history", "muted", "queued", "noframe", "below", "held", "cooldown",
           "sent", "retry", "expired", "refused", "gaveup", "raised", "dropped", "cutoff"}
UndecidedFates == {"unseen", "queued", "retry", "cutoff"}
ClipEntries == [clip : ClipIds, tries : Nat]
RetryEntries == [clip : ClipIds, attempts : 1..HubAttempts]
ClipsOf(entries) == {entries[i].clip : i \in DOMAIN entries}
IsWithout(rest, entries, clips) ==
  LET stay == {i \in DOMAIN entries : entries[i].clip \notin clips} IN
  \E at \in [1..Cardinality(stay) -> stay] :
    /\ \A m, n \in DOMAIN at : m < n => at[m] < at[n]
    /\ rest = [n \in DOMAIN at |-> entries[at[n]]]
EntryOf(entries, c) == entries[CHOOSE i \in DOMAIN entries : entries[i].clip = c]
Changed(entries, c, entry) ==
  [i \in DOMAIN entries |-> IF entries[i].clip = c THEN entry ELSE entries[i]]
ClipOrder(entries) == [i \in DOMAIN entries |-> entries[i].clip]

----------------------------------------------------------------------------
(* What a frame comes to: _deliver_hub_frames *)

Verdicts == {"below", "held", "cooldown"}

(* A refused photo is kept with its frame: the cursor is already past the clip. *)
DeliverFrames(c, kind) ==
  \/ /\ \E verdict \in Verdicts : fate' = [fate EXCEPT ![c] = verdict]
     /\ UNCHANGED <<sentTimes, retries, frames, trouble>>
  \/ /\ fate' = [fate EXCEPT ![c] = "sent"] /\ sentTimes' = [sentTimes EXCEPT ![c] = @ + 1]
     /\ UNCHANGED <<retries, frames, trouble>>
  \/ /\ trouble > 0 /\ trouble' = trouble - 1
     /\ fate' = [fate EXCEPT ![c] = "retry"]
     /\ retries' = Append(retries, [clip |-> c, attempts |-> 1])
     /\ frames' = [frames EXCEPT ![c] = kind]
     /\ UNCHANGED sentTimes

NoFrame(c) ==
  fate' = [fate EXCEPT ![c] = "noframe"] /\ UNCHANGED <<sentTimes, retries, frames, trouble>>

(* The clip's own frame, or a live one, or none. *)
Decides(c, got) == IF got THEN DeliverFrames(c, "job") ELSE DeliverFrames(c, "live") \/ NoFrame(c)

----------------------------------------------------------------------------
(* The poll *)

TickBegins ==
  /\ hubStep = "asleep" /\ stopping = "no"
  /\ hubStep' = "poll"
  /\ UNCHANGED <<hubWorldVars, resolved, cursor, filesVars, queued, job, retries, frames,
                 todoClips, leaving, stopping, sentTimes, fate, kills, trouble>>

(* Not due, the hub away, the camera not in its list, or a query that fails and *)
(* drops the session with a backoff.                                           *)
PollMisses ==
  /\ hubStep = "poll" /\ hubStep' = "collect"
  /\ UNCHANGED <<hubWorldVars, resolved, cursor, filesVars, queued, job, retries, frames,
                 todoClips, leaving, stopping, sentTimes, fate, kills, trouble>>

(* The first poll starts the cursor at now; a muted camera drains its clips.   *)
PollAnswers ==
  /\ hubStep = "poll" /\ resolved' = TRUE
  /\ IF cursor = NoCursor
     THEN /\ cursor' = indexed /\ hubStep' = "collect"
          /\ fate' = [c \in ClipIds |->
                        IF c <= indexed /\ fate[c] = "unseen" THEN "history" ELSE fate[c]]
          /\ UNCHANGED todoClips
     ELSE /\ todoClips' = [i \in 1..indexed - cursor |-> cursor + i]
          /\ IF todoClips' = <<>> THEN hubStep' = "collect" ELSE hubStep' \in {"clips", "muted"}
          /\ UNCHANGED <<cursor, fate>>
  /\ UNCHANGED <<hubWorldVars, filesVars, queued, job, retries, frames, leaving, stopping,
                 sentTimes, kills, trouble>>

NextClip(from) ==
  /\ hubStep = from /\ cursor' = Head(todoClips) /\ todoClips' = Tail(todoClips)
  /\ hubStep' = IF todoClips' = <<>> THEN "collect" ELSE from

ClipMuted ==
  /\ NextClip("muted")
  /\ fate' = [fate EXCEPT ![cursor'] = "muted"]
  /\ UNCHANGED <<hubWorldVars, resolved, filesVars, queued, job, retries, frames, leaving,
                 stopping, sentTimes, kills, trouble>>

QueueClip(c) ==
  IF c \in ClipsOf(queued) THEN queued
  ELSE Append(queued, [clip |-> c, tries |-> 0])

ClipQueued ==
  /\ NextClip("clips") /\ ~inline
  /\ queued' = QueueClip(cursor')
  /\ fate' = [fate EXCEPT ![cursor'] = "queued"]
  /\ UNCHANGED <<hubWorldVars, resolved, filesVars, job, retries, frames, leaving, stopping,
                 sentTimes, kills, trouble>>

ClipInline ==
  /\ NextClip("clips") /\ inline
  /\ \E got \in BOOLEAN : Decides(cursor', got)
  /\ UNCHANGED <<hubWorldVars, resolved, filesVars, queued, job, leaving, stopping, kills>>

(* An exception leaves the pass through its finally: the cursor is past the    *)
(* clip, which is given up.                                                    *)
ClipRaises ==
  /\ hubStep = "clips" /\ inline
  /\ trouble > 0 /\ trouble' = trouble - 1
  /\ cursor' = Head(todoClips)
  /\ fate' = [fate EXCEPT ![cursor'] = "raised"]
  /\ hubStep' = "retry" /\ todoClips' = ClipOrder(retries)
  /\ UNCHANGED <<hubWorldVars, resolved, filesVars, queued, job, retries, frames, leaving,
                 stopping, sentTimes, kills>>

(* A second signal during the download, the scoring or the send unwinds the     *)
(* tick the same way: the cursor is past a clip that nothing decided.          *)
ClipCutOff ==
  /\ hubStep = "clips" /\ inline
  /\ stopping = "asked" /\ stopping' = "exit" /\ kills' = kills + 1
  /\ cursor' = Head(todoClips)
  /\ fate' = [fate EXCEPT ![cursor'] = "cutoff"]
  /\ hubStep' = "retry" /\ todoClips' = ClipOrder(retries)
  /\ UNCHANGED <<hubWorldVars, resolved, filesVars, queued, job, retries, frames, leaving,
                 sentTimes, trouble>>

----------------------------------------------------------------------------
(* The queue of clips and its worker *)

(* finish(): decided, unless deciding raised and a try is left. *)
FinishEntry(c, got) ==
  \/ Decides(c, got) /\ leaving' = leaving \cup {c} /\ UNCHANGED queued
  \/ /\ c \in ClipsOf(queued) /\ trouble > 0 /\ trouble' = trouble - 1
     /\ LET tries == EntryOf(queued, c).tries + 1 IN
          /\ queued' = Changed(queued, c, [EntryOf(queued, c) EXCEPT !.tries = tries])
          /\ IF tries >= FinishTries
             THEN leaving' = leaving \cup {c} /\ fate' = [fate EXCEPT ![c] = "gaveup"]
             ELSE UNCHANGED <<leaving, fate>>
     /\ UNCHANGED <<sentTimes, retries, frames>>

\* Mutant: a result is used though its entry was given up meanwhile.
GivenUpNever(c) == FALSE

(* A late result belongs to no entry any more: it is deleted. *)
GivenUp(c) == c \notin ClipsOf(queued) \ leaving

Collect ==
  /\ hubStep = "collect"
  /\ hubStep' = "entries" /\ todoClips' = ClipOrder(queued)
  /\ IF job.stage = "done"
     THEN /\ job' = NoJob
          /\ IF GivenUp(job.clip)
             THEN UNCHANGED <<fate, sentTimes, retries, frames, trouble, leaving, queued>>
             ELSE FinishEntry(job.clip, job.frames)
     ELSE UNCHANGED <<job, fate, sentTimes, retries, frames, trouble, leaving, queued>>
  /\ UNCHANGED <<hubWorldVars, resolved, cursor, filesVars, stopping, kills>>

QueueEntry == EntryOf(queued, Head(todoClips))
EntryVisited ==
  hubStep = "entries" /\ todoClips # <<>> /\ todoClips' = Tail(todoClips) /\ UNCHANGED hubStep
BeingRead == job.clip = QueueEntry.clip
NotLeaving == Head(todoClips) \notin leaving

EntrySkipped ==
  /\ EntryVisited
  /\ ~NotLeaving \/ BeingRead \/ ~resolved \/ job # NoJob
  /\ UNCHANGED <<hubWorldVars, resolved, cursor, filesVars, queued, job, retries, frames,
                 leaving, stopping, sentTimes, fate, kills, trouble>>

EntryTooOld ==
  /\ EntryVisited /\ NotLeaving
  /\ leaving' = leaving \cup {QueueEntry.clip}
  /\ fate' = [fate EXCEPT ![QueueEntry.clip] = "expired"]
  /\ UNCHANGED <<hubWorldVars, resolved, cursor, filesVars, queued, job, retries, frames,
                 stopping, sentTimes, kills, trouble>>

(* Its job overran, or it is stuck behind another, or the hub is gone: a live   *)
(* frame.                                                                      *)
EntryStuck ==
  /\ EntryVisited /\ NotLeaving
  /\ BeingRead \/ ~resolved \/ job # NoJob
  /\ FinishEntry(QueueEntry.clip, FALSE)
  /\ UNCHANGED <<hubWorldVars, resolved, cursor, filesVars, job, stopping, kills>>

EntrySubmitted ==
  /\ EntryVisited /\ NotLeaving /\ resolved /\ job = NoJob
  /\ job' = [clip |-> QueueEntry.clip, stage |-> "running", frames |-> FALSE]
  /\ UNCHANGED <<hubWorldVars, resolved, cursor, filesVars, queued, retries, frames, leaving,
                 stopping, sentTimes, fate, kills, trouble>>

EntriesDone ==
  /\ hubStep = "entries" /\ todoClips = <<>>
  /\ IsWithout(queued', queued, leaving) /\ leaving' = {}
  /\ hubStep' = "retry" /\ todoClips' = ClipOrder(retries)
  /\ UNCHANGED <<hubWorldVars, resolved, cursor, filesVars, job, retries, frames, stopping,
                 sentTimes, fate, kills, trouble>>

(* The worker thread: frames of the clip, or none, or an error. *)
JobReturns ==
  /\ job.stage = "running"
  /\ \E got \in BOOLEAN : job' = [clip |-> job.clip, stage |-> "done", frames |-> got]
  /\ UNCHANGED <<hubWorldVars, resolved, cursor, filesVars, queued, retries, frames, hubStep,
                 todoClips, leaving, stopping, sentTimes, fate, kills, trouble>>

----------------------------------------------------------------------------
(* process_pending_hub, in the pass's finally *)

RetryEntry == EntryOf(retries, Head(todoClips))
RetryVisits ==
  hubStep = "retry" /\ todoClips # <<>> /\ todoClips' = Tail(todoClips) /\ UNCHANGED hubStep
Discarded(c) == frames' = [frames EXCEPT ![c] = "none"]

RetryWaits ==
  /\ RetryVisits
  /\ UNCHANGED <<hubWorldVars, resolved, cursor, filesVars, queued, job, retries, frames,
                 leaving, stopping, sentTimes, fate, kills, trouble>>

(* Too old, or its frame is gone. *)
RetryDropped ==
  /\ RetryVisits
  /\ leaving' = leaving \cup {RetryEntry.clip} /\ Discarded(RetryEntry.clip)
  /\ \E why \in {"expired"} \cup (IF frames[RetryEntry.clip] = "none" THEN {"dropped"} ELSE {}) :
       fate' = [fate EXCEPT ![RetryEntry.clip] = why]
  /\ UNCHANGED <<hubWorldVars, resolved, cursor, filesVars, queued, job, retries, stopping,
                 sentTimes, kills, trouble>>

RetrySends ==
  /\ RetryVisits /\ frames[RetryEntry.clip] # "none"
  /\ LET c == RetryEntry.clip
         tried == [RetryEntry EXCEPT !.attempts = @ + 1]
     IN \/ /\ leaving' = leaving \cup {c} /\ Discarded(c)
           /\ fate' = [fate EXCEPT ![c] = "sent"] /\ sentTimes' = [sentTimes EXCEPT ![c] = @ + 1]
           /\ UNCHANGED <<retries, trouble>>
        \/ /\ trouble > 0 /\ trouble' = trouble - 1
           /\ IF tried.attempts >= HubAttempts
              THEN /\ leaving' = leaving \cup {c} /\ Discarded(c)
                   /\ fate' = [fate EXCEPT ![c] = "refused"]
                   /\ UNCHANGED retries
              ELSE /\ retries' = Changed(retries, c, tried)
                   /\ UNCHANGED <<leaving, frames, fate>>
           /\ UNCHANGED sentTimes
  /\ UNCHANGED <<hubWorldVars, resolved, cursor, filesVars, queued, job, stopping, kills>>

RetriesDone ==
  /\ hubStep = "retry" /\ todoClips = <<>>
  /\ IsWithout(retries', retries, leaving) /\ leaving' = {} /\ hubStep' = "save"
  /\ UNCHANGED <<hubWorldVars, resolved, cursor, filesVars, queued, job, frames, todoClips,
                 stopping, sentTimes, fate, kills, trouble>>

----------------------------------------------------------------------------
(* The two writes, the rest of the tick, and the ways to stop *)

HubSnapshot == [clips |-> queued, retries |-> retries]

\* Mutant: the cursor is written before the queue.
CursorFirst ==
  \/ hubStep = "save" /\ hubStep' = "cursor" /\ cursorFile' = cursor /\ UNCHANGED runtimeFile
  \/ hubStep = "cursor" /\ runtimeFile' = HubSnapshot /\ UNCHANGED cursorFile
     /\ hubStep' = IF stopping = "exit" THEN "shutdown" ELSE "rest"

(* Queue, then cursor, when the cursor moved. *)
TwoWrites ==
  \/ hubStep = "save" /\ hubStep' = "cursor" /\ UNCHANGED cursorFile
     /\ runtimeFile' = IF cursor # cursorFile THEN HubSnapshot ELSE runtimeFile
  \/ hubStep = "cursor" /\ cursorFile' = cursor /\ UNCHANGED runtimeFile
     /\ hubStep' = IF stopping = "exit" THEN "shutdown" ELSE "rest"

PassWrites ==
  /\ TwoWrites
  /\ UNCHANGED <<hubWorldVars, resolved, cursor, queued, job, retries, frames, todoClips, leaving,
                 stopping, sentTimes, fate, kills, trouble>>

TickEnds ==
  /\ hubStep = "rest"
  /\ hubStep' = IF stopping = "no" THEN "asleep" ELSE "shutdown"
  /\ runtimeFile' = HubSnapshot
  /\ UNCHANGED <<hubWorldVars, resolved, cursor, cursorFile, queued, job, retries, frames,
                 todoClips, leaving, stopping, sentTimes, fate, kills, trouble>>

(* The first signal waits for the end of the tick; between ticks it exits.     *)
Signal ==
  /\ stopping = "no" /\ trouble > 0 /\ trouble' = trouble - 1
  /\ hubStep \notin {"down", "shutdown"}
  /\ stopping' = "asked" /\ hubStep' = IF hubStep = "asleep" THEN "shutdown" ELSE hubStep
  /\ UNCHANGED <<hubWorldVars, resolved, cursor, filesVars, queued, job, retries, frames,
                 todoClips, leaving, sentTimes, fate, kills>>

(* A second one in the same tick unwinds it, through the pass's finally.       *)
SecondSignal ==
  /\ stopping = "asked" /\ hubStep \in {"poll", "clips", "muted", "collect", "entries", "rest"}
  /\ stopping' = "exit" /\ kills' = kills + 1
  /\ IF hubStep = "rest" THEN hubStep' = "shutdown" /\ UNCHANGED <<todoClips, leaving>>
     ELSE hubStep' = "retry" /\ todoClips' = ClipOrder(retries) /\ leaving' = {}
  /\ UNCHANGED <<hubWorldVars, resolved, cursor, filesVars, queued, job, retries, frames,
                 sentTimes, fate, trouble>>

(* The process is gone, its job and its memory with it. *)
Gone ==
  /\ hubStep' = "down" /\ stopping' = "no" /\ resolved' = FALSE
  /\ cursor' = NoCursor /\ queued' = <<>> /\ retries' = <<>> /\ job' = NoJob
  /\ todoClips' = <<>> /\ leaving' = {}

(* shutdown(): sessions closed, the job abandoned, the queues saved once more. *)
HubShutdown ==
  /\ hubStep = "shutdown" /\ runtimeFile' = HubSnapshot /\ Gone
  /\ UNCHANGED <<hubWorldVars, cursorFile, frames, sentTimes, fate, kills, trouble>>

Kill ==
  /\ hubStep # "down" /\ trouble > 0 /\ trouble' = trouble - 1 /\ kills' = kills + 1
  /\ Gone
  /\ UNCHANGED <<hubWorldVars, filesVars, frames, sentTimes, fate>>

(* main: the cursor, then the queues, without the retries whose frame is gone;  *)
(* after that the job directories of the old process are removed.              *)
HubRestart ==
  /\ hubStep = "down" /\ hubStep' = "asleep"
  /\ cursor' = cursorFile /\ queued' = runtimeFile.clips
  /\ LET lost == {c \in ClipsOf(runtimeFile.retries) : frames[c] = "none"} IN
       /\ IsWithout(retries', runtimeFile.retries, lost)
       /\ fate' = [c \in ClipIds |-> IF c \in lost /\ fate[c] = "retry" THEN "dropped" ELSE fate[c]]
  /\ frames' = [c \in ClipIds |-> IF frames[c] = "job" THEN "none" ELSE frames[c]]
  /\ UNCHANGED <<hubWorldVars, resolved, filesVars, job, todoClips, leaving, stopping, sentTimes,
                 kills, trouble>>

----------------------------------------------------------------------------
ClipIndexed ==
  /\ indexed < HubClips /\ indexed' = indexed + 1
  /\ UNCHANGED <<inline, resolved, cursor, filesVars, queued, job, retries, frames, hubStep,
                 todoClips, leaving, stopping, sentTimes, fate, kills, trouble>>

HubInit ==
  /\ indexed = 0 /\ inline \in BOOLEAN
  /\ resolved = FALSE
  /\ cursor = NoCursor /\ cursorFile = NoCursor
  /\ queued = <<>> /\ retries = <<>> /\ job = NoJob
  /\ frames = [c \in ClipIds |-> "none"]
  /\ runtimeFile = [clips |-> <<>>, retries |-> <<>>]
  /\ hubStep = "asleep" /\ todoClips = <<>> /\ leaving = {} /\ stopping = "no"
  /\ sentTimes = [c \in ClipIds |-> 0] /\ fate = [c \in ClipIds |-> "unseen"]
  /\ kills = 0 /\ trouble = HubTrouble

HubNext ==
  \/ TickBegins \/ PollMisses \/ PollAnswers
  \/ ClipMuted \/ ClipQueued \/ ClipInline \/ ClipRaises \/ ClipCutOff
  \/ Collect \/ EntrySkipped \/ EntryTooOld \/ EntryStuck \/ EntrySubmitted \/ EntriesDone
  \/ JobReturns
  \/ RetryWaits \/ RetryDropped \/ RetrySends \/ RetriesDone
  \/ PassWrites \/ TickEnds \/ Signal \/ SecondSignal \/ HubShutdown \/ Kill \/ HubRestart
  \/ ClipIndexed

HubSpec == HubInit /\ [][HubNext]_hubVars

----------------------------------------------------------------------------
(* Properties *)

HubTypeOK ==
  /\ indexed \in 0..HubClips /\ {resolved, inline} \subseteq BOOLEAN
  /\ {cursor, cursorFile} \subseteq NoCursor..HubClips
  /\ \A i \in DOMAIN queued : queued[i] \in ClipEntries /\ queued[i].tries <= FinishTries + kills
  /\ \A i \in DOMAIN retries : retries[i] \in RetryEntries
  /\ job.clip \in 0..HubClips /\ job.stage \in {"none", "running", "done"}
  /\ frames \in [ClipIds -> {"none", "job", "live"}]
  /\ fate \in [ClipIds -> HubFates] /\ stopping \in {"no", "asked", "exit"}
  /\ hubStep \in {"asleep", "poll", "clips", "muted", "collect", "entries", "retry", "save",
              "cursor",
               "rest", "shutdown", "down"}

(* Whenever the process is cut off, a clip that the cursor on disk has passed   *)
(* is decided or still on the saved queues: no order of writes, raises and      *)
(* kills loses an alert that was never decided.  The one clip that is lost is   *)
(* the one a camera without the worker is downloading, scoring or sending when  *)
(* a second signal unwinds the tick: the pass's finally saves the cursor that   *)
(* has already moved past it.  A camera with the worker loses none.             *)
ClipsCarried ==
  \A c \in 1..indexed :
    c <= cursorFile /\ fate[c] \in UndecidedFates =>
      \/ c \in ClipsOf(runtimeFile.clips) \cup ClipsOf(runtimeFile.retries)
      \/ inline /\ fate[c] = "cutoff" /\ kills > 0

(* A clip reaches the phone once, and again only after a kill: not by a late    *)
(* result of a job that was given up, a re-listed clip, or a retry, and not      *)
(* across a stop that was asked for.                                           *)
ClipsOnce == \A c \in ClipIds : sentTimes[c] <= 1 + kills

(* A hub clip is in the queue, handled, or still to be listed, whatever step a   *)
(* crash falls on (but for the one that a second signal cuts off), and no clip   *)
(* reaches the phone twice but for a kill.                                      *)
ClipsHandled == ClipsCarried /\ ClipsOnce
===============================================================================
