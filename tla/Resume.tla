-------------------------------- MODULE Resume --------------------------------
(* What retries, stops, kills and restarts make of the live pass of one camera: *)
(* the watermark and its file, the failure counts, the follow-up queue and the  *)
(* gate's memory with theirs (monitor.run_monitor, collect_detections,          *)
(* _event_failed; daemon.run_monitor_pass, loop_step, tick, process_pending_sd, *)
(* GracefulStop, shutdown, main; health.save_state, runtime_state).             *)
(*                                                                            *)
(* Several events may start in the same second.  They are persons, with a scorer *)
(* and a card; bare motion, the sampler, keep_sampling_on_defer, muted polls and *)
(* the quiet hours are in AlertFlow.                                            *)
(* The clock is left open: a cooldown measured on it may have run out or not    *)
(* whenever it is asked, and a follow-up may end or wait in every tick.  A      *)
(* restart follows within the hour for which runtime.json is good.             *)
EXTENDS AlertGate, FiniteSets

CONSTANTS
  Reported,    \* bound: events the camera lists
  LastMoment,  \* bound: events start at 1..LastMoment
  Faces,       \* the events of a known face
  RetryLimit,  \* monitor.EVENT_FAILURE_LIMIT
  Mishaps      \* bound: exceptions, refused photos, failed writes, signals, kills

ASSUME ResumeAssumption ==
  /\ Reported \in Nat /\ LastMoment \in Nat /\ Mishaps \in Nat
  /\ RetryLimit \in Nat \ {0}

VARIABLES
  begun,       \* event -> start_time; the events are listed in this order
  listed,      \* events 1..listed are on the camera
  tickStep,    \* where the loop stands, or "down"
  lastMark,    \* last_seen
  markBefore,  \* previous_watermark of loop_step
  markFile,    \* last_seen in health.json
  batchLeft,   \* events of this poll that have not had their turn
  pollMark,    \* the newest start of this poll
  failCounts,  \* _EVENT_FAILURES: start time -> failures in a row
  gateStart,   \* last_event_start
  followUps,   \* pending_sd
  finished,    \* follow-ups the running drain has decided
  tables,      \* runtime.json: last_event_start and pending_sd
  unsaved,     \* the last tick ended without saving them
  turn,        \* history: what the event's last turn made of it
  raised,      \* history: exceptions out of the event since the start
  gaveUp,      \* history: events skipped since the start
  photos,      \* history: photos of the event on the phone
  torn,        \* history: deaths that lost tables a watermark relied on
  excuses,       \* history: what may repeat a photo, see EchoExplained
  mishapsLeft

markVars == <<lastMark, markBefore, markFile>>
pollVars == <<batchLeft, pollMark, failCounts>>
queueTables == <<gateStart, followUps, finished, tables, unsaved>>
tellVars == <<turn, raised, gaveUp, photos>>
costVars == <<torn, excuses, mishapsLeft>>
resumeVars == <<begun, listed, tickStep, markVars, pollVars, queueTables, tellVars, costVars>>

EventIds == 1 .. Reported
Moments == 1 .. LastMoment
OnCamera == 1 .. listed
Running == tickStep # "down"
TickSteps == {"poll", "live", "mark", "drain", "save"}
(* "settled" is every end an event may come to: told, cooled down, skipped...    *)
Turns == {"unseen", "missed", "deferred", "settled"}
EmptyGate == [k \in GateKeys |-> NoTime]

ResumeTypeOK ==
  /\ begun \in [EventIds -> Moments] /\ listed \in 0 .. Reported
  /\ tickStep \in TickSteps \cup {"asleep", "down"}
  /\ {lastMark, markBefore, markFile, pollMark} \subseteq 0 .. LastMoment
  /\ batchLeft \subseteq OnCamera /\ failCounts \in [Moments -> Nat]
  /\ gateStart \in [GateKeys -> Moments \cup {NoTime}]
  /\ followUps \subseteq OnCamera /\ finished \subseteq followUps
  /\ tables \in [starts : [GateKeys -> Moments \cup {NoTime}], queue : SUBSET OnCamera]
  /\ unsaved \in BOOLEAN
  /\ turn \in [EventIds -> Turns] /\ raised \in [EventIds -> Nat] /\ gaveUp \subseteq OnCamera
  /\ photos \in [EventIds -> Nat] /\ torn \in Nat /\ excuses \in Nat /\ mishapsLeft \in 0 .. Mishaps

ResumeInit ==
  /\ begun \in [EventIds -> Moments]
  /\ \A d, e \in EventIds : d < e => begun[d] <= begun[e]
  /\ listed = 0 /\ tickStep = "asleep"
  /\ lastMark = 0 /\ markBefore = 0 /\ markFile = 0
  /\ batchLeft = {} /\ pollMark = 0 /\ failCounts = [m \in Moments |-> 0]
  /\ gateStart = EmptyGate /\ followUps = {} /\ finished = {}
  /\ tables = [starts |-> EmptyGate, queue |-> {}] /\ unsaved = FALSE
  /\ turn = [e \in EventIds |-> "unseen"] /\ raised = [e \in EventIds |-> 0] /\ gaveUp = {}
  /\ photos = [e \in EventIds |-> 0]
  /\ torn = 0 /\ excuses = 0 /\ mishapsLeft = Mishaps

Mishap == mishapsLeft > 0 /\ mishapsLeft' = mishapsLeft - 1
Excuse(n) == excuses' = excuses + n

----------------------------------------------------------------------------
(* The camera and the poll *)

(* An event that is listed once the watermark stands at its second is not read. *)
Lists ==
  /\ tickStep \in {"asleep", "down"} /\ listed < Reported
  /\ listed' = listed + 1
  /\ turn' = IF begun[listed'] <= (IF Running THEN lastMark ELSE markFile)
             THEN [turn EXCEPT ![listed'] = "missed"] ELSE turn
  /\ UNCHANGED <<begun, tickStep, markVars, pollVars, queueTables, raised, gaveUp, photos,
                 costVars>>

TickStarts ==
  /\ tickStep = "asleep" /\ tickStep' = "poll"
  /\ markBefore' = lastMark
  /\ UNCHANGED <<begun, listed, lastMark, markFile, pollVars, queueTables, tellVars, costVars>>

(* getEvents raises, or nobody is logged in.                                   *)
PollMissed ==
  /\ tickStep = "poll" /\ tickStep' = "mark"
  /\ UNCHANGED <<begun, listed, markVars, pollVars, queueTables, tellVars, costVars>>

(* camera.new_events *)
FreshEvents == {e \in OnCamera : begun[e] > lastMark}

PollTaken ==
  /\ tickStep = "poll" /\ tickStep' = "live"
  /\ batchLeft' = FreshEvents
  /\ pollMark' \in {begun[e] : e \in FreshEvents} \cup {lastMark}
  /\ \A e \in FreshEvents : begun[e] <= pollMark'
  /\ UNCHANGED <<begun, listed, markVars, failCounts, queueTables, tellVars, costVars>>

PollOver ==
  /\ tickStep = "live" /\ batchLeft = {}
  /\ tickStep' = "mark" /\ lastMark' = pollMark /\ pollMark' = 0
  /\ UNCHANGED <<begun, listed, markBefore, markFile, batchLeft, failCounts, queueTables,
                 tellVars, costVars>>

----------------------------------------------------------------------------
(* One event's turn *)

(* Oldest first; the camera's order stands among equal starts.                 *)
IsNext(e) == tickStep = "live" /\ e \in batchLeft /\ \A d \in batchLeft : e <= d

TurnEnds(e, verdict) ==
  /\ IsNext(e) /\ batchLeft' = batchLeft \ {e}
  /\ failCounts' = [failCounts EXCEPT ![begun[e]] = 0]
  /\ turn' = [turn EXCEPT ![e] = verdict]
  /\ UNCHANGED <<begun, listed, tickStep, markVars, pollMark, finished, tables, unsaved, raised,
                 gaveUp, torn>>

(* The event-time half of can_alert for a person event.                        *)
GateHolds(starts, s) == ~PassageFree(starts, PassageKeys("confirmed"), s)

(* Nothing comes of this turn; a follow-up queued earlier still stands.         *)
NothingNew(e) == IF turn[e] = "deferred" /\ e \in followUps THEN "deferred" ELSE "settled"

(* A known face is never cooled down.                                          *)
TurnCooled(e) ==
  /\ e \notin Faces
  /\ TurnEnds(e, NothingNew(e))
  /\ UNCHANGED <<gateStart, followUps, photos, excuses, mishapsLeft>>

AdmittedTurn(e) == e \in Faces \/ ~GateHolds(gateStart, begun[e])

TurnSends(e) ==
  \E person \in BOOLEAN :
    /\ AdmittedTurn(e) /\ TurnEnds(e, "settled")
    /\ gateStart' = Stamp(gateStart, "confirmed", person, begun[e])
    /\ photos' = [photos EXCEPT ![e] = @ + 1]
    /\ UNCHANGED <<followUps, excuses, mishapsLeft>>

(* The duplicate test of the defer closure.                                    *)
HasFollowUp(e) == \E d \in followUps : SamePassage(begun[d], begun[e])
DeferFollowUp(e) == followUps' = IF HasFollowUp(e) THEN followUps ELSE followUps \cup {e}
DeferVerdict(e) == IF HasFollowUp(e) /\ e \notin followUps THEN "settled" ELSE "deferred"

(* No frame, an empty one, or no score at night: arm the gate, then defer.      *)
TurnDefers(e) ==
  /\ AdmittedTurn(e) /\ TurnEnds(e, DeferVerdict(e))
  /\ gateStart' = Stamp(gateStart, "confirmed", FALSE, begun[e])
  /\ DeferFollowUp(e)
  /\ UNCHANGED <<photos, excuses, mishapsLeft>>

(* Telegram refused the live photo: deferred, and nothing is armed.            *)
TurnRefused(e) ==
  /\ AdmittedTurn(e) /\ TurnEnds(e, DeferVerdict(e))
  /\ DeferFollowUp(e)
  /\ Mishap /\ Excuse(1)
  /\ UNCHANGED <<gateStart, photos>>

(* A burst that was delivered needs no follow-up; another view has told the     *)
(* scene; a known face may be configured to be ignored.                        *)
TurnDrops(e) ==
  /\ AdmittedTurn(e)
  /\ TurnEnds(e, NothingNew(e))
  /\ UNCHANGED <<gateStart, followUps, photos, excuses, mishapsLeft>>

(* Mutants: the retry starts behind the failed event, or with the whole poll;   *)
(* one failure too many.                                                       *)
RetryPoll(e) == lastMark
RetryBehind(e) == IF begun[e] > lastMark THEN begun[e] ELSE lastMark
RetryMark(e) == IF begun[e] - 1 > lastMark THEN begun[e] - 1 ELSE lastMark
LastFailureLate(e) == failCounts[begun[e]] > RetryLimit
LastFailure(e) == failCounts[begun[e]] + 1 >= RetryLimit

(* Counted under the start time, which events of one second share.             *)
TurnRaises(e) ==
  /\ IsNext(e) /\ Mishap
  /\ failCounts' = [failCounts EXCEPT ![begun[e]] = @ + 1]
  /\ raised' = [raised EXCEPT ![e] = @ + 1]
  /\ IF LastFailure(e)
     THEN /\ batchLeft' = batchLeft \ {e} /\ gaveUp' = gaveUp \cup {e}
          /\ turn' = [turn EXCEPT ![e] = NothingNew(e)]
          /\ UNCHANGED <<tickStep, lastMark, pollMark>>
     ELSE /\ batchLeft' = {} /\ tickStep' = "mark" /\ lastMark' = RetryMark(e) /\ pollMark' = 0
          /\ UNCHANGED <<gaveUp, turn>>
  /\ UNCHANGED <<begun, listed, markBefore, markFile, queueTables, photos, torn, excuses>>

Turn(e) ==
  \/ TurnCooled(e) \/ TurnSends(e) \/ TurnDefers(e) \/ TurnRefused(e) \/ TurnDrops(e)
  \/ TurnRaises(e)

----------------------------------------------------------------------------
(* The two files *)

(* Only a watermark that this pass moved is written.                           *)
MarkSaved ==
  /\ tickStep = "mark" /\ tickStep' = "drain"
  /\ markFile' = (IF lastMark # markBefore THEN lastMark ELSE markFile) /\ markBefore' = 0
  /\ UNCHANGED <<begun, listed, lastMark, pollVars, queueTables, tellVars, costVars>>

MarkNotSaved ==
  /\ tickStep = "mark" /\ lastMark # markBefore /\ tickStep' = "drain"
  /\ Mishap /\ Excuse(1) /\ markBefore' = 0
  /\ UNCHANGED <<begun, listed, lastMark, markFile, pollVars, queueTables, tellVars, torn>>

(* A watchdog, a failover or the scorer's switch writes health.json as well.    *)
HealthWritten ==
  /\ Running /\ markFile' = lastMark
  /\ UNCHANGED <<begun, listed, tickStep, lastMark, markBefore, pollVars, queueTables, tellVars,
                 costVars>>

(* Mutant: the queue is left out.                                              *)
SnapshotOfGate == [starts |-> gateStart, queue |-> {}]
RuntimeSnapshot == [starts |-> gateStart, queue |-> followUps]

(* The hub's poll may save the tables before the drain has changed them.        *)
HubSavesTables ==
  /\ tickStep = "drain" /\ finished = {}
  /\ tables' = RuntimeSnapshot /\ unsaved' = FALSE
  /\ UNCHANGED <<begun, listed, tickStep, markVars, pollVars, gateStart, followUps, finished,
                 tellVars, costVars>>

TablesSaved ==
  /\ tickStep = "save" /\ tickStep' = "asleep"
  /\ tables' = RuntimeSnapshot /\ unsaved' = FALSE
  /\ UNCHANGED <<begun, listed, markVars, pollVars, gateStart, followUps, finished, tellVars,
                 costVars>>

TablesNotSaved ==
  /\ tickStep = "save" /\ tickStep' = "asleep"
  /\ Mishap /\ unsaved' = TRUE
  /\ UNCHANGED <<begun, listed, markVars, pollVars, gateStart, followUps, finished, tables,
                 tellVars, torn, excuses>>

----------------------------------------------------------------------------
(* process_pending_sd, the read itself on its own thread left out *)

FollowUpEnds(e) ==
  /\ tickStep = "drain" /\ e \in followUps \ finished
  /\ finished' = finished \cup {e} /\ turn' = [turn EXCEPT ![e] = "settled"]
  /\ UNCHANGED <<begun, listed, tickStep, markVars, pollVars, followUps, tables, unsaved, raised,
                 gaveUp, torn, mishapsLeft>>

(* No person on the card, within the cooldown, or too old.                     *)
FollowUpDropped(e) == FollowUpEnds(e) /\ UNCHANGED <<gateStart, photos, excuses>>

(* A photo of an older event takes the gate's memory back to it.               *)
MovesGateBack(e) == begun[e] < gateStart["confirmed"]

FollowUpSent(e) ==
  \E person \in BOOLEAN :
    /\ FollowUpEnds(e)
    /\ gateStart' = Stamp(gateStart, "confirmed", person, begun[e])
    /\ photos' = [photos EXCEPT ![e] = @ + 1]
    /\ IF MovesGateBack(e) THEN Excuse(1) ELSE UNCHANGED excuses

(* Mutant: the next drain finds the old list of decisions.                     *)
DrainKeepsList ==
  /\ tickStep = "drain" /\ tickStep' = "save"
  /\ followUps' = followUps \ finished
  /\ UNCHANGED <<begun, listed, markVars, pollVars, gateStart, finished, tables, unsaved, tellVars,
                 costVars>>

(* state.pending_sd is replaced once, after the loop; the rest waits.          *)
DrainOver ==
  /\ tickStep = "drain" /\ tickStep' = "save"
  /\ followUps' = followUps \ finished /\ finished' = {}
  /\ UNCHANGED <<begun, listed, markVars, pollVars, gateStart, tables, unsaved, tellVars, costVars>>

(* An exception ends the tick, not the daemon: what the drain has decided stays *)
(* queued, a watermark that moved is taken for an old one by the next tick.     *)
TickRaises ==
  /\ tickStep \in TickSteps \ {"live"} /\ tickStep' = "asleep"
  /\ Mishap
  /\ excuses' = IF finished # {} \/ tickStep = "mark" THEN excuses + 1 ELSE excuses
  /\ finished' = {} /\ unsaved' = (unsaved \/ tickStep # "poll") /\ markBefore' = 0
  /\ UNCHANGED <<begun, listed, lastMark, markFile, pollVars, gateStart, followUps, tables, tellVars,
                 torn>>

----------------------------------------------------------------------------
(* Stops and starts *)

(* What the process held in memory is gone.                                    *)
Down ==
  /\ Running /\ tickStep' = "down"
  /\ lastMark' = 0 /\ markBefore' = 0 /\ batchLeft' = {} /\ pollMark' = 0
  /\ failCounts' = [m \in Moments |-> 0] /\ gateStart' = EmptyGate
  /\ followUps' = {} /\ finished' = {} /\ unsaved' = FALSE
  /\ raised' = [e \in EventIds |-> 0] /\ gaveUp' = {}
  /\ UNCHANGED <<begun, listed, markFile>>

(* A signal is heeded between ticks; shutdown saves the tables once more.       *)
Stops ==
  /\ Down /\ tickStep = "asleep"
  /\ tables' = RuntimeSnapshot
  /\ UNCHANGED <<turn, photos, costVars>>

(* The event whose turn it is may have reached the phone, unrecorded.          *)
MaybeTold ==
  \/ UNCHANGED photos
  \/ \E e \in batchLeft :
       /\ IsNext(e) /\ AdmittedTurn(e)
       /\ photos' = [photos EXCEPT ![e] = @ + 1]

(* A second signal in a tick unwinds it; the tables are saved, the watermark    *)
(* of the pass is not.                                                         *)
Unwinds ==
  /\ Down /\ tickStep \in TickSteps /\ Mishap
  /\ tables' = RuntimeSnapshot
  /\ MaybeTold
  /\ excuses' = IF tickStep \in {"live", "mark"} \/ finished # {} THEN excuses + 1 ELSE excuses
  /\ UNCHANGED <<turn, torn>>

(* Dead now, the tables in the file are older than the watermark there.        *)
WouldTear == unsaved \/ tickStep \in {"mark", "drain", "save"}

(* A kill, a power cut, or a stop whose own save fails.                        *)
Dies ==
  /\ Down /\ Mishap
  /\ MaybeTold
  /\ torn' = IF WouldTear THEN torn + 1 ELSE torn
  /\ excuses' = IF WouldTear \/ tickStep = "live" THEN excuses + 1 ELSE excuses
  /\ UNCHANGED <<tables, turn>>

Resumes ==
  /\ tickStep = "down" /\ tickStep' = "asleep"
  /\ lastMark' = markFile /\ gateStart' = tables.starts /\ followUps' = tables.queue
  /\ UNCHANGED <<begun, listed, markBefore, markFile, pollVars, finished, tables, unsaved,
                 tellVars, costVars>>

ResumeNext ==
  \/ Lists \/ TickStarts \/ PollMissed \/ PollTaken \/ PollOver
  \/ \E e \in EventIds : Turn(e) \/ FollowUpDropped(e) \/ FollowUpSent(e)
  \/ MarkSaved \/ MarkNotSaved \/ HealthWritten \/ HubSavesTables \/ TablesSaved \/ TablesNotSaved
  \/ DrainOver \/ TickRaises \/ Stops \/ Unwinds \/ Dies \/ Resumes

ResumeSpec == ResumeInit /\ [][ResumeNext]_resumeVars

----------------------------------------------------------------------------
(* Properties *)

(* A start takes up the events after MarkInForce and the follow-ups of          *)
(* QueueInForce.                                                               *)
MarkInForce == IF Running THEN lastMark ELSE markFile
QueueInForce == IF Running THEN followUps ELSE tables.queue

(* Every listed event that the camera will not be asked for again had its turn, *)
(* or was listed once its second had been read: neither the retry of a poll nor *)
(* a restart skips one, whoever else started in the same second.               *)
NoneUnread == \A e \in OnCamera : begun[e] <= MarkInForce => turn[e] # "unseen"

(* A deferred event stays queued, or will be listed again, until its follow-up  *)
(* ends, across every stop, kill, failed write and exception; only a death      *)
(* between the two files' writes loses one.                                    *)
FollowUpsSurvive ==
  torn = 0 => \A e \in OnCamera :
    turn[e] = "deferred" => e \in QueueInForce \/ begun[e] > MarkInForce

(* Retries, twins of one second and restarts repeat no photo, of anything but a *)
(* known face, as long as no live photo was refused, no watermark write failed,  *)
(* no death or exception cut a tick off before its saves, and no card photo took *)
(* the gate's memory back to an older event.                                   *)
EchoExplained == excuses = 0 => \A e \in EventIds \ Faces : photos[e] <= 1

(* An event that shares its second with no other is given up at its RetryLimit'th *)
(* failure since the start, and not before.                                    *)
Alone(e) == \A d \in EventIds : begun[d] = begun[e] => d = e
LimitIsOwn ==
  \A e \in EventIds : Alone(e) =>
    raised[e] <= RetryLimit /\ (e \in gaveUp <=> raised[e] = RetryLimit)
=============================================================================
