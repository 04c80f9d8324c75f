------------------------------- MODULE Service -------------------------------
(* The scoring service (scorer_service.py): one thread per request, inference  *)
(* behind one lock, the ensemble's call to a second service that runs beside   *)
(* it, the bounded queue that feeds that service in shadow mode, and the       *)
(* counters that outlive a restart.  Scores are left out: of an answer only    *)
(* whether it can be used is kept.                                             *)
EXTENDS Naturals, Sequences, FiniteSets

CONSTANTS
  Handlers,     \* threads of the HTTP server
  ShadowQueue,  \* config.queue_size
  Uploads,      \* bound: requests that arrive
  ServiceStops  \* bound: stops of the service, orderly or not

ASSUME ServiceAssumption ==
  /\ IsFiniteSet(Handlers) /\ ShadowQueue \in Nat \ {0}
  /\ Uploads \in Nat /\ ServiceStops \in Nat

VARIABLES
  ensemble,    \* the ensemble is configured
  uploads,     \* requests that have arrived
  serving,     \* handler -> its request
  inference,   \* the handler that holds inference_lock, or Nobody
  calls,       \* handler -> the call EnsembleGate.start made for its request
  metrics,     \* ScorerMetrics
  metricsFile, \* its counters in the state file
  shadowed,    \* the runner's queue
  sending,     \* what its worker is busy with, or NoItem
  tally,       \* the runner's counts; "unseen": frames none of them counts
  handed,      \* frames handed to the runner
  asked,       \* frame -> how often it was sent to the second service
  stopsLeft

runnerVars == <<shadowed, sending, tally, handed>>
serviceVars == <<ensemble, uploads, serving, inference, calls, metrics, metricsFile,
                 runnerVars, asked, stopsLeft>>

Nobody == "nobody"
Unused == [step |-> "idle", frame |-> 0, result |-> "none", outcome |-> "none"]
NoItem == [frame |-> 0, outcome |-> "none"]
NoCounts == [requests |-> 0, completed |-> 0, failed |-> 0, successes |-> 0, malformed |-> 0]
NoTally == [sent |-> 0, failed |-> 0, dropped |-> 0, throttled |-> 0, unseen |-> 0]

Serving(h, step) == serving[h].step = step
InFlight == {h \in Handlers : serving[h].step \notin {"idle", "handing"}}
Turns(h, step, result, outcome) ==
  serving' = [serving EXCEPT ![h] = [step |-> step, frame |-> serving[h].frame,
                                     result |-> result, outcome |-> outcome]]
Step(h, step) == Turns(h, step, serving[h].result, serving[h].outcome)

(* finish() counts a request once and saves the counters when that is due. *)
Finished(result) ==
  /\ metrics' =
       [requests |-> metrics.requests, completed |-> metrics.completed + 1,
        failed |-> metrics.failed + (IF result = "error" THEN 1 ELSE 0),
        successes |-> metrics.successes + (IF result \in {"scores", "artifact"} THEN 1 ELSE 0),
        malformed |-> metrics.malformed + (IF result = "other" THEN 1 ELSE 0)]
  /\ metricsFile' = metrics' \/ metricsFile' = metricsFile

----------------------------------------------------------------------------
(* do_POST *)

Arrives(h) ==
  /\ Serving(h, "idle") /\ uploads < Uploads
  /\ uploads' = uploads + 1
  /\ serving' = [serving EXCEPT ![h] =
                   [step |-> "reading", frame |-> uploads', result |-> "none", outcome |-> "none"]]
  /\ metrics' = [metrics EXCEPT !.requests = @ + 1]
  /\ UNCHANGED <<ensemble, inference, calls, metricsFile, runnerVars, asked, stopsLeft>>

(* A bad length, a short body, a picture too large: each answers and finishes. *)
Rejected(h) ==
  /\ Serving(h, "reading")
  /\ Finished("error")
  /\ serving' = [serving EXCEPT ![h] = Unused]
  /\ UNCHANGED <<ensemble, uploads, inference, calls, runnerVars, asked, stopsLeft>>

(* A partly decoded frame is answered without inference and without a call. *)
FilteredOut(h) ==
  /\ Serving(h, "reading")
  /\ Turns(h, "replying", "artifact", "none")
  /\ UNCHANGED <<ensemble, uploads, inference, calls, metrics, metricsFile, runnerVars,
                 asked, stopsLeft>>

BodyRead(h) ==
  /\ Serving(h, "reading")
  /\ Step(h, "waiting")
  /\ IF ensemble
     THEN /\ calls' = [calls EXCEPT ![h] = "running"]
          /\ asked' = [asked EXCEPT ![serving[h].frame] = @ + 1]
     ELSE UNCHANGED <<calls, asked>>
  /\ UNCHANGED <<ensemble, uploads, inference, metrics, metricsFile, runnerVars, stopsLeft>>

TakesInference(h) ==
  /\ Serving(h, "waiting") /\ inference = Nobody
  /\ inference' = h /\ Step(h, "inferring")
  /\ UNCHANGED <<ensemble, uploads, calls, metrics, metricsFile, runnerVars, asked,
                 stopsLeft>>

(* "other": the detector gave something that is no dict. *)
Inferred(h, result) ==
  /\ Serving(h, "inferring")
  /\ inference' = Nobody
  /\ Turns(h, IF ensemble /\ result # "error" THEN "joining" ELSE "replying", result, "none")
  /\ UNCHANGED <<ensemble, uploads, calls, metrics, metricsFile, runnerVars, asked,
                 stopsLeft>>

SecondAnswers(h) ==
  /\ calls[h] = "running"
  /\ calls' = [calls EXCEPT ![h] = "usable"] \/ calls' = [calls EXCEPT ![h] = "error"]
  /\ UNCHANGED <<ensemble, uploads, serving, inference, metrics, metricsFile, runnerVars,
                 asked, stopsLeft>>

(* EnsembleGate.finish waits for the call to end, but no longer than the       *)
(* timeout counted from its start: an answer after that is never looked at.    *)
Joined(h) ==
  /\ Serving(h, "joining")
  /\ Turns(h, "replying", serving[h].result,
           IF calls[h] = "running" THEN "error" ELSE calls[h])
  /\ UNCHANGED <<ensemble, uploads, inference, calls, metrics, metricsFile, runnerVars,
                 asked, stopsLeft>>

(* The reply may find the client gone; either way the request is finished. *)
Replies(h) ==
  /\ Serving(h, "replying")
  /\ Finished(serving[h].result)
  /\ IF serving[h].result = "scores" THEN Step(h, "handing")
                                     ELSE serving' = [serving EXCEPT ![h] = Unused]
  /\ UNCHANGED <<ensemble, uploads, inference, calls, runnerVars, asked, stopsLeft>>

\* Mutant: an outcome that is an error is not handed on.
ItemOnlyUsable(h) ==
  [frame |-> serving[h].frame,
   outcome |-> IF serving[h].outcome = "error" THEN "none" ELSE serving[h].outcome]

Item(h) == [frame |-> serving[h].frame, outcome |-> serving[h].outcome]

(* submit: sampling first, which an ensemble outcome is exempt from, then the  *)
(* queue, which never blocks.                                                  *)
HandsOver(h) ==
  /\ Serving(h, "handing")
  /\ \/ /\ Item(h).outcome = "none"
        /\ tally' = [tally EXCEPT !.throttled = @ + 1] /\ UNCHANGED shadowed
     \/ IF Len(shadowed) < ShadowQueue
        THEN shadowed' = Append(shadowed, Item(h)) /\ UNCHANGED tally
        ELSE tally' = [tally EXCEPT !.dropped = @ + 1] /\ UNCHANGED shadowed
  /\ handed' = handed + 1
  /\ serving' = [serving EXCEPT ![h] = Unused]
  /\ UNCHANGED <<ensemble, uploads, inference, calls, metrics, metricsFile, sending, asked,
                 stopsLeft>>

----------------------------------------------------------------------------
(* The shadow runner's worker: one frame at a time *)

ShadowTakes ==
  /\ sending = NoItem /\ shadowed # <<>>
  /\ sending' = Head(shadowed) /\ shadowed' = Tail(shadowed)
  /\ asked' = IF Head(shadowed).outcome = "none"
              THEN [asked EXCEPT ![Head(shadowed).frame] = @ + 1] ELSE asked
  /\ UNCHANGED <<ensemble, uploads, serving, inference, calls, metrics, metricsFile, tally,
                 handed, stopsLeft>>

(* _shadow_call answers HTTP errors, unusable replies and socket errors; any    *)
(* other exception (http.client's) ends _process before it has counted, and    *)
(* _run swallows it.  An outcome the ensemble paid for makes no call.          *)
ShadowDone ==
  /\ sending # NoItem
  /\ \/ /\ sending.outcome \in {"none", "usable"}
        /\ tally' = [tally EXCEPT !.sent = @ + 1]
     \/ /\ sending.outcome \in {"none", "error"}
        /\ tally' = [tally EXCEPT !.failed = @ + 1]
     \/ /\ sending.outcome = "none"
        /\ tally' = [tally EXCEPT !.unseen = @ + 1]
  /\ sending' = NoItem
  /\ UNCHANGED <<ensemble, uploads, serving, inference, calls, metrics, metricsFile,
                 shadowed, handed, asked, stopsLeft>>

----------------------------------------------------------------------------
(* An orderly stop flushes the counters, a kill does not.  The threads, the    *)
(* queue and its counts die with the process; requests the file knew to be     *)
(* under way are never completed.                                              *)
ServiceStopped(flushed) ==
  LET kept == IF flushed THEN metrics ELSE metricsFile
  IN /\ stopsLeft > 0 /\ stopsLeft' = stopsLeft - 1
     /\ metrics' = kept /\ metricsFile' = kept
     /\ serving' = [h \in Handlers |-> Unused] /\ inference' = Nobody
     /\ calls' = [h \in Handlers |-> "none"]
     /\ shadowed' = <<>> /\ sending' = NoItem /\ tally' = NoTally /\ handed' = 0
     /\ UNCHANGED <<ensemble, uploads, asked>>

ServiceInit ==
  /\ ensemble \in BOOLEAN /\ uploads = 0
  /\ serving = [h \in Handlers |-> Unused] /\ inference = Nobody
  /\ calls = [h \in Handlers |-> "none"]
  /\ metrics = NoCounts /\ metricsFile = NoCounts
  /\ shadowed = <<>> /\ sending = NoItem /\ tally = NoTally /\ handed = 0
  /\ asked = [f \in 1..Uploads |-> 0]
  /\ stopsLeft = ServiceStops

Handling(h) ==
  \/ Arrives(h) \/ Rejected(h) \/ FilteredOut(h) \/ BodyRead(h) \/ TakesInference(h)
  \/ \E result \in {"scores", "other", "error"} : Inferred(h, result)
  \/ SecondAnswers(h) \/ Joined(h) \/ Replies(h) \/ HandsOver(h)

ServiceNext ==
  \/ \E h \in Handlers : Handling(h)
  \/ ShadowTakes \/ ShadowDone
  \/ \E flushed \in BOOLEAN : ServiceStopped(flushed)

ServiceSpec == ServiceInit /\ [][ServiceNext]_serviceVars

----------------------------------------------------------------------------
(* Properties *)

ServiceTypeOK ==
  /\ ensemble \in BOOLEAN /\ uploads \in 0..Uploads
  /\ \A h \in Handlers : serving[h].frame \in 0..uploads
  /\ inference \in Handlers \cup {Nobody}
  /\ calls \in [Handlers -> {"none", "running", "usable", "error"}]
  /\ Len(shadowed) <= ShadowQueue
  /\ asked \in [1..Uploads -> Nat]
  /\ stopsLeft \in 0..ServiceStops

(* No frame is sent to the second service twice: not by a handler and the      *)
(* shadow's worker together, whatever became of the ensemble's call.           *)
FrameAskedOnce == \A f \in 1..Uploads : asked[f] <= 1

(* What /metrics shows adds up: every finished request has one verdict, and    *)
(* every frame handed to the shadow is sent, failed, dropped, skipped, queued  *)
(* or being sent, but for those whose call ended in an exception that nothing  *)
(* counts.  Under the ensemble there is no such frame: what it hands over was  *)
(* asked before, even where the answer came too late.                          *)
ServiceCountsAddUp ==
  /\ metrics.completed = metrics.failed + metrics.successes + metrics.malformed
  /\ metrics.requests >= metrics.completed + Cardinality(InFlight)
  /\ handed = tally.sent + tally.failed + tally.dropped + tally.throttled + tally.unseen
                + Len(shadowed) + (IF sending = NoItem THEN 0 ELSE 1)
  /\ ensemble => tally.unseen = 0 /\ tally.throttled = 0

=============================================================================
