------------------------------- MODULE MCHouse -------------------------------
(* The daemon's notices, the scorer's clients and its service, an answer's      *)
(* filters, a clip's best frame, the photo, the scenes, the ledger, the labels, *)
(* the reports, MQTT and the cameras that push, for TLC.  The models share no   *)
(* variable, so a behaviour is one of a single part; the others stand still.    *)
EXTENDS Notices, Scorer, Service, Ledger, Match, Scene, Answer, Pick, Shot, Label, Visits,
        Bridge, Push

VARIABLE which

Parts == {"notices", "scorer", "service", "ledger", "match", "scene", "answer", "pick",
          "shot", "label", "visits", "bridge", "push"}

\* A steady frame, one with a face, one at the edge, a smeared one, one whose
\* blur and one whose size could not be measured.
ShotsV ==
  {[detail |-> 10, blur |-> 2, size |-> 8, edge |-> FALSE, face |-> FALSE],
   [detail |-> 10, blur |-> 5, size |-> 10, edge |-> FALSE, face |-> TRUE],
   [detail |-> 10, blur |-> 9, size |-> 12, edge |-> TRUE, face |-> FALSE],
   [detail |-> 3, blur |-> 2, size |-> 14, edge |-> FALSE, face |-> FALSE],
   [detail |-> 10, blur |-> -1, size |-> 10, edge |-> FALSE, face |-> FALSE],
   [detail |-> 10, blur |-> 3, size |-> -1, edge |-> FALSE, face |-> TRUE]}

HouseVars ==
  <<which, noticesVars, scorerVars, serviceVars, ledgerVars, matchVars, sceneVars,
    answerVars, pickVars, shotVars, labelVars, visitVars, bridgeVars,
    pushVars>>

\* A part's own initial choices are open only while that part runs.
HouseInit ==
  /\ which \in Parts
  /\ NoticesInit /\ ScorerInit /\ LedgerInit /\ SceneInit /\ PickInit /\ ShotInit /\ VisitsInit
  /\ BridgeInit  /\ (which # "bridge" => retained = NoTopics)
  /\ MatchInit   /\ (which # "match" => cameraSaw = <<>> /\ shadowSaw = <<>>)
  /\ ServiceInit /\ (which # "service" => ensemble)
  /\ PushInit    /\ (which # "push" => pushSource = "reolink")
  /\ AnswerInit  /\ (which # "answer" => observing)
  /\ LabelInit   /\ (which # "label" =>
                       labelQueue = CHOOSE q \in Orders(Pictures \ LeftOut) : TRUE)

HouseNext ==
  /\ UNCHANGED which
  /\ IF which = "notices" THEN TRUE ELSE UNCHANGED noticesVars
  /\ IF which = "scorer" THEN TRUE ELSE UNCHANGED scorerVars
  /\ IF which = "service" THEN TRUE ELSE UNCHANGED serviceVars
  /\ IF which = "ledger" THEN TRUE ELSE UNCHANGED ledgerVars
  /\ IF which = "match" THEN TRUE ELSE UNCHANGED matchVars
  /\ IF which = "scene" THEN TRUE ELSE UNCHANGED sceneVars
  /\ IF which = "answer" THEN TRUE ELSE UNCHANGED answerVars
  /\ IF which = "pick" THEN TRUE ELSE UNCHANGED pickVars
  /\ IF which = "shot" THEN TRUE ELSE UNCHANGED shotVars
  /\ IF which = "label" THEN TRUE ELSE UNCHANGED labelVars
  /\ IF which = "visits" THEN TRUE ELSE UNCHANGED visitVars
  /\ IF which = "bridge" THEN TRUE ELSE UNCHANGED bridgeVars
  /\ IF which = "push" THEN TRUE ELSE UNCHANGED pushVars
  /\ \/ which = "notices" /\ NoticesNext
     \/ which = "scorer" /\ ScorerNext
     \/ which = "service" /\ ServiceNext
     \/ which = "ledger" /\ LedgerNext
     \/ which = "match" /\ MatchNext
     \/ which = "scene" /\ SceneNext
     \/ which = "answer" /\ AnswerNext
     \/ which = "pick" /\ PickNext
     \/ which = "shot" /\ ShotNext
     \/ which = "label" /\ LabelNext
     \/ which = "visits" /\ VisitsNext
     \/ which = "bridge" /\ BridgeNext
     \/ which = "push" /\ PushNext

HouseSpec ==
  /\ HouseInit /\ [][HouseNext]_HouseVars
  \* NoticesFairness and ScorerFairness, each where its part runs.
  /\ WF_noticesVars(which = "notices" /\ (NoticesTick \/ TickStarts))
  /\ SF_noticesVars(which = "notices" /\ TickStarts /\ turn' = "outage")
  /\ \A t \in ScoreThreads : WF_scorerVars(which = "scorer" /\ Scoring(t))
-----------------------------------------------------------------------------
(* Every variable of the parts stays in its type, all steps taken together:    *)
(* queues within their limits, counters within their attempts.                 *)
HouseTypeOK ==
  /\ which = "notices" => NoticesTypeOK
  /\ which = "scorer" => ScorerTypeOK
  /\ which = "service" => ServiceTypeOK
  /\ which = "ledger" => LedgerTypeOK
  /\ which = "scene" => SceneTypeOK
  /\ which = "answer" => AnswerTypeOK
  /\ which = "bridge" => BridgeTypeOK
  /\ which = "push" => PushTypeOK

(* Who is told that a service or a camera is down is also told that it is not:  *)
(* across restarts a notice of bad news is owed until it is delivered, and the  *)
(* scorers the pool believes down are those told or about to be.                *)
OutagesAreOwed == BadNewsIsOwed /\ WatchKnowsDown

(* What was sent or asked is not sent or asked again, and not dropped: a frame   *)
(* the ensemble passes on, a scene two views saw, one photo's message, a visit   *)
(* that a pushing camera showed.                                                *)
DoneOnce ==
  FrameAskedOnce /\ SceneToldOnce /\ ShotLeavesNothing /\ PersonIsTold /\ PersonToldOnce

(* The ledger's clean-up takes what is old and leaves what is young, whoever    *)
(* writes meanwhile, and an undo gives back exactly the label it took.          *)
KeepsWhatItShould == LedgerKeepsYoung /\ VerdictsAreKept

(* The verdict and the box are of a person that counts, not of one a filter or  *)
(* the second model excluded, and the clip's frame is the one that deserves it. *)
RightPhoto == AnswerIsOfACounted /\ BoxIsOfAKept /\ PickDeserved

(* What is reported agrees with what happened: events are matched one to one    *)
(* and as many as can be, an incident's frames stay together, the service's     *)
(* counters agree with its answers, and what the broker keeps with the daemon's *)
(* own view, where a sensor that is on has a time to turn off.                  *)
ReportsAddUp ==
  /\ MatchIsLargest /\ VisitsAreWhole /\ ServiceCountsAddUp
  /\ BridgeHeals /\ PulseEnds
===============================================================================
