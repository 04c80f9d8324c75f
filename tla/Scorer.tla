------------------------------- MODULE Scorer --------------------------------
(* The client side of the person scorer: one pool of interchangeable scoring   *)
(* services (scorer.py), asked by several threads, watched by a probe thread,  *)
(* with the notices and the saved choice that daemon.py hangs on it.           *)
(*                                                                             *)
(* A lock held over several statements makes them one action; what the code    *)
(* does between two locks, the network probes above all, is a step of its own. *)
EXTENDS Naturals, Sequences

CONSTANTS
  Services,        \* the pool has candidates 0..Services-1, the primary is 0
  ScoreThreads,    \* threads that score frames
  FailThreshold,   \* FAIL_THRESHOLD
  ProbeFails,      \* PROBE_FAILS
  ServiceChanges   \* bound: how often a service changes its condition

ASSUME ScorerAssumption ==
  /\ Services \in Nat /\ Services >= 2
  /\ FailThreshold \in Nat \ {0} /\ ProbeFails \in Nat \ {0}
  /\ ServiceChanges \in Nat

VARIABLES
  condition,     \* of a service: "up", "hung" (only /health answers), "dead"
  changes,       \* changes of condition left
  active,        \* the pool's index
  misses,        \* its count of transport failures in a row
  recheck,       \* the primary may be looked at again
  believed,      \* candidate -> the probe thread takes it to be alive
  failedRounds,  \* candidate -> failed rounds in a row
  asking,        \* scoring thread -> what it is doing
  healthRound,   \* the round the probe thread has gathered, or NoRound
  reports,       \* transitions it has still to report, each candidate's at most once
  waitingDown,   \* candidates with a timer for their down notice
  downTold,      \* candidates whose down notice went out
  chosen         \* the saved choice: active_scorers in the health file

poolVars == <<active, misses, recheck, chosen>>
probeVars == <<believed, failedRounds, healthRound, reports>>
noticeVars == <<waitingDown, downTold>>
scorerVars == <<condition, changes, poolVars, probeVars, asking, noticeVars>>

Candidates == 0..(Services - 1)
NoRound == <<>>
Resting == [step |-> "idle"]
HealthOk(c) == condition[c] # "dead"
LeastOf(S) == CHOOSE c \in S : \A d \in S : c <= d

\* Mutant: the circle is one candidate short.
OthersButLast(c) == [step \in 1..(Services - 2) |-> (c + step) % Services]

(* The candidates after c in the circle, in the order they are tried. *)
Others(c) == [step \in 1..(Services - 1) |-> (c + step) % Services]

(* _switch: the listener saves the choice before the lock is given back. *)
SwitchTo(c) == active' = c /\ misses' = 0 /\ recheck' = FALSE /\ chosen' = c

----------------------------------------------------------------------------
(* score(): one frame on one thread *)

(* maybe_return_to_primary: left out when another thread holds the lock.  The  *)
(* lock is held over the probe of the primary, so this is one action.          *)
ReturnsToPrimary ==
  /\ active # 0 /\ recheck
  /\ IF HealthOk(0) THEN SwitchTo(0)
                    ELSE recheck' = FALSE /\ UNCHANGED <<active, misses, chosen>>

ScoreBegins(t) ==
  /\ asking[t] = Resting
  /\ ReturnsToPrimary \/ UNCHANGED poolVars
  /\ asking' = [asking EXCEPT ![t] = [step |-> "request", url |-> active']]
  /\ UNCHANGED <<condition, changes, probeVars, noticeVars>>

(* record(): an answer of a candidate that is no longer active is ignored, and *)
(* a refused frame (401, 4xx, not JSON) is an answer.                          *)
ScoreAnswered(t) ==
  /\ asking[t].step = "request" /\ condition[asking[t].url] = "up"
  /\ misses' = IF asking[t].url = active THEN 0 ELSE misses
  /\ asking' = [asking EXCEPT ![t] = Resting]
  /\ UNCHANGED <<condition, changes, active, recheck, chosen, probeVars, noticeVars>>

\* Mutant: one failure too many is waited for, and its count is kept.
ReachedLate == misses >= FailThreshold

Reached == misses + 1 >= FailThreshold

ScoreFails(t) ==
  LET url == asking[t].url
  IN /\ asking[t].step = "request" /\ condition[url] # "up"
     /\ IF url # active THEN misses' = misses /\ asking' = [asking EXCEPT ![t] = Resting]
        ELSE /\ misses' = IF Reached THEN 0 ELSE misses + 1
             /\ asking' = [asking EXCEPT ![t] =
                  IF Reached THEN [step |-> "probing", from |-> active, left |-> Others(active)]
                             ELSE Resting]
     /\ UNCHANGED <<condition, changes, active, recheck, chosen, probeVars, noticeVars>>

(* The probes run without the lock; the switch asks for it again and happens   *)
(* only when nobody has switched meanwhile.                                    *)
CandidateTried(t) ==
  /\ asking[t].step = "probing"
  /\ LET p == asking[t]
     IN IF p.left = <<>>
        THEN asking' = [asking EXCEPT ![t] = Resting] /\ UNCHANGED poolVars
        ELSE IF HealthOk(Head(p.left))
        THEN asking' = [asking EXCEPT ![t] =
               [step |-> "found", from |-> p.from, to |-> Head(p.left)]]
             /\ UNCHANGED poolVars
        ELSE asking' = [asking EXCEPT ![t] =
               [step |-> "probing", from |-> p.from, left |-> Tail(p.left)]]
             /\ UNCHANGED poolVars
  /\ UNCHANGED <<condition, changes, probeVars, noticeVars>>

FailsOver(t) ==
  /\ asking[t].step = "found"
  /\ IF active = asking[t].from THEN SwitchTo(asking[t].to) ELSE UNCHANGED poolVars
  /\ asking' = [asking EXCEPT ![t] = Resting]
  /\ UNCHANGED <<condition, changes, probeVars, noticeVars>>

RecheckElapses ==
  /\ active # 0 /\ ~recheck
  /\ recheck' = TRUE
  /\ UNCHANGED <<condition, changes, active, misses, chosen, probeVars, asking, noticeVars>>

----------------------------------------------------------------------------
(* The probe thread *)

RoundGathered ==
  /\ healthRound = NoRound /\ reports = {}
  /\ healthRound' = [c \in Candidates |-> HealthOk(c)]
  /\ UNCHANGED <<condition, changes, poolVars, believed, failedRounds, reports, asking,
                 noticeVars>>

RoundApplied ==
  LET rounds == [c \in Candidates |-> IF healthRound[c] THEN 0
                   ELSE IF failedRounds[c] < ProbeFails THEN failedRounds[c] + 1
                                                        ELSE ProbeFails]
      alive == [c \in Candidates |-> healthRound[c] \/ (believed[c] /\ rounds[c] < ProbeFails)]
      living == {c \in Candidates : alive[c]}
  IN /\ healthRound # NoRound
     /\ failedRounds' = rounds /\ believed' = alive
     /\ reports' = {[url |-> c, healthy |-> alive[c]] : c \in {d \in Candidates : alive[d] # believed[d]}}
     /\ IF living # {} /\ LeastOf(living) # active THEN SwitchTo(LeastOf(living))
                                                   ELSE UNCHANGED poolVars
     /\ healthRound' = NoRound
     /\ UNCHANGED <<condition, changes, asking, noticeVars>>

(* The transitions are reported in the order of the pool. *)
NextReport == CHOOSE r \in reports : \A q \in reports : r.url <= q.url

\* Mutant: a transition to alive leaves the timer running.
ReportedTimerRuns ==
  /\ reports # {}
  /\ LET r == NextReport
     IN /\ waitingDown' = IF r.healthy \/ r.url \in downTold THEN waitingDown
                                                              ELSE waitingDown \cup {r.url}
        /\ downTold' = IF r.healthy THEN downTold \ {r.url} ELSE downTold
  /\ reports' = reports \ {NextReport}
  /\ UNCHANGED <<condition, changes, poolVars, believed, failedRounds, healthRound, asking>>

(* on_health: the timer of a candidate that changed is cancelled, and only a   *)
(* candidate not announced yet gets a new one.                                 *)
Reported ==
  /\ reports # {}
  /\ LET r == NextReport
     IN /\ waitingDown' = IF r.healthy \/ r.url \in downTold THEN waitingDown \ {r.url}
                                                              ELSE waitingDown \cup {r.url}
        /\ downTold' = IF r.healthy THEN downTold \ {r.url} ELSE downTold
  /\ reports' = reports \ {NextReport}
  /\ UNCHANGED <<condition, changes, poolVars, believed, failedRounds, healthRound, asking>>

(* announce_down, on the timer's thread. *)
DownAnnounced(c) ==
  /\ c \in waitingDown
  /\ waitingDown' = waitingDown \ {c} /\ downTold' = downTold \cup {c}
  /\ UNCHANGED <<condition, changes, poolVars, probeVars, asking>>

----------------------------------------------------------------------------
(* The services, and a restart of the daemon *)

ServiceChangesTo(c, s) ==
  /\ changes > 0 /\ condition[c] # s
  /\ changes' = changes - 1
  /\ condition' = [condition EXCEPT ![c] = s]
  /\ UNCHANGED <<poolVars, probeVars, asking, noticeVars>>

(* Only the choice survives; restore_active takes it when it still is one. *)
ScorerRestarts ==
  /\ changes > 0 /\ changes' = changes - 1
  /\ active' = chosen /\ misses' = 0 /\ recheck' = TRUE
  /\ believed' = [c \in Candidates |-> TRUE]
  /\ failedRounds' = [c \in Candidates |-> 0]
  /\ healthRound' = NoRound /\ reports' = {}
  /\ asking' = [t \in ScoreThreads |-> Resting]
  /\ waitingDown' = {} /\ downTold' = {}
  /\ UNCHANGED <<condition, chosen>>

ScorerInit ==
  /\ condition = [c \in Candidates |-> "up"] /\ changes = ServiceChanges
  /\ active = 0 /\ misses = 0 /\ recheck = TRUE /\ chosen = 0
  /\ believed = [c \in Candidates |-> TRUE]
  /\ failedRounds = [c \in Candidates |-> 0]
  /\ healthRound = NoRound /\ reports = {}
  /\ asking = [t \in ScoreThreads |-> Resting]
  /\ waitingDown = {} /\ downTold = {}

Scoring(t) ==
  ScoreBegins(t) \/ ScoreAnswered(t) \/ ScoreFails(t) \/ CandidateTried(t) \/ FailsOver(t)
Probing == RoundGathered \/ RoundApplied \/ Reported

ScorerNext ==
  \/ \E t \in ScoreThreads : Scoring(t)
  \/ RecheckElapses
  \/ Probing
  \/ \E c \in Candidates : DownAnnounced(c)
  \/ \E c \in Candidates, s \in {"up", "hung", "dead"} : ServiceChangesTo(c, s)
  \/ ScorerRestarts

(* Frames keep coming and the threads that score them run; the probe thread is *)
(* an option of the configuration and is not counted on.                       *)
ScorerFairness == \A t \in ScoreThreads : WF_scorerVars(Scoring(t))

ScorerSpec == ScorerInit /\ [][ScorerNext]_scorerVars /\ ScorerFairness

----------------------------------------------------------------------------
(* Properties *)

ScorerTypeOK ==
  /\ condition \in [Candidates -> {"up", "hung", "dead"}]
  /\ changes \in 0..ServiceChanges
  /\ {active, chosen} \subseteq Candidates
  /\ misses \in 0..(FailThreshold - 1) /\ recheck \in BOOLEAN
  /\ believed \in [Candidates -> BOOLEAN]
  /\ failedRounds \in [Candidates -> 0..ProbeFails]
  /\ \A t \in ScoreThreads : asking[t].step \in {"idle", "request", "probing", "found"}
  /\ healthRound = NoRound \/ healthRound \in [Candidates -> BOOLEAN]
  /\ reports \subseteq [url : Candidates, healthy : BOOLEAN]
  /\ waitingDown \subseteq Candidates /\ downTold \subseteq Candidates

(* Once the probe thread has reported what it found, the candidates it takes   *)
(* to be down are exactly those announced or waiting for their notice, and     *)
(* none is both: no blip is announced, no outage is forgotten, no up notice    *)
(* goes out without its down notice.                                           *)
WatchKnowsDown ==
  /\ waitingDown \cap downTold = {}
  /\ reports = {} => waitingDown \cup downTold = {c \in Candidates : ~believed[c]}

(* A pool does not stay on a dead candidate: when one candidate alone answers  *)
(* for good, it becomes the active one, from wherever the pool stands.         *)
ScorerFound ==
  \A c \in Candidates :
    <>[](\A d \in Candidates : condition[d] = IF d = c THEN "up" ELSE "dead")
      => <>[](active = c)

=============================================================================
