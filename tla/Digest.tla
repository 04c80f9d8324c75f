------------------------------- MODULE Digest -------------------------------
(* The daily digest (reviewdigest.run_if_due): one message a day that says how *)
(* the fleet is and how many requests the scorer failed since the previous     *)
(* one.  The text, the mark of the day and the new baseline of the scorer's    *)
(* counters are three steps, and each may fail or be the last before a crash.  *)
(* One camera under control, one behind a hub, further checks by name.  The     *)
(* scorer is the one that sorts first among those in use: it changes when the  *)
(* cameras fail over, and a killed one comes back with the counters it saved   *)
(* last.                                                                       *)
EXTENDS Integers, FiniteSets

CONSTANTS
  DayLength, DueAt,   \* a day, and when in it the digest is due
  Fresh,              \* age limit of a read (max_age_s and outage_threshold)
  FailureRate,        \* failures are a problem above 1 / FailureRate
  ProblemsOnly,       \* TAPO_REVIEW_DIGEST_PROBLEMS_ONLY
  Checks,             \* further checks: the tick, the recorder, the package, the clock
  LastTick, Requests,   \* bounds
  Slips               \* bound: slips and changes together

ASSUME DigestAssumption ==
  /\ DayLength \in Nat \ {0} /\ DueAt \in 0 .. DayLength - 1
  /\ {Fresh, LastTick, Requests, Slips} \subseteq Nat /\ FailureRate \in Nat \ {0}
  /\ ProblemsOnly \in BOOLEAN

VARIABLES
  tick,
  probed,       \* the twin's entry of the camera: its time and verdict
  repairAt,     \* repair_last_failure_at, NeverYet when none
  counters,     \* the counters of the scorer that the snapshot asks
  baseline,     \* the counters the last digest saved
  sentDay,      \* day the state file names
  digestStep,   \* what run_if_due does next
  draft,        \* the message under way and the counters it was made from
  digestsTold,  \* digests that reached the phone, by day
  counted,      \* failures the digests counted, and those of silent days
  lifetime,     \* failures of the scorer that was asked at the time
  brought,      \* failures that other counters brought with them and no baseline knows
  slips,        \* stops, and marks or baselines that could not be written
  changes       \* times the scorer came back with older counters, or was another one

observedVars == <<probed, repairAt>>
counterVars == <<counters, lifetime, brought, changes>>
digestStateVars == <<baseline, sentDay, digestStep, draft, digestsTold, counted, slips>>
digestVars == <<tick, observedVars, counterVars, digestStateVars>>

NeverYet == -1
Day(t) == t \div DayLength
Days == 0 .. Day(LastTick)
ControlVerdicts == {"ok", "wrong", "unknown"}
Headlines == {"ok", "degraded", "unknown"}
Counters == [requests : Nat, failed : Nat]
NoBaseline == [requests |-> -1, failed |-> -1]
NoDraft == [head |-> "none", delta |-> 0, raw |-> NoBaseline]

(* What else the snapshot finds: failed checks, whether the camera answers a *)
(* ping, how long ago the hub answered, and whether the scorer does.          *)
Found == [wrong : SUBSET Checks, reach : {"unasked", "yes", "no"},
          hub : {"unasked", "fresh", "old"}, scorer : BOOLEAN]
-----------------------------------------------------------------------------
(* What the snapshot says *)

\* Mutant: a read from before a failed repair still vouches.
ReadStandsAnyway == probed.at # NeverYet

\* fleet_health_snapshot: no repair failed since the read.
ReadStands == probed.at # NeverYet /\ (repairAt = NeverYet \/ probed.at >= repairAt)

\* A read that is too old, or that no one made, says nothing.
ControlHealth == IF ReadStands /\ tick - probed.at <= Fresh THEN probed.verdict ELSE "unknown"

Restarted(n, old) == n.requests < old.requests \/ n.failed < old.failed

\* scorer_daily_delta: a counter below the baseline was reset.
Since(n, old) ==
  IF old = NoBaseline \/ Restarted(n, old) THEN n
  ELSE [requests |-> n.requests - old.requests, failed |-> n.failed - old.failed]

\* A scorer that does not answer, or fails more than one request in FailureRate.
ScorerFails(f) ==
  LET d == Since(counters, baseline) IN ~f.scorer \/ d.failed * FailureRate > d.requests

Problems(f) ==
  \/ f.wrong # {} \/ f.reach = "no" \/ f.hub = "old"
  \/ ControlHealth = "wrong" \/ ScorerFails(f)

\* fleet_lines: any failed check takes the headline, then an unknown control.
Headline(f) ==
  IF Problems(f) THEN "degraded" ELSE IF ControlHealth = "unknown" THEN "unknown" ELSE "ok"

Drafted(f) == [head |-> Headline(f),
               delta |-> IF f.scorer THEN Since(counters, baseline).failed ELSE 0,
               raw |-> IF f.scorer THEN counters ELSE NoBaseline]
-----------------------------------------------------------------------------
DigestInit ==
  /\ tick = 0 /\ repairAt = NeverYet /\ probed = [at |-> NeverYet, verdict |-> "unknown"]
  /\ counters = [requests |-> 0, failed |-> 0]
  /\ baseline = NoBaseline /\ sentDay = NeverYet /\ digestStep = "idle" /\ draft = NoDraft
  /\ digestsTold = [d \in Days |-> 0] /\ counted = 0 /\ lifetime = 0 /\ slips = 0
  /\ brought = 0 /\ changes = 0

(* The loop of the daemon: one pass over, the next begins. *)
PassEnded ==
  /\ digestStep = "idle" /\ tick < LastTick /\ tick' = tick + 1
  /\ UNCHANGED <<observedVars, counterVars, digestStateVars>>

\* process_digital_twin, its entry saved at once.
ControlRead(v) ==
  /\ digestStep = "idle" /\ probed' = [at |-> tick, verdict |-> v]
  /\ UNCHANGED <<tick, repairAt, counterVars, digestStateVars>>

RepairFailed ==
  /\ digestStep = "idle" /\ repairAt' = tick
  /\ UNCHANGED <<tick, probed, counterVars, digestStateVars>>

(* The scorer is another process: it goes on between any two steps. *)
RequestServed(bad) ==
  /\ counters.requests < Requests
  /\ counters' = [requests |-> counters.requests + 1,
                 failed |-> counters.failed + IF bad THEN 1 ELSE 0]
  /\ lifetime' = lifetime + IF bad THEN 1 ELSE 0
  /\ UNCHANGED <<tick, observedVars, brought, changes, digestStateVars>>

(* Counters of an earlier moment: their last save, or zero when it is lost.     *)
Earlier(n) ==
  /\ n.requests <= counters.requests /\ n.failed <= counters.failed
  /\ n.requests - n.failed <= counters.requests - counters.failed

\* A killed scorer starts from what it saved last: below the baseline, all of it
\* counts as new.
ScorerKilled ==
  /\ changes + slips < Slips /\ changes' = changes + 1
  /\ \E n \in [requests : 0 .. counters.requests, failed : 0 .. counters.failed] :
       /\ Earlier(n) /\ counters' = n
       /\ brought' = brought + IF Restarted(n, baseline) \/ Restarted(n, draft.raw)
                             THEN n.failed ELSE 0
  /\ UNCHANGED <<tick, observedVars, lifetime, digestStateVars>>

\* Failover: another scorer is asked, or the first one again, whatever it served
\* meanwhile; the baseline is the old one's.
ScorerChanged ==
  /\ changes + slips < Slips /\ changes' = changes + 1
  /\ \E n \in [requests : 0 .. Requests, failed : 0 .. Requests] :
       n.failed <= n.requests /\ counters' = n /\ brought' = brought + n.failed
  /\ UNCHANGED <<tick, observedVars, lifetime, digestStateVars>>
-----------------------------------------------------------------------------
(* run_if_due *)

\* Mutant: due whenever the day differs, whatever the hour.
DueAnyHour == sentDay # Day(tick)

Due == tick % DayLength >= DueAt /\ sentDay # Day(tick)

\* A healthy fleet is not written to the phone when only problems are wanted;
\* the day and the baseline are saved all the same.
DigestStarted(f) ==
  /\ digestStep = "idle" /\ Due
  /\ draft' = Drafted(f)
  /\ digestStep' = IF ProblemsOnly /\ Headline(f) = "ok" THEN "quiet" ELSE "text"
  /\ UNCHANGED <<tick, observedVars, counterVars, baseline, sentDay, digestsTold, counted, slips>>

TextDelivered ==
  /\ digestStep = "text" /\ digestStep' = "mark"
  /\ digestsTold' = [digestsTold EXCEPT ![Day(tick)] = @ + 1]
  /\ counted' = counted + draft.delta
  /\ UNCHANGED <<tick, observedVars, counterVars, baseline, sentDay, draft, slips>>

\* Refused: nothing is marked, the next tick tries again.
TextRefused ==
  /\ digestStep = "text" /\ digestStep' = "idle" /\ draft' = NoDraft
  /\ tick' = IF tick < LastTick THEN tick + 1 ELSE tick
  /\ UNCHANGED <<observedVars, counterVars, baseline, sentDay, digestsTold, counted, slips>>

QuietDay ==
  /\ digestStep = "quiet" /\ digestStep' = "mark" /\ counted' = counted + draft.delta
  /\ UNCHANGED <<tick, observedVars, counterVars, baseline, sentDay, draft, digestsTold, slips>>

\* mark_sent, by an atomic replace; a full disk only means a second digest.
DayMarked(ok) ==
  /\ digestStep = "mark" /\ digestStep' = "baseline"
  /\ sentDay' = IF ok THEN Day(tick) ELSE sentDay
  /\ slips' = IF ok THEN slips ELSE slips + 1
  /\ ok \/ changes + slips < Slips
  /\ UNCHANGED <<tick, observedVars, counterVars, baseline, draft, digestsTold, counted>>

\* Mutant: the baseline is what the counters are now, not what was reported.
SavesNow(d) == counters

\* Mutant: an unreachable scorer's baseline is forgotten.
SavesAnyway(d) == d.raw

\* _save_scorer_baseline: only of a scorer that answered.
Saves(d) == IF d.raw = NoBaseline THEN baseline ELSE d.raw

BaselineSaved(ok) ==
  /\ digestStep = "baseline" /\ digestStep' = "idle" /\ draft' = NoDraft
  /\ baseline' = IF ok THEN Saves(draft) ELSE baseline
  /\ slips' = IF ok THEN slips ELSE slips + 1
  /\ ok \/ changes + slips < Slips
  /\ UNCHANGED <<tick, observedVars, counterVars, sentDay, digestsTold, counted>>

\* The daemon stops; only files survive.
DigestCrash ==
  /\ changes + slips < Slips /\ slips' = slips + 1
  /\ digestStep' = "idle" /\ draft' = NoDraft /\ repairAt' = NeverYet
  /\ UNCHANGED <<tick, probed, counterVars, baseline, sentDay, digestsTold, counted>>

DigestNext ==
  \/ PassEnded \/ RepairFailed \/ ScorerKilled \/ ScorerChanged \/ DigestCrash
  \/ \E v \in {"ok", "wrong"} : ControlRead(v)
  \/ \E bad \in BOOLEAN : RequestServed(bad)
  \/ \E f \in Found : DigestStarted(f)
  \/ TextDelivered \/ TextRefused \/ QuietDay
  \/ \E ok \in BOOLEAN : DayMarked(ok) \/ BaselineSaved(ok)

DigestSpec == DigestInit /\ [][DigestNext]_digestVars
-----------------------------------------------------------------------------
\* What the tables may hold.
DigestTypeOK ==
  /\ tick \in 0 .. LastTick /\ repairAt \in NeverYet .. tick
  /\ probed \in [at : NeverYet .. tick, verdict : ControlVerdicts]
  /\ counters \in Counters /\ baseline \in Counters \cup {NoBaseline}
  /\ sentDay \in NeverYet .. Day(tick)
  /\ digestStep \in {"idle", "text", "quiet", "mark", "baseline"}
  /\ draft.head \in Headlines \cup {"none"} /\ draft.delta \in Nat
  /\ digestsTold \in [Days -> Nat] /\ {counted, lifetime, brought, slips, changes} \subseteq Nat

\* A message is sent again only after a stop or a failed write lost its mark,
\* never before the hour it is due (run_if_due marks the day after it sent).
OneDigestADay ==
  \A d \in Days : /\ digestsTold[d] <= 1 + slips
                  /\ digestsTold[d] > 0 => tick >= d * DayLength + DueAt

\* What the digests count, while no stop and no failed write came between a message
\* and its baseline: everything but what the next one will say, as long as one scorer
\* answers and its counters never go back; and never more than what happened and what
\* other counters brought with them.  A killed scorer brings nothing when it starts
\* from zero, or from a save that the baseline does not exceed; one that was saved
\* before the last digest, or another scorer, has its old failures told again.
FailuresToldOnce ==
  slips = 0 /\ digestStep = "idle" =>
    /\ counted + Since(counters, baseline).failed <= lifetime + brought
    /\ changes = 0 => counted + Since(counters, baseline).failed = lifetime

\* "Fleet OK" vouches only for a read of the camera's control that was good, is
\* fresh, and that no failed repair of this process came after.
OkIsVouched ==
  digestStep \in {"text", "quiet"} /\ draft.head = "ok" =>
    probed.verdict = "ok" /\ tick <= probed.at + Fresh /\ repairAt <= probed.at

(* The digest goes out once a day, counts every failure of the scorer once but   *)
(* for those that other counters bring, and says "Fleet OK" only of what was     *)
(* read.                                                                         *)
DigestIsTrue == OneDigestADay /\ FailuresToldOnce /\ OkIsVouched
===============================================================================
