-------------------------------- MODULE Ledger --------------------------------
(* The event ledger (ledger.py): audit lines of the live pass go through a     *)
(* bounded queue to one worker that writes SQLite rows, unique by what they    *)
(* say; the retention thread deletes old rows in short transactions; the stop  *)
(* waits for the queue, but not for ever.                                      *)
EXTENDS Naturals, Sequences, FiniteSets

CONSTANTS
  Events,       \* camera events
  LineQueue,    \* queue_size
  Batch,        \* rows one transaction deletes at most
  LedgerDays,   \* bound on the clock, in days
  KeepDays,     \* ledger_retention_days
  LinesLeft     \* bound: lines the live pass writes

ASSUME LedgerAssumption ==
  /\ IsFiniteSet(Events) /\ LineQueue \in Nat \ {0} /\ Batch \in Nat \ {0}
  /\ LedgerDays \in Nat /\ KeepDays \in Nat /\ LinesLeft \in Nat

VARIABLES
  day,
  startOf,    \* event -> its event_at, or a day past the bound: not seen yet
  emitted,    \* lines the live pass has written
  lineQueue,  \* the handler's queue
  inHand,     \* what its worker is writing
  lineCounts, \* dropped and errors of the handler; rows it wrote
  rows,       \* rows of the tables
  written,    \* every row ever written
  sweep,      \* the retention thread: what it still has to sweep
  ledgerStop  \* "no", "flushing", "whole" or "short": the stop and how it ended

lineVars == <<emitted, lineQueue, inHand, lineCounts>>
rowVars == <<rows, written>>
ledgerVars == <<day, startOf, lineVars, rowVars, sweep, ledgerStop>>

Tables == <<"observations", "decisions", "scene_events">>
(* What the audit lines become: a detection or a decision. *)
Rows == {[table |-> Tables[t], event |-> e] : t \in 1..2, e \in Events}
NoRow == [table |-> "none", event |-> "none"]
NoSweep == [left |-> <<>>, before |-> 0]
Unfinished == Len(lineQueue) + (IF inHand = NoRow THEN 0 ELSE 1)
Expired(S, before) == {r \in S : startOf[r.event] < before}

----------------------------------------------------------------------------
(* The live pass: AuditLedgerHandler.emit *)

\* Mutant: a line that found the queue full is not counted.
QueuedSilently(line) ==
  IF Len(lineQueue) < LineQueue
  THEN lineQueue' = Append(lineQueue, line) /\ UNCHANGED lineCounts
  ELSE UNCHANGED <<lineQueue, lineCounts>>

Queued(line) ==
  IF Len(lineQueue) < LineQueue
  THEN lineQueue' = Append(lineQueue, line) /\ UNCHANGED lineCounts
  ELSE lineCounts' = [lineCounts EXCEPT !.dropped = @ + 1] /\ UNCHANGED lineQueue

(* A detection, of an event of today or, from a late follow-up, of before; or  *)
(* a decision on an event.  The same line may come again.                      *)
LineEmitted(row, began) ==
  /\ ledgerStop = "no" /\ emitted < LinesLeft
  /\ IF startOf[row.event] <= day THEN began = startOf[row.event] ELSE began <= day
  /\ startOf' = [startOf EXCEPT ![row.event] = began]
  /\ emitted' = emitted + 1
  /\ Queued(row)
  /\ UNCHANGED <<day, inHand, rowVars, sweep, ledgerStop>>

----------------------------------------------------------------------------
(* The worker *)

LineTaken ==
  /\ inHand = NoRow /\ lineQueue # <<>>
  /\ inHand' = Head(lineQueue) /\ lineQueue' = Tail(lineQueue)
  /\ UNCHANGED <<day, startOf, emitted, lineCounts, rowVars, sweep, ledgerStop>>

(* ON CONFLICT DO NOTHING: a row with this fingerprint stays as it is. *)
RowWritten ==
  /\ inHand # NoRow
  /\ rows' = rows \cup {inHand} /\ written' = written \cup {inHand}
  /\ lineCounts' = [lineCounts EXCEPT !.done = @ + 1] /\ inHand' = NoRow
  /\ UNCHANGED <<day, startOf, emitted, lineQueue, sweep, ledgerStop>>

(* A line whose values record_audit refuses by raising, or a database that     *)
(* stays locked.  (A line without a camera, a type or a start, and one of a path *)
(* without an action, record_audit passes over: neither row nor error.  The     *)
(* model's lines are those a row is to be made of.)                             *)
RowRefused ==
  /\ inHand # NoRow
  /\ lineCounts' = [lineCounts EXCEPT !.errors = @ + 1] /\ inHand' = NoRow
  /\ UNCHANGED <<day, startOf, emitted, lineQueue, rowVars, sweep, ledgerStop>>

----------------------------------------------------------------------------
(* cleanup_bounded, on the retention thread *)

Cutoff == IF day > KeepDays THEN day - KeepDays ELSE 0

SweepStarts ==
  /\ sweep = NoSweep
  /\ Expired(rows, Cutoff) # {}
  /\ sweep' = [left |-> Tables, before |-> Cutoff]
  /\ UNCHANGED <<day, startOf, lineVars, rowVars, ledgerStop>>

\* Mutant: the next table's batch forgets the cutoff.
SweptAll(table, before) == {r \in rows : r.table = table}

Swept(table, before) == {r \in Expired(rows, before) : r.table = table}

(* One transaction; a full batch means there may be more in this table. *)
BatchDeleted ==
  /\ sweep.left # <<>>
  /\ LET old == Swept(Head(sweep.left), sweep.before)
     IN \E gone \in SUBSET old :
          /\ Cardinality(gone) = IF Cardinality(old) < Batch THEN Cardinality(old) ELSE Batch
          /\ rows' = rows \ gone
          /\ sweep' = IF Cardinality(gone) = Batch THEN sweep
                      ELSE IF Tail(sweep.left) = <<>> THEN NoSweep
                      ELSE [sweep EXCEPT !.left = Tail(@)]
  /\ UNCHANGED <<day, startOf, lineVars, written, ledgerStop>>

(* The time is up: the rest waits for the next day's run. *)
SweepEndsEarly ==
  /\ sweep.left # <<>> /\ sweep' = NoSweep
  /\ UNCHANGED <<day, startOf, lineVars, rowVars, ledgerStop>>

----------------------------------------------------------------------------

DayPasses ==
  /\ day < LedgerDays /\ day' = day + 1
  /\ UNCHANGED <<startOf, lineVars, rowVars, sweep, ledgerStop>>

(* The stop, flush(): whole when no line is unfinished, short when time is up. *)
FlushBegins ==
  /\ ledgerStop = "no" /\ ledgerStop' = "flushing"
  /\ UNCHANGED <<day, startOf, lineVars, rowVars, sweep>>

FlushEnds ==
  /\ ledgerStop = "flushing"
  /\ ledgerStop' = IF Unfinished = 0 THEN "whole" ELSE "short"
  /\ UNCHANGED <<day, startOf, lineVars, rowVars, sweep>>

LedgerInit ==
  /\ day = 0 /\ startOf = [e \in Events |-> LedgerDays + 1]
  /\ emitted = 0 /\ lineQueue = <<>> /\ inHand = NoRow
  /\ lineCounts = [dropped |-> 0, errors |-> 0, done |-> 0]
  /\ rows = {} /\ written = {} /\ sweep = NoSweep /\ ledgerStop = "no"

LedgerNext ==
  \/ \E row \in Rows, began \in 0..LedgerDays : LineEmitted(row, began)
  \/ LineTaken \/ RowWritten \/ RowRefused
  \/ SweepStarts \/ BatchDeleted \/ SweepEndsEarly
  \/ DayPasses \/ FlushBegins \/ FlushEnds

LedgerSpec == LedgerInit /\ [][LedgerNext]_ledgerVars

----------------------------------------------------------------------------
(* Properties *)

LedgerTypeOK ==
  /\ day \in 0..LedgerDays /\ startOf \in [Events -> 0..(LedgerDays + 1)]
  /\ rows \subseteq written /\ written \subseteq Rows
  /\ Len(lineQueue) <= LineQueue /\ inHand \in Rows \cup {NoRow}
  /\ Len(sweep.left) <= Len(Tables) /\ sweep.before \in 0..LedgerDays

(* The retention takes no row of an event that is still young, whatever the    *)
(* worker wrote between two of its batches, and a stop that reports the ledger *)
(* whole has lost nothing but the lines the handler counts.                    *)
LedgerKeepsYoung ==
  /\ \A r \in written : startOf[r.event] + KeepDays >= day => r \in rows
  /\ emitted = lineCounts.dropped + lineCounts.errors + lineCounts.done + Unfinished
  /\ ledgerStop = "whole" =>
       emitted = lineCounts.dropped + lineCounts.errors + lineCounts.done

=============================================================================
