-------------------------------- MODULE Label --------------------------------
(* The labeling session (labeling.py): one queue, one undo stack and one       *)
(* append-only file of verdicts behind a threaded server.  A page of another   *)
(* tab may send any frame, at the queue's head or not, already labeled or not; *)
(* a write may fail; the tool may be closed and opened again.                  *)
EXTENDS Integers, Sequences, FiniteSets

CONSTANTS
  Pictures,   \* indexed frames, by hash
  LeftOut,    \* low-score frames the sample leaves out of the queue
  LabelVerdicts,   \* LABELS
  LabelLines  \* bound: lines of labels.jsonl

ASSUME LabelAssumption ==
  /\ IsFiniteSet(Pictures) /\ LeftOut \subseteq Pictures
  /\ "unlabeled" \notin LabelVerdicts /\ LabelLines \in Nat

VARIABLES
  labelsFile,  \* labels.jsonl: the lines
  labeled,     \* LabelSession._labeled: frame -> verdict, Unlabeled when it has none
  labelQueue,  \* LabelSession._queue
  undoStack,   \* LabelSession._history
  opened       \* the verdicts the session opened with

labelVars == <<labelsFile, labeled, labelQueue, undoStack, opened>>

Unlabeled == "unlabeled"

(* latest_labels(): the last line of a frame counts. *)
LatestLabel(file, p) ==
  LET lines == {n \in DOMAIN file : file[n].frame = p}
  IN IF lines = {} THEN Unlabeled
     ELSE file[CHOOSE m \in lines : \A n \in lines : n <= m].label

Orders(S) == {q \in [1..Cardinality(S) -> S] : \A i, j \in DOMAIN q : i # j => q[i] # q[j]}

ToLabel(p) == \E n \in DOMAIN labelQueue : labelQueue[n] = p
Position(p) == IF ToLabel(p) THEN CHOOSE n \in DOMAIN labelQueue : labelQueue[n] = p ELSE 0
QueueWithout(p) ==
  IF ToLabel(p) THEN SubSeq(labelQueue, 1, Position(p) - 1)
                       \o SubSeq(labelQueue, Position(p) + 1, Len(labelQueue))
                ELSE labelQueue
InsertedAt(q, n, p) ==
  LET at == IF n > Len(q) + 1 THEN Len(q) + 1 ELSE n
  IN SubSeq(q, 1, at - 1) \o <<p>> \o SubSeq(q, at, Len(q))

Line(p, verdict) == [frame |-> p, label |-> verdict]
Room == Len(labelsFile) < LabelLines

----------------------------------------------------------------------------

(* LabelSession(): the queue in any of build_queue's orders. *)
OpenSession(file, order) ==
  /\ labeled' = [p \in Pictures |-> LatestLabel(file, p)]
  /\ labelQueue' = order
  /\ undoStack' = <<>> /\ opened' = labeled'

ReopenSession ==
  /\ undoStack # <<>>
  /\ \E order \in Orders({p \in Pictures \ LeftOut : LatestLabel(labelsFile, p) = Unlabeled}) :
       OpenSession(labelsFile, order)
  /\ UNCHANGED labelsFile

(* label(): the line is written first; a failed write changes nothing. *)
LabelFrame(p, verdict) ==
  /\ Room
  /\ labelsFile' = Append(labelsFile, Line(p, verdict))
  /\ undoStack' = Append(undoStack,
       [kind |-> "label", frame |-> p, previous |-> labeled[p], position |-> Position(p)])
  /\ labeled' = [labeled EXCEPT ![p] = verdict]
  /\ labelQueue' = QueueWithout(p)
  /\ UNCHANGED opened

SkipFrame(p) ==
  /\ ToLabel(p) /\ Len(undoStack) < LabelLines
  /\ labelQueue' = Append(QueueWithout(p), p)
  /\ undoStack' = Append(undoStack,
       [kind |-> "skip", frame |-> p, previous |-> Unlabeled, position |-> Position(p)])
  /\ UNCHANGED <<labelsFile, labeled, opened>>

Top == undoStack[Len(undoStack)]

(* Without its top.  Mutant of KeptEntry: the entry leaves before the write. *)
Popped == SubSeq(undoStack, 1, Len(undoStack) - 1)

(* An undo that could not be written keeps its entry. *)
KeptEntry == undoStack

(* undo() of a skip moves the frame back unless it was labeled meanwhile. *)
UndoSkip ==
  /\ undoStack # <<>> /\ Top.kind = "skip"
  /\ labelQueue' = IF ToLabel(Top.frame)
                   THEN InsertedAt(QueueWithout(Top.frame), Top.position, Top.frame)
                   ELSE labelQueue
  /\ undoStack' = Popped
  /\ UNCHANGED <<labelsFile, labeled, opened>>

\* Mutant: undoing a second verdict brings the frame back to the queue too.
ComesBackAlways(previous) == TRUE

ComesBack(previous) == previous = Unlabeled

UndoLabel ==
  /\ undoStack # <<>> /\ Top.kind = "label" /\ Room
  /\ labelsFile' = Append(labelsFile, Line(Top.frame, Top.previous))
  /\ labeled' = [labeled EXCEPT ![Top.frame] = Top.previous]
  /\ labelQueue' = IF ComesBack(Top.previous) THEN <<Top.frame>> \o labelQueue ELSE labelQueue
  /\ undoStack' = Popped
  /\ UNCHANGED opened

(* The disk refuses the line: nothing was written. *)
UndoRefused ==
  /\ undoStack # <<>> /\ Top.kind = "label"
  /\ undoStack' = KeptEntry
  /\ UNCHANGED <<labelsFile, labeled, labelQueue, opened>>

LabelInit ==
  /\ labelsFile = <<>> /\ labeled = [p \in Pictures |-> Unlabeled]
  /\ labelQueue \in Orders(Pictures \ LeftOut)
  /\ undoStack = <<>> /\ opened = labeled

LabelNext ==
  \/ \E p \in Pictures, verdict \in LabelVerdicts : LabelFrame(p, verdict)
  \/ \E p \in Pictures : SkipFrame(p)
  \/ UndoSkip \/ UndoLabel \/ UndoRefused \/ ReopenSession

LabelSpec == LabelInit /\ [][LabelNext]_labelVars

----------------------------------------------------------------------------
(* Properties *)

(* What the stack would restore: to each frame what its first verdict replaced. *)
VerdictsOf(p) == {n \in DOMAIN undoStack : undoStack[n].kind = "label" /\ undoStack[n].frame = p}
Restored ==
  [p \in Pictures |->
     IF VerdictsOf(p) = {} THEN labeled[p]
     ELSE undoStack[CHOOSE n \in VerdictsOf(p) : \A m \in VerdictsOf(p) : n <= m].previous]

(* Memory and file agree on every verdict, no frame waits twice, a labeled     *)
(* frame never waits and an unlabeled one of the sample always does, and what  *)
(* the undo stack leads back to is what the session opened with: whatever the  *)
(* tabs sent, in whatever order, and whichever writes failed.                  *)
VerdictsAreKept ==
  /\ \A p \in Pictures : labeled[p] = LatestLabel(labelsFile, p)
  /\ \A i, j \in DOMAIN labelQueue : labelQueue[i] = labelQueue[j] => i = j
  /\ \A p \in Pictures :
       /\ ToLabel(p) => labeled[p] = Unlabeled
       /\ p \notin LeftOut /\ labeled[p] = Unlabeled => ToLabel(p)
  /\ Restored = opened

=============================================================================
