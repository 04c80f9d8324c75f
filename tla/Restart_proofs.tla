---------------------------- MODULE Restart_proofs ----------------------------
(* Proofs about what stops, kills and restarts leave of two passes.  The clips   *)
(* of the hub: for any number of clips, refused sends, signals and kills, each   *)
(* is on a saved queue or decided, and reaches the phone once, or once more for  *)
(* each stop that saved nothing.  The live pass of one camera: for any number of *)
(* events, failures and ends of the process, none is passed over unread, no      *)
(* follow-up is lost, no photo repeated and no failure counted to another,       *)
(* outside the cases that the statements name.                                  *)
EXTENDS Hub, Resume, FiniteSetTheorems, SequenceTheorems, TLAPS

----------------------------------------------------------------------------
(* The hub: the invariant *)

(* The entries that this step's loop has not decided.                          *)
QueueLeft == IF hubStep = "retry" THEN ClipsOf(queued) ELSE ClipsOf(queued) \ leaving
RetryLeft == IF hubStep = "retry" THEN ClipsOf(retries) \ leaving ELSE ClipsOf(retries)

HubShape ==
  /\ indexed \in 0..HubClips /\ resolved \in BOOLEAN /\ inline \in BOOLEAN
  /\ cursor \in NoCursor..HubClips /\ cursorFile \in NoCursor..HubClips
  /\ queued \in Seq(ClipEntries) /\ retries \in Seq(RetryEntries)
  /\ job \in [clip : 0..HubClips, stage : {"none", "running", "done"}, frames : BOOLEAN]
  /\ frames \in [ClipIds -> {"none", "job", "live"}]
  /\ runtimeFile \in [clips : Seq(ClipEntries), retries : Seq(RetryEntries)]
  /\ hubStep \in {"asleep", "poll", "clips", "muted", "collect", "entries", "retry", "save",
                  "cursor", "rest", "shutdown", "down"}
  /\ todoClips \in Seq(ClipIds) /\ leaving \subseteq ClipIds
  /\ stopping \in {"no", "asked", "exit"}
  /\ sentTimes \in [ClipIds -> Nat] /\ fate \in [ClipIds -> HubFates]
  /\ kills \in Nat /\ trouble \in Nat

(* A clip this tick has decided; the steps before the tick's own save.          *)
TakenUp(c) == c \in leaving \/ (inline /\ cursorFile < c /\ c <= cursor)
Early == {"asleep", "poll", "clips", "muted", "collect", "entries"}

(* Where the tick stands, and what its loops still have to visit.              *)
PhaseInv ==
  /\ leaving # {} => hubStep \in {"entries", "retry"}
  /\ hubStep \in {"clips", "muted"} =>
       /\ todoClips # <<>> /\ cursor # NoCursor /\ cursor + Len(todoClips) <= indexed
       /\ \A n \in 1..Len(todoClips) : todoClips[n] = cursor + n
  /\ hubStep = "entries" => \A n \in 1..Len(todoClips) : todoClips[n] \in ClipsOf(queued)
  /\ hubStep = "retry" => \A n \in 1..Len(todoClips) : todoClips[n] \in ClipsOf(retries)
  /\ hubStep = "retry" => \A c \in leaving : frames[c] = "none"
  /\ cursorFile <= indexed
  /\ hubStep # "down" => cursorFile <= cursor /\ cursor <= indexed
  /\ hubStep \in {"asleep", "poll", "rest", "shutdown"} => cursor = cursorFile
  /\ hubStep = "cursor" => cursor = cursorFile \/ runtimeFile = HubSnapshot
  /\ hubStep \in Early =>
       \A c \in ClipIds : c \in ClipsOf(retries) => c \in ClipsOf(runtimeFile.retries) \/ TakenUp(c)
  /\ inline => ClipsOf(queued) = {} /\ ClipsOf(runtimeFile.clips) = {}
  /\ cursorFile = NoCursor =>
       /\ hubStep \notin {"clips", "muted"}
       /\ ClipsOf(queued) = {} /\ ClipsOf(retries) = {}
       /\ ClipsOf(runtimeFile.clips) = {} /\ ClipsOf(runtimeFile.retries) = {}
       /\ \A c \in ClipIds : fate[c] \in {"unseen", "history"}

(* Failed decisions of a clip: the limit, and one more for each unwound tick.   *)
TriesInv ==
  /\ \A i \in 1..Len(queued) :
       /\ queued[i].tries <= FinishTries + kills
       /\ queued[i].clip \in QueueLeft => queued[i].tries < FinishTries + kills
  /\ \A i \in 1..Len(runtimeFile.clips) : runtimeFile.clips[i].tries < FinishTries + kills

(* A clip the cursor has passed is decided, or on a queue that fits its fate.   *)
CarryInv ==
  /\ hubStep # "down" =>
       \A c \in ClipIds : c <= cursor =>
         /\ fate[c] # "unseen"
         /\ fate[c] = "queued" => c \in QueueLeft
         /\ fate[c] = "retry" => c \in QueueLeft \cup RetryLeft
  /\ \A c \in ClipIds : c <= cursorFile =>
       /\ fate[c] # "unseen"
       /\ fate[c] = "queued" => c \in ClipsOf(runtimeFile.clips)
       /\ fate[c] = "retry" => c \in ClipsOf(runtimeFile.clips) \cup ClipsOf(runtimeFile.retries)
       /\ c \in ClipsOf(queued) => c \in ClipsOf(runtimeFile.clips)

(* The photos of a clip that the memory, and the files, could still send.       *)
Owed(c) ==
  (IF cursor < c THEN 1 ELSE 0) + (IF c \in QueueLeft THEN 1 ELSE 0)
    + (IF c \in RetryLeft /\ frames[c] # "none" THEN 1 ELSE 0)
Saved(c) ==
  (IF cursorFile < c THEN 1 ELSE 0) + (IF c \in ClipsOf(runtimeFile.clips) THEN 1 ELSE 0)
    + (IF c \in ClipsOf(runtimeFile.retries) /\ frames[c] # "none" THEN 1 ELSE 0)

Fresh1(c) ==
  c \in RetryLeft /\ c \notin ClipsOf(runtimeFile.retries) /\ frames[c] # "none"

OnceInv ==
  \A c \in ClipIds :
    /\ hubStep # "down" => sentTimes[c] + Owed(c) <= 1 + kills
    /\ sentTimes[c] + Saved(c) <= 2 + kills
    /\ hubStep = "down" => sentTimes[c] + Saved(c) <= 1 + kills
    /\ hubStep \in Early /\ ~TakenUp(c) => sentTimes[c] + Saved(c) <= 1 + kills
    /\ hubStep # "down" /\ Fresh1(c) => sentTimes[c] + Saved(c) <= 1 + kills

TickInv == HubShape /\ PhaseInv /\ TriesInv /\ CarryInv /\ OnceInv


----------------------------------------------------------------------------
(* The sequences of entries *)

LEMMA HubConstants ==
  /\ HubClips \in Nat /\ HubTrouble \in Nat
  /\ HubAttempts \in Nat /\ HubAttempts >= 1 /\ FinishTries \in Nat /\ FinishTries >= 1
BY HubAssumption

LEMMA ClipsIn ==
  ASSUME NEW E, NEW q \in Seq(E)
  PROVE  /\ DOMAIN q = 1..Len(q) /\ Len(q) \in Nat
         /\ \A i \in 1..Len(q) : q[i] \in E /\ q[i].clip \in ClipsOf(q)
         /\ \A c : c \in ClipsOf(q) <=> \E i \in 1..Len(q) : q[i].clip = c
         /\ ClipsOf(<<>>) = {}
BY DEF ClipsOf

LEMMA ClipsAppended ==
  ASSUME NEW E, NEW q \in Seq(E), NEW e \in E
  PROVE  /\ Append(q, e) \in Seq(E) /\ Len(Append(q, e)) = Len(q) + 1
         /\ \A i \in 1..Len(q) + 1 : Append(q, e)[i] = IF i = Len(q) + 1 THEN e ELSE q[i]
         /\ ClipsOf(Append(q, e)) = ClipsOf(q) \cup {e.clip}
<1> DEFINE a == Append(q, e)
<1>1. a \in Seq(E) /\ Len(a) = Len(q) + 1 /\ Len(q) \in Nat
  OBVIOUS
<1>2. \A i \in 1..Len(q) + 1 : a[i] = IF i = Len(q) + 1 THEN e ELSE q[i]
  OBVIOUS
<1> HIDE DEF a
<1>3. /\ \A c : c \in ClipsOf(a) <=> \E i \in 1..Len(a) : a[i].clip = c
      /\ \A c : c \in ClipsOf(q) <=> \E i \in 1..Len(q) : q[i].clip = c
  BY <1>1, ClipsIn
<1>4. ASSUME NEW c \in ClipsOf(a) PROVE c \in ClipsOf(q) \cup {e.clip}
  <2>1. PICK i \in 1..Len(q) + 1 : a[i].clip = c
    BY <1>1, <1>3, <1>4
  <2> QED
    BY <1>1, <1>2, <1>3, <2>1
<1>5. ASSUME NEW c \in ClipsOf(q) PROVE c \in ClipsOf(a)
  <2>1. PICK i \in 1..Len(q) : q[i].clip = c
    BY <1>3, <1>5
  <2>2. i \in 1..Len(a) /\ a[i].clip = c
    BY <1>1, <1>2, <2>1
  <2> QED
    BY <1>3, <2>2
<1>6. e.clip \in ClipsOf(a)
  <2>1. Len(q) + 1 \in 1..Len(a) /\ a[Len(q) + 1].clip = e.clip
    BY <1>1, <1>2
  <2> QED
    BY <1>3, <2>1
<1> QED
  BY <1>1, <1>2, <1>4, <1>5, <1>6 DEF a

LEMMA EntryFound ==
  ASSUME NEW E, NEW q \in Seq(E), NEW c \in ClipsOf(q)
  PROVE  \E i \in 1..Len(q) : EntryOf(q, c) = q[i] /\ q[i].clip = c
<1>1. \E i \in DOMAIN q : q[i].clip = c
  BY ClipsIn
<1>2. DOMAIN q = 1..Len(q)
  OBVIOUS
<1> QED
  BY <1>1, <1>2 DEF EntryOf

LEMMA ClipsChanged ==
  ASSUME NEW E, NEW q \in Seq(E), NEW c, NEW e \in E, e.clip = c
  PROVE  /\ Changed(q, c, e) \in Seq(E) /\ Len(Changed(q, c, e)) = Len(q)
         /\ \A i \in 1..Len(q) : Changed(q, c, e)[i] = IF q[i].clip = c THEN e ELSE q[i]
         /\ ClipsOf(Changed(q, c, e)) = ClipsOf(q)
<1> DEFINE a == Changed(q, c, e)
<1>1. /\ a \in Seq(E) /\ Len(a) = Len(q) /\ Len(q) \in Nat
      /\ \A i \in 1..Len(q) : a[i] = IF q[i].clip = c THEN e ELSE q[i]
  <2>1. DOMAIN q = 1..Len(q) /\ Len(q) \in Nat
    OBVIOUS
  <2>2. a = [i \in 1..Len(q) |-> IF q[i].clip = c THEN e ELSE q[i]]
    BY <2>1 DEF Changed
  <2>3. \A i \in 1..Len(q) : q[i] \in E
    OBVIOUS
  <2> HIDE DEF a
  <2>4. a \in [1..Len(q) -> E]
    BY <2>2, <2>3
  <2>5. a \in Seq(E) /\ Len(a) = Len(q)
    BY <2>1, <2>2, <2>4
  <2> QED
    BY <2>1, <2>2, <2>5
<1> HIDE DEF a
<1>2. \A i \in 1..Len(q) : a[i].clip = q[i].clip
  BY <1>1
<1>3. /\ \A x : x \in ClipsOf(a) <=> \E i \in 1..Len(a) : a[i].clip = x
      /\ \A x : x \in ClipsOf(q) <=> \E i \in 1..Len(q) : q[i].clip = x
  BY <1>1, ClipsIn
<1>4. \A x : x \in ClipsOf(a) <=> x \in ClipsOf(q)
  BY <1>1, <1>2, <1>3
<1> QED
  BY <1>1, <1>4 DEF a, ClipsOf

LEMMA ClipsOrdered ==
  ASSUME NEW E, NEW q \in Seq(E), \A e \in E : e.clip \in ClipIds
  PROVE  /\ ClipOrder(q) \in Seq(ClipIds)
         /\ \A n \in 1..Len(ClipOrder(q)) : ClipOrder(q)[n] \in ClipsOf(q)
<1>1. DOMAIN q = 1..Len(q) /\ Len(q) \in Nat /\ \A i \in 1..Len(q) : q[i] \in E
  OBVIOUS
<1> DEFINE a == ClipOrder(q)
<1>2. a = [i \in 1..Len(q) |-> q[i].clip]
  BY <1>1 DEF ClipOrder
<1> HIDE DEF a
<1>3. a \in Seq(ClipIds) /\ Len(a) = Len(q)
  <2>1. a \in [1..Len(q) -> ClipIds]
    BY <1>1, <1>2
  <2> QED
    BY <1>1, <1>2, <2>1
<1>4. \A n \in 1..Len(q) : a[n] = q[n].clip /\ q[n].clip \in ClipsOf(q)
  BY <1>1, <1>2, ClipsIn
<1> QED
  BY <1>3, <1>4 DEF a

(* Dropping the entries of some clips keeps every other one, and adds none.     *)
LEMMA ClipsDropped ==
  ASSUME NEW E, NEW q \in Seq(E), NEW clips, NEW rest, IsWithout(rest, q, clips)
  PROVE  /\ rest \in Seq(E)
         /\ \A j \in 1..Len(rest) :
              \E i \in 1..Len(q) : rest[j] = q[i] /\ q[i].clip \notin clips
         /\ ClipsOf(rest) = ClipsOf(q) \ clips
<1>1. DOMAIN q = 1..Len(q) /\ Len(q) \in Nat /\ \A i \in 1..Len(q) : q[i] \in E
  OBVIOUS
<1> DEFINE stay == {i \in DOMAIN q : q[i].clip \notin clips}
           n == Cardinality(stay)
<1>2. IsFiniteSet(stay) /\ n \in Nat
  <2>1. IsFiniteSet(1..Len(q))
    BY <1>1, FS_Interval
  <2>2. stay \subseteq 1..Len(q)
    BY <1>1
  <2>3. IsFiniteSet(stay)
    BY <2>1, <2>2, FS_Subset
  <2> QED
    BY <2>3, FS_CardinalityType
<1>3. PICK at \in [1..n -> stay] :
        /\ \A i, j \in 1..n : i < j => at[i] < at[j]
        /\ rest = [i \in 1..n |-> q[at[i]]]
  <2>1. PICK at \in [1..n -> stay] :
        /\ \A i, j \in DOMAIN at : i < j => at[i] < at[j]
        /\ rest = [i \in DOMAIN at |-> q[at[i]]]
    BY DEF IsWithout
  <2>2. DOMAIN at = 1..n
    OBVIOUS
  <2> QED
    BY <2>1, <2>2
<1>4. stay \subseteq 1..Len(q) /\ \A i \in stay : q[i].clip \notin clips /\ q[i] \in E
  BY <1>1
<1>5. \A i \in 1..Len(q) : q[i].clip \notin clips => i \in stay
  BY <1>1
<1> HIDE DEF stay, n
<1>6. rest \in Seq(E) /\ Len(rest) = n /\ \A j \in 1..n : rest[j] = q[at[j]] /\ at[j] \in stay
  <2>1. \A j \in 1..n : at[j] \in stay
    BY <1>3
  <2>2. rest \in [1..n -> E]
    BY <1>3, <1>4, <2>1
  <2>3. rest \in Seq(E) /\ Len(rest) = n
    BY <1>2, <2>2, <1>3
  <2> QED
    BY <1>3, <2>1, <2>3
<1>7. \A i \in stay : \E j \in 1..n : at[j] = i
  <2>1. \A i, j \in 1..n : at[i] = at[j] => i = j
    <3> SUFFICES ASSUME NEW i \in 1..n, NEW j \in 1..n, at[i] = at[j], i # j PROVE FALSE
      OBVIOUS
    <3>1. at[i] \in Int /\ at[j] \in Int
      <4>1. at[i] \in stay /\ at[j] \in stay
        BY <1>6
      <4>2. at[i] \in 1..Len(q) /\ at[j] \in 1..Len(q)
        BY <1>4, <4>1
      <4> QED
        BY <1>1, <4>2
    <3>2. at[i] < at[j] \/ at[j] < at[i]
      BY <1>2, <1>3
    <3> QED
      BY <3>1, <3>2
  <2>2. at \in Injection(1..n, stay)
    BY <2>1 DEF Injection, IsInjective
  <2>3. IsFiniteSet(1..n) /\ Cardinality(1..n) = n
    BY <1>2, FS_Interval
  <2>4. at \in Surjection(1..n, stay)
    BY <1>2, <2>2, <2>3, FS_Injection DEF n
  <2> QED
    BY <2>4 DEF Surjection
<1>8. \A j \in 1..Len(rest) : \E i \in 1..Len(q) : rest[j] = q[i] /\ q[i].clip \notin clips
  BY <1>4, <1>6
<1>9. \A c : c \in ClipsOf(rest) <=> c \in ClipsOf(q) \ clips
  <2>1. /\ \A c : c \in ClipsOf(rest) <=> \E i \in 1..Len(rest) : rest[i].clip = c
        /\ \A c : c \in ClipsOf(q) <=> \E i \in 1..Len(q) : q[i].clip = c
    BY <1>6, ClipsIn
  <2>2. ASSUME NEW c \in ClipsOf(rest) PROVE c \in ClipsOf(q) \ clips
    BY <1>8, <2>1, <2>2
  <2>3. ASSUME NEW c \in ClipsOf(q), c \notin clips PROVE c \in ClipsOf(rest)
    <3>1. PICK i \in 1..Len(q) : q[i].clip = c
      BY <2>1, <2>3
    <3>2. PICK j \in 1..n : at[j] = i
      BY <1>5, <1>7, <2>3, <3>1
    <3>3. rest[j].clip = c /\ j \in 1..Len(rest)
      BY <1>6, <3>1, <3>2
    <3> QED
      BY <2>1, <3>3
  <2> QED
    BY <2>2, <2>3
<1> QED
  BY <1>6, <1>8, <1>9 DEF ClipsOf


----------------------------------------------------------------------------
(* What the decision of a clip changes *)

Decided(c) ==
  /\ retries' \in Seq(RetryEntries) /\ frames' \in [ClipIds -> {"none", "job", "live"}]
  /\ sentTimes' \in [ClipIds -> Nat] /\ fate' \in [ClipIds -> HubFates] /\ trouble' \in Nat
  /\ \A d \in ClipIds : d # c =>
       /\ frames'[d] = frames[d] /\ sentTimes'[d] = sentTimes[d] /\ fate'[d] = fate[d]
       /\ d \in ClipsOf(retries') <=> d \in ClipsOf(retries)
  /\ fate'[c] \notin {"unseen", "queued"}
  /\ \/ /\ fate'[c] # "retry" /\ UNCHANGED <<retries, frames>>
        /\ sentTimes'[c] = sentTimes[c] \/ sentTimes'[c] = sentTimes[c] + 1
     \/ /\ fate'[c] = "retry" /\ UNCHANGED sentTimes /\ frames'[c] # "none"
        /\ ClipsOf(retries') = ClipsOf(retries) \cup {c}

LEMMA Delivered ==
  ASSUME HubShape, NEW c \in ClipIds, NEW kind \in {"job", "live"}, DeliverFrames(c, kind)
  PROVE  Decided(c)
<1> DEFINE e == [clip |-> c, attempts |-> 1]
<1>1. e \in RetryEntries /\ e.clip = c
  BY HubConstants DEF RetryEntries
<1>2. /\ Append(retries, e) \in Seq(RetryEntries)
      /\ ClipsOf(Append(retries, e)) = ClipsOf(retries) \cup {c}
  BY <1>1, ClipsAppended DEF HubShape
<1> HIDE DEF e
<1>3. CASE /\ \E verdict \in Verdicts : fate' = [fate EXCEPT ![c] = verdict]
           /\ UNCHANGED <<sentTimes, retries, frames, trouble>>
  <2>1. PICK verdict \in Verdicts : fate' = [fate EXCEPT ![c] = verdict]
    BY <1>3
  <2>2. verdict \in HubFates \ {"unseen", "queued", "retry"}
    BY DEF Verdicts, HubFates
  <2> QED
    BY <1>3, <2>1, <2>2 DEF Decided, HubShape
<1>4. CASE /\ fate' = [fate EXCEPT ![c] = "sent"] /\ sentTimes' = [sentTimes EXCEPT ![c] = @ + 1]
           /\ UNCHANGED <<retries, frames, trouble>>
  BY <1>4 DEF Decided, HubShape, HubFates
<1>5. CASE /\ trouble > 0 /\ trouble' = trouble - 1
           /\ fate' = [fate EXCEPT ![c] = "retry"]
           /\ retries' = Append(retries, e)
           /\ frames' = [frames EXCEPT ![c] = kind]
           /\ UNCHANGED sentTimes
  <2>1. "retry" \in HubFates
    BY DEF HubFates
  <2> QED
    BY <1>2, <1>5, <2>1 DEF Decided, HubShape
<1> QED
  BY <1>3, <1>4, <1>5 DEF DeliverFrames, e

LEMMA ClipDecided ==
  ASSUME HubShape, NEW c \in ClipIds, NEW got \in BOOLEAN, Decides(c, got)
  PROVE  Decided(c)
<1>1. CASE NoFrame(c)
  <2>1. "noframe" \in HubFates
    BY DEF HubFates
  <2> QED
    BY <1>1, <2>1 DEF NoFrame, Decided, HubShape
<1>2. CASE ~NoFrame(c)
  <2>1. DeliverFrames(c, "job") \/ DeliverFrames(c, "live")
    BY <1>2 DEF Decides
  <2> QED
    BY <2>1, Delivered
<1> QED
  BY <1>1, <1>2

(* A finished entry is decided and leaves, or a failed try is counted.          *)
Finished(c) ==
  \/ Decided(c) /\ leaving' = leaving \cup {c} /\ UNCHANGED queued
  \/ /\ c \in ClipsOf(queued)
     /\ queued' \in Seq(ClipEntries) /\ ClipsOf(queued') = ClipsOf(queued)
     /\ Len(queued') = Len(queued)
     /\ \A i \in 1..Len(queued) :
          \/ queued'[i] = queued[i] /\ queued[i].clip # c
          \/ /\ queued'[i].clip = c /\ queued[i].clip = c
             /\ \E j \in 1..Len(queued) :
                  queued[j].clip = c /\ queued'[i].tries = queued[j].tries + 1
             /\ queued'[i].tries < FinishTries \/ c \in leaving'
     /\ \/ /\ leaving' = leaving \cup {c} /\ fate' = [fate EXCEPT ![c] = "gaveup"]
        \/ UNCHANGED <<leaving, fate>>
     /\ UNCHANGED <<sentTimes, retries, frames>> /\ trouble' \in Nat

LEMMA EntryFinished ==
  ASSUME HubShape, NEW c \in ClipIds, NEW got \in BOOLEAN, FinishEntry(c, got)
  PROVE  Finished(c)
<1>1. CASE Decides(c, got) /\ leaving' = leaving \cup {c} /\ UNCHANGED queued
  BY <1>1, ClipDecided DEF Finished
<1>2. CASE ~(Decides(c, got) /\ leaving' = leaving \cup {c} /\ UNCHANGED queued)
  <2> DEFINE old == EntryOf(queued, c)
             new == [old EXCEPT !.tries = old.tries + 1]
  <2>1. /\ c \in ClipsOf(queued) /\ trouble > 0 /\ trouble' = trouble - 1
        /\ queued' = Changed(queued, c, new)
        /\ IF old.tries + 1 >= FinishTries
           THEN leaving' = leaving \cup {c} /\ fate' = [fate EXCEPT ![c] = "gaveup"]
           ELSE UNCHANGED <<leaving, fate>>
        /\ UNCHANGED <<sentTimes, retries, frames>>
    BY <1>2 DEF FinishEntry
  <2>2. queued \in Seq(ClipEntries)
    BY DEF HubShape
  <2>3. PICK j \in 1..Len(queued) : old = queued[j] /\ queued[j].clip = c
    BY <2>1, <2>2, EntryFound
  <2>4. old \in ClipEntries /\ old.clip = c
    BY <2>2, <2>3
  <2>5. new \in ClipEntries /\ new.clip = c /\ new.tries = old.tries + 1
    BY <2>4 DEF ClipEntries
  <2>6. old.tries \in Nat /\ FinishTries \in Nat
    BY <2>4, HubConstants DEF ClipEntries
  <2> HIDE DEF old, new
  <2>7. /\ queued' \in Seq(ClipEntries) /\ Len(queued') = Len(queued)
        /\ \A i \in 1..Len(queued) : queued'[i] = IF queued[i].clip = c THEN new ELSE queued[i]
        /\ ClipsOf(queued') = ClipsOf(queued)
    BY <2>1, <2>2, <2>5, ClipsChanged
  <2>8. new.tries < FinishTries \/ c \in leaving'
    BY <2>1, <2>5, <2>6
  <2>9. trouble' \in Nat
    BY <2>1 DEF HubShape
  <2>10. \A i \in 1..Len(queued) :
          \/ queued'[i] = queued[i] /\ queued[i].clip # c
          \/ /\ queued'[i].clip = c /\ queued[i].clip = c
             /\ \E k \in 1..Len(queued) :
                  queued[k].clip = c /\ queued'[i].tries = queued[k].tries + 1
             /\ queued'[i].tries < FinishTries \/ c \in leaving'
    BY <2>3, <2>5, <2>7, <2>8
  <2>11. \/ /\ leaving' = leaving \cup {c} /\ fate' = [fate EXCEPT ![c] = "gaveup"]
         \/ UNCHANGED <<leaving, fate>>
    BY <2>1
  <2> QED
    BY <2>1, <2>7, <2>9, <2>10, <2>11 DEF Finished
<1> QED
  BY <1>1, <1>2


LEMMA TodoFacts ==
  ASSUME HubShape, todoClips # <<>>
  PROVE  /\ Head(todoClips) = todoClips[1] /\ Head(todoClips) \in ClipIds
         /\ Tail(todoClips) \in Seq(ClipIds) /\ Len(Tail(todoClips)) = Len(todoClips) - 1
         /\ Len(todoClips) \in Nat /\ Len(todoClips) >= 1
         /\ \A n \in 1..Len(todoClips) - 1 : Tail(todoClips)[n] = todoClips[n + 1]
         /\ Tail(todoClips) = <<>> <=> Len(todoClips) = 1
<1>1. todoClips \in Seq(ClipIds)
  BY DEF HubShape
<1>2. /\ Len(todoClips) \in Nat /\ Len(todoClips) >= 1
      /\ Head(todoClips) = todoClips[1] /\ Head(todoClips) \in ClipIds
  BY <1>1
<1>3. /\ Tail(todoClips) \in Seq(ClipIds) /\ Len(Tail(todoClips)) = Len(todoClips) - 1
      /\ \A n \in 1..Len(todoClips) - 1 : Tail(todoClips)[n] = todoClips[n + 1]
  BY <1>1
<1>4. Tail(todoClips) = <<>> <=> Len(todoClips) = 1
  BY <1>2, <1>3
<1> QED
  BY <1>2, <1>3, <1>4

LEMMA AtQueueEntry ==
  ASSUME TickInv, hubStep = "entries", todoClips # <<>>
  PROVE  /\ QueueEntry \in ClipEntries /\ QueueEntry.clip = Head(todoClips)
         /\ Head(todoClips) \in ClipIds /\ Head(todoClips) \in ClipsOf(queued)
<1>1. HubShape /\ PhaseInv /\ queued \in Seq(ClipEntries)
  BY DEF TickInv, HubShape
<1>2. Head(todoClips) \in ClipsOf(queued) /\ Head(todoClips) \in ClipIds
  BY <1>1, TodoFacts DEF PhaseInv
<1>3. PICK j \in 1..Len(queued) :
        QueueEntry = queued[j] /\ queued[j].clip = Head(todoClips)
  BY <1>1, <1>2, EntryFound DEF QueueEntry
<1> QED
  BY <1>1, <1>2, <1>3

LEMMA AtRetryEntry ==
  ASSUME TickInv, hubStep = "retry", todoClips # <<>>
  PROVE  /\ RetryEntry \in RetryEntries /\ RetryEntry.clip = Head(todoClips)
         /\ Head(todoClips) \in ClipIds /\ Head(todoClips) \in ClipsOf(retries)
<1>1. HubShape /\ PhaseInv /\ retries \in Seq(RetryEntries)
  BY DEF TickInv, HubShape
<1>2. Head(todoClips) \in ClipsOf(retries) /\ Head(todoClips) \in ClipIds
  BY <1>1, TodoFacts DEF PhaseInv
<1>3. PICK j \in 1..Len(retries) :
        RetryEntry = retries[j] /\ retries[j].clip = Head(todoClips)
  BY <1>1, <1>2, EntryFound DEF RetryEntry
<1> QED
  BY <1>1, <1>2, <1>3

LEMMA OrdersTyped ==
  ASSUME HubShape
  PROVE  /\ ClipOrder(queued) \in Seq(ClipIds) /\ ClipOrder(retries) \in Seq(ClipIds)
         /\ \A n \in 1..Len(ClipOrder(queued)) : ClipOrder(queued)[n] \in ClipsOf(queued)
         /\ \A n \in 1..Len(ClipOrder(retries)) : ClipOrder(retries)[n] \in ClipsOf(retries)
         /\ \A c \in ClipsOf(queued) : c \in ClipIds
         /\ \A c \in ClipsOf(retries) : c \in ClipIds
<1>1. queued \in Seq(ClipEntries) /\ retries \in Seq(RetryEntries)
  BY DEF HubShape
<1>2. (\A e \in ClipEntries : e.clip \in ClipIds) /\ (\A e \in RetryEntries : e.clip \in ClipIds)
  BY DEF ClipEntries, RetryEntries
<1>3. /\ \A c \in ClipsOf(queued) : c \in ClipIds
      /\ \A c \in ClipsOf(retries) : c \in ClipIds
  <2>1. ASSUME NEW c \in ClipsOf(queued) PROVE c \in ClipIds
    <3>1. PICK i \in 1..Len(queued) : queued[i].clip = c
      BY <1>1, <2>1, ClipsIn
    <3> QED
      BY <1>1, <1>2, <3>1
  <2>2. ASSUME NEW c \in ClipsOf(retries) PROVE c \in ClipIds
    <3>1. PICK i \in 1..Len(retries) : retries[i].clip = c
      BY <1>1, <2>2, ClipsIn
    <3> QED
      BY <1>1, <1>2, <3>1
  <2> QED
    BY <2>1, <2>2
<1> QED
  BY <1>1, <1>2, <1>3, ClipsOrdered

----------------------------------------------------------------------------
(* Steps that leave the entries, the files and the verdicts alone *)

SameEntries ==
  /\ UNCHANGED <<inline, cursor, cursorFile, queued, frames, runtimeFile, leaving, sentTimes,
                 fate, kills>>
  /\ \/ UNCHANGED retries
     \/ hubStep' = "retry" /\ ClipsOf(retries') = ClipsOf(retries)
  /\ \/ hubStep' = hubStep
     \/ /\ hubStep # "down" /\ hubStep' # "down" /\ hubStep # "retry" /\ hubStep' # "retry"
        /\ hubStep' \in Early => hubStep \in Early

LEMMA SameHolds ==
  ASSUME TickInv, SameEntries
  PROVE  TriesInv' /\ CarryInv' /\ OnceInv'
<1>1. QueueLeft' = QueueLeft /\ RetryLeft' = RetryLeft
  BY DEF SameEntries, QueueLeft, RetryLeft, ClipsOf
<1>2. TriesInv'
  BY <1>1 DEF TickInv, TriesInv, SameEntries
<1>3. CarryInv'
  <2>1. CarryInv
    BY DEF TickInv
  <2> QED
    BY <1>1, <2>1 DEF CarryInv, SameEntries, ClipsOf
<1>4. OnceInv'
  <2> SUFFICES ASSUME NEW c \in ClipIds
      PROVE  /\ hubStep' # "down" => sentTimes'[c] + Owed(c)' <= 1 + kills'
             /\ sentTimes'[c] + Saved(c)' <= 2 + kills'
             /\ hubStep' = "down" => sentTimes'[c] + Saved(c)' <= 1 + kills'
             /\ hubStep' \in Early /\ ~TakenUp(c)' => sentTimes'[c] + Saved(c)' <= 1 + kills'
             /\ hubStep' # "down" /\ Fresh1(c)' => sentTimes'[c] + Saved(c)' <= 1 + kills'
    BY DEF OnceInv
  <2>1. /\ hubStep # "down" => sentTimes[c] + Owed(c) <= 1 + kills
        /\ sentTimes[c] + Saved(c) <= 2 + kills
        /\ hubStep = "down" => sentTimes[c] + Saved(c) <= 1 + kills
        /\ hubStep \in Early /\ ~TakenUp(c) => sentTimes[c] + Saved(c) <= 1 + kills
        /\ hubStep # "down" /\ Fresh1(c) => sentTimes[c] + Saved(c) <= 1 + kills
    BY DEF TickInv, OnceInv
  <2>2. Owed(c)' = Owed(c) /\ Saved(c)' = Saved(c)
    BY <1>1 DEF Owed, Saved, SameEntries, ClipsOf
  <2>3. (TakenUp(c)' <=> TakenUp(c)) /\ (Fresh1(c)' <=> Fresh1(c))
    BY <1>1 DEF TakenUp, Fresh1, SameEntries, ClipsOf
  <2> QED
    BY <2>1, <2>2, <2>3 DEF SameEntries
<1> QED
  BY <1>2, <1>3, <1>4


LEMMA PhaseSame ==
  ASSUME TickInv, SameEntries, HubShape', indexed <= indexed',
         hubStep' \in {"collect", "entries", "retry", "save", "poll", "clips", "muted"}
           \/ hubStep' = hubStep
           \/ (hubStep = "asleep" /\ hubStep' = "shutdown"),
         hubStep' = "poll" => hubStep \in {"poll", "asleep"},
         hubStep' \in {"retry", "save"} => hubStep' = hubStep,
         hubStep' \in {"clips", "muted"} =>
           \/ hubStep' = hubStep /\ UNCHANGED todoClips
           \/ /\ cursorFile # NoCursor
              /\ todoClips' # <<>> /\ cursor # NoCursor /\ cursor + Len(todoClips') <= indexed'
              /\ \A n \in 1..Len(todoClips') : todoClips'[n] = cursor + n,
         leaving # {} => hubStep' \in {"entries", "retry"},
         hubStep' = "entries" =>
           \A n \in 1..Len(todoClips') : todoClips'[n] \in ClipsOf(queued),
         hubStep' = "retry" =>
           \A n \in 1..Len(todoClips') : todoClips'[n] \in ClipsOf(retries)
  PROVE  TickInv'
<1>1. PhaseInv /\ HubShape
  BY DEF TickInv
<1>2. (leaving # {})' => hubStep' \in {"entries", "retry"}
  BY DEF SameEntries
<1>3. hubStep' \in {"clips", "muted"} =>
       /\ todoClips' # <<>> /\ cursor' # NoCursor /\ cursor' + Len(todoClips') <= indexed'
       /\ \A n \in 1..Len(todoClips') : todoClips'[n] = cursor' + n
  <2> SUFFICES ASSUME hubStep' \in {"clips", "muted"}
      PROVE  /\ todoClips' # <<>> /\ cursor' # NoCursor /\ cursor' + Len(todoClips') <= indexed'
             /\ \A n \in 1..Len(todoClips') : todoClips'[n] = cursor' + n
    OBVIOUS
  <2>0. CASE ~(hubStep' = hubStep /\ UNCHANGED todoClips)
    BY <2>0 DEF SameEntries
  <2> SUFFICES ASSUME hubStep' = hubStep, todoClips' = todoClips
      PROVE  /\ todoClips' # <<>> /\ cursor' # NoCursor /\ cursor' + Len(todoClips') <= indexed'
             /\ \A n \in 1..Len(todoClips') : todoClips'[n] = cursor' + n
    BY <2>0
  <2>1. hubStep' = hubStep
    OBVIOUS
  <2>2. /\ todoClips # <<>> /\ cursor # NoCursor /\ cursor + Len(todoClips) <= indexed
        /\ \A n \in 1..Len(todoClips) : todoClips[n] = cursor + n
    BY <1>1, <2>1 DEF PhaseInv
  <2>3. /\ indexed \in Int /\ indexed' \in Int /\ Len(todoClips) \in Int /\ cursor \in Int
    BY <1>1, HubConstants DEF HubShape, NoCursor
  <2>4. cursor' = cursor /\ todoClips' = todoClips
    BY DEF SameEntries
  <2> QED
    BY <2>2, <2>3, <2>4
<1>4. (hubStep = "retry" => \A c \in leaving : frames[c] = "none")'
  BY <1>1 DEF PhaseInv, SameEntries
<1>5. cursorFile' <= indexed' /\ (hubStep' # "down" => cursorFile' <= cursor' /\ cursor' <= indexed')
  <2>1. /\ indexed \in Int /\ indexed' \in Int /\ cursorFile \in Int /\ cursor \in Int
    BY <1>1, HubConstants DEF HubShape, NoCursor
  <2>2. cursorFile <= indexed /\ (hubStep # "down" => cursorFile <= cursor /\ cursor <= indexed)
    BY <1>1 DEF PhaseInv
  <2>3. hubStep' # "down" => hubStep # "down"
    BY DEF SameEntries
  <2> QED
    BY <2>1, <2>2, <2>3 DEF SameEntries
<1>6. (hubStep \in {"asleep", "poll", "rest", "shutdown"})' => cursor' = cursorFile'
  BY <1>1 DEF PhaseInv, SameEntries
<1>7. hubStep' = "cursor" => cursor' = cursorFile' \/ runtimeFile' = HubSnapshot'
  BY <1>1 DEF PhaseInv, SameEntries, HubSnapshot
<1>8. hubStep' \in Early =>
       \A c \in ClipIds : c \in ClipsOf(retries') =>
         c \in ClipsOf(runtimeFile'.retries) \/ TakenUp(c)'
  <2>1. \A c \in ClipIds : TakenUp(c)' <=> TakenUp(c)
    BY DEF TakenUp, SameEntries
  <2>2. hubStep' \in Early => hubStep \in Early
    BY DEF SameEntries
  <2> QED
    BY <1>1, <2>1, <2>2 DEF PhaseInv, SameEntries
<1>9. inline' => ClipsOf(queued') = {} /\ ClipsOf(runtimeFile'.clips) = {}
  BY <1>1 DEF PhaseInv, SameEntries
<1>10. cursorFile' = NoCursor =>
       /\ hubStep' \notin {"clips", "muted"}
       /\ ClipsOf(queued') = {} /\ ClipsOf(retries') = {}
       /\ ClipsOf(runtimeFile'.clips) = {} /\ ClipsOf(runtimeFile'.retries) = {}
       /\ \A c \in ClipIds : fate'[c] \in {"unseen", "history"}
  BY <1>1 DEF PhaseInv, SameEntries
<1>11. PhaseInv'
  BY <1>2, <1>3, <1>4, <1>5, <1>6, <1>7, <1>8, <1>9, <1>10 DEF PhaseInv, SameEntries, ClipsOf
<1> QED
  BY <1>11, SameHolds DEF TickInv


LEMMA QuietSteps ==
  ASSUME TickInv,
         \/ TickBegins \/ PollMisses \/ EntrySkipped \/ EntrySubmitted \/ JobReturns
         \/ RetryWaits \/ Signal \/ ClipIndexed
         \/ UNCHANGED hubVars
  PROVE  TickInv'
<1>0. HubShape /\ PhaseInv
  BY DEF TickInv
<1> USE DEF hubWorldVars, filesVars
<1>1. CASE TickBegins
  <2>1. HubShape'
    BY <1>0, <1>1 DEF TickBegins, HubShape
  <2>2. SameEntries
    BY <1>1 DEF TickBegins, SameEntries, Early
  <2> QED
    BY <1>0, <1>1, <2>1, <2>2, PhaseSame, HubConstants DEF TickBegins, PhaseInv, HubShape
<1>2. CASE PollMisses
  <2>1. HubShape'
    BY <1>0, <1>2 DEF PollMisses, HubShape
  <2>2. SameEntries
    BY <1>2 DEF PollMisses, SameEntries, Early
  <2> QED
    BY <1>0, <1>2, <2>1, <2>2, PhaseSame, HubConstants DEF PollMisses, PhaseInv, HubShape
<1>3. CASE EntrySkipped
  <2>1. hubStep = "entries" /\ todoClips # <<>> /\ todoClips' = Tail(todoClips) /\ hubStep' = hubStep
    BY <1>3 DEF EntrySkipped, EntryVisited
  <2>2. HubShape'
    BY <1>0, <1>3, <2>1, TodoFacts DEF EntrySkipped, HubShape
  <2>3. SameEntries
    BY <1>3, <2>1 DEF EntrySkipped, SameEntries
  <2>4. \A n \in 1..Len(todoClips') : todoClips'[n] \in ClipsOf(queued)
    BY <1>0, <2>1, TodoFacts DEF PhaseInv
  <2>5. indexed' = indexed /\ indexed \in Int
    BY <1>0, <1>3, HubConstants DEF EntrySkipped, HubShape
  <2> QED
    BY <2>1, <2>2, <2>3, <2>4, <2>5, PhaseSame
<1>4. CASE EntrySubmitted
  <2>1. hubStep = "entries" /\ todoClips # <<>> /\ todoClips' = Tail(todoClips) /\ hubStep' = hubStep
    BY <1>4 DEF EntrySubmitted, EntryVisited
  <2>2. job' \in [clip : 0..HubClips, stage : {"none", "running", "done"}, frames : BOOLEAN]
    <3>1. QueueEntry.clip \in ClipIds
      BY <2>1, AtQueueEntry
    <3>2. QueueEntry.clip \in 0..HubClips
      BY <3>1, HubConstants DEF ClipIds
    <3> QED
      BY <1>4, <3>2 DEF EntrySubmitted
  <2>3. HubShape'
    BY <1>0, <1>4, <2>1, <2>2, TodoFacts DEF EntrySubmitted, HubShape
  <2>4. SameEntries
    BY <1>4, <2>1 DEF EntrySubmitted, SameEntries
  <2>5. \A n \in 1..Len(todoClips') : todoClips'[n] \in ClipsOf(queued)
    BY <1>0, <2>1, TodoFacts DEF PhaseInv
  <2>6. indexed' = indexed /\ indexed \in Int
    BY <1>0, <1>4, HubConstants DEF EntrySubmitted, HubShape
  <2> QED
    BY <2>1, <2>3, <2>4, <2>5, <2>6, PhaseSame
<1>5. CASE JobReturns
  <2>1. HubShape'
    BY <1>0, <1>5 DEF JobReturns, HubShape
  <2>2. SameEntries /\ hubStep' = hubStep /\ todoClips' = todoClips
    BY <1>5 DEF JobReturns, SameEntries
  <2>3. indexed' = indexed /\ indexed \in Int
    BY <1>0, <1>5, HubConstants DEF JobReturns, HubShape
  <2> QED
    BY <1>0, <2>1, <2>2, <2>3, PhaseSame DEF PhaseInv
<1>6. CASE RetryWaits
  <2>1. hubStep = "retry" /\ todoClips # <<>> /\ todoClips' = Tail(todoClips) /\ hubStep' = hubStep
    BY <1>6 DEF RetryWaits, RetryVisits
  <2>2. HubShape'
    BY <1>0, <1>6, <2>1, TodoFacts DEF RetryWaits, HubShape
  <2>3. SameEntries
    BY <1>6, <2>1 DEF RetryWaits, SameEntries
  <2>4. \A n \in 1..Len(todoClips') : todoClips'[n] \in ClipsOf(retries)
    BY <1>0, <2>1, TodoFacts DEF PhaseInv
  <2>5. indexed' = indexed /\ indexed \in Int
    BY <1>0, <1>6, HubConstants DEF RetryWaits, HubShape
  <2> QED
    BY <2>1, <2>2, <2>3, <2>4, <2>5, PhaseSame
<1>7. CASE Signal
  <2>1. HubShape'
    BY <1>0, <1>7 DEF Signal, HubShape
  <2>2. SameEntries /\ todoClips' = todoClips
    BY <1>7 DEF Signal, SameEntries, Early
  <2>3. indexed' = indexed /\ indexed \in Int
    BY <1>0, <1>7, HubConstants DEF Signal, HubShape
  <2>4. hubStep' = hubStep \/ (hubStep = "asleep" /\ hubStep' = "shutdown")
    BY <1>7 DEF Signal
  <2> QED
    BY <1>0, <2>1, <2>2, <2>3, <2>4, PhaseSame DEF PhaseInv
<1>8. CASE ClipIndexed
  <2>1. HubShape'
    BY <1>0, <1>8, HubConstants DEF ClipIndexed, HubShape
  <2>2. SameEntries /\ hubStep' = hubStep /\ todoClips' = todoClips
    BY <1>8 DEF ClipIndexed, SameEntries
  <2>3. indexed <= indexed'
    BY <1>0, <1>8, HubConstants DEF ClipIndexed, HubShape
  <2> QED
    BY <1>0, <2>1, <2>2, <2>3, PhaseSame DEF PhaseInv
<1>9. CASE UNCHANGED hubVars
  <2>1. HubShape'
    BY <1>0, <1>9 DEF hubVars, HubShape
  <2>2. SameEntries /\ hubStep' = hubStep /\ todoClips' = todoClips
    BY <1>9 DEF hubVars, SameEntries
  <2>3. indexed' = indexed /\ indexed \in Int
    BY <1>0, <1>9, HubConstants DEF hubVars, HubShape
  <2> QED
    BY <1>0, <2>1, <2>2, <2>3, PhaseSame DEF PhaseInv
<1> QED
  BY <1>1, <1>2, <1>3, <1>4, <1>5, <1>6, <1>7, <1>8, <1>9


LEMMA PollAnswersStep == ASSUME TickInv, PollAnswers PROVE TickInv'
<1>0. /\ HubShape /\ PhaseInv /\ hubStep = "poll" /\ leaving = {}
      /\ cursor = cursorFile /\ cursor <= indexed
      /\ cursor \in NoCursor..HubClips /\ indexed \in 0..HubClips /\ HubClips \in Nat
  BY HubConstants DEF TickInv, PhaseInv, HubShape, PollAnswers
<1> USE DEF hubWorldVars, filesVars
<1>1. CASE cursor # NoCursor
  <2>1. todoClips' = [i \in 1..indexed - cursor |-> cursor + i]
    BY <1>1 DEF PollAnswers
  <2>2. cursor \in Nat /\ indexed - cursor \in Nat
    BY <1>0, <1>1 DEF NoCursor
  <2>3. /\ todoClips' \in Seq(ClipIds) /\ Len(todoClips') = indexed - cursor
        /\ \A n \in 1..Len(todoClips') : todoClips'[n] = cursor + n
    <3>1. \A i \in 1..indexed - cursor : cursor + i \in ClipIds
      BY <1>0, <2>2 DEF ClipIds
    <3>2. todoClips' \in [1..indexed - cursor -> ClipIds]
      BY <2>1, <3>1
    <3>3. todoClips' \in Seq(ClipIds) /\ Len(todoClips') = indexed - cursor
      BY <2>1, <2>2, <3>2
    <3> QED
      BY <2>1, <3>3
  <2>4. hubStep' \in {"collect", "clips", "muted"} /\ (hubStep' \in {"clips", "muted"} => todoClips' # <<>>)
    BY <1>1 DEF PollAnswers
  <2>5. SameEntries
    BY <1>0, <1>1, <2>4 DEF PollAnswers, SameEntries, Early
  <2>6. HubShape'
    BY <1>0, <1>1, <2>3, <2>4 DEF PollAnswers, HubShape
  <2>7. cursor + Len(todoClips') <= indexed' /\ indexed <= indexed'
    BY <1>0, <2>2, <2>3 DEF PollAnswers
  <2> QED
    BY <1>0, <1>1, <2>3, <2>4, <2>5, <2>6, <2>7, PhaseSame
<1>2. CASE cursor = NoCursor
  <2>1. /\ cursor' = indexed /\ hubStep' = "collect"
        /\ fate' = [c \in ClipIds |->
                      IF c <= indexed /\ fate[c] = "unseen" THEN "history" ELSE fate[c]]
        /\ UNCHANGED <<indexed, inline, cursorFile, runtimeFile, queued, job, retries, frames,
                       leaving, stopping, sentTimes, kills, trouble, todoClips>>
        /\ resolved' = TRUE
    BY <1>2 DEF PollAnswers
  <2>2. cursorFile = NoCursor
    BY <1>0, <1>2
  <2>3. /\ ClipsOf(queued) = {} /\ ClipsOf(retries) = {}
        /\ ClipsOf(runtimeFile.clips) = {} /\ ClipsOf(runtimeFile.retries) = {}
        /\ \A c \in ClipIds : fate[c] \in {"unseen", "history"}
    BY <1>0, <2>2 DEF PhaseInv
  <2>4. \A c \in ClipIds : fate'[c] \in {"unseen", "history"} /\ (c <= indexed => fate'[c] = "history")
    BY <2>1, <2>3
  <2>5. HubShape'
    <3>1. fate' \in [ClipIds -> HubFates]
      BY <1>0, <2>1 DEF HubShape, HubFates
    <3>2. cursor' \in NoCursor..HubClips
      BY <1>0, <2>1 DEF NoCursor
    <3> QED
      BY <1>0, <2>1, <3>1, <3>2 DEF HubShape
  <2>6. PhaseInv'
    <3>1. cursorFile' <= indexed' /\ cursorFile' <= cursor' /\ cursor' <= indexed'
      BY <1>0, <2>1
    <3>2. /\ ClipsOf(queued') = {} /\ ClipsOf(retries') = {}
          /\ ClipsOf(runtimeFile'.clips) = {} /\ ClipsOf(runtimeFile'.retries) = {}
      BY <2>1, <2>3
    <3>3. leaving' = {} /\ hubStep' = "collect"
      BY <1>0, <2>1
    <3> QED
      BY <2>4, <3>1, <3>2, <3>3 DEF PhaseInv, ClipsOf
  <2>7. QueueLeft' = {} /\ RetryLeft' = {}
    BY <2>1, <2>3 DEF QueueLeft, RetryLeft, ClipsOf
  <2>8. TriesInv'
    <3>1. TriesInv /\ queued' = queued /\ runtimeFile' = runtimeFile /\ kills' = kills
      BY <2>1 DEF TickInv
    <3>2. QueueLeft = {}
      BY <1>0, <2>3 DEF QueueLeft
    <3> QED
      BY <2>7, <3>1, <3>2 DEF TriesInv
  <2>9. CarryInv'
    <3>1. \A c \in ClipIds : ~(c <= cursorFile)
      BY <2>2 DEF NoCursor, ClipIds
    <3> QED
      BY <2>1, <2>4, <3>1 DEF CarryInv
  <2>10. OnceInv'
    <3> SUFFICES ASSUME NEW c \in ClipIds
        PROVE  /\ sentTimes'[c] + Owed(c)' <= 1 + kills'
               /\ sentTimes'[c] + Saved(c)' <= 2 + kills'
               /\ ~TakenUp(c)' => sentTimes'[c] + Saved(c)' <= 1 + kills'
               /\ ~Fresh1(c)'
      BY <2>1 DEF OnceInv
    <3>1. ~Fresh1(c)'
      BY <2>7 DEF Fresh1
    <3>2. /\ sentTimes[c] + Owed(c) <= 1 + kills
          /\ sentTimes[c] + Saved(c) <= 2 + kills
          /\ ~TakenUp(c) => sentTimes[c] + Saved(c) <= 1 + kills
      BY <1>0 DEF TickInv, OnceInv, Early
    <3>3. Owed(c) = 1 /\ (Owed(c)' = 0 \/ Owed(c)' = 1)
      <4>1. cursor < c
        BY <1>2 DEF NoCursor, ClipIds
      <4>2. QueueLeft = {} /\ RetryLeft = {}
        BY <1>0, <2>3 DEF QueueLeft, RetryLeft
      <4> QED
        BY <2>7, <4>1, <4>2 DEF Owed
    <3>4. Saved(c)' = Saved(c)
      BY <2>1 DEF Saved, ClipsOf
    <3>5. ~TakenUp(c)
      BY <1>0, <1>2, <2>2 DEF TakenUp, NoCursor, ClipIds
    <3>6. sentTimes[c] \in Nat /\ kills \in Nat /\ sentTimes' = sentTimes /\ kills' = kills
      BY <1>0, <2>1 DEF HubShape
    <3> QED
      BY <3>1, <3>2, <3>3, <3>4, <3>5, <3>6
  <2> QED
    BY <2>5, <2>6, <2>8, <2>9, <2>10 DEF TickInv
<1> QED
  BY <1>1, <1>2


----------------------------------------------------------------------------
(* The clips of a poll, one by one *)

LEMMA AtClip ==
  ASSUME TickInv, hubStep \in {"clips", "muted"}, cursor' = Head(todoClips)
  PROVE  /\ cursor' = cursor + 1 /\ cursor' \in ClipIds /\ cursor' <= indexed
         /\ cursor' \in NoCursor..HubClips
         /\ cursor \in Int /\ cursorFile \in Int /\ indexed \in Int /\ cursorFile <= cursor
         /\ todoClips # <<>> /\ leaving = {} /\ cursorFile # NoCursor
<1>1. HubShape /\ PhaseInv
  BY DEF TickInv
<1>2. /\ todoClips # <<>> /\ cursor # NoCursor /\ cursor + Len(todoClips) <= indexed
      /\ \A n \in 1..Len(todoClips) : todoClips[n] = cursor + n
      /\ leaving = {} /\ cursorFile # NoCursor /\ cursorFile <= cursor
  BY <1>1 DEF PhaseInv
<1>3. Len(todoClips) \in Nat /\ Len(todoClips) >= 1 /\ cursor' = todoClips[1] /\ cursor' \in ClipIds
  BY <1>1, <1>2, TodoFacts
<1>4. cursor \in Int /\ cursorFile \in Int /\ indexed \in Int /\ HubClips \in Nat
  BY <1>1, HubConstants DEF HubShape, NoCursor
<1>5. cursor' = cursor + 1 /\ cursor' <= indexed
  <2>1. 1 \in 1..Len(todoClips)
    BY <1>3
  <2>2. todoClips[1] = cursor + 1
    BY <1>2, <2>1
  <2> QED
    BY <1>2, <1>3, <1>4, <2>2
<1>6. cursor' \in NoCursor..HubClips
  BY <1>3, <1>4 DEF ClipIds, NoCursor
<1> QED
  BY <1>2, <1>3, <1>4, <1>5, <1>6

LEMMA NextTodo ==
  ASSUME TickInv, NEW from \in {"clips", "muted"}, NextClip(from)
  PROVE  /\ todoClips' \in Seq(ClipIds)
         /\ hubStep \in {"clips", "muted"} /\ cursor' = Head(todoClips)
         /\ hubStep' \in {"clips", "muted", "collect"}
         /\ hubStep' \in {"clips", "muted"} =>
              /\ todoClips' # <<>> /\ cursor' # NoCursor /\ cursor' + Len(todoClips') <= indexed
              /\ \A n \in 1..Len(todoClips') : todoClips'[n] = cursor' + n
<1>1. HubShape /\ PhaseInv
  BY DEF TickInv
<1>2. /\ hubStep = from /\ cursor' = Head(todoClips) /\ todoClips' = Tail(todoClips)
      /\ hubStep' = IF todoClips' = <<>> THEN "collect" ELSE from
  BY DEF NextClip
<1>3. /\ todoClips # <<>> /\ cursor # NoCursor /\ cursor + Len(todoClips) <= indexed
      /\ \A n \in 1..Len(todoClips) : todoClips[n] = cursor + n
  BY <1>1, <1>2 DEF PhaseInv
<1>4. /\ cursor' = cursor + 1 /\ cursor' \in ClipIds
      /\ cursor \in Int /\ indexed \in Int
  BY <1>2, AtClip
<1>5. /\ todoClips' \in Seq(ClipIds) /\ Len(todoClips') = Len(todoClips) - 1
      /\ Len(todoClips) \in Nat
      /\ \A n \in 1..Len(todoClips) - 1 : todoClips'[n] = todoClips[n + 1]
  BY <1>1, <1>2, <1>3, TodoFacts
<1>6. \A n \in 1..Len(todoClips') : todoClips'[n] = cursor' + n
  <2> SUFFICES ASSUME NEW n \in 1..Len(todoClips') PROVE todoClips'[n] = cursor' + n
    OBVIOUS
  <2>1. n \in Int /\ n + 1 \in 1..Len(todoClips) /\ n \in 1..Len(todoClips) - 1
    BY <1>5
  <2>2. todoClips'[n] = cursor + (n + 1)
    BY <1>3, <1>5, <2>1
  <2> QED
    BY <1>4, <2>1, <2>2
<1>7. cursor' + Len(todoClips') <= indexed
  BY <1>3, <1>4, <1>5
<1>8. cursor' # NoCursor
  BY <1>4 DEF ClipIds, NoCursor
<1> QED
  BY <1>2, <1>5, <1>6, <1>7, <1>8

(* The cursor passes one clip, which is settled, queued, or kept for a retry.   *)
Passes(c) ==
  /\ hubStep \in {"clips", "muted"} /\ cursor' = Head(todoClips) /\ c = Head(todoClips)
  /\ UNCHANGED <<indexed, inline, cursorFile, runtimeFile, leaving>> /\ kills' >= kills
  /\ \A d \in ClipIds : d # c =>
       /\ frames'[d] = frames[d] /\ sentTimes'[d] = sentTimes[d] /\ fate'[d] = fate[d]
       /\ d \in ClipsOf(retries') <=> d \in ClipsOf(retries)
       /\ d \in ClipsOf(queued') <=> d \in ClipsOf(queued)
  /\ hubStep' \in {"clips", "muted", "collect", "retry"}
  /\ fate'[c] # "unseen"
  /\ \/ /\ fate'[c] \notin {"queued", "retry"} /\ UNCHANGED <<queued, retries, frames>>
        /\ \/ sentTimes'[c] = sentTimes[c]
           \/ sentTimes'[c] = sentTimes[c] + 1 /\ inline /\ hubStep' # "retry"
     \/ /\ fate'[c] = "queued" /\ ~inline /\ ClipsOf(queued') = ClipsOf(queued) \cup {c}
        /\ UNCHANGED <<retries, frames, sentTimes>>
     \/ /\ fate'[c] = "retry" /\ inline /\ hubStep' # "retry" /\ UNCHANGED <<queued, sentTimes>>
        /\ frames'[c] # "none" /\ ClipsOf(retries') = ClipsOf(retries) \cup {c}

LEMMA PassesHolds ==
  ASSUME TickInv, NEW c, Passes(c), HubShape', TriesInv',
         hubStep' \in {"clips", "muted"} =>
           /\ todoClips' # <<>> /\ cursor' # NoCursor /\ cursor' + Len(todoClips') <= indexed
           /\ \A n \in 1..Len(todoClips') : todoClips'[n] = cursor' + n,
         hubStep' = "retry" =>
           \A n \in 1..Len(todoClips') : todoClips'[n] \in ClipsOf(retries')
  PROVE  TickInv'
<1>0. HubShape /\ PhaseInv
  BY DEF TickInv
<1>1. /\ c = cursor + 1 /\ cursor' = c /\ c \in ClipIds /\ c <= indexed /\ c \in Int
      /\ cursor \in Int /\ cursorFile \in Int /\ indexed \in Int /\ cursorFile <= cursor
      /\ todoClips # <<>> /\ leaving = {} /\ leaving' = {} /\ cursorFile # NoCursor
      /\ hubStep \in {"clips", "muted"} /\ hubStep' \in {"clips", "muted", "collect", "retry"}
      /\ UNCHANGED <<indexed, inline, cursorFile, runtimeFile>>
  BY AtClip DEF Passes, ClipIds
<1>2. /\ QueueLeft = ClipsOf(queued) /\ RetryLeft = ClipsOf(retries)
      /\ QueueLeft' = ClipsOf(queued') /\ RetryLeft' = ClipsOf(retries')
  BY <1>1 DEF QueueLeft, RetryLeft, ClipsOf
<1>3. \A d \in ClipIds : d # c =>
       /\ frames'[d] = frames[d] /\ sentTimes'[d] = sentTimes[d] /\ fate'[d] = fate[d]
       /\ d \in ClipsOf(retries') <=> d \in ClipsOf(retries)
       /\ d \in ClipsOf(queued') <=> d \in ClipsOf(queued)
  BY DEF Passes
<1>4. /\ \A d \in ClipIds : d # c => (TakenUp(d)' <=> TakenUp(d))
      /\ ~TakenUp(c) /\ (TakenUp(c)' <=> inline)
  BY <1>1 DEF TakenUp, ClipIds
<1>5. c \in ClipsOf(retries) => c \in ClipsOf(runtimeFile.retries)
  BY <1>0, <1>1, <1>4 DEF PhaseInv, Early
<1>6. /\ c \in ClipsOf(queued) => c \in ClipsOf(queued')
      /\ c \in ClipsOf(retries) => c \in ClipsOf(retries')
  BY DEF Passes
<1>7. PhaseInv'
  <2>1. hubStep' \in Early => \A d \in ClipIds : d \in ClipsOf(retries') =>
          d \in ClipsOf(runtimeFile'.retries) \/ TakenUp(d)'
    <3> SUFFICES ASSUME NEW d \in ClipIds, d \in ClipsOf(retries')
                 PROVE  d \in ClipsOf(runtimeFile.retries) \/ TakenUp(d)'
      BY <1>1 DEF ClipsOf
    <3>1. CASE d # c
      <4>1. d \in ClipsOf(retries)
        BY <1>3, <3>1
      <4>2. d \in ClipsOf(runtimeFile.retries) \/ TakenUp(d)
        BY <1>0, <1>1, <4>1 DEF PhaseInv, Early
      <4> QED
        BY <1>4, <3>1, <4>2
    <3>2. CASE d = c
      <4>1. c \in ClipsOf(retries) \/ inline
        BY <3>2 DEF Passes, ClipsOf
      <4> QED
        BY <1>4, <1>5, <3>2, <4>1
    <3> QED
      BY <3>1, <3>2
  <2>2. inline => ClipsOf(queued') = {} /\ ClipsOf(runtimeFile.clips) = {}
    <3>1. inline => ClipsOf(queued) = {} /\ ClipsOf(runtimeFile.clips) = {}
      BY <1>0 DEF PhaseInv
    <3>2. inline => ClipsOf(queued') = ClipsOf(queued)
      BY DEF Passes
    <3> QED
      BY <3>1, <3>2
  <2>3. cursorFile' <= indexed' /\ cursorFile' <= cursor' /\ cursor' <= indexed'
    BY <1>1
  <2> QED
    BY <1>1, <2>1, <2>2, <2>3 DEF PhaseInv, ClipsOf
<1>8. CarryInv'
  <2>1. \A d \in ClipIds : d <= cursor =>
         /\ fate[d] # "unseen"
         /\ fate[d] = "queued" => d \in ClipsOf(queued)
         /\ fate[d] = "retry" => d \in ClipsOf(queued) \cup ClipsOf(retries)
    BY <1>1, <1>2 DEF TickInv, CarryInv
  <2>2. \A d \in ClipIds : d <= cursorFile =>
       /\ fate[d] # "unseen"
       /\ fate[d] = "queued" => d \in ClipsOf(runtimeFile.clips)
       /\ fate[d] = "retry" => d \in ClipsOf(runtimeFile.clips) \cup ClipsOf(runtimeFile.retries)
       /\ d \in ClipsOf(queued) => d \in ClipsOf(runtimeFile.clips)
    BY DEF TickInv, CarryInv
  <2>3. ASSUME NEW d \in ClipIds, d <= cursor'
        PROVE  /\ fate'[d] # "unseen"
               /\ fate'[d] = "queued" => d \in ClipsOf(queued')
               /\ fate'[d] = "retry" => d \in ClipsOf(queued') \cup ClipsOf(retries')
    <3>1. CASE d = c
      BY <3>1 DEF Passes
    <3>2. CASE d # c
      <4>1. d <= cursor
        BY <1>1, <2>3, <3>2 DEF ClipIds
      <4> QED
        BY <1>3, <2>1, <3>2, <4>1
    <3> QED
      BY <3>1, <3>2
  <2>4. ASSUME NEW d \in ClipIds, d <= cursorFile
        PROVE  /\ fate'[d] # "unseen"
               /\ fate'[d] = "queued" => d \in ClipsOf(runtimeFile.clips)
               /\ fate'[d] = "retry" =>
                    d \in ClipsOf(runtimeFile.clips) \cup ClipsOf(runtimeFile.retries)
               /\ d \in ClipsOf(queued') => d \in ClipsOf(runtimeFile.clips)
    <3>1. d # c
      BY <1>1, <2>4 DEF ClipIds
    <3> QED
      BY <1>3, <2>2, <2>4, <3>1
  <2> QED
    BY <1>1, <1>2, <2>3, <2>4 DEF CarryInv
<1>9. OnceInv'
  <2>0. /\ sentTimes \in [ClipIds -> Nat] /\ sentTimes' \in [ClipIds -> Nat]
        /\ kills \in Nat /\ kills' \in Nat /\ kills' >= kills
    BY <1>0 DEF HubShape, Passes
  <2>1. ASSUME NEW d \in ClipIds
        PROVE  /\ sentTimes[d] + Owed(d) <= 1 + kills
               /\ sentTimes[d] + Saved(d) <= 2 + kills
               /\ ~TakenUp(d) => sentTimes[d] + Saved(d) <= 1 + kills
               /\ Fresh1(d) => sentTimes[d] + Saved(d) <= 1 + kills
    BY <1>1 DEF TickInv, OnceInv, Early
  <2> SUFFICES ASSUME NEW d \in ClipIds
      PROVE  /\ sentTimes'[d] + Owed(d)' <= 1 + kills
             /\ sentTimes'[d] + Saved(d)' <= 2 + kills
             /\ hubStep' \in Early /\ ~TakenUp(d)' => sentTimes'[d] + Saved(d)' <= 1 + kills
             /\ Fresh1(d)' => sentTimes'[d] + Saved(d)' <= 1 + kills
    <3> SUFFICES ASSUME NEW d \in ClipIds,
                        sentTimes'[d] + Owed(d)' <= 1 + kills,
                        sentTimes'[d] + Saved(d)' <= 2 + kills,
                        hubStep' \in Early /\ ~TakenUp(d)' => sentTimes'[d] + Saved(d)' <= 1 + kills,
                        Fresh1(d)' => sentTimes'[d] + Saved(d)' <= 1 + kills
                 PROVE  /\ sentTimes'[d] + Owed(d)' <= 1 + kills'
                        /\ sentTimes'[d] + Saved(d)' <= 2 + kills'
                        /\ hubStep' \in Early /\ ~TakenUp(d)' => sentTimes'[d] + Saved(d)' <= 1 + kills'
                        /\ Fresh1(d)' => sentTimes'[d] + Saved(d)' <= 1 + kills'
      BY <1>1 DEF OnceInv
    <3>1. Owed(d)' \in Int /\ Saved(d)' \in Int /\ sentTimes'[d] \in Int
      BY <2>0 DEF Owed, Saved
    <3> QED BY <2>0, <3>1
  <2>2. CASE d # c
    <3>1. Owed(d)' = Owed(d)
      <4>1. (cursor' < d) <=> (cursor < d)
        BY <1>1, <2>2 DEF ClipIds
      <4> QED
        BY <1>2, <1>3, <2>2, <4>1 DEF Owed
    <3>2. /\ UNCHANGED <<cursorFile, runtimeFile>> /\ frames'[d] = frames[d]
          /\ ClipsOf(runtimeFile.clips)' = ClipsOf(runtimeFile.clips)
          /\ ClipsOf(runtimeFile.retries)' = ClipsOf(runtimeFile.retries)
      <4>1. UNCHANGED <<cursorFile, runtimeFile>> /\ frames'[d] = frames[d]
        BY <2>2 DEF Passes
      <4> QED
        BY <4>1 DEF ClipsOf
    <3>3. Saved(d)' = Saved(d)
      BY ONLY <3>2 DEF Saved
    <3>4. Fresh1(d)' <=> Fresh1(d)
      BY <1>1, <1>2, <1>3, <2>2 DEF Fresh1, ClipsOf
    <3> QED
      BY <1>1, <1>3, <1>4, <2>1, <2>2, <3>1, <3>3, <3>4
  <2>3. CASE d = c
    <3>0. sentTimes[c] \in Nat /\ sentTimes'[c] \in Nat
      BY <1>1, <2>0
    <3>1. cursor < c /\ ~(cursor' < c) /\ cursorFile < c
      BY <1>1
    <3>2. /\ sentTimes[c] + Owed(c) <= 1 + kills
          /\ sentTimes[c] + Saved(c) <= 1 + kills
      BY <1>1, <1>4, <2>1
    <3>3. Fresh1(c)' <=> c \in ClipsOf(retries') /\ c \notin ClipsOf(runtimeFile.retries) /\ frames'[c] # "none"
      BY <1>1, <1>2 DEF Fresh1, ClipsOf
    <3>4. /\ Owed(c) = 1 + (IF c \in ClipsOf(queued) THEN 1 ELSE 0)
                         + (IF c \in ClipsOf(retries) /\ frames[c] # "none" THEN 1 ELSE 0)
          /\ Owed(c)' = (IF c \in ClipsOf(queued') THEN 1 ELSE 0)
                         + (IF c \in ClipsOf(retries') /\ frames'[c] # "none" THEN 1 ELSE 0)
      BY <1>2, <3>1 DEF Owed
    <3>5. /\ Saved(c) = 1 + (IF c \in ClipsOf(runtimeFile.clips) THEN 1 ELSE 0)
                         + (IF c \in ClipsOf(runtimeFile.retries) /\ frames[c] # "none" THEN 1 ELSE 0)
          /\ Saved(c)' = 1 + (IF c \in ClipsOf(runtimeFile.clips) THEN 1 ELSE 0)
                         + (IF c \in ClipsOf(runtimeFile.retries) /\ frames'[c] # "none" THEN 1 ELSE 0)
      BY <1>1, <3>1 DEF Saved, ClipsOf
    <3>6. CASE /\ UNCHANGED <<queued, retries, frames>>
               /\ \/ sentTimes'[c] = sentTimes[c]
                  \/ sentTimes'[c] = sentTimes[c] + 1 /\ inline /\ hubStep' # "retry"
      <4>1. Owed(c)' = Owed(c) - 1 /\ Saved(c)' = Saved(c) /\ Owed(c) \in Nat /\ Saved(c) \in Nat
        BY <3>4, <3>5, <3>6 DEF ClipsOf
      <4>2. ~Fresh1(c)'
        BY <1>5, <3>3, <3>6 DEF ClipsOf
      <4> QED
        BY <1>4, <2>0, <2>3, <3>0, <3>2, <3>6, <4>1, <4>2
    <3>7. CASE /\ ~inline /\ ClipsOf(queued') = ClipsOf(queued) \cup {c}
               /\ UNCHANGED <<retries, frames, sentTimes>>
      <4>1. Owed(c)' <= Owed(c) /\ Saved(c)' = Saved(c) /\ {Owed(c), Owed(c)', Saved(c)} \subseteq Nat
        BY <3>4, <3>5, <3>7 DEF ClipsOf
      <4>2. ~Fresh1(c)'
        BY <1>5, <3>3, <3>7 DEF ClipsOf
      <4> QED
        BY <1>4, <2>0, <2>3, <3>0, <3>2, <3>7, <4>1, <4>2
    <3>8. CASE /\ inline /\ hubStep' # "retry" /\ UNCHANGED <<queued, sentTimes>>
               /\ frames'[c] # "none" /\ ClipsOf(retries') = ClipsOf(retries) \cup {c}
      <4>1. /\ Owed(c)' <= Owed(c) /\ Saved(c)' <= Saved(c) + 1
            /\ c \notin ClipsOf(runtimeFile.retries) => Saved(c)' = Saved(c)
            /\ {Owed(c), Owed(c)', Saved(c), Saved(c)'} \subseteq Nat
        BY <3>4, <3>5, <3>8 DEF ClipsOf
      <4> QED
        BY <1>4, <2>0, <2>3, <3>0, <3>2, <3>3, <3>8, <4>1
    <3> QED
      BY <3>6, <3>7, <3>8 DEF Passes
  <2> QED
    BY <2>2, <2>3
<1> QED
  BY <1>7, <1>8, <1>9 DEF TickInv


LEMMA ClipSteps ==
  ASSUME TickInv, ClipMuted \/ ClipQueued \/ ClipInline \/ ClipRaises \/ ClipCutOff
  PROVE  TickInv'
<1>0. HubShape /\ PhaseInv /\ TriesInv
  BY DEF TickInv
<1> USE DEF hubWorldVars, filesVars
<1> DEFINE c == Head(todoClips)
<1>0a. FinishTries \in Nat /\ FinishTries >= 1 /\ kills \in Nat
  BY <1>0, HubConstants DEF HubShape
<1>1. CASE ClipMuted
  <2>1. NextClip("muted")
    BY <1>1 DEF ClipMuted
  <2>2. c \in ClipIds /\ cursor' = c /\ cursor' \in NoCursor..HubClips /\ leaving = {}
    BY <2>1, NextTodo, AtClip
  <2>3. "muted" \in HubFates
    BY DEF HubFates
  <2>4. HubShape'
    BY <1>0, <1>1, <2>1, <2>2, <2>3, NextTodo DEF ClipMuted, HubShape
  <2>5. Passes(c)
    BY <1>0, <1>1, <2>1, <2>2, NextTodo DEF ClipMuted, Passes, HubShape, ClipsOf
  <2>6. TriesInv'
    <3>1. QueueLeft' = QueueLeft /\ UNCHANGED <<queued, runtimeFile, kills>>
      BY <1>1, <2>1, <2>2, NextTodo DEF ClipMuted, QueueLeft, ClipsOf
    <3> QED
      BY <1>0, <3>1 DEF TriesInv
  <2> QED
    BY <2>1, <2>4, <2>5, <2>6, NextTodo, PassesHolds
<1>2. CASE ClipQueued
  <2>1. NextClip("clips") /\ ~inline
    BY <1>2 DEF ClipQueued
  <2>2. c \in ClipIds /\ cursor' = c /\ cursor' \in NoCursor..HubClips /\ leaving = {}
    BY <2>1, NextTodo, AtClip
  <2>3. "queued" \in HubFates
    BY DEF HubFates
  <2> DEFINE e == [clip |-> c, tries |-> 0]
  <2>4. e \in ClipEntries /\ e.clip = c /\ e.tries = 0
    BY <2>2 DEF ClipEntries
  <2>5. queued \in Seq(ClipEntries) /\ queued' = QueueClip(c)
    BY <1>0, <1>2, <2>2 DEF ClipQueued, HubShape
  <2>6. (queued' = queued /\ c \in ClipsOf(queued)) \/ queued' = Append(queued, e)
    BY <2>5 DEF QueueClip
  <2> HIDE DEF e, c
  <2>7. queued' \in Seq(ClipEntries) /\ ClipsOf(queued') = ClipsOf(queued) \cup {c}
    <3>1. CASE queued' = queued /\ c \in ClipsOf(queued)
      BY <2>5, <3>1 DEF ClipsOf
    <3>2. CASE queued' = Append(queued, e)
      BY <2>4, <2>5, <3>2, ClipsAppended
    <3> QED
      BY <2>6, <3>1, <3>2
  <2>8. HubShape'
    BY <1>0, <1>2, <2>1, <2>2, <2>3, <2>7, NextTodo DEF ClipQueued, HubShape
  <2>9. Passes(c)
    <3>1. kills' >= kills
      BY <1>0a, <1>2 DEF ClipQueued
    <3> QED
      BY <1>0, <1>2, <2>1, <2>2, <2>7, <3>1, NextTodo DEF ClipQueued, Passes, HubShape, ClipsOf, c
  <2>10. TriesInv'
    <3>1. QueueLeft = ClipsOf(queued)
      BY <2>1, <2>2, NextTodo DEF QueueLeft
    <3>2. \A i \in 1..Len(queued) : queued[i].tries < FinishTries + kills
      BY <1>0, <2>5, <3>1, ClipsIn DEF TriesInv
    <3>3. \A i \in 1..Len(queued') : queued'[i].tries < FinishTries + kills
      <4>1. CASE queued' = queued
        BY <3>2, <4>1
      <4>2. CASE queued' = Append(queued, e)
        <5>1. \A i \in 1..Len(queued') : queued'[i] = e \/ (i \in 1..Len(queued) /\ queued'[i] = queued[i])
          <6>1. /\ Len(queued') = Len(queued) + 1 /\ Len(queued) \in Nat
                /\ \A i \in 1..Len(queued) + 1 : queued'[i] = IF i = Len(queued) + 1 THEN e ELSE queued[i]
            BY <2>4, <2>5, <4>2, ClipsAppended
          <6> QED
            BY <6>1
        <5>2. e.tries < FinishTries + kills
          BY <1>0a, <2>4
        <5> QED
          BY <3>2, <5>1, <5>2
      <4> QED
        BY <2>6, <4>1, <4>2
    <3>4. \A i \in 1..Len(queued') : queued'[i].tries \in Int
      <4>1. \A i \in 1..Len(queued') : queued'[i] \in ClipEntries
        BY <2>7
      <4>2. \A x \in ClipEntries : x.tries \in Int
        BY DEF ClipEntries
      <4> QED
        BY <4>1, <4>2
    <3>5. UNCHANGED <<runtimeFile, kills>>
      BY <1>2 DEF ClipQueued
    <3> QED
      BY <1>0, <1>0a, <3>3, <3>4, <3>5 DEF TriesInv
  <2> QED
    BY <2>1, <2>8, <2>9, <2>10, NextTodo, PassesHolds
<1>3. CASE ClipInline
  <2>1. NextClip("clips") /\ inline
    BY <1>3 DEF ClipInline
  <2>2. c \in ClipIds /\ cursor' = c /\ cursor' \in NoCursor..HubClips /\ leaving = {}
    BY <2>1, NextTodo, AtClip
  <2>3. Decided(c)
    <3>1. PICK got \in BOOLEAN : Decides(cursor', got)
      BY <1>3 DEF ClipInline
    <3>2. Decides(c, got)
      BY <2>2, <3>1
    <3> QED
      BY <1>0, <2>2, <3>2, ClipDecided
  <2> HIDE DEF c
  <2>4. HubShape'
    BY <1>0, <1>3, <2>1, <2>2, <2>3, NextTodo DEF ClipInline, HubShape, Decided
  <2>5. Passes(c)
    <3>1. UNCHANGED <<indexed, inline, cursorFile, runtimeFile, kills, leaving, queued>>
      BY <1>3 DEF ClipInline
    <3>2. hubStep \in {"clips", "muted"} /\ cursor' = Head(todoClips)
          /\ hubStep' \in {"clips", "muted", "collect"}
      BY <2>1, NextTodo
    <3>3. (\A d \in ClipIds : d \in ClipsOf(queued') <=> d \in ClipsOf(queued)) /\ c = Head(todoClips)
      BY <3>1 DEF ClipsOf, c
    <3> QED
      BY <1>0a, <2>1, <2>3, <3>1, <3>2, <3>3 DEF Decided, Passes
  <2>6. TriesInv'
    <3>1. QueueLeft' = QueueLeft /\ UNCHANGED <<queued, runtimeFile, kills>>
      BY <1>3, <2>1, <2>2, NextTodo DEF ClipInline, QueueLeft, ClipsOf
    <3> QED
      BY <1>0, <3>1 DEF TriesInv
  <2> QED
    BY <2>1, <2>4, <2>5, <2>6, NextTodo, PassesHolds
<1>4. CASE ClipRaises
  <2>1. hubStep = "clips" /\ inline /\ cursor' = Head(todoClips) /\ hubStep' = "retry"
        /\ todoClips' = ClipOrder(retries) /\ retries' = retries
    BY <1>4 DEF ClipRaises
  <2>2. c \in ClipIds /\ cursor' = c /\ cursor' \in NoCursor..HubClips /\ leaving = {}
    BY <2>1, AtClip
  <2>3. "raised" \in HubFates
    BY DEF HubFates
  <2>4. /\ ClipOrder(retries) \in Seq(ClipIds)
        /\ \A n \in 1..Len(ClipOrder(retries)) : ClipOrder(retries)[n] \in ClipsOf(retries)
    BY <1>0, OrdersTyped
  <2>5. HubShape'
    BY <1>0, <1>4, <2>1, <2>2, <2>3, <2>4 DEF ClipRaises, HubShape
  <2>6. Passes(c)
    BY <1>0, <1>4, <2>1, <2>2 DEF ClipRaises, Passes, HubShape, ClipsOf
  <2>7. TriesInv'
    <3>1. QueueLeft' = QueueLeft /\ UNCHANGED <<queued, runtimeFile, kills>>
      BY <1>4, <2>1, <2>2 DEF ClipRaises, QueueLeft, ClipsOf
    <3> QED
      BY <1>0, <3>1 DEF TriesInv
  <2>8. \A n \in 1..Len(todoClips') : todoClips'[n] \in ClipsOf(retries')
    BY <2>1, <2>4
  <2> QED
    BY <2>1, <2>5, <2>6, <2>7, <2>8, PassesHolds
<1>5. CASE ClipCutOff
  <2>1. hubStep = "clips" /\ inline /\ cursor' = Head(todoClips) /\ hubStep' = "retry"
        /\ todoClips' = ClipOrder(retries) /\ retries' = retries /\ kills' = kills + 1
    BY <1>5 DEF ClipCutOff
  <2>2. c \in ClipIds /\ cursor' = c /\ cursor' \in NoCursor..HubClips /\ leaving = {}
    BY <2>1, AtClip
  <2>3. "cutoff" \in HubFates
    BY DEF HubFates
  <2>4. /\ ClipOrder(retries) \in Seq(ClipIds)
        /\ \A n \in 1..Len(ClipOrder(retries)) : ClipOrder(retries)[n] \in ClipsOf(retries)
    BY <1>0, OrdersTyped
  <2>5. HubShape'
    BY <1>0, <1>5, <2>1, <2>2, <2>3, <2>4 DEF ClipCutOff, HubShape
  <2>6. Passes(c)
    BY <1>0, <1>0a, <1>5, <2>1, <2>2 DEF ClipCutOff, Passes, HubShape, ClipsOf
  <2>7. TriesInv'
    <3>1. QueueLeft' = QueueLeft /\ UNCHANGED <<queued, runtimeFile>>
      BY <1>5, <2>1, <2>2 DEF ClipCutOff, QueueLeft, ClipsOf
    <3>2. /\ \A i \in 1..Len(queued) : queued[i].tries \in Nat
          /\ \A i \in 1..Len(runtimeFile.clips) : runtimeFile.clips[i].tries \in Nat
      <4>1. \A e \in ClipEntries : e.tries \in Nat
        BY DEF ClipEntries
      <4>2. queued \in Seq(ClipEntries) /\ runtimeFile.clips \in Seq(ClipEntries)
        BY <1>0 DEF HubShape
      <4> QED BY <4>1, <4>2
    <3> QED
      BY <1>0, <1>0a, <2>1, <3>1, <3>2 DEF TriesInv
  <2>8. \A n \in 1..Len(todoClips') : todoClips'[n] \in ClipsOf(retries')
    BY <2>1, <2>4
  <2> QED
    BY <2>1, <2>5, <2>6, <2>7, <2>8, PassesHolds
<1> QED
  BY <1>1, <1>2, <1>3, <1>4, <1>5


----------------------------------------------------------------------------
(* The entries of the queue *)

LEMMA FinishedHolds ==
  ASSUME TickInv, NEW c \in ClipIds, c \in ClipsOf(queued), c \notin leaving, Finished(c), HubShape',
         hubStep \in {"collect", "entries"}, hubStep' = "entries",
         UNCHANGED <<indexed, inline, cursor, cursorFile, runtimeFile, kills>>,
         \A n \in 1..Len(todoClips') : todoClips'[n] \in ClipsOf(queued)
  PROVE  TickInv'
<1>0. HubShape /\ PhaseInv
  BY DEF TickInv
<1>1. /\ ~inline /\ cursor \in Int /\ cursorFile \in Int /\ indexed \in Int
      /\ kills \in Nat /\ FinishTries \in Nat
      /\ sentTimes \in [ClipIds -> Nat] /\ sentTimes' \in [ClipIds -> Nat]
  BY <1>0, HubConstants DEF PhaseInv, HubShape, NoCursor
<1>2. /\ QueueLeft = ClipsOf(queued) \ leaving /\ RetryLeft = ClipsOf(retries)
      /\ QueueLeft' = ClipsOf(queued') \ leaving' /\ RetryLeft' = ClipsOf(retries')
  BY DEF QueueLeft, RetryLeft, ClipsOf
<1>3. ClipsOf(queued') = ClipsOf(queued)
  BY DEF Finished, ClipsOf
<1>4. (\A d \in ClipIds : TakenUp(d) <=> d \in leaving) /\ (\A d \in ClipIds : TakenUp(d)' <=> d \in leaving')
  BY <1>1 DEF TakenUp
<1>5. c \in ClipsOf(retries) => c \in ClipsOf(runtimeFile.retries)
  BY <1>0, <1>4 DEF PhaseInv, Early
<1>6. \A d \in ClipIds : d # c =>
       /\ frames'[d] = frames[d] /\ sentTimes'[d] = sentTimes[d] /\ fate'[d] = fate[d]
       /\ d \in ClipsOf(retries') <=> d \in ClipsOf(retries)
       /\ d \in leaving' <=> d \in leaving
  <2>1. CASE Decided(c) /\ leaving' = leaving \cup {c}
    BY <2>1 DEF Decided
  <2>2. CASE /\ \/ /\ leaving' = leaving \cup {c} /\ fate' = [fate EXCEPT ![c] = "gaveup"]
                \/ UNCHANGED <<leaving, fate>>
             /\ UNCHANGED <<sentTimes, retries, frames>>
    BY <1>0, <2>2 DEF HubShape, ClipsOf
  <2> QED
    BY <2>1, <2>2 DEF Finished
<1>7. \/ /\ c \in leaving'
         /\ fate'[c] \notin {"unseen", "queued", "retry"} /\ UNCHANGED <<retries, frames>>
         /\ sentTimes'[c] = sentTimes[c] \/ sentTimes'[c] = sentTimes[c] + 1
      \/ /\ c \in leaving' /\ fate'[c] = "retry" /\ frames'[c] # "none"
         /\ sentTimes' = sentTimes /\ ClipsOf(retries') = ClipsOf(retries) \cup {c}
      \/ UNCHANGED <<leaving, fate, sentTimes, retries, frames>>
  <2>1. CASE Decided(c) /\ leaving' = leaving \cup {c}
    BY <2>1 DEF Decided
  <2>2. CASE /\ \/ /\ leaving' = leaving \cup {c} /\ fate' = [fate EXCEPT ![c] = "gaveup"]
                \/ UNCHANGED <<leaving, fate>>
             /\ UNCHANGED <<sentTimes, retries, frames>>
    <3>1. leaving' = leaving \cup {c} /\ fate' = [fate EXCEPT ![c] = "gaveup"]
          => c \in leaving' /\ fate'[c] = "gaveup"
      BY <1>0 DEF HubShape
    <3> QED
      BY <2>2, <3>1
  <2> QED
    BY <2>1, <2>2 DEF Finished
<1>8. PhaseInv'
  <2>1. \A d \in ClipIds : d \in ClipsOf(retries') =>
          d \in ClipsOf(runtimeFile.retries) \/ TakenUp(d)'
    <3> SUFFICES ASSUME NEW d \in ClipIds, d \in ClipsOf(retries')
                 PROVE  d \in ClipsOf(runtimeFile.retries) \/ TakenUp(d)'
      OBVIOUS
    <3>1. CASE d # c
      <4>1. d \in ClipsOf(retries)
        BY <1>6, <3>1
      <4>2. d \in ClipsOf(runtimeFile.retries) \/ TakenUp(d)
        BY <1>0, <4>1 DEF PhaseInv, Early
      <4> QED
        BY <1>4, <1>6, <3>1, <4>2
    <3>2. CASE d = c
      <4>1. c \in ClipsOf(retries) \/ c \in leaving'
        BY <1>7, <3>2 DEF ClipsOf
      <4> QED
        BY <1>4, <1>5, <3>2, <4>1
    <3> QED
      BY <3>1, <3>2
  <2>2. cursorFile' <= indexed' /\ cursorFile' <= cursor' /\ cursor' <= indexed'
    BY <1>0 DEF PhaseInv
  <2>3. cursorFile # NoCursor
    BY <1>0 DEF PhaseInv
  <2>4. \A n \in 1..Len(todoClips') : todoClips'[n] \in ClipsOf(queued')
    BY <1>3
  <2>5. ClipsOf(runtimeFile'.retries) = ClipsOf(runtimeFile.retries)
    BY DEF ClipsOf
  <2> QED
    BY <1>1, <2>1, <2>2, <2>3, <2>4, <2>5 DEF PhaseInv
<1>9. TriesInv'
  <2>0. queued \in Seq(ClipEntries) /\ queued' \in Seq(ClipEntries)
    BY <1>0 DEF HubShape
  <2>1. /\ \A i \in 1..Len(queued) :
             /\ queued[i].tries <= FinishTries + kills
             /\ queued[i].clip \in QueueLeft => queued[i].tries < FinishTries + kills
        /\ \A i \in 1..Len(runtimeFile.clips) : runtimeFile.clips[i].tries < FinishTries + kills
    BY DEF TickInv, TriesInv
  <2>2. \A i \in 1..Len(queued) : queued[i].tries \in Int /\ queued[i].clip \in ClipIds
    <3>1. \A i \in 1..Len(queued) : queued[i] \in ClipEntries
      BY <2>0
    <3>2. \A x \in ClipEntries : x.tries \in Int /\ x.clip \in ClipIds
      BY DEF ClipEntries
    <3> QED
      BY <3>1, <3>2
  <2>3. CASE UNCHANGED queued
    <3>1. QueueLeft' \subseteq QueueLeft
      <4>1. leaving \subseteq leaving'
        BY <2>3 DEF Finished
      <4> QED
        BY <1>2, <1>3, <4>1
    <3> QED
      BY <2>1, <2>3, <3>1 DEF TriesInv
  <2>4. CASE ~UNCHANGED queued
    <3>1. /\ Len(queued') = Len(queued)
          /\ \A i \in 1..Len(queued) :
               \/ queued'[i] = queued[i] /\ queued[i].clip # c
               \/ /\ queued'[i].clip = c /\ queued[i].clip = c
                  /\ \E j \in 1..Len(queued) :
                       queued[j].clip = c /\ queued'[i].tries = queued[j].tries + 1
                  /\ queued'[i].tries < FinishTries \/ c \in leaving'
      BY <2>4 DEF Finished
    <3>2. c \in QueueLeft
      BY <1>2
    <3>3. ASSUME NEW i \in 1..Len(queued)
          PROVE  /\ queued'[i].tries <= FinishTries + kills
                 /\ queued'[i].clip \in QueueLeft' => queued'[i].tries < FinishTries + kills
      <4>1. CASE queued'[i] = queued[i] /\ queued[i].clip # c
        <5>1. queued[i].clip \in QueueLeft' => queued[i].clip \in QueueLeft
          BY <1>2, <1>3, <1>6, <2>2, <4>1
        <5> QED
          BY <2>1, <4>1, <5>1
      <4>2. CASE ~(queued'[i] = queued[i] /\ queued[i].clip # c)
        <5>1. queued'[i].clip = c /\ (queued'[i].tries < FinishTries \/ c \in leaving')
          BY <3>1, <4>2
        <5>2. PICK j \in 1..Len(queued) : queued[j].clip = c /\ queued'[i].tries = queued[j].tries + 1
          BY <3>1, <4>2
        <5>3. queued[j].tries < FinishTries + kills /\ queued[j].tries \in Int
          BY <2>1, <2>2, <3>2, <5>2
        <5>4. queued'[i].tries <= FinishTries + kills /\ queued'[i].tries \in Int
          BY <1>1, <5>2, <5>3
        <5>5. c \in leaving' => c \notin QueueLeft'
          BY <1>2
        <5> QED
          BY <1>1, <5>1, <5>4, <5>5
      <4> QED
        BY <4>1, <4>2
    <3> QED
      BY <2>1, <3>1, <3>3 DEF TriesInv
  <2> QED
    BY <2>3, <2>4
<1>10. CarryInv'
  <2>1. \A d \in ClipIds : d <= cursor =>
         /\ fate[d] # "unseen"
         /\ fate[d] = "queued" => d \in QueueLeft
         /\ fate[d] = "retry" => d \in QueueLeft \cup RetryLeft
    BY DEF TickInv, CarryInv
  <2>2. \A d \in ClipIds : d <= cursorFile =>
       /\ fate[d] # "unseen"
       /\ fate[d] = "queued" => d \in ClipsOf(runtimeFile.clips)
       /\ fate[d] = "retry" => d \in ClipsOf(runtimeFile.clips) \cup ClipsOf(runtimeFile.retries)
       /\ d \in ClipsOf(queued) => d \in ClipsOf(runtimeFile.clips)
    BY DEF TickInv, CarryInv
  <2>3. ASSUME NEW d \in ClipIds, d <= cursor
        PROVE  /\ fate'[d] # "unseen"
               /\ fate'[d] = "queued" => d \in QueueLeft'
               /\ fate'[d] = "retry" => d \in QueueLeft' \cup RetryLeft'
    <3>1. CASE d = c
      <4>1. CASE UNCHANGED <<leaving, fate, sentTimes, retries, frames>>
        BY <1>2, <1>3, <2>1, <2>3, <4>1 DEF ClipsOf
      <4>2. CASE fate'[c] \notin {"unseen", "queued", "retry"}
        BY <3>1, <4>2
      <4>3. CASE fate'[c] = "retry" /\ ClipsOf(retries') = ClipsOf(retries) \cup {c}
        BY <1>2, <3>1, <4>3
      <4> QED
        BY <1>7, <4>1, <4>2, <4>3
    <3>2. CASE d # c
      <4>1. (d \in QueueLeft' <=> d \in QueueLeft) /\ (d \in RetryLeft' <=> d \in RetryLeft)
        BY <1>2, <1>3, <1>6, <3>2
      <4> QED
        BY <1>6, <2>1, <2>3, <3>2, <4>1
    <3> QED
      BY <3>1, <3>2
  <2>4. ASSUME NEW d \in ClipIds, d <= cursorFile
        PROVE  /\ fate'[d] # "unseen"
               /\ fate'[d] = "queued" => d \in ClipsOf(runtimeFile.clips)
               /\ fate'[d] = "retry" =>
                    d \in ClipsOf(runtimeFile.clips) \cup ClipsOf(runtimeFile.retries)
               /\ d \in ClipsOf(queued') => d \in ClipsOf(runtimeFile.clips)
    <3>1. CASE d = c
      <4>1. c \in ClipsOf(runtimeFile.clips)
        BY <2>2, <2>4, <3>1
      <4>2. fate'[c] # "unseen"
        BY <1>7, <2>2, <2>4, <3>1
      <4> QED
        BY <3>1, <4>1, <4>2
    <3>2. CASE d # c
      BY <1>3, <1>6, <2>2, <2>4, <3>2
    <3> QED
      BY <3>1, <3>2
  <2> QED
    BY <2>3, <2>4 DEF CarryInv
<1>11. OnceInv'
  <2>1. ASSUME NEW d \in ClipIds
        PROVE  /\ sentTimes[d] + Owed(d) <= 1 + kills
               /\ sentTimes[d] + Saved(d) <= 2 + kills
               /\ ~TakenUp(d) => sentTimes[d] + Saved(d) <= 1 + kills
               /\ Fresh1(d) => sentTimes[d] + Saved(d) <= 1 + kills
    BY DEF TickInv, OnceInv, Early
  <2> SUFFICES ASSUME NEW d \in ClipIds
      PROVE  /\ sentTimes'[d] + Owed(d)' <= 1 + kills
             /\ sentTimes'[d] + Saved(d)' <= 2 + kills
             /\ ~TakenUp(d)' => sentTimes'[d] + Saved(d)' <= 1 + kills
             /\ Fresh1(d)' => sentTimes'[d] + Saved(d)' <= 1 + kills
    BY DEF OnceInv
  <2>2. CASE d # c
    <3>1. Owed(d)' = Owed(d)
      BY <1>2, <1>3, <1>6, <2>2 DEF Owed
    <3>2. Saved(d)' = Saved(d)
      BY <1>6, <2>2 DEF Saved, ClipsOf
    <3>3. Fresh1(d)' <=> Fresh1(d)
      BY <1>2, <1>6, <2>2 DEF Fresh1, ClipsOf
    <3>4. TakenUp(d)' <=> TakenUp(d)
      BY <1>4, <1>6, <2>2
    <3> QED
      BY <1>6, <2>1, <2>2, <3>1, <3>2, <3>3, <3>4
  <2>3. CASE d = c
    <3>0. sentTimes[c] \in Nat /\ sentTimes'[c] \in Nat
      BY <1>1
    <3>1. /\ sentTimes[c] + Owed(c) <= 1 + kills
          /\ sentTimes[c] + Saved(c) <= 1 + kills
      BY <1>4, <2>1
    <3>2. Fresh1(c)' <=> c \in ClipsOf(retries') /\ c \notin ClipsOf(runtimeFile.retries) /\ frames'[c] # "none"
      BY <1>2 DEF Fresh1, ClipsOf
    <3>3. /\ Owed(c) = (IF cursor < c THEN 1 ELSE 0) + 1
                         + (IF c \in ClipsOf(retries) /\ frames[c] # "none" THEN 1 ELSE 0)
          /\ c \in leaving' =>
             Owed(c)' = (IF cursor < c THEN 1 ELSE 0) + 0
                         + (IF c \in ClipsOf(retries') /\ frames'[c] # "none" THEN 1 ELSE 0)
      BY <1>2 DEF Owed
    <3>4. /\ Saved(c) = (IF cursorFile < c THEN 1 ELSE 0) + (IF c \in ClipsOf(runtimeFile.clips) THEN 1 ELSE 0)
                         + (IF c \in ClipsOf(runtimeFile.retries) /\ frames[c] # "none" THEN 1 ELSE 0)
          /\ Saved(c)' = (IF cursorFile < c THEN 1 ELSE 0) + (IF c \in ClipsOf(runtimeFile.clips) THEN 1 ELSE 0)
                         + (IF c \in ClipsOf(runtimeFile.retries) /\ frames'[c] # "none" THEN 1 ELSE 0)
      BY DEF Saved, ClipsOf
    <3>5. CASE /\ c \in leaving' /\ UNCHANGED <<retries, frames>>
               /\ sentTimes'[c] = sentTimes[c] \/ sentTimes'[c] = sentTimes[c] + 1
      <4>1. Owed(c)' = Owed(c) - 1 /\ Saved(c)' = Saved(c) /\ Owed(c) \in Nat /\ Saved(c) \in Nat
        BY <3>3, <3>4, <3>5 DEF ClipsOf
      <4>2. ~Fresh1(c)'
        BY <1>5, <3>2, <3>5 DEF ClipsOf
      <4>3. TakenUp(c)'
        BY <1>4, <3>5
      <4> QED
        BY <1>1, <2>3, <3>0, <3>1, <3>5, <4>1, <4>2, <4>3
    <3>6. CASE /\ c \in leaving' /\ frames'[c] # "none"
               /\ sentTimes' = sentTimes /\ ClipsOf(retries') = ClipsOf(retries) \cup {c}
      <4>1. /\ Owed(c)' <= Owed(c) /\ Saved(c)' <= Saved(c) + 1
            /\ c \notin ClipsOf(runtimeFile.retries) => Saved(c)' = Saved(c)
            /\ {Owed(c), Owed(c)', Saved(c), Saved(c)'} \subseteq Nat
        BY <3>3, <3>4, <3>6 DEF ClipsOf
      <4>2. TakenUp(c)'
        BY <1>4, <3>6
      <4> QED
        BY <1>1, <2>3, <3>0, <3>1, <3>2, <3>6, <4>1, <4>2
    <3>7. CASE UNCHANGED <<leaving, fate, sentTimes, retries, frames>>
      <4>1. Owed(c)' = Owed(c)
        BY <1>2, <1>3, <3>7 DEF Owed, ClipsOf
      <4>2. Saved(c)' = Saved(c)
        BY <3>7 DEF Saved, ClipsOf
      <4>3. {Owed(c), Saved(c)} \subseteq Nat
        BY <3>3, <3>4
      <4>4. sentTimes'[c] = sentTimes[c]
        BY <3>7
      <4> QED
        BY <1>1, <2>3, <3>0, <3>1, <4>1, <4>2, <4>3, <4>4
    <3> QED
      BY <1>7, <3>5, <3>6, <3>7
  <2> QED
    BY <2>2, <2>3
<1> QED
  BY <1>8, <1>9, <1>10, <1>11 DEF TickInv


LEMMA EntrySteps ==
  ASSUME TickInv, Collect \/ EntryTooOld \/ EntryStuck
  PROVE  TickInv'
<1>0. HubShape /\ PhaseInv
  BY DEF TickInv
<1> USE DEF hubWorldVars, filesVars
<1>1. CASE Collect
  <2>1. /\ ClipOrder(queued) \in Seq(ClipIds)
        /\ \A n \in 1..Len(ClipOrder(queued)) : ClipOrder(queued)[n] \in ClipsOf(queued)
        /\ \A c \in ClipsOf(queued) : c \in ClipIds
    BY <1>0, OrdersTyped
  <2>2. /\ hubStep = "collect" /\ hubStep' = "entries" /\ todoClips' = ClipOrder(queued)
        /\ UNCHANGED <<indexed, inline, resolved, cursor, cursorFile, runtimeFile, stopping, kills>>
    BY <1>1 DEF Collect
  <2>3. leaving = {} /\ indexed \in Int
    BY <1>0, <2>2, HubConstants DEF PhaseInv, HubShape
  <2>4. NoJob \in [clip : 0..HubClips, stage : {"none", "running", "done"}, frames : BOOLEAN]
    BY HubConstants DEF NoJob
  <2>5. CASE UNCHANGED <<fate, sentTimes, retries, frames, trouble, leaving, queued>>
             /\ (job' = NoJob \/ job' = job)
    <3>1. SameEntries
      BY <2>2, <2>5 DEF SameEntries, Early
    <3>2. HubShape'
      BY <1>0, <2>1, <2>2, <2>4, <2>5 DEF HubShape
    <3> QED
      BY <2>1, <2>2, <2>3, <3>1, <3>2, PhaseSame
  <2>6. CASE job' = NoJob /\ ~GivenUp(job.clip) /\ FinishEntry(job.clip, job.frames)
    <3>1. PICK c : c = job.clip
      OBVIOUS
    <3>2. c \in ClipsOf(queued) /\ c \notin leaving /\ c \in ClipIds /\ job.frames \in BOOLEAN
      BY <1>0, <2>1, <2>6, <3>1 DEF GivenUp, HubShape
    <3>3. Finished(c)
      BY <1>0, <2>6, <3>1, <3>2, EntryFinished
    <3>4. HubShape'
      <4>1. \/ Decided(c) /\ leaving' = leaving \cup {c} /\ UNCHANGED queued
            \/ /\ queued' \in Seq(ClipEntries) /\ trouble' \in Nat
               /\ \/ leaving' = leaving \cup {c} /\ fate' = [fate EXCEPT ![c] = "gaveup"]
                  \/ UNCHANGED <<leaving, fate>>
               /\ UNCHANGED <<sentTimes, retries, frames>>
        BY <3>3 DEF Finished
      <4>2. "gaveup" \in HubFates
        BY DEF HubFates
      <4> QED
        <5>1. CASE Decided(c) /\ leaving' = leaving \cup {c} /\ UNCHANGED queued
          BY <1>0, <2>1, <2>2, <2>4, <2>6, <3>2, <5>1 DEF HubShape, Decided
        <5>2. CASE ~(Decided(c) /\ leaving' = leaving \cup {c} /\ UNCHANGED queued)
          <6>1. /\ queued' \in Seq(ClipEntries) /\ trouble' \in Nat
                /\ UNCHANGED <<sentTimes, retries, frames>>
            BY <4>1, <5>2
          <6>2. fate' \in [ClipIds -> HubFates] /\ leaving' \subseteq ClipIds
            <7>1. CASE leaving' = leaving \cup {c} /\ fate' = [fate EXCEPT ![c] = "gaveup"]
              BY <1>0, <2>1, <2>2, <2>4, <2>6, <3>2, <4>2, <7>1 DEF HubShape
            <7>2. CASE UNCHANGED <<leaving, fate>>
              BY <1>0, <7>2 DEF HubShape
            <7> QED
              BY <4>1, <5>2, <7>1, <7>2
          <6> QED
            BY <1>0, <2>1, <2>2, <2>4, <2>6, <3>2, <6>1, <6>2 DEF HubShape
        <5> QED
          BY <5>1, <5>2
    <3> QED
      BY <2>1, <2>2, <3>2, <3>3, <3>4, FinishedHolds
  <2> QED
    BY <1>1, <2>5, <2>6 DEF Collect
<1>2. CASE EntryTooOld \/ EntryStuck
  <2> DEFINE h == Head(todoClips)
  <2>1. /\ hubStep = "entries" /\ todoClips # <<>> /\ todoClips' = Tail(todoClips) /\ hubStep' = hubStep
        /\ h \notin leaving
    BY <1>2 DEF EntryTooOld, EntryStuck, EntryVisited, NotLeaving
  <2>2. QueueEntry.clip = h /\ h \in ClipIds /\ h \in ClipsOf(queued)
    BY <2>1, AtQueueEntry
  <2>3. /\ todoClips' \in Seq(ClipIds)
        /\ \A n \in 1..Len(todoClips') : todoClips'[n] \in ClipsOf(queued)
    BY <1>0, <2>1, TodoFacts DEF PhaseInv
  <2>4. UNCHANGED <<indexed, inline, resolved, cursor, cursorFile, runtimeFile, stopping, kills, job>>
    BY <1>2 DEF EntryTooOld, EntryStuck
  <2> HIDE DEF h
  <2>5. CASE EntryTooOld
    <3>1. /\ leaving' = leaving \cup {h} /\ fate' = [fate EXCEPT ![h] = "expired"]
          /\ UNCHANGED <<queued, retries, frames, sentTimes, trouble>>
      BY <2>2, <2>5 DEF EntryTooOld
    <3>2. "expired" \in HubFates
      BY DEF HubFates
    <3>3. Decided(h)
      BY <1>0, <2>2, <3>1, <3>2 DEF Decided, HubShape, ClipsOf
    <3>4. Finished(h)
      BY <3>1, <3>3 DEF Finished
    <3>5. HubShape'
      BY <1>0, <2>1, <2>2, <2>3, <2>4, <3>1, <3>2 DEF HubShape
    <3> QED
      BY <2>1, <2>2, <2>3, <2>4, <3>4, <3>5, FinishedHolds
  <2>6. CASE EntryStuck
    <3>1. FinishEntry(QueueEntry.clip, FALSE)
      BY <2>6 DEF EntryStuck
    <3>2. Finished(h)
      BY <1>0, <2>2, <3>1, EntryFinished
    <3>3. HubShape'
      <4>1. \/ Decided(h) /\ leaving' = leaving \cup {h} /\ UNCHANGED queued
            \/ /\ queued' \in Seq(ClipEntries) /\ trouble' \in Nat
               /\ \/ leaving' = leaving \cup {h} /\ fate' = [fate EXCEPT ![h] = "gaveup"]
                  \/ UNCHANGED <<leaving, fate>>
               /\ UNCHANGED <<sentTimes, retries, frames>>
        BY <3>2 DEF Finished
      <4>2. "gaveup" \in HubFates
        BY DEF HubFates
      <4> QED
        <5>1. CASE Decided(h) /\ leaving' = leaving \cup {h} /\ UNCHANGED queued
          BY <1>0, <2>1, <2>2, <2>3, <2>4, <5>1 DEF HubShape, Decided
        <5>2. CASE ~(Decided(h) /\ leaving' = leaving \cup {h} /\ UNCHANGED queued)
          <6>1. /\ queued' \in Seq(ClipEntries) /\ trouble' \in Nat
                /\ UNCHANGED <<sentTimes, retries, frames>>
            BY <4>1, <5>2
          <6>2. fate' \in [ClipIds -> HubFates] /\ leaving' \subseteq ClipIds
            <7>1. CASE leaving' = leaving \cup {h} /\ fate' = [fate EXCEPT ![h] = "gaveup"]
              BY <1>0, <2>1, <2>2, <2>3, <2>4, <4>2, <7>1 DEF HubShape
            <7>2. CASE UNCHANGED <<leaving, fate>>
              BY <1>0, <7>2 DEF HubShape
            <7> QED
              BY <4>1, <5>2, <7>1, <7>2
          <6> QED
            BY <1>0, <2>1, <2>2, <2>3, <2>4, <6>1, <6>2 DEF HubShape
        <5> QED
          BY <5>1, <5>2
    <3> QED
      BY <2>1, <2>2, <2>3, <2>4, <3>2, <3>3, FinishedHolds
  <2> QED
    BY <1>2, <2>5, <2>6
<1> QED
  BY <1>1, <1>2


(* A loop that ends drops what it decided, and nothing else.                    *)
LEMMA LoopEnds ==
  ASSUME TickInv, EntriesDone \/ RetriesDone
  PROVE  TickInv'
<1>0. /\ HubShape /\ PhaseInv /\ TriesInv /\ CarryInv /\ OnceInv
      /\ queued \in Seq(ClipEntries) /\ retries \in Seq(RetryEntries)
  BY DEF TickInv, HubShape
<1> USE DEF hubWorldVars, filesVars
<1>1. /\ leaving' = {}
      /\ UNCHANGED <<indexed, inline, resolved, cursor, cursorFile, runtimeFile, job, frames, stopping,
                     sentTimes, fate, kills, trouble>>
      /\ \/ hubStep = "entries" /\ hubStep' = "retry"
         \/ hubStep = "retry" /\ hubStep' = "save"
  BY DEF EntriesDone, RetriesDone
<1>2. /\ queued' \in Seq(ClipEntries) /\ retries' \in Seq(RetryEntries) /\ todoClips' \in Seq(ClipIds)
      /\ ClipsOf(queued') \subseteq ClipsOf(queued)
      /\ ClipsOf(retries') \subseteq ClipsOf(retries)
      /\ QueueLeft' = QueueLeft /\ RetryLeft' = RetryLeft
      /\ hubStep' = "retry" => \A n \in 1..Len(todoClips') : todoClips'[n] \in ClipsOf(retries')
      /\ \A j \in 1..Len(queued') :
           \E i \in 1..Len(queued) : queued'[j] = queued[i] /\ queued[i].clip \in QueueLeft
  <2>1. CASE EntriesDone
    <3>1. /\ hubStep = "entries" /\ hubStep' = "retry" /\ IsWithout(queued', queued, leaving)
          /\ todoClips' = ClipOrder(retries) /\ retries' = retries
      BY <2>1 DEF EntriesDone
    <3>2. PICK rest : rest = queued'
      OBVIOUS
    <3>3. /\ rest \in Seq(ClipEntries)
          /\ \A j \in 1..Len(rest) :
               \E i \in 1..Len(queued) : rest[j] = queued[i] /\ queued[i].clip \notin leaving
          /\ ClipsOf(rest) = ClipsOf(queued) \ leaving
      BY <1>0, <3>1, <3>2, ClipsDropped
    <3>4. QueueLeft = ClipsOf(queued) \ leaving /\ RetryLeft = ClipsOf(retries)
      BY <3>1 DEF QueueLeft, RetryLeft
    <3>5. QueueLeft' = ClipsOf(queued') /\ RetryLeft' = ClipsOf(retries')
      BY <1>1, <3>1 DEF QueueLeft, RetryLeft, ClipsOf
    <3>6. \A i \in 1..Len(queued) : queued[i].clip \in ClipsOf(queued)
      BY <1>0, ClipsIn
    <3>7. ClipsOf(retries') = ClipsOf(retries)
      BY <3>1 DEF ClipsOf
    <3>8. ClipsOf(queued') = ClipsOf(rest)
      BY <3>2 DEF ClipsOf
    <3>9. /\ ClipOrder(retries) \in Seq(ClipIds)
          /\ \A n \in 1..Len(ClipOrder(retries)) : ClipOrder(retries)[n] \in ClipsOf(retries)
      BY <1>0, OrdersTyped
    <3> QED
      BY <1>0, <3>1, <3>2, <3>3, <3>4, <3>5, <3>6, <3>7, <3>8, <3>9
  <2>2. CASE RetriesDone
    <3>1. /\ hubStep = "retry" /\ hubStep' = "save" /\ IsWithout(retries', retries, leaving)
          /\ todoClips' = todoClips /\ queued' = queued
      BY <2>2 DEF RetriesDone
    <3>2. PICK rest : rest = retries'
      OBVIOUS
    <3>3. /\ rest \in Seq(RetryEntries)
          /\ ClipsOf(rest) = ClipsOf(retries) \ leaving
      BY <1>0, <3>1, <3>2, ClipsDropped
    <3>4. QueueLeft = ClipsOf(queued) /\ RetryLeft = ClipsOf(retries) \ leaving
      BY <3>1 DEF QueueLeft, RetryLeft
    <3>5. QueueLeft' = ClipsOf(queued') /\ RetryLeft' = ClipsOf(retries')
      BY <1>1, <3>1 DEF QueueLeft, RetryLeft, ClipsOf
    <3>6. \A i \in 1..Len(queued) : queued[i].clip \in ClipsOf(queued)
      BY <1>0, ClipsIn
    <3>7. ClipsOf(queued') = ClipsOf(queued) /\ ClipsOf(retries') = ClipsOf(rest)
      BY <3>1, <3>2 DEF ClipsOf
    <3>8. todoClips \in Seq(ClipIds)
      BY <1>0 DEF HubShape
    <3> QED
      BY <1>0, <3>1, <3>2, <3>3, <3>4, <3>5, <3>6, <3>7, <3>8
  <2> QED
    BY <2>1, <2>2
<1>3. HubShape'
  BY <1>0, <1>1, <1>2 DEF HubShape
<1>4. PhaseInv'
  <2>1. ClipsOf(runtimeFile'.clips) = ClipsOf(runtimeFile.clips)
        /\ ClipsOf(runtimeFile'.retries) = ClipsOf(runtimeFile.retries)
    BY <1>1 DEF ClipsOf
  <2>2. cursorFile' <= indexed' /\ cursorFile' <= cursor' /\ cursor' <= indexed'
    BY <1>0, <1>1 DEF PhaseInv
  <2> QED
    BY <1>0, <1>1, <1>2, <2>1, <2>2 DEF PhaseInv, Early
<1>5. TriesInv'
  <2>1. ASSUME NEW j \in 1..Len(queued')
        PROVE  /\ queued'[j].tries <= FinishTries + kills /\ queued'[j].tries < FinishTries + kills
    <3>1. PICK i \in 1..Len(queued) : queued'[j] = queued[i] /\ queued[i].clip \in QueueLeft
      BY <1>2
    <3> QED
      BY <1>0, <3>1 DEF TriesInv
  <2> QED
    BY <1>0, <1>1, <2>1 DEF TriesInv
<1>6. CarryInv'
  <2>1. ClipsOf(runtimeFile'.clips) = ClipsOf(runtimeFile.clips)
        /\ ClipsOf(runtimeFile'.retries) = ClipsOf(runtimeFile.retries)
    BY <1>1 DEF ClipsOf
  <2>2. CarryInv /\ ClipsOf(queued') \subseteq ClipsOf(queued) /\ QueueLeft' = QueueLeft /\ RetryLeft' = RetryLeft
    BY <1>0, <1>2
  <2> QED
    BY <1>1, <2>1, <2>2 DEF CarryInv
<1>7. OnceInv'
  <2> SUFFICES ASSUME NEW d \in ClipIds
      PROVE  /\ sentTimes'[d] + Owed(d)' <= 1 + kills'
             /\ sentTimes'[d] + Saved(d)' <= 2 + kills'
             /\ Fresh1(d)' => sentTimes'[d] + Saved(d)' <= 1 + kills'
    BY <1>1 DEF OnceInv, Early
  <2>1. Owed(d)' = Owed(d) /\ Saved(d)' = Saved(d) /\ (Fresh1(d)' <=> Fresh1(d))
    BY <1>1, <1>2 DEF Owed, Saved, Fresh1, ClipsOf
  <2> QED
    BY <1>0, <1>1, <2>1 DEF OnceInv
<1> QED
  BY <1>3, <1>4, <1>5, <1>6, <1>7 DEF TickInv

----------------------------------------------------------------------------
(* The retries *)

(* A clip leaves the retries with its frame, perhaps sent.                      *)
LeavesRetries(c) ==
  /\ leaving' = leaving \cup {c} /\ frames' = [frames EXCEPT ![c] = "none"]
  /\ fate'[c] \notin {"unseen", "queued", "retry"} /\ retries' = retries
  /\ \A d \in ClipIds : d # c => sentTimes'[d] = sentTimes[d] /\ fate'[d] = fate[d]
  /\ \/ sentTimes'[c] = sentTimes[c]
     \/ sentTimes'[c] = sentTimes[c] + 1 /\ frames[c] # "none"

LEMMA LeavesHolds ==
  ASSUME TickInv, NEW c \in ClipIds, LeavesRetries(c), c \in ClipsOf(retries),
         hubStep = "retry", hubStep' = "retry", HubShape',
         UNCHANGED <<indexed, inline, cursor, cursorFile, runtimeFile, kills, queued>>,
         \A n \in 1..Len(todoClips') : todoClips'[n] \in ClipsOf(retries)
  PROVE  TickInv'
<1>0. HubShape /\ PhaseInv /\ TriesInv /\ CarryInv /\ OnceInv
  BY DEF TickInv
<1>1. /\ cursor \in Int /\ cursorFile \in Int /\ indexed \in Int /\ kills \in Nat
      /\ sentTimes \in [ClipIds -> Nat] /\ sentTimes' \in [ClipIds -> Nat]
      /\ frames \in [ClipIds -> {"none", "job", "live"}]
  BY <1>0 DEF HubShape, NoCursor
<1>2. /\ QueueLeft = ClipsOf(queued) /\ RetryLeft = ClipsOf(retries) \ leaving
      /\ QueueLeft' = ClipsOf(queued) /\ RetryLeft' = ClipsOf(retries) \ leaving'
  BY DEF QueueLeft, RetryLeft, ClipsOf, LeavesRetries
<1>3. /\ frames'[c] = "none" /\ \A d \in ClipIds : d # c => frames'[d] = frames[d]
      /\ leaving' = leaving \cup {c} /\ retries' = retries
      /\ \A d \in leaving : frames[d] = "none"
      /\ leaving \subseteq ClipIds
  BY <1>0, <1>1 DEF LeavesRetries, PhaseInv, HubShape
<1>4. \A d \in ClipIds : d # c => sentTimes'[d] = sentTimes[d] /\ fate'[d] = fate[d]
  BY DEF LeavesRetries
<1>5. ClipsOf(queued') = ClipsOf(queued) /\ ClipsOf(retries') = ClipsOf(retries)
      /\ ClipsOf(runtimeFile'.clips) = ClipsOf(runtimeFile.clips)
      /\ ClipsOf(runtimeFile'.retries) = ClipsOf(runtimeFile.retries)
  BY <1>3 DEF ClipsOf
<1>6. PhaseInv'
  <2>1. \A d \in leaving' : frames'[d] = "none"
    BY <1>3
  <2>2. cursorFile' <= indexed' /\ cursorFile' <= cursor' /\ cursor' <= indexed'
    BY <1>0 DEF PhaseInv
  <2>3. cursorFile # NoCursor
    BY <1>0 DEF PhaseInv
  <2>4. inline' => ClipsOf(queued') = {} /\ ClipsOf(runtimeFile'.clips) = {}
    BY <1>0, <1>5 DEF PhaseInv
  <2> QED
    BY <1>5, <2>1, <2>2, <2>3, <2>4 DEF PhaseInv, Early
<1>7. TriesInv'
  BY <1>0, <1>2 DEF TriesInv
<1>8. CarryInv'
  <2>1. ASSUME NEW d \in ClipIds, d <= cursor
        PROVE  /\ fate'[d] # "unseen"
               /\ fate'[d] = "queued" => d \in QueueLeft'
               /\ fate'[d] = "retry" => d \in QueueLeft' \cup RetryLeft'
    <3>1. CASE d = c
      BY <3>1 DEF LeavesRetries
    <3>2. CASE d # c
      <4>1. /\ fate[d] # "unseen"
            /\ fate[d] = "queued" => d \in QueueLeft
            /\ fate[d] = "retry" => d \in QueueLeft \cup RetryLeft
        BY <1>0, <2>1 DEF CarryInv
      <4>2. fate'[d] = fate[d]
        BY <1>4, <3>2
      <4> QED
        BY <1>2, <1>3, <3>2, <4>1, <4>2
    <3> QED
      BY <3>1, <3>2
  <2>2. ASSUME NEW d \in ClipIds, d <= cursorFile
        PROVE  /\ fate'[d] # "unseen"
               /\ fate'[d] = "queued" => d \in ClipsOf(runtimeFile.clips)
               /\ fate'[d] = "retry" =>
                    d \in ClipsOf(runtimeFile.clips) \cup ClipsOf(runtimeFile.retries)
               /\ d \in ClipsOf(queued) => d \in ClipsOf(runtimeFile.clips)
    <3>1. /\ fate[d] # "unseen"
          /\ fate[d] = "queued" => d \in ClipsOf(runtimeFile.clips)
          /\ fate[d] = "retry" => d \in ClipsOf(runtimeFile.clips) \cup ClipsOf(runtimeFile.retries)
          /\ d \in ClipsOf(queued) => d \in ClipsOf(runtimeFile.clips)
      BY <1>0, <2>2 DEF CarryInv
    <3>2. CASE d = c
      BY <3>1, <3>2 DEF LeavesRetries
    <3>3. CASE d # c
      BY <1>4, <3>1, <3>3
    <3> QED
      BY <3>2, <3>3
  <2> QED
    BY <1>5, <2>1, <2>2 DEF CarryInv
<1>9. OnceInv'
  <2> SUFFICES ASSUME NEW d \in ClipIds
      PROVE  /\ sentTimes'[d] + Owed(d)' <= 1 + kills
             /\ sentTimes'[d] + Saved(d)' <= 2 + kills
             /\ Fresh1(d)' => sentTimes'[d] + Saved(d)' <= 1 + kills
    BY DEF OnceInv, Early
  <2>1. /\ sentTimes[d] + Owed(d) <= 1 + kills
        /\ sentTimes[d] + Saved(d) <= 2 + kills
        /\ Fresh1(d) => sentTimes[d] + Saved(d) <= 1 + kills
    BY <1>0 DEF OnceInv
  <2>2. CASE d # c
    <3>1. Owed(d)' = Owed(d) /\ Saved(d)' = Saved(d) /\ (Fresh1(d)' <=> Fresh1(d))
      BY <1>2, <1>3, <1>5, <2>2 DEF Owed, Saved, Fresh1
    <3> QED
      BY <1>4, <2>1, <2>2, <3>1
  <2>3. CASE d = c
    <3>0. sentTimes[c] \in Nat /\ sentTimes'[c] \in Nat
      BY <1>1
    <3>1. ~Fresh1(c)'
      BY <1>3 DEF Fresh1
    <3>2. frames[c] # "none" => c \in RetryLeft
      BY <1>2, <1>3
    <3>3. /\ Owed(c) = (IF cursor < c THEN 1 ELSE 0) + (IF c \in ClipsOf(queued) THEN 1 ELSE 0)
                         + (IF frames[c] # "none" THEN 1 ELSE 0)
          /\ Owed(c)' = (IF cursor < c THEN 1 ELSE 0) + (IF c \in ClipsOf(queued) THEN 1 ELSE 0) + 0
      BY <1>2, <1>3, <3>2 DEF Owed
    <3>4. /\ Saved(c) = (IF cursorFile < c THEN 1 ELSE 0) + (IF c \in ClipsOf(runtimeFile.clips) THEN 1 ELSE 0)
                         + (IF c \in ClipsOf(runtimeFile.retries) /\ frames[c] # "none" THEN 1 ELSE 0)
          /\ Saved(c)' = (IF cursorFile < c THEN 1 ELSE 0) + (IF c \in ClipsOf(runtimeFile.clips) THEN 1 ELSE 0) + 0
      BY <1>3, <1>5 DEF Saved
    <3>5. CASE sentTimes'[c] = sentTimes[c]
      <4>1. Owed(c)' <= Owed(c) /\ Saved(c)' <= Saved(c)
            /\ {Owed(c), Owed(c)', Saved(c), Saved(c)'} \subseteq Nat
        BY <3>3, <3>4
      <4> QED
        BY <1>1, <2>1, <2>3, <3>0, <3>1, <3>5, <4>1
    <3>6. CASE sentTimes'[c] = sentTimes[c] + 1 /\ frames[c] # "none"
      <4>1. Owed(c)' = Owed(c) - 1 /\ {Owed(c), Owed(c)', Saved(c), Saved(c)'} \subseteq Nat
        BY <3>3, <3>4, <3>6
      <4>2. CASE c \in ClipsOf(runtimeFile.retries)
        <5>1. Saved(c)' = Saved(c) - 1
          BY <3>4, <3>6, <4>2
        <5> QED
          BY <1>1, <2>1, <2>3, <3>0, <3>1, <3>6, <4>1, <5>1
      <4>3. CASE c \notin ClipsOf(runtimeFile.retries)
        <5>1. Fresh1(c)
          BY <3>2, <3>6, <4>3 DEF Fresh1
        <5>2. Saved(c)' = Saved(c)
          BY <3>4, <4>3
        <5> QED
          BY <1>1, <2>1, <2>3, <3>0, <3>1, <3>6, <4>1, <5>1, <5>2
      <4> QED
        BY <4>2, <4>3
    <3> QED
      BY <3>5, <3>6 DEF LeavesRetries
  <2> QED
    BY <2>2, <2>3
<1> QED
  BY <1>6, <1>7, <1>8, <1>9 DEF TickInv


LEMMA RetrySteps == ASSUME TickInv, RetryDropped \/ RetrySends PROVE TickInv'
<1>0. HubShape /\ PhaseInv /\ retries \in Seq(RetryEntries)
  BY DEF TickInv, HubShape
<1> USE DEF hubWorldVars, filesVars
<1> DEFINE c == Head(todoClips)
<1>1. /\ hubStep = "retry" /\ todoClips # <<>> /\ todoClips' = Tail(todoClips) /\ hubStep' = hubStep
  BY DEF RetryDropped, RetrySends, RetryVisits
<1>2. RetryEntry.clip = c /\ c \in ClipIds /\ c \in ClipsOf(retries) /\ RetryEntry \in RetryEntries
  BY <1>1, AtRetryEntry
<1>3. /\ todoClips' \in Seq(ClipIds)
      /\ \A n \in 1..Len(todoClips') : todoClips'[n] \in ClipsOf(retries)
  BY <1>0, <1>1, TodoFacts DEF PhaseInv
<1>4. /\ UNCHANGED <<indexed, inline, resolved, cursor, cursorFile, runtimeFile, queued, job,
                     stopping, kills>>
      /\ indexed \in Int
  BY <1>0, HubConstants DEF RetryDropped, RetrySends, HubShape
<1> HIDE DEF c
<1>5. {"expired", "dropped", "sent", "refused"} \subseteq HubFates \ {"unseen", "queued", "retry"}
  BY DEF HubFates
<1>6. CASE RetryDropped
  <2>1. PICK why \in {"expired", "dropped"} :
          /\ leaving' = leaving \cup {c} /\ frames' = [frames EXCEPT ![c] = "none"]
          /\ fate' = [fate EXCEPT ![c] = why]
          /\ UNCHANGED <<retries, sentTimes, trouble>>
    BY <1>2, <1>6 DEF RetryDropped, Discarded
  <2>2. LeavesRetries(c)
    BY <1>0, <1>2, <1>5, <2>1 DEF LeavesRetries, HubShape
  <2>3. HubShape'
    BY <1>0, <1>1, <1>2, <1>3, <1>4, <1>5, <2>1 DEF HubShape
  <2> QED
    BY <1>1, <1>2, <1>3, <1>4, <2>2, <2>3, LeavesHolds
<1>7. CASE RetrySends
  <2> DEFINE tried == [RetryEntry EXCEPT !.attempts = @ + 1]
  <2>1. frames[c] # "none"
    BY <1>2, <1>7 DEF RetrySends
  <2>2. CASE /\ leaving' = leaving \cup {c} /\ frames' = [frames EXCEPT ![c] = "none"]
             /\ fate' = [fate EXCEPT ![c] = "sent"]
             /\ sentTimes' = [sentTimes EXCEPT ![c] = @ + 1]
             /\ UNCHANGED <<retries, trouble>>
    <3>1. LeavesRetries(c)
      BY <1>0, <1>2, <1>5, <2>1, <2>2 DEF LeavesRetries, HubShape
    <3>2. HubShape'
      BY <1>0, <1>1, <1>2, <1>3, <1>4, <1>5, <2>2 DEF HubShape
    <3> QED
      BY <1>1, <1>2, <1>3, <1>4, <3>1, <3>2, LeavesHolds
  <2>3. CASE /\ trouble > 0 /\ trouble' = trouble - 1
             /\ leaving' = leaving \cup {c} /\ frames' = [frames EXCEPT ![c] = "none"]
             /\ fate' = [fate EXCEPT ![c] = "refused"]
             /\ UNCHANGED <<retries, sentTimes>>
    <3>1. LeavesRetries(c)
      BY <1>0, <1>2, <1>5, <2>3 DEF LeavesRetries, HubShape
    <3>2. HubShape'
      BY <1>0, <1>1, <1>2, <1>3, <1>4, <1>5, <2>3 DEF HubShape
    <3> QED
      BY <1>1, <1>2, <1>3, <1>4, <3>1, <3>2, LeavesHolds
  <2>4. CASE /\ trouble > 0 /\ trouble' = trouble - 1 /\ ~(tried.attempts >= HubAttempts)
             /\ retries' = Changed(retries, c, tried)
             /\ UNCHANGED <<leaving, frames, fate, sentTimes>>
    <3>1. tried \in RetryEntries /\ tried.clip = c
      <4>1. /\ RetryEntry.attempts \in 1..HubAttempts /\ RetryEntry.clip = c /\ c \in ClipIds
            /\ RetryEntry = [clip |-> c, attempts |-> RetryEntry.attempts]
        BY <1>2 DEF RetryEntries
      <4>2. tried = [clip |-> c, attempts |-> RetryEntry.attempts + 1]
        BY <4>1
      <4>3. RetryEntry.attempts + 1 \in 1..HubAttempts
        BY <2>4, <4>1, <4>2, HubConstants
      <4> QED
        BY <4>1, <4>2, <4>3 DEF RetryEntries
    <3> HIDE DEF tried
    <3>2. retries' \in Seq(RetryEntries) /\ ClipsOf(retries') = ClipsOf(retries)
      BY <1>0, <2>4, <3>1, ClipsChanged
    <3>3. SameEntries
      BY <1>1, <1>4, <2>4, <3>2 DEF SameEntries
    <3>4. HubShape'
      BY <1>0, <1>1, <1>3, <1>4, <2>4, <3>2 DEF HubShape
    <3> QED
      BY <1>0, <1>1, <1>3, <1>4, <3>3, <3>4, PhaseSame DEF PhaseInv
  <2>5. \/ /\ leaving' = leaving \cup {c} /\ frames' = [frames EXCEPT ![c] = "none"]
           /\ fate' = [fate EXCEPT ![c] = "sent"]
           /\ sentTimes' = [sentTimes EXCEPT ![c] = @ + 1]
           /\ UNCHANGED <<retries, trouble>>
        \/ /\ trouble > 0 /\ trouble' = trouble - 1 /\ UNCHANGED sentTimes
           /\ IF tried.attempts >= HubAttempts
              THEN /\ leaving' = leaving \cup {c} /\ frames' = [frames EXCEPT ![c] = "none"]
                   /\ fate' = [fate EXCEPT ![c] = "refused"]
                   /\ UNCHANGED retries
              ELSE /\ retries' = Changed(retries, c, tried)
                   /\ UNCHANGED <<leaving, frames, fate>>
    BY <1>2, <1>7 DEF RetrySends, Discarded
  <2> QED
    BY <2>2, <2>3, <2>4, <2>5
<1> QED
  BY <1>6, <1>7

----------------------------------------------------------------------------
(* The files *)

LEMMA WriteSteps == ASSUME TickInv, PassWrites \/ TickEnds PROVE TickInv'
<1>0. HubShape /\ PhaseInv /\ TriesInv /\ CarryInv /\ OnceInv
  BY DEF TickInv
<1> USE DEF hubWorldVars, filesVars
<1>1. /\ UNCHANGED <<indexed, inline, resolved, cursor, queued, job, retries, frames, todoClips,
                     leaving, stopping, sentTimes, fate, kills, trouble>>
      /\ \/ /\ hubStep = "save" /\ hubStep' = "cursor" /\ cursorFile' = cursorFile
            /\ runtimeFile' = IF cursor # cursorFile THEN HubSnapshot ELSE runtimeFile
         \/ /\ hubStep = "cursor" /\ hubStep' \in {"rest", "shutdown"}
            /\ cursorFile' = cursor /\ runtimeFile' = runtimeFile
         \/ /\ hubStep = "rest" /\ hubStep' \in {"asleep", "shutdown"}
            /\ cursorFile' = cursorFile /\ runtimeFile' = HubSnapshot
  BY DEF PassWrites, TwoWrites, TickEnds
<1>2. /\ leaving = {} /\ leaving' = {} /\ hubStep # "down" /\ hubStep' # "down"
      /\ cursorFile <= cursor /\ cursor <= indexed
      /\ cursor \in Int /\ cursorFile \in Int /\ indexed \in Int /\ kills \in Nat
      /\ sentTimes \in [ClipIds -> Nat]
  BY <1>0, <1>1 DEF HubShape, PhaseInv, NoCursor
<1>3. /\ QueueLeft = ClipsOf(queued) /\ RetryLeft = ClipsOf(retries)
      /\ QueueLeft' = ClipsOf(queued) /\ RetryLeft' = ClipsOf(retries)
      /\ ClipsOf(queued') = ClipsOf(queued) /\ ClipsOf(retries') = ClipsOf(retries)
  BY <1>1, <1>2 DEF QueueLeft, RetryLeft, ClipsOf
<1>4. HubShape'
  <2>1. HubSnapshot \in [clips : Seq(ClipEntries), retries : Seq(RetryEntries)]
    BY <1>0 DEF HubShape, HubSnapshot
  <2> QED
    BY <1>0, <1>1, <2>1 DEF HubShape
<1>5. CASE hubStep \in {"save", "rest"} /\ runtimeFile' = HubSnapshot /\ cursorFile' = cursorFile
  <2>1. ClipsOf(runtimeFile'.clips) = ClipsOf(queued)
        /\ ClipsOf(runtimeFile'.retries) = ClipsOf(retries) /\ runtimeFile'.clips = queued
    BY <1>5 DEF HubSnapshot, ClipsOf
  <2>2. hubStep' \in {"asleep", "shutdown"} => cursor = cursorFile
    BY <1>0, <1>1, <1>5 DEF PhaseInv
  <2>2a. hubStep' \in {"cursor", "asleep", "shutdown"}
    BY <1>1, <1>5
  <2>3. PhaseInv'
    <3>1. hubStep' = "cursor" => runtimeFile' = HubSnapshot'
      BY <1>1, <1>5 DEF HubSnapshot
    <3>2. cursorFile' <= indexed' /\ cursorFile' <= cursor' /\ cursor' <= indexed'
      BY <1>1, <1>2, <1>5
    <3>3. inline' => ClipsOf(queued') = {} /\ ClipsOf(runtimeFile'.clips) = {}
      BY <1>0, <1>1, <1>3, <2>1 DEF PhaseInv
    <3>4. cursorFile' = NoCursor =>
            /\ ClipsOf(queued') = {} /\ ClipsOf(retries') = {}
            /\ ClipsOf(runtimeFile'.clips) = {} /\ ClipsOf(runtimeFile'.retries) = {}
            /\ \A c \in ClipIds : fate'[c] \in {"unseen", "history"}
      BY <1>0, <1>1, <1>3, <1>5, <2>1 DEF PhaseInv
    <3>5. \A c \in ClipIds : c \in ClipsOf(retries') => c \in ClipsOf(runtimeFile'.retries)
      BY <1>3, <2>1
    <3> QED
      BY <1>1, <1>2, <1>5, <2>2, <2>2a, <3>1, <3>2, <3>3, <3>4, <3>5 DEF PhaseInv
  <2>4. TriesInv'
    <3>1. queued \in Seq(ClipEntries)
      BY <1>0 DEF HubShape
    <3>2. \A i \in 1..Len(queued) : queued[i].clip \in QueueLeft
      BY <1>3, <3>1, ClipsIn
    <3> QED
      BY <1>0, <1>1, <1>3, <2>1, <3>2 DEF TriesInv
  <2>5. CarryInv'
    <3>1. \A c \in ClipIds : c <= cursor =>
           /\ fate[c] # "unseen"
           /\ fate[c] = "queued" => c \in ClipsOf(queued)
           /\ fate[c] = "retry" => c \in ClipsOf(queued) \cup ClipsOf(retries)
      BY <1>0, <1>2, <1>3 DEF CarryInv
    <3>2. \A c \in ClipIds : c <= cursorFile => c <= cursor
      BY <1>2 DEF ClipIds
    <3> QED
      BY <1>1, <1>3, <1>5, <2>1, <3>1, <3>2 DEF CarryInv
  <2>6. OnceInv'
    <3> SUFFICES ASSUME NEW d \in ClipIds
        PROVE  /\ sentTimes[d] + Owed(d)' <= 1 + kills
               /\ sentTimes[d] + Saved(d)' <= 2 + kills
               /\ hubStep' \in Early => sentTimes[d] + Saved(d)' <= 1 + kills
               /\ ~Fresh1(d)'
      BY <1>1, <1>2 DEF OnceInv
    <3>1. sentTimes[d] + Owed(d) <= 1 + kills /\ sentTimes[d] \in Nat
      BY <1>0, <1>2 DEF OnceInv
    <3>2. Owed(d)' = Owed(d)
      BY <1>1, <1>3 DEF Owed
    <3>3. /\ Owed(d) = (IF cursor < d THEN 1 ELSE 0) + (IF d \in ClipsOf(queued) THEN 1 ELSE 0)
                         + (IF d \in ClipsOf(retries) /\ frames[d] # "none" THEN 1 ELSE 0)
          /\ Saved(d)' = (IF cursorFile < d THEN 1 ELSE 0) + (IF d \in ClipsOf(queued) THEN 1 ELSE 0)
                         + (IF d \in ClipsOf(retries) /\ frames[d] # "none" THEN 1 ELSE 0)
      BY <1>1, <1>3, <1>5, <2>1 DEF Owed, Saved
    <3>4. /\ Saved(d)' <= Owed(d) + 1 /\ {Owed(d), Saved(d)'} \subseteq Nat
          /\ hubStep' \in Early => Saved(d)' = Owed(d)
      <4>1. hubStep' \in Early => cursor = cursorFile
        BY <2>2, <2>2a DEF Early
      <4> QED
        BY <3>3, <4>1
    <3>5. ~Fresh1(d)'
      BY <1>3, <2>1 DEF Fresh1
    <3> QED
      BY <1>2, <3>1, <3>2, <3>4, <3>5
  <2> QED
    BY <1>4, <2>3, <2>4, <2>5, <2>6 DEF TickInv
<1>6. CASE hubStep = "save" /\ runtimeFile' = runtimeFile /\ cursorFile' = cursorFile /\ cursor = cursorFile
  <2>1. hubStep' = "cursor"
    BY <1>1, <1>6
  <2>2. SameEntries
    BY <1>1, <1>6, <2>1 DEF SameEntries, Early
  <2>3. PhaseInv'
    <3>1. /\ ClipsOf(runtimeFile'.clips) = ClipsOf(runtimeFile.clips)
          /\ ClipsOf(runtimeFile'.retries) = ClipsOf(runtimeFile.retries)
      BY <1>6 DEF ClipsOf
    <3>2. cursorFile' <= indexed' /\ cursorFile' <= cursor' /\ cursor' <= indexed'
      BY <1>1, <1>2, <1>6
    <3>3. inline' => ClipsOf(queued') = {} /\ ClipsOf(runtimeFile'.clips) = {}
      BY <1>0, <1>1, <1>3, <3>1 DEF PhaseInv
    <3>4. cursorFile' = NoCursor =>
            /\ ClipsOf(queued') = {} /\ ClipsOf(retries') = {}
            /\ ClipsOf(runtimeFile'.clips) = {} /\ ClipsOf(runtimeFile'.retries) = {}
            /\ \A c \in ClipIds : fate'[c] \in {"unseen", "history"}
      BY <1>0, <1>1, <1>3, <1>6, <3>1 DEF PhaseInv
    <3> QED
      BY <1>1, <1>2, <1>6, <2>1, <3>2, <3>3, <3>4 DEF PhaseInv, Early
  <2> QED
    BY <1>4, <2>2, <2>3, SameHolds, <1>0 DEF TickInv
<1>7. CASE hubStep = "cursor" /\ hubStep' \in {"rest", "shutdown"} /\ cursorFile' = cursor /\ runtimeFile' = runtimeFile
  <2>1. cursor = cursorFile \/ runtimeFile = HubSnapshot
    BY <1>0, <1>7 DEF PhaseInv
  <2>2. ClipsOf(runtimeFile'.clips) = ClipsOf(runtimeFile.clips)
        /\ ClipsOf(runtimeFile'.retries) = ClipsOf(runtimeFile.retries)
    BY <1>7 DEF ClipsOf
  <2>3. PhaseInv'
    <3>1. cursorFile' = NoCursor => cursorFile = NoCursor
      BY <1>0, <1>2, <1>7 DEF HubShape, NoCursor
    <3>2. cursorFile' <= indexed' /\ cursorFile' <= cursor' /\ cursor' <= indexed'
      BY <1>1, <1>2, <1>7
    <3>3. inline' => ClipsOf(queued') = {} /\ ClipsOf(runtimeFile'.clips) = {}
      BY <1>0, <1>1, <1>3, <2>2 DEF PhaseInv
    <3>4. cursorFile' = NoCursor =>
            /\ ClipsOf(queued') = {} /\ ClipsOf(retries') = {}
            /\ ClipsOf(runtimeFile'.clips) = {} /\ ClipsOf(runtimeFile'.retries) = {}
            /\ \A c \in ClipIds : fate'[c] \in {"unseen", "history"}
      BY <1>0, <1>1, <1>3, <2>2, <3>1 DEF PhaseInv
    <3> QED
      BY <1>1, <1>2, <1>7, <3>2, <3>3, <3>4 DEF PhaseInv, Early
  <2>4. TriesInv'
    BY <1>0, <1>1, <1>3, <1>7 DEF TriesInv
  <2>5. CarryInv'
    <3>1. \A c \in ClipIds : c <= cursor =>
           /\ fate[c] # "unseen"
           /\ fate[c] = "queued" => c \in ClipsOf(queued)
           /\ fate[c] = "retry" => c \in ClipsOf(queued) \cup ClipsOf(retries)
      BY <1>0, <1>2, <1>3 DEF CarryInv
    <3>2. CASE cursor = cursorFile
      BY <1>0, <1>1, <1>2, <1>3, <1>7, <2>2, <3>2 DEF CarryInv
    <3>3. CASE runtimeFile = HubSnapshot
      <4>1. ClipsOf(runtimeFile.clips) = ClipsOf(queued) /\ ClipsOf(runtimeFile.retries) = ClipsOf(retries)
        BY <3>3 DEF HubSnapshot
      <4> QED
        BY <1>1, <1>2, <1>3, <1>7, <2>2, <3>1, <4>1 DEF CarryInv
    <3> QED
      BY <2>1, <3>2, <3>3
  <2>6. OnceInv'
    <3> SUFFICES ASSUME NEW d \in ClipIds
        PROVE  /\ sentTimes[d] + Owed(d)' <= 1 + kills
               /\ sentTimes[d] + Saved(d)' <= 2 + kills
               /\ Fresh1(d)' => sentTimes[d] + Saved(d)' <= 1 + kills
      BY <1>1, <1>2, <1>7 DEF OnceInv, Early
    <3>1. /\ sentTimes[d] + Owed(d) <= 1 + kills /\ sentTimes[d] \in Nat
          /\ sentTimes[d] + Saved(d) <= 2 + kills
          /\ Fresh1(d) => sentTimes[d] + Saved(d) <= 1 + kills
      BY <1>0, <1>2 DEF OnceInv
    <3>2. Owed(d)' = Owed(d) /\ (Fresh1(d)' <=> Fresh1(d))
      BY <1>1, <1>3, <2>2 DEF Owed, Fresh1
    <3>3. /\ Saved(d) = (IF cursorFile < d THEN 1 ELSE 0) + (IF d \in ClipsOf(runtimeFile.clips) THEN 1 ELSE 0)
                         + (IF d \in ClipsOf(runtimeFile.retries) /\ frames[d] # "none" THEN 1 ELSE 0)
          /\ Saved(d)' = (IF cursor < d THEN 1 ELSE 0) + (IF d \in ClipsOf(runtimeFile.clips) THEN 1 ELSE 0)
                         + (IF d \in ClipsOf(runtimeFile.retries) /\ frames[d] # "none" THEN 1 ELSE 0)
      BY <1>1, <1>7, <2>2 DEF Saved
    <3>4. Saved(d)' <= Saved(d) /\ {Saved(d), Saved(d)'} \subseteq Nat
      <4>1. cursor < d => cursorFile < d
        BY <1>2 DEF ClipIds
      <4> QED
        BY <3>3, <4>1
    <3> QED
      BY <1>2, <3>1, <3>2, <3>4
  <2> QED
    BY <1>4, <2>3, <2>4, <2>5, <2>6 DEF TickInv
<1> QED
  BY <1>1, <1>5, <1>6, <1>7


----------------------------------------------------------------------------
(* The ways to stop, and the start after them *)

LEMMA SecondSignalStep == ASSUME TickInv, SecondSignal PROVE TickInv'
<1>0. HubShape /\ PhaseInv /\ TriesInv /\ CarryInv /\ OnceInv
  BY DEF TickInv
<1> USE DEF hubWorldVars, filesVars
<1>1. /\ UNCHANGED <<indexed, inline, resolved, cursor, cursorFile, runtimeFile, queued, job,
                     retries, frames, sentTimes, fate, trouble>>
      /\ kills' = kills + 1 /\ stopping' = "exit"
      /\ hubStep \in {"poll", "clips", "muted", "collect", "entries", "rest"}
      /\ \/ hubStep = "rest" /\ hubStep' = "shutdown" /\ UNCHANGED <<todoClips, leaving>>
         \/ hubStep # "rest" /\ hubStep' = "retry" /\ todoClips' = ClipOrder(retries) /\ leaving' = {}
  BY DEF SecondSignal
<1>2. /\ hubStep = "rest" => leaving = {}
      /\ cursorFile <= cursor /\ cursor <= indexed
      /\ kills \in Nat /\ sentTimes \in [ClipIds -> Nat]
  BY <1>0, <1>1 DEF HubShape, PhaseInv
<1>3. leaving' = {}
  BY <1>1, <1>2
<1>4. /\ RetryLeft = ClipsOf(retries) /\ QueueLeft = ClipsOf(queued) \ leaving
      /\ QueueLeft' = ClipsOf(queued) /\ RetryLeft' = ClipsOf(retries)
      /\ ClipsOf(queued') = ClipsOf(queued) /\ ClipsOf(retries') = ClipsOf(retries)
      /\ ClipsOf(runtimeFile'.clips) = ClipsOf(runtimeFile.clips)
      /\ ClipsOf(runtimeFile'.retries) = ClipsOf(runtimeFile.retries)
  BY <1>1, <1>3 DEF QueueLeft, RetryLeft, ClipsOf
<1>5. /\ ClipOrder(retries) \in Seq(ClipIds)
      /\ \A n \in 1..Len(ClipOrder(retries)) : ClipOrder(retries)[n] \in ClipsOf(retries)
  BY <1>0, OrdersTyped
<1>6. HubShape'
  BY <1>0, <1>1, <1>3, <1>5 DEF HubShape
<1>7. PhaseInv'
  <2>1. cursorFile' <= indexed' /\ cursorFile' <= cursor' /\ cursor' <= indexed'
    BY <1>0, <1>1, <1>2 DEF PhaseInv
  <2>2. hubStep' = "shutdown" => cursor' = cursorFile'
    BY <1>0, <1>1 DEF PhaseInv
  <2>3. inline' => ClipsOf(queued') = {} /\ ClipsOf(runtimeFile'.clips) = {}
    BY <1>0, <1>1, <1>4 DEF PhaseInv
  <2>4. cursorFile' = NoCursor =>
          /\ ClipsOf(queued') = {} /\ ClipsOf(retries') = {}
          /\ ClipsOf(runtimeFile'.clips) = {} /\ ClipsOf(runtimeFile'.retries) = {}
          /\ \A c \in ClipIds : fate'[c] \in {"unseen", "history"}
    BY <1>0, <1>1, <1>4 DEF PhaseInv
  <2>5. hubStep' = "retry" => \A n \in 1..Len(todoClips') : todoClips'[n] \in ClipsOf(retries')
    BY <1>1, <1>4, <1>5
  <2> QED
    BY <1>1, <1>3, <2>1, <2>2, <2>3, <2>4, <2>5 DEF PhaseInv, Early
<1>8. TriesInv'
  <2>1. FinishTries \in Nat
    BY HubConstants
  <2>2. ASSUME NEW i \in 1..Len(queued)
        PROVE  queued[i].tries <= FinishTries + kills' /\ queued[i].tries < FinishTries + kills'
    <3>1. queued[i] \in ClipEntries
      BY <1>0 DEF HubShape
    <3>2. queued[i].tries \in Int
      BY <3>1 DEF ClipEntries
    <3>3. queued[i].tries <= FinishTries + kills
      BY <1>0 DEF TriesInv
    <3> QED
      BY <1>1, <1>2, <2>1, <3>2, <3>3
  <2>3. ASSUME NEW i \in 1..Len(runtimeFile.clips)
        PROVE  runtimeFile.clips[i].tries < FinishTries + kills'
    <3>1. runtimeFile.clips[i] \in ClipEntries
      BY <1>0 DEF HubShape
    <3>2. runtimeFile.clips[i].tries \in Int
      BY <3>1 DEF ClipEntries
    <3>3. runtimeFile.clips[i].tries < FinishTries + kills
      BY <1>0 DEF TriesInv
    <3> QED
      BY <1>1, <1>2, <2>1, <3>2, <3>3
  <2> QED
    BY <1>1, <2>2, <2>3 DEF TriesInv
<1>9. CarryInv'
  <2>1. QueueLeft \subseteq QueueLeft' /\ RetryLeft' = RetryLeft
    BY <1>4
  <2>2. hubStep # "down"
    BY <1>1
  <2> QED
    BY <1>0, <1>1, <1>4, <2>1, <2>2 DEF CarryInv
<1>10. OnceInv'
  <2> SUFFICES ASSUME NEW d \in ClipIds
      PROVE  /\ sentTimes[d] + Owed(d)' <= 2 + kills
             /\ sentTimes[d] + Saved(d)' <= 3 + kills
             /\ sentTimes[d] + Saved(d)' <= 2 + kills
    BY <1>1, <1>2 DEF OnceInv
  <2>1. /\ sentTimes[d] + Owed(d) <= 1 + kills /\ sentTimes[d] \in Nat
        /\ sentTimes[d] + Saved(d) <= 2 + kills
    BY <1>0, <1>1, <1>2 DEF OnceInv
  <2>2. Saved(d)' = Saved(d) /\ Saved(d) \in Nat
    BY <1>1, <1>4 DEF Saved
  <2>3. Owed(d)' <= Owed(d) + 1 /\ {Owed(d), Owed(d)'} \subseteq Nat
    BY <1>1, <1>4 DEF Owed
  <2> QED
    BY <1>2, <2>1, <2>2, <2>3
<1> QED
  BY <1>6, <1>7, <1>8, <1>9, <1>10 DEF TickInv

LEMMA GoneSteps == ASSUME TickInv, HubShutdown \/ Kill PROVE TickInv'
<1>0. HubShape /\ PhaseInv /\ TriesInv /\ CarryInv /\ OnceInv
  BY DEF TickInv
<1> USE DEF hubWorldVars, filesVars
<1>1. /\ UNCHANGED <<indexed, inline, cursorFile, frames, sentTimes, fate>>
      /\ hubStep # "down" /\ hubStep' = "down" /\ stopping' = "no" /\ resolved' = FALSE
      /\ cursor' = NoCursor /\ queued' = <<>> /\ retries' = <<>> /\ job' = NoJob
      /\ todoClips' = <<>> /\ leaving' = {} /\ trouble' \in Nat
      /\ \/ hubStep = "shutdown" /\ runtimeFile' = HubSnapshot /\ kills' = kills
         \/ runtimeFile' = runtimeFile /\ kills' = kills + 1
  BY <1>0 DEF HubShutdown, Kill, Gone, HubShape
<1>2. /\ kills \in Nat /\ kills' \in Nat /\ sentTimes \in [ClipIds -> Nat] /\ FinishTries \in Nat
      /\ cursorFile \in Int /\ cursor \in Int
      /\ kills <= kills'
  BY <1>0, <1>1, HubConstants DEF HubShape, NoCursor
<1>3. ClipsOf(queued') = {} /\ ClipsOf(retries') = {}
  BY <1>1 DEF ClipsOf
<1>4. runtimeFile' \in [clips : Seq(ClipEntries), retries : Seq(RetryEntries)]
  BY <1>0, <1>1 DEF HubShape, HubSnapshot
<1>5. HubShape'
  <2>1. NoJob \in [clip : 0..HubClips, stage : {"none", "running", "done"}, frames : BOOLEAN]
    BY HubConstants DEF NoJob
  <2>2. NoCursor \in NoCursor..HubClips
    BY HubConstants DEF NoCursor
  <2>3. queued' \in Seq(ClipEntries) /\ retries' \in Seq(RetryEntries) /\ todoClips' \in Seq(ClipIds)
    BY <1>1
  <2> QED
    BY <1>0, <1>1, <1>2, <1>4, <2>1, <2>2, <2>3 DEF HubShape
<1>6. hubStep = "shutdown" => cursor = cursorFile /\ leaving = {}
  BY <1>0 DEF PhaseInv
<1>7. \/ /\ ClipsOf(runtimeFile'.clips) = ClipsOf(runtimeFile.clips)
         /\ ClipsOf(runtimeFile'.retries) = ClipsOf(runtimeFile.retries)
         /\ runtimeFile' = runtimeFile /\ kills' = kills + 1
      \/ /\ hubStep = "shutdown" /\ runtimeFile'.clips = queued /\ kills' = kills
         /\ ClipsOf(runtimeFile'.clips) = ClipsOf(queued)
         /\ ClipsOf(runtimeFile'.retries) = ClipsOf(retries)
         /\ QueueLeft = ClipsOf(queued) /\ RetryLeft = ClipsOf(retries)
  BY <1>1, <1>6 DEF ClipsOf, HubSnapshot, QueueLeft, RetryLeft
<1>8. PhaseInv'
  <2>1. cursorFile' <= indexed'
    BY <1>0, <1>1 DEF PhaseInv
  <2>2. inline' => ClipsOf(queued') = {} /\ ClipsOf(runtimeFile'.clips) = {}
    BY <1>0, <1>1, <1>3, <1>7 DEF PhaseInv
  <2>3. cursorFile' = NoCursor =>
          /\ ClipsOf(queued') = {} /\ ClipsOf(retries') = {}
          /\ ClipsOf(runtimeFile'.clips) = {} /\ ClipsOf(runtimeFile'.retries) = {}
          /\ \A c \in ClipIds : fate'[c] \in {"unseen", "history"}
    BY <1>0, <1>1, <1>3, <1>7 DEF PhaseInv
  <2> QED
    BY <1>1, <2>1, <2>2, <2>3 DEF PhaseInv, Early
<1>9. TriesInv'
  <2>1. Len(queued') = 0
    BY <1>1
  <2>2. CASE runtimeFile' = runtimeFile
    <3>1. ASSUME NEW i \in 1..Len(runtimeFile.clips)
          PROVE  runtimeFile.clips[i].tries < FinishTries + kills'
      <4>1. runtimeFile.clips[i] \in ClipEntries
        BY <1>0 DEF HubShape
      <4>2. runtimeFile.clips[i].tries \in Int
        BY <4>1 DEF ClipEntries
      <4>3. runtimeFile.clips[i].tries < FinishTries + kills
        BY <1>0 DEF TriesInv
      <4> QED
        BY <1>2, <4>2, <4>3
    <3> QED
      BY <2>1, <2>2, <3>1 DEF TriesInv
  <2>3. CASE hubStep = "shutdown" /\ runtimeFile'.clips = queued /\ kills' = kills
             /\ QueueLeft = ClipsOf(queued)
    <3>1. queued \in Seq(ClipEntries)
      BY <1>0 DEF HubShape
    <3>2. \A i \in 1..Len(queued) : queued[i].clip \in QueueLeft
      BY <2>3, <3>1, ClipsIn
    <3> QED
      BY <1>0, <2>1, <2>3, <3>2 DEF TriesInv
  <2> QED
    BY <1>7, <2>2, <2>3
<1>10. CarryInv'
  <2>1. ASSUME NEW d \in ClipIds, d <= cursorFile
        PROVE  /\ fate[d] # "unseen"
               /\ fate[d] = "queued" => d \in ClipsOf(runtimeFile'.clips)
               /\ fate[d] = "retry" =>
                    d \in ClipsOf(runtimeFile'.clips) \cup ClipsOf(runtimeFile'.retries)
    <3>1. CASE runtimeFile' = runtimeFile
      BY <1>0, <2>1, <3>1 DEF CarryInv, ClipsOf
    <3>2. CASE /\ hubStep = "shutdown"
               /\ ClipsOf(runtimeFile'.clips) = ClipsOf(queued)
               /\ ClipsOf(runtimeFile'.retries) = ClipsOf(retries)
               /\ QueueLeft = ClipsOf(queued) /\ RetryLeft = ClipsOf(retries)
      <4>1. d <= cursor
        BY <1>6, <2>1, <3>2
      <4>2. /\ fate[d] # "unseen"
            /\ fate[d] = "queued" => d \in QueueLeft
            /\ fate[d] = "retry" => d \in QueueLeft \cup RetryLeft
        BY <1>0, <1>1, <4>1 DEF CarryInv
      <4> QED
        BY <3>2, <4>2
    <3> QED
      BY <1>7, <3>1, <3>2
  <2> QED
    BY <1>1, <1>3, <2>1 DEF CarryInv
<1>11. OnceInv'
  <2> SUFFICES ASSUME NEW d \in ClipIds
      PROVE  sentTimes[d] + Saved(d)' <= 2 + kills' /\ sentTimes[d] + Saved(d)' <= 1 + kills'
    BY <1>1 DEF OnceInv, Early
  <2>1. /\ sentTimes[d] + Owed(d) <= 1 + kills /\ sentTimes[d] \in Nat
        /\ sentTimes[d] + Saved(d) <= 2 + kills
    BY <1>0, <1>1, <1>2 DEF OnceInv
  <2>2. Saved(d) \in Nat /\ Saved(d)' \in Nat /\ Owed(d) \in Nat
    BY <1>2 DEF Saved, Owed
  <2>3. CASE runtimeFile' = runtimeFile /\ kills' = kills + 1
    <3>1. Saved(d)' = Saved(d)
      BY <1>1, <2>3 DEF Saved, ClipsOf
    <3> QED
      BY <1>2, <2>1, <2>2, <2>3, <3>1
  <2>4. CASE /\ hubStep = "shutdown" /\ kills' = kills
             /\ ClipsOf(runtimeFile'.clips) = ClipsOf(queued)
             /\ ClipsOf(runtimeFile'.retries) = ClipsOf(retries)
             /\ QueueLeft = ClipsOf(queued) /\ RetryLeft = ClipsOf(retries)
    <3>1. Saved(d)' = Owed(d)
      BY <1>1, <1>6, <2>4 DEF Saved, Owed
    <3> QED
      BY <1>2, <2>1, <2>2, <2>4, <3>1
  <2> QED
    BY <1>7, <2>3, <2>4
<1> QED
  BY <1>5, <1>8, <1>9, <1>10, <1>11 DEF TickInv

LEMMA HubRestartStep == ASSUME TickInv, HubRestart PROVE TickInv'
<1>0. HubShape /\ PhaseInv /\ TriesInv /\ CarryInv /\ OnceInv
  BY DEF TickInv
<1> USE DEF hubWorldVars, filesVars
<1> DEFINE lost == {c \in ClipsOf(runtimeFile.retries) : frames[c] = "none"}
<1>1. /\ hubStep = "down" /\ hubStep' = "asleep"
      /\ cursor' = cursorFile /\ queued' = runtimeFile.clips
      /\ IsWithout(retries', runtimeFile.retries, lost)
      /\ fate' = [c \in ClipIds |-> IF c \in lost /\ fate[c] = "retry" THEN "dropped" ELSE fate[c]]
      /\ frames' = [c \in ClipIds |-> IF frames[c] = "job" THEN "none" ELSE frames[c]]
      /\ UNCHANGED <<indexed, inline, resolved, cursorFile, runtimeFile, job, todoClips, leaving,
                     stopping, sentTimes, kills, trouble>>
  BY DEF HubRestart
<1>2. \A d \in ClipIds : d \in lost <=> d \in ClipsOf(runtimeFile.retries) /\ frames[d] = "none"
  OBVIOUS
<1> HIDE DEF lost
<1>3. /\ retries' \in Seq(RetryEntries)
      /\ ClipsOf(retries') = ClipsOf(runtimeFile.retries) \ lost
  <2>1. PICK rest, file : rest = retries' /\ file = runtimeFile.retries
    OBVIOUS
  <2>2. file \in Seq(RetryEntries) /\ IsWithout(rest, file, lost)
    BY <1>0, <1>1, <2>1 DEF HubShape
  <2>3. rest \in Seq(RetryEntries) /\ ClipsOf(rest) = ClipsOf(file) \ lost
    BY <2>2, ClipsDropped
  <2> QED
    BY <2>1, <2>3 DEF ClipsOf
<1>4. /\ leaving' = {} /\ kills \in Nat /\ sentTimes \in [ClipIds -> Nat]
      /\ cursorFile \in Int /\ cursorFile <= indexed /\ indexed \in Int
  BY <1>0, <1>1 DEF HubShape, PhaseInv, NoCursor
<1>5. /\ QueueLeft' = ClipsOf(runtimeFile.clips) /\ RetryLeft' = ClipsOf(retries')
      /\ ClipsOf(queued') = ClipsOf(runtimeFile.clips)
      /\ ClipsOf(runtimeFile'.clips) = ClipsOf(runtimeFile.clips)
      /\ ClipsOf(runtimeFile'.retries) = ClipsOf(runtimeFile.retries)
  BY <1>1, <1>4 DEF QueueLeft, RetryLeft, ClipsOf
<1>6. HubShape'
  <2>1. fate' \in [ClipIds -> HubFates]
    <3>1. "dropped" \in HubFates
      BY DEF HubFates
    <3> QED
      BY <1>0, <1>1, <3>1 DEF HubShape
  <2>2. frames' \in [ClipIds -> {"none", "job", "live"}]
    BY <1>0, <1>1 DEF HubShape
  <2>3. queued' \in Seq(ClipEntries)
    BY <1>0, <1>1 DEF HubShape
  <2> QED
    BY <1>0, <1>1, <1>3, <2>1, <2>2, <2>3 DEF HubShape
<1>7. PhaseInv'
  <2>1. inline' => ClipsOf(queued') = {} /\ ClipsOf(runtimeFile'.clips) = {}
    BY <1>0, <1>1, <1>5 DEF PhaseInv
  <2>2. cursorFile' = NoCursor =>
          /\ ClipsOf(queued') = {} /\ ClipsOf(retries') = {}
          /\ ClipsOf(runtimeFile'.clips) = {} /\ ClipsOf(runtimeFile'.retries) = {}
          /\ \A c \in ClipIds : fate'[c] \in {"unseen", "history"}
    <3> SUFFICES ASSUME cursorFile = NoCursor
        PROVE  /\ ClipsOf(queued') = {} /\ ClipsOf(retries') = {}
               /\ ClipsOf(runtimeFile'.clips) = {} /\ ClipsOf(runtimeFile'.retries) = {}
               /\ \A c \in ClipIds : fate'[c] \in {"unseen", "history"}
      BY <1>1
    <3>1. /\ ClipsOf(runtimeFile.clips) = {} /\ ClipsOf(runtimeFile.retries) = {}
          /\ \A c \in ClipIds : fate[c] \in {"unseen", "history"}
      BY <1>0 DEF PhaseInv
    <3> QED
      BY <1>1, <1>3, <1>5, <3>1
  <2>3. \A c \in ClipIds : c \in ClipsOf(retries') => c \in ClipsOf(runtimeFile'.retries)
    BY <1>3, <1>5
  <2>4. cursorFile' <= indexed' /\ cursorFile' <= cursor' /\ cursor' <= indexed' /\ cursor' = cursorFile'
    BY <1>1, <1>4
  <2> QED
    BY <1>1, <1>4, <2>1, <2>2, <2>3, <2>4 DEF PhaseInv
<1>8. TriesInv'
  <2>1. FinishTries \in Nat
    BY HubConstants
  <2>2. ASSUME NEW i \in 1..Len(runtimeFile.clips)
        PROVE  /\ runtimeFile.clips[i].tries < FinishTries + kills
               /\ runtimeFile.clips[i].tries <= FinishTries + kills
    <3>1. runtimeFile.clips[i] \in ClipEntries
      BY <1>0 DEF HubShape
    <3>2. runtimeFile.clips[i].tries \in Int
      BY <3>1 DEF ClipEntries
    <3>3. runtimeFile.clips[i].tries < FinishTries + kills
      BY <1>0 DEF TriesInv
    <3> QED
      BY <1>4, <2>1, <3>2, <3>3
  <2> QED
    BY <1>1, <2>2 DEF TriesInv
<1>9. CarryInv'
  <2>1. ASSUME NEW d \in ClipIds, d <= cursorFile
        PROVE  /\ fate'[d] # "unseen"
               /\ fate'[d] = "queued" => d \in ClipsOf(runtimeFile.clips)
               /\ fate'[d] = "retry" => d \in ClipsOf(runtimeFile.clips) \cup ClipsOf(retries')
               /\ fate'[d] = "retry" =>
                    d \in ClipsOf(runtimeFile.clips) \cup ClipsOf(runtimeFile.retries)
    <3>1. /\ fate[d] # "unseen"
          /\ fate[d] = "queued" => d \in ClipsOf(runtimeFile.clips)
          /\ fate[d] = "retry" => d \in ClipsOf(runtimeFile.clips) \cup ClipsOf(runtimeFile.retries)
      BY <1>0, <2>1 DEF CarryInv
    <3>2. fate'[d] = IF d \in lost /\ fate[d] = "retry" THEN "dropped" ELSE fate[d]
      BY <1>1
    <3> QED
      BY <1>3, <3>1, <3>2
  <2> QED
    BY <1>1, <1>5, <2>1 DEF CarryInv
<1>10. OnceInv'
  <2> SUFFICES ASSUME NEW d \in ClipIds
      PROVE  /\ sentTimes[d] + Owed(d)' <= 1 + kills
             /\ sentTimes[d] + Saved(d)' <= 2 + kills
             /\ sentTimes[d] + Saved(d)' <= 1 + kills
    BY <1>1 DEF OnceInv
  <2>1. sentTimes[d] + Saved(d) <= 1 + kills /\ sentTimes[d] \in Nat
    BY <1>0, <1>1, <1>4 DEF OnceInv
  <2>2. frames'[d] # "none" => frames[d] # "none"
    BY <1>1
  <2>3. /\ Owed(d)' = (IF cursorFile < d THEN 1 ELSE 0) + (IF d \in ClipsOf(runtimeFile.clips) THEN 1 ELSE 0)
                         + (IF d \in ClipsOf(retries') /\ frames'[d] # "none" THEN 1 ELSE 0)
        /\ Saved(d)' = (IF cursorFile < d THEN 1 ELSE 0) + (IF d \in ClipsOf(runtimeFile.clips) THEN 1 ELSE 0)
                         + (IF d \in ClipsOf(runtimeFile.retries) /\ frames'[d] # "none" THEN 1 ELSE 0)
    BY <1>1, <1>5 DEF Owed, Saved
  <2>4. Owed(d)' <= Saved(d) /\ Saved(d)' <= Saved(d)
        /\ {Owed(d)', Saved(d), Saved(d)'} \subseteq Nat
    BY <1>3, <2>2, <2>3 DEF Saved
  <2> QED
    BY <1>4, <2>1, <2>4
<1> QED
  BY <1>6, <1>7, <1>8, <1>9, <1>10 DEF TickInv

----------------------------------------------------------------------------
LEMMA TickInitInv == HubInit => TickInv
<1> SUFFICES ASSUME HubInit PROVE TickInv
  OBVIOUS
<1>1. /\ HubClips \in Nat /\ FinishTries \in Nat /\ HubTrouble \in Nat /\ HubAttempts \in Nat
  BY HubConstants
<1>2. /\ indexed = 0 /\ inline \in BOOLEAN /\ resolved = FALSE
      /\ cursor = -1 /\ cursorFile = -1 /\ queued = <<>> /\ retries = <<>> /\ job = NoJob
      /\ frames = [c \in ClipIds |-> "none"] /\ runtimeFile = [clips |-> <<>>, retries |-> <<>>]
      /\ hubStep = "asleep" /\ todoClips = <<>> /\ leaving = {} /\ stopping = "no"
      /\ sentTimes = [c \in ClipIds |-> 0] /\ fate = [c \in ClipIds |-> "unseen"]
      /\ kills = 0 /\ trouble = HubTrouble
  BY DEF HubInit, NoCursor
<1>3. ClipsOf(<<>>) = {}
  BY DEF ClipsOf
<1>4. HubShape
  <2>1. NoJob \in [clip : 0..HubClips, stage : {"none", "running", "done"}, frames : BOOLEAN]
    BY <1>1 DEF NoJob
  <2>2. queued \in Seq(ClipEntries) /\ retries \in Seq(RetryEntries) /\ todoClips \in Seq(ClipIds)
    BY <1>2
  <2>3. runtimeFile \in [clips : Seq(ClipEntries), retries : Seq(RetryEntries)]
    BY <1>2, <2>2
  <2>4. cursor \in NoCursor..HubClips /\ cursorFile \in NoCursor..HubClips
    BY <1>1, <1>2 DEF NoCursor
  <2>5. "unseen" \in HubFates
    BY DEF HubFates
  <2> QED
    <3>1. indexed \in 0..HubClips /\ kills \in Nat /\ trouble \in Nat
      BY <1>1, <1>2
    <3>2. resolved \in BOOLEAN /\ inline \in BOOLEAN
      BY <1>2
    <3>3. /\ frames \in [ClipIds -> {"none", "job", "live"}] /\ sentTimes \in [ClipIds -> Nat]
          /\ fate \in [ClipIds -> HubFates]
      BY <1>2, <2>5
    <3>4. /\ leaving \subseteq ClipIds /\ stopping \in {"no", "asked", "exit"}
          /\ hubStep \in {"asleep", "poll", "clips", "muted", "collect", "entries", "retry", "save",
                          "cursor", "rest", "shutdown", "down"}
          /\ job \in [clip : 0..HubClips, stage : {"none", "running", "done"}, frames : BOOLEAN]
      BY <1>2, <2>1
    <3> QED
      BY <2>2, <2>3, <2>4, <3>1, <3>2, <3>3, <3>4 DEF HubShape
<1>5. PhaseInv
  BY <1>2, <1>3 DEF PhaseInv
<1>6. TriesInv
  BY <1>2 DEF TriesInv
<1>7. CarryInv
  <2>1. \A c \in ClipIds : ~(c <= cursor) /\ ~(c <= cursorFile)
    BY <1>2 DEF ClipIds
  <2> QED
    BY <1>2, <1>3, <2>1 DEF CarryInv
<1>8. OnceInv
  <2> SUFFICES ASSUME NEW c \in ClipIds
      PROVE  sentTimes[c] + Owed(c) <= 1 + kills /\ sentTimes[c] + Saved(c) <= 2 + kills
             /\ sentTimes[c] + Saved(c) <= 1 + kills
    BY DEF OnceInv
  <2>1. QueueLeft = {} /\ RetryLeft = {}
    BY <1>2, <1>3 DEF QueueLeft, RetryLeft
  <2>2. Owed(c) \in 0..1
    BY <2>1 DEF Owed
  <2>3. Saved(c) \in 0..1
    BY <1>2, <1>3 DEF Saved
  <2> QED
    BY <1>2, <2>2, <2>3
<1> QED
  BY <1>4, <1>5, <1>6, <1>7, <1>8 DEF TickInv

LEMMA HubTickStep == TickInv /\ [HubNext]_hubVars => TickInv'
BY QuietSteps, PollAnswersStep, ClipSteps, EntrySteps, LoopEnds, RetrySteps, WriteSteps,
   SecondSignalStep, GoneSteps, HubRestartStep DEF HubNext

(* Only a second signal, during the work on a clip of a camera without the      *)
(* worker, leaves a clip undecided behind the cursor.                          *)
CutInv == \A c \in ClipIds : fate[c] = "cutoff" => inline /\ kills > 0
HubInv == TickInv /\ CutInv

NoneCut == \A d \in ClipIds : fate'[d] = "cutoff" => fate[d] = "cutoff"

LEMMA DecidedNotCut ==
  ASSUME fate \in [ClipIds -> HubFates], NEW c \in ClipIds, NEW got \in BOOLEAN,
         Decides(c, got) \/ FinishEntry(c, got)
  PROVE  NoneCut
<1>1. \A kind : DeliverFrames(c, kind) => NoneCut
  BY DEF DeliverFrames, Verdicts, NoneCut
<1>2. NoFrame(c) => NoneCut
  BY DEF NoFrame, NoneCut
<1>3. Decides(c, got) => NoneCut
  BY <1>1, <1>2 DEF Decides
<1>4. FinishEntry(c, got) => NoneCut
  BY <1>3 DEF FinishEntry, NoneCut
<1> QED BY <1>3, <1>4

LEMMA CutOffStep == HubInv /\ [HubNext]_hubVars => CutInv'
<1> SUFFICES ASSUME HubInv, [HubNext]_hubVars PROVE CutInv'
  OBVIOUS
<1>0. /\ TickInv /\ CutInv /\ HubShape /\ PhaseInv /\ fate \in [ClipIds -> HubFates]
      /\ kills \in Nat /\ todoClips \in Seq(ClipIds)
  BY DEF HubInv, TickInv, HubShape
<1> SUFFICES /\ inline' = inline /\ kills' \in {kills, kills + 1}
             /\ NoneCut \/ (inline /\ kills' > 0)
  BY <1>0 DEF CutInv, NoneCut
<1> USE DEF hubWorldVars
<1>1. CASE \/ TickBegins \/ PollMisses \/ EntrySkipped \/ EntrySubmitted \/ EntriesDone
           \/ JobReturns \/ RetryWaits \/ RetriesDone \/ PassWrites \/ TickEnds \/ Signal
           \/ SecondSignal \/ HubShutdown \/ Kill \/ ClipIndexed \/ UNCHANGED hubVars
  BY <1>1 DEF TickBegins, PollMisses, EntrySkipped, EntrySubmitted, EntriesDone, JobReturns,
     RetryWaits, RetriesDone, PassWrites, TickEnds, Signal, SecondSignal, HubShutdown, Kill,
     ClipIndexed, hubVars, NoneCut
<1>2. CASE \/ PollAnswers \/ ClipMuted \/ ClipQueued \/ ClipRaises \/ EntryTooOld \/ RetryDropped
           \/ RetrySends \/ HubRestart
  BY <1>0, <1>2 DEF PollAnswers, ClipMuted, ClipQueued, ClipRaises, EntryTooOld, RetryDropped,
     RetrySends, HubRestart, NoneCut
<1>3. CASE ClipCutOff
  BY <1>0, <1>3 DEF ClipCutOff
<1>4. CASE ClipInline
  <2>1. NextClip("clips") /\ UNCHANGED <<inline, kills>>
    BY <1>4 DEF ClipInline
  <2>2. cursor' \in ClipIds
    BY <1>0, <2>1, NextTodo, AtClip
  <2>3. PICK got \in BOOLEAN : Decides(cursor', got)
    BY <1>4 DEF ClipInline
  <2>4. \A c \in ClipIds : Decides(c, got) => NoneCut
    BY <1>0, DecidedNotCut
  <2> QED BY <2>1, <2>2, <2>3, <2>4
<1>5. CASE Collect
  <2>1. UNCHANGED <<inline, kills>>
    BY <1>5 DEF Collect
  <2>2. CASE UNCHANGED fate
    BY <2>1, <2>2 DEF NoneCut
  <2>3. CASE ~GivenUp(job.clip) /\ FinishEntry(job.clip, job.frames)
    <3>1. job.clip \in ClipIds /\ job.frames \in BOOLEAN
      <4>1. job.clip \in ClipsOf(queued) /\ queued \in Seq(ClipEntries)
        BY <1>0, <2>3 DEF GivenUp, HubShape
      <4>2. \A e \in ClipEntries : e.clip \in ClipIds
        BY DEF ClipEntries
      <4> QED BY <1>0, <4>1, <4>2 DEF ClipsOf, HubShape
    <3> QED BY <1>0, <2>1, <2>3, <3>1, DecidedNotCut
  <2> QED BY <1>5, <2>2, <2>3 DEF Collect
<1>6. CASE EntryStuck
  <2>1. UNCHANGED <<inline, kills>> /\ FinishEntry(QueueEntry.clip, FALSE) /\ hubStep = "entries"
        /\ todoClips # <<>>
    BY <1>6 DEF EntryStuck, EntryVisited
  <2>2. QueueEntry.clip \in ClipIds
    BY <1>0, <2>1, AtQueueEntry
  <2> QED BY <1>0, <2>1, <2>2, DecidedNotCut
<1> QED BY <1>1, <1>2, <1>3, <1>4, <1>5, <1>6 DEF HubNext

LEMMA HubInitInv == HubInit => HubInv
<1>1. HubInit => CutInv
  BY DEF HubInit, CutInv
<1> QED BY <1>1, TickInitInv DEF HubInv

LEMMA HubStep == HubInv /\ [HubNext]_hubVars => HubInv'
  BY HubTickStep, CutOffStep DEF HubInv

LEMMA HubHandled == HubInv => HubTypeOK /\ ClipsHandled
<1> SUFFICES ASSUME HubInv PROVE HubTypeOK /\ ClipsHandled
  OBVIOUS
<1>0. HubShape /\ PhaseInv /\ TriesInv /\ CarryInv /\ OnceInv /\ CutInv
  BY DEF HubInv, TickInv
<1>1. HubTypeOK
  <2>1. queued \in Seq(ClipEntries) /\ retries \in Seq(RetryEntries)
    BY <1>0 DEF HubShape
  <2>2. DOMAIN queued = 1..Len(queued) /\ DOMAIN retries = 1..Len(retries)
    BY <2>1
  <2>3. \A i \in DOMAIN queued : queued[i] \in ClipEntries /\ queued[i].tries <= FinishTries + kills
    BY <1>0, <2>1, <2>2 DEF TriesInv
  <2>4. \A i \in DOMAIN retries : retries[i] \in RetryEntries
    BY <2>1, <2>2
  <2>5. job.clip \in 0..HubClips /\ job.stage \in {"none", "running", "done"}
    BY <1>0 DEF HubShape
  <2> QED
    BY <1>0, <2>3, <2>4, <2>5 DEF HubShape, HubTypeOK
<1>2. ClipsCarried
  <2> SUFFICES ASSUME NEW c \in 1..indexed, c <= cursorFile, fate[c] \in UndecidedFates
      PROVE  \/ c \in ClipsOf(runtimeFile.clips) \cup ClipsOf(runtimeFile.retries)
             \/ inline /\ fate[c] = "cutoff" /\ kills > 0
    BY DEF ClipsCarried
  <2>1. c \in ClipIds
    BY <1>0, HubConstants DEF HubShape, ClipIds
  <2>2. /\ fate[c] # "unseen"
        /\ fate[c] = "queued" => c \in ClipsOf(runtimeFile.clips)
        /\ fate[c] = "retry" => c \in ClipsOf(runtimeFile.clips) \cup ClipsOf(runtimeFile.retries)
    BY <1>0, <2>1 DEF CarryInv
  <2> QED
    BY <1>0, <2>1, <2>2 DEF UndecidedFates, CutInv
<1>3. ClipsOnce
  <2> SUFFICES ASSUME NEW c \in ClipIds PROVE sentTimes[c] <= 1 + kills
    BY DEF ClipsOnce
  <2>1. sentTimes[c] \in Nat /\ kills \in Nat
    BY <1>0 DEF HubShape
  <2>2. Owed(c) \in Nat /\ Saved(c) \in Nat
    BY DEF Owed, Saved
  <2>3. CASE hubStep = "down"
    <3>1. sentTimes[c] + Saved(c) <= 1 + kills
      BY <1>0, <2>3 DEF OnceInv
    <3> QED
      BY <2>1, <2>2, <3>1
  <2>4. CASE hubStep # "down"
    <3>1. sentTimes[c] + Owed(c) <= 1 + kills
      BY <1>0, <2>4 DEF OnceInv
    <3> QED
      BY <2>1, <2>2, <3>1
  <2> QED
    BY <2>3, <2>4
<1> QED
  BY <1>1, <1>2, <1>3 DEF ClipsHandled

(* A hub clip is in the queue, handled, or still to be listed, whatever step a   *)
(* crash falls on, but for the clip a second signal cuts off on a camera without *)
(* the worker, and no clip reaches the phone twice but after a kill: for any     *)
(* number of clips and of troubles.                                             *)
THEOREM ClipsHandledCorrect == HubSpec => []ClipsHandled
<1>1. HubInit => HubInv
  BY HubInitInv
<1>2. HubInv /\ [HubNext]_hubVars => HubInv'
  BY HubStep
<1>3. HubInv => ClipsHandled
  BY HubHandled
<1> QED
  BY <1>1, <1>2, <1>3, PTL DEF HubSpec

----------------------------------------------------------------------------
(* Resume: the invariant *)

(* Events are listed in the order they started; what is not listed has no past. *)
ListedInOrder ==
  /\ \A d, e \in EventIds : d < e => begun[d] <= begun[e]
  /\ \A e \in EventIds : e > listed => turn[e] = "unseen" /\ photos[e] = 0

(* A poll works through its fresh events in order; a drain forgets its list.    *)
LoopInv ==
  /\ tickStep # "live" => batchLeft = {}
  /\ tickStep # "drain" => finished = {}
  /\ tickStep = "live" =>
       /\ batchLeft \subseteq FreshEvents
       /\ \A e \in FreshEvents \ batchLeft, d \in batchLeft : e < d
       /\ lastMark <= pollMark
       /\ \A e \in FreshEvents : begun[e] <= pollMark
  /\ Running => markFile <= lastMark
  /\ ~Running => lastMark = 0 /\ ~unsaved

(* Events whose turn the next poll, or this one, will come to.                  *)
TurnToCome(e) ==
  IF tickStep = "live" THEN e \in batchLeft \/ (e > listed /\ begun[e] > lastMark)
                       ELSE begun[e] > lastMark

(* An event on its own has its failures counted as they happened.              *)
CountInv ==
  /\ LimitIsOwn
  /\ \A e \in EventIds : Alone(e) /\ TurnToCome(e) =>
       failCounts[begun[e]] = raised[e] /\ raised[e] < RetryLimit

(* A watermark passes only what had its turn.                                  *)
ReadInv ==
  \A e \in OnCamera :
    turn[e] = "unseen" =>
      /\ begun[e] > markFile
      /\ Running => begun[e] > lastMark
      /\ tickStep = "live" => e \in batchLeft

(* A deferred event is in memory, and in the files while a death would not tear *)
(* them apart; or it will be listed again.                                     *)
DeferredKept(e) ==
  /\ Running => e \in followUps \/ begun[e] > lastMark
  /\ tickStep = "live" => e \in followUps \/ e \in batchLeft
  /\ Running /\ ~WouldTear => e \in tables.queue \/ begun[e] > lastMark
  /\ ~Running => e \in tables.queue \/ begun[e] > markFile
FollowUpsKept ==
  /\ \A e \in finished : turn[e] # "deferred"
  /\ torn = 0 => \A e \in OnCamera : turn[e] = "deferred" => DeferredKept(e)

(* Nothing is to be repeated yet.                                              *)
GateInForce == IF Running THEN gateStart["confirmed"] ELSE tables.starts["confirmed"]
Told(e) == photos[e] # 0 \/ e \in QueueInForce
SavedInv ==
  /\ tickStep \in {"asleep", "poll"} /\ ~unsaved => tables = RuntimeSnapshot
  /\ excuses = 0 /\ Running =>
       IF tickStep = "mark" THEN markFile \in {markBefore, lastMark}
       ELSE markFile = lastMark /\ (tickStep \in {"poll", "live"} => markBefore = lastMark)

(* While nothing calls for a second photo.  An event has none while it is        *)
(* queued; it started no later than the second after the watermark, or this poll *)
(* has had it; and if it was told and may be listed again, the gate is armed for *)
(* it, and is not ahead of the events that wait for their turn.                  *)
QueuedUntold(e) == e \in QueueInForce /\ e \notin finished /\ e \notin Faces => photos[e] = 0
QueuedNear(e) ==
  e \in QueueInForce =>
    begun[e] <= MarkInForce + 1 \/ (tickStep = "live" /\ e \in FreshEvents /\ e \notin batchLeft)
GateArmed(e) ==
  e \notin Faces /\ Told(e) /\ begun[e] > MarkInForce =>
    IF tickStep = "live" /\ e \notin batchLeft
    THEN begun[e] <= gateStart["confirmed"]
    ELSE begun[e] = MarkInForce + 1 /\ GateInForce = begun[e]
GateNotAhead(e) ==
  e \notin Faces /\ Told(e) /\ begun[e] > lastMark /\ e \notin batchLeft =>
    \A d \in batchLeft : gateStart["confirmed"] <= begun[d]
EchoOf(e) == QueuedUntold(e) /\ QueuedNear(e) /\ GateArmed(e) /\ GateNotAhead(e)
EchoInv == excuses = 0 => EchoExplained /\ \A e \in OnCamera : EchoOf(e)

ResumeInv ==
  /\ ResumeTypeOK /\ ListedInOrder /\ LoopInv /\ CountInv /\ ReadInv /\ FollowUpsKept
  /\ SavedInv /\ EchoInv

(* What a turn that does not raise leaves behind: a verdict, and a follow-up for *)
(* a deferred event.                                                           *)
TurnVerdicts == {"deferred", "settled"}
TurnSettles(e) ==
  \E v \in TurnVerdicts :
    /\ TurnEnds(e, v)
    /\ followUps \subseteq followUps' /\ followUps' \subseteq followUps \cup {e}
    /\ v = "deferred" => e \in followUps'

(* An event that a turn leaves deferred had its follow-up.                     *)
LEMMA NothingNewIs ==
  ASSUME NEW e PROVE /\ NothingNew(e) \in TurnVerdicts
                     /\ NothingNew(e) = "deferred" => e \in followUps
  BY DEF NothingNew, TurnVerdicts

(* An event is deferred exactly with a follow-up of its own.                   *)
LEMMA DeferVerdictIs ==
  ASSUME NEW e, DeferFollowUp(e)
  PROVE  /\ DeferVerdict(e) \in TurnVerdicts
         /\ DeferVerdict(e) = "deferred" => e \in followUps'
         /\ followUps \subseteq followUps' /\ followUps' \subseteq followUps \cup {e}
  BY DEF DeferVerdict, DeferFollowUp, TurnVerdicts

(* The verdicts of _process, but for an exception, end a turn in the same way. *)
LEMMA TurnShape ==
  ASSUME NEW e \in EventIds, Turn(e) PROVE TurnSettles(e) \/ TurnRaises(e)
<1>1. CASE TurnCooled(e)
  BY <1>1, NothingNewIs DEF TurnCooled, TurnSettles
<1>2. CASE TurnSends(e)
  BY <1>2 DEF TurnSends, TurnSettles, TurnVerdicts
<1>3. CASE TurnDefers(e)
  BY <1>3, DeferVerdictIs DEF TurnDefers, TurnSettles
<1>4. CASE TurnRefused(e)
  BY <1>4, DeferVerdictIs DEF TurnRefused, TurnSettles
<1>5. CASE TurnDrops(e)
  BY <1>5, NothingNewIs DEF TurnDrops, TurnSettles
<1> QED BY <1>1, <1>2, <1>3, <1>4, <1>5 DEF Turn

(* A follow-up ends with or without a photo.                                   *)
LEMMA DrainShape ==
  ASSUME NEW e, FollowUpDropped(e) \/ FollowUpSent(e) PROVE FollowUpEnds(e)
  BY DEF FollowUpDropped, FollowUpSent

(* A stop, an unwound tick and a death all lose what the memory held.          *)
LEMMA DownShape == ASSUME Stops \/ Unwinds \/ Dies PROVE Down
  BY DEF Stops, Unwinds, Dies

(* A delivery or a follow-up arms the gate for its own second.                 *)
LEMMA StampConfirmed ==
  ASSUME NEW g, NEW p \in BOOLEAN, NEW s
  PROVE  Stamp(g, "confirmed", p, s)["confirmed"] = s
  BY DEF Stamp, GateKeys, EventTypes

(* The gate's table keeps its type.                                            *)
LEMMA StampType ==
  ASSUME NEW g \in [GateKeys -> Moments \cup {NoTime}], NEW p \in BOOLEAN, NEW s \in Moments
  PROVE  Stamp(g, "confirmed", p, s) \in [GateKeys -> Moments \cup {NoTime}]
  BY DEF Stamp

(* The type: every variable starts in its set...                               *)
LEMMA ResumeTypeInit == ResumeInit => ResumeTypeOK
<1> SUFFICES ASSUME ResumeInit PROVE ResumeTypeOK
  OBVIOUS
<1> USE ResumeAssumption
<1>1. EmptyGate \in [GateKeys -> Moments \cup {NoTime}]
  BY DEF EmptyGate
<1>2. failCounts \in [Moments -> Nat] /\ photos \in [EventIds -> Nat] /\ raised \in [EventIds -> Nat]
  BY DEF ResumeInit
<1>3. turn \in [EventIds -> Turns]
  BY DEF ResumeInit, Turns
<1>4. tables \in [starts : [GateKeys -> Moments \cup {NoTime}], queue : SUBSET OnCamera]
  BY <1>1 DEF ResumeInit
<1>5. /\ begun \in [EventIds -> Moments] /\ gateStart \in [GateKeys -> Moments \cup {NoTime}]
      /\ tickStep \in TickSteps \cup {"asleep", "down"} /\ unsaved \in BOOLEAN
  BY <1>1 DEF ResumeInit
<1>6. /\ {lastMark, markBefore, markFile, pollMark} \subseteq 0 .. LastMoment
      /\ listed \in 0 .. Reported /\ mishapsLeft \in 0 .. Mishaps
      /\ torn \in Nat /\ excuses \in Nat
  BY DEF ResumeInit
<1>7. /\ batchLeft \subseteq OnCamera /\ followUps \subseteq OnCamera /\ finished \subseteq followUps
      /\ gaveUp \subseteq OnCamera
  BY DEF ResumeInit
<1> QED BY <1>2, <1>3, <1>4, <1>5, <1>6, <1>7 DEF ResumeTypeOK

(* What the type says of the numbers in use.                                   *)
LEMMA MarkNats ==
  ASSUME ResumeTypeOK
  PROVE  /\ LastMoment \in Nat /\ Reported \in Nat /\ RetryLimit \in Nat \ {0}
         /\ lastMark \in Nat /\ markFile \in Nat /\ markBefore \in Nat /\ pollMark \in Nat
         /\ listed \in Nat
         /\ \A e \in EventIds : begun[e] \in Nat \ {0} /\ begun[e] <= LastMoment /\ begun[e] \in Moments
         /\ OnCamera \subseteq EventIds
         /\ EventIds \subseteq Nat
<1> USE ResumeAssumption
<1>1. /\ lastMark \in Nat /\ markFile \in Nat /\ markBefore \in Nat /\ pollMark \in Nat
      /\ listed \in Nat
  BY DEF ResumeTypeOK
<1>2. OnCamera \subseteq EventIds /\ EventIds \subseteq Nat
  BY DEF ResumeTypeOK, OnCamera, EventIds
<1>3. \A e \in EventIds : begun[e] \in Moments
  BY DEF ResumeTypeOK
<1>4. \A m \in Moments : m \in Nat \ {0} /\ m <= LastMoment
  BY DEF Moments
<1> QED BY <1>1, <1>2, <1>3, <1>4

(* The events of a poll are on the camera.                                     *)
LEMMA FreshShape ==
  ASSUME ResumeTypeOK
  PROVE  FreshEvents \subseteq OnCamera /\ FreshEvents \subseteq EventIds
  BY MarkNats DEF FreshEvents

(* ... stays there when a turn raises,                                         *)
LEMMA ResumeTypeRaises ==
  ASSUME ResumeTypeOK, NEW e \in EventIds, TurnRaises(e) PROVE ResumeTypeOK'
<1> USE ResumeAssumption
<1>1. e \in OnCamera /\ begun[e] \in Moments /\ batchLeft \subseteq OnCamera
  BY MarkNats DEF TurnRaises, IsNext, ResumeTypeOK
<1>2. failCounts' \in [Moments -> Nat] /\ raised' \in [EventIds -> Nat]
  BY <1>1 DEF TurnRaises, ResumeTypeOK
<1>3. /\ batchLeft' \subseteq OnCamera /\ gaveUp' \subseteq OnCamera /\ turn' \in [EventIds -> Turns]
      /\ tickStep' \in TickSteps \cup {"asleep", "down"}
      /\ lastMark' \in 0 .. LastMoment /\ pollMark' \in 0 .. LastMoment
  <2>1. CASE LastFailure(e)
    <3>1. NothingNew(e) \in Turns
      BY NothingNewIs DEF TurnVerdicts, Turns
    <3>2. turn' \in [EventIds -> Turns]
      BY <2>1, <3>1 DEF TurnRaises, ResumeTypeOK
    <3>3. batchLeft' \subseteq OnCamera /\ gaveUp' \subseteq OnCamera
      BY <1>1, <2>1 DEF TurnRaises, ResumeTypeOK
    <3>4. UNCHANGED <<tickStep, lastMark, pollMark>>
      BY <2>1 DEF TurnRaises
    <3> QED BY <3>2, <3>3, <3>4 DEF ResumeTypeOK
  <2>2. CASE ~LastFailure(e)
    <3>1. RetryMark(e) \in 0 .. LastMoment
      BY MarkNats DEF RetryMark, ResumeTypeOK
    <3>2. /\ batchLeft' = {} /\ tickStep' = "mark" /\ lastMark' = RetryMark(e) /\ pollMark' = 0
          /\ UNCHANGED <<gaveUp, turn>>
      BY <2>2 DEF TurnRaises
    <3> QED BY <3>1, <3>2, MarkNats DEF ResumeTypeOK, TickSteps
  <2> QED BY <2>1, <2>2
<1>4. /\ UNCHANGED <<begun, listed, markBefore, markFile, gateStart, followUps, finished, tables,
                      unsaved, photos, torn, excuses>>
      /\ mishapsLeft' \in 0 .. Mishaps
  BY DEF TurnRaises, queueTables, Mishap, ResumeTypeOK
<1>5. OnCamera' = OnCamera
  BY <1>4 DEF OnCamera
<1> QED BY <1>2, <1>3, <1>4, <1>5 DEF ResumeTypeOK

(* when it settles,                                                            *)
LEMMA ResumeTypeSettles ==
  ASSUME ResumeTypeOK, NEW e \in EventIds, Turn(e), ~TurnRaises(e) PROVE ResumeTypeOK'
<1> USE ResumeAssumption
<1>1. PICK v \in TurnVerdicts :
        /\ TurnEnds(e, v)
        /\ followUps \subseteq followUps' /\ followUps' \subseteq followUps \cup {e}
  BY TurnShape DEF TurnSettles
<1>2. e \in OnCamera /\ begun[e] \in Moments /\ batchLeft \subseteq OnCamera
  BY <1>1, MarkNats DEF TurnEnds, IsNext, ResumeTypeOK
<1>3. failCounts' \in [Moments -> Nat] /\ turn' \in [EventIds -> Turns]
  BY <1>1, <1>2 DEF TurnEnds, ResumeTypeOK, TurnVerdicts, Turns
<1>4. /\ batchLeft' \subseteq OnCamera /\ followUps' \subseteq OnCamera /\ finished' \subseteq followUps'
      /\ UNCHANGED <<begun, listed, tickStep, lastMark, markBefore, markFile, pollMark, finished,
                      tables, unsaved, raised, gaveUp, torn>>
  BY <1>1, <1>2 DEF TurnEnds, markVars, ResumeTypeOK
<1>5. OnCamera' = OnCamera
  BY <1>4 DEF OnCamera
<1>6. /\ photos \in [EventIds -> Nat] /\ excuses \in Nat /\ mishapsLeft \in 0 .. Mishaps
      /\ gateStart \in [GateKeys -> Moments \cup {NoTime}]
  BY DEF ResumeTypeOK
<1>7. CASE TurnSends(e)
  <2>1. PICK person \in BOOLEAN : gateStart' = Stamp(gateStart, "confirmed", person, begun[e])
    BY <1>7 DEF TurnSends
  <2>2. gateStart' \in [GateKeys -> Moments \cup {NoTime}]
    BY <1>2, <1>6, <2>1, StampType
  <2>3. photos' \in [EventIds -> Nat] /\ excuses' = excuses /\ mishapsLeft' = mishapsLeft
    BY <1>6, <1>7 DEF TurnSends
  <2> QED BY <1>3, <1>4, <1>6, <1>5, <2>2, <2>3 DEF ResumeTypeOK
<1>8. CASE TurnDefers(e)
  <2>1. gateStart' \in [GateKeys -> Moments \cup {NoTime}]
    BY <1>2, <1>6, <1>8, StampType DEF TurnDefers
  <2>2. photos' = photos /\ excuses' = excuses /\ mishapsLeft' = mishapsLeft
    BY <1>8 DEF TurnDefers
  <2> QED BY <1>3, <1>4, <1>6, <1>5, <2>1, <2>2 DEF ResumeTypeOK
<1>9. CASE TurnCooled(e) \/ TurnRefused(e) \/ TurnDrops(e)
  <2>1. photos' = photos /\ gateStart' = gateStart
    BY <1>9 DEF TurnCooled, TurnRefused, TurnDrops
  <2>2. excuses' \in Nat /\ mishapsLeft' \in 0 .. Mishaps
    BY <1>6, <1>9 DEF TurnCooled, TurnRefused, TurnDrops, Mishap, Excuse
  <2> QED BY <1>3, <1>4, <1>6, <1>5, <2>1, <2>2 DEF ResumeTypeOK
<1> QED BY <1>7, <1>8, <1>9 DEF Turn

(* when a follow-up ends,                                                      *)
LEMMA ResumeTypeDrain ==
  ASSUME ResumeTypeOK, NEW e \in EventIds, FollowUpDropped(e) \/ FollowUpSent(e)
  PROVE  ResumeTypeOK'
<1> USE ResumeAssumption
<1>1. e \in followUps /\ begun[e] \in Moments
  BY DrainShape DEF FollowUpEnds, ResumeTypeOK
<1>2. /\ UNCHANGED <<begun, listed, tickStep, lastMark, markBefore, markFile, batchLeft, pollMark,
                      failCounts, followUps, tables, unsaved, raised, gaveUp, torn, mishapsLeft>>
      /\ finished' \subseteq followUps
  BY <1>1, DrainShape DEF FollowUpEnds, markVars, pollVars, ResumeTypeOK
<1>3. turn' \in [EventIds -> Turns]
  BY DrainShape DEF FollowUpEnds, ResumeTypeOK, Turns
<1>4. photos' \in [EventIds -> Nat] /\ excuses' \in Nat
  BY DEF FollowUpDropped, FollowUpSent, Excuse, ResumeTypeOK
<1>5. gateStart' \in [GateKeys -> Moments \cup {NoTime}]
  BY <1>1, StampType DEF FollowUpDropped, FollowUpSent, ResumeTypeOK
<1> QED BY <1>2, <1>3, <1>4, <1>5 DEF ResumeTypeOK, OnCamera

(* when a photo went out unrecorded,                                           *)
LEMMA MaybeToldType ==
  ASSUME ResumeTypeOK, MaybeTold PROVE photos' \in [EventIds -> Nat]
  BY DEF MaybeTold, ResumeTypeOK

(* when the process ends,                                                      *)
LEMMA ResumeTypeDown ==
  ASSUME ResumeTypeOK, Stops \/ Unwinds \/ Dies PROVE ResumeTypeOK'
<1> USE ResumeAssumption
<1>1. Down
  BY DownShape
<1>2. EmptyGate \in [GateKeys -> Moments \cup {NoTime}]
  BY DEF EmptyGate
<1>3. /\ begun' = begun /\ listed' = listed /\ markFile' = markFile
      /\ tickStep' \in TickSteps \cup {"asleep", "down"} /\ unsaved' \in BOOLEAN
      /\ lastMark' = 0 /\ markBefore' = 0 /\ pollMark' = 0
      /\ batchLeft' = {} /\ followUps' = {} /\ finished' = {} /\ gaveUp' = {}
      /\ gateStart' \in [GateKeys -> Moments \cup {NoTime}]
  BY <1>1, <1>2 DEF Down
<1>4. failCounts' \in [Moments -> Nat] /\ raised' \in [EventIds -> Nat]
  BY <1>1 DEF Down
<1>5. tables' \in [starts : [GateKeys -> Moments \cup {NoTime}], queue : SUBSET OnCamera]
  BY DEF Stops, Unwinds, Dies, RuntimeSnapshot, ResumeTypeOK
<1>6. photos' \in [EventIds -> Nat]
  BY MaybeToldType DEF Stops, Unwinds, Dies, ResumeTypeOK
<1>7. /\ turn' = turn /\ torn' \in Nat /\ excuses' \in Nat
      /\ mishapsLeft' \in 0 .. Mishaps
  BY DEF Stops, Unwinds, Dies, costVars, Mishap, ResumeTypeOK
<1> QED BY <1>3, <1>4, <1>5, <1>6, <1>7 DEF ResumeTypeOK, OnCamera

(* and in every other step.                                                    *)
LEMMA ResumeTypeStep ==
  ASSUME ResumeTypeOK, LoopInv, [ResumeNext]_resumeVars PROVE ResumeTypeOK'
<1> USE ResumeAssumption
<1> USE DEF ResumeTypeOK, OnCamera, markVars, pollVars, queueTables, tellVars, costVars
<1>1. CASE Lists
  <2>1. listed' \in 0 .. Reported /\ listed <= listed'
    BY <1>1 DEF Lists
  <2>2. turn' \in [EventIds -> Turns]
    BY <1>1 DEF Lists, Turns
  <2> QED BY <1>1, <2>1, <2>2 DEF Lists
<1>2. CASE TickStarts
  BY <1>2 DEF TickStarts, TickSteps
<1>3. CASE PollMissed
  BY <1>3 DEF PollMissed, TickSteps
<1>4. CASE PollTaken
  <2>1. batchLeft' \subseteq OnCamera' /\ pollMark' \in 0 .. LastMoment
    BY <1>4, MarkNats, FreshShape DEF PollTaken
  <2> QED BY <1>4, <2>1 DEF PollTaken, TickSteps
<1>5. CASE PollOver
  BY <1>5 DEF PollOver, TickSteps
<1>6. CASE \E e \in EventIds : Turn(e)
  BY <1>6, ResumeTypeRaises, ResumeTypeSettles
<1>7. CASE \E e \in EventIds : FollowUpDropped(e) \/ FollowUpSent(e)
  BY <1>7, ResumeTypeDrain
<1>8. CASE MarkSaved \/ MarkNotSaved \/ HealthWritten
  <2>1. markFile' \in 0 .. LastMoment /\ markBefore' \in 0 .. LastMoment
    BY <1>8 DEF MarkSaved, MarkNotSaved, HealthWritten
  <2>2. excuses' \in Nat /\ mishapsLeft' \in 0 .. Mishaps /\ torn' = torn
    BY <1>8 DEF MarkSaved, MarkNotSaved, HealthWritten, Mishap, Excuse
  <2>3. tickStep' \in TickSteps \cup {"asleep", "down"}
    BY <1>8 DEF MarkSaved, MarkNotSaved, HealthWritten, TickSteps
  <2>4. UNCHANGED <<begun, listed, lastMark, pollVars, queueTables, tellVars>>
    BY <1>8 DEF MarkSaved, MarkNotSaved, HealthWritten
  <2> QED BY <2>1, <2>2, <2>3, <2>4
<1>9. CASE HubSavesTables \/ TablesSaved \/ TablesNotSaved
  <2>1. tables' \in [starts : [GateKeys -> Moments \cup {NoTime}], queue : SUBSET OnCamera]
    BY <1>9 DEF HubSavesTables, TablesSaved, TablesNotSaved, RuntimeSnapshot
  <2>2. unsaved' \in BOOLEAN /\ mishapsLeft' \in 0 .. Mishaps /\ torn' = torn /\ excuses' = excuses
    <3>1. CASE TablesNotSaved
      BY <1>9, <3>1 DEF TablesNotSaved, Mishap
    <3> QED BY <1>9, <3>1 DEF HubSavesTables, TablesSaved
  <2>3. tickStep' \in TickSteps \cup {"asleep", "down"}
    BY <1>9 DEF HubSavesTables, TablesSaved, TablesNotSaved
  <2>4. UNCHANGED <<begun, listed, markVars, pollVars, gateStart, followUps, finished, tellVars>>
    BY <1>9 DEF HubSavesTables, TablesSaved, TablesNotSaved
  <2> QED BY <2>1, <2>2, <2>3, <2>4
<1>10. CASE DrainOver
  BY <1>10 DEF DrainOver, TickSteps
<1>11. CASE TickRaises
  BY <1>11 DEF TickRaises, Mishap
<1>12. CASE Stops \/ Unwinds \/ Dies
  BY <1>12, ResumeTypeDown
<1>13. CASE Resumes
  <2>1. /\ gateStart' \in [GateKeys -> Moments \cup {NoTime}] /\ followUps' \subseteq OnCamera
        /\ lastMark' \in 0 .. LastMoment
    BY <1>13 DEF Resumes
  <2>2. finished' \subseteq followUps'
    BY <1>13 DEF Resumes, LoopInv
  <2> QED BY <1>13, <2>1, <2>2 DEF Resumes
<1>14. CASE UNCHANGED resumeVars
  BY <1>14 DEF resumeVars
<1> QED
  BY <1>1, <1>2, <1>3, <1>4, <1>5, <1>6, <1>7, <1>8, <1>9, <1>10, <1>11, <1>12, <1>13, <1>14
     DEF ResumeNext

----------------------------------------------------------------------------
(* Resume: order and the loop *)

(* No step reorders the events, or touches one that is not listed.             *)
LEMMA ListedInOrderStep ==
  ASSUME ResumeTypeOK, ListedInOrder, LoopInv, [ResumeNext]_resumeVars PROVE ListedInOrder'
<1> USE DEF ListedInOrder, tellVars, markVars, pollVars, queueTables, costVars
<1>1. CASE Lists
  BY <1>1, MarkNats DEF Lists, ResumeTypeOK
<1>2. CASE TickStarts \/ PollMissed \/ PollTaken \/ PollOver
  BY <1>2 DEF TickStarts, PollMissed, PollTaken, PollOver
<1>3. ASSUME NEW e \in EventIds, Turn(e) PROVE ListedInOrder'
  <2>1. e <= listed /\ begun' = begun /\ listed' = listed
    BY <1>3, TurnShape, MarkNats
       DEF TurnSettles, TurnEnds, TurnRaises, IsNext, ResumeTypeOK, OnCamera
  <2>2. \A d \in EventIds : d # e => turn'[d] = turn[d]
    BY <1>3, TurnShape DEF TurnSettles, TurnEnds, TurnRaises, ResumeTypeOK
  <2>3. \A d \in EventIds : d # e => photos'[d] = photos[d]
    BY <1>3 DEF Turn, TurnCooled, TurnSends, TurnDefers, TurnRefused, TurnDrops, TurnRaises,
                ResumeTypeOK
  <2> QED BY <2>1, <2>2, <2>3, MarkNats
<1>4. ASSUME NEW e \in EventIds, FollowUpDropped(e) \/ FollowUpSent(e) PROVE ListedInOrder'
  <2>1. e <= listed /\ begun' = begun /\ listed' = listed
    BY <1>4, DrainShape, MarkNats DEF FollowUpEnds, ResumeTypeOK, OnCamera
  <2>2. \A d \in EventIds : d # e => turn'[d] = turn[d] /\ photos'[d] = photos[d]
    BY <1>4 DEF FollowUpDropped, FollowUpSent, FollowUpEnds, ResumeTypeOK
  <2> QED BY <2>1, <2>2, MarkNats
<1>5. CASE MarkSaved \/ MarkNotSaved \/ HealthWritten
  BY <1>5 DEF MarkSaved, MarkNotSaved, HealthWritten
<1>6. CASE HubSavesTables \/ TablesSaved \/ TablesNotSaved
  BY <1>6 DEF HubSavesTables, TablesSaved, TablesNotSaved
<1>7. CASE DrainOver \/ TickRaises \/ Resumes
  BY <1>7 DEF DrainOver, TickRaises, Resumes
<1>8. CASE Stops \/ Unwinds \/ Dies
  <2>1. begun' = begun /\ listed' = listed /\ turn' = turn
    BY <1>8 DEF Stops, Unwinds, Dies, Down
  <2>2. \A d \in EventIds : d > listed => photos'[d] = photos[d]
    BY <1>8, MarkNats DEF Stops, Unwinds, Dies, MaybeTold, ResumeTypeOK, OnCamera
  <2> QED BY <2>1, <2>2
<1>9. CASE UNCHANGED resumeVars
  BY <1>9 DEF resumeVars
<1> QED
  BY <1>1, <1>2, <1>3, <1>4, <1>5, <1>6, <1>7, <1>8, <1>9 DEF ResumeNext

(* The event whose turn it is, among those of its poll.                        *)
LEMMA NextOfPoll ==
  ASSUME ResumeTypeOK, ListedInOrder, LoopInv, NEW e \in EventIds, IsNext(e)
  PROVE  /\ tickStep = "live" /\ e \in batchLeft /\ e \in FreshEvents /\ lastMark < begun[e]
         /\ \A d \in batchLeft : e <= d /\ begun[e] <= begun[d]
         /\ \A d \in FreshEvents \ batchLeft : d < e /\ begun[d] <= begun[e]
         /\ RetryMark(e) \in Nat /\ lastMark <= RetryMark(e) /\ RetryMark(e) < begun[e]
         /\ begun[e] <= RetryMark(e) + 1
<1>1. e \in batchLeft /\ e \in FreshEvents /\ tickStep = "live" /\ lastMark < begun[e]
  BY MarkNats DEF IsNext, LoopInv, FreshEvents
<1>2. \A d \in batchLeft : d \in EventIds /\ e <= d
  BY <1>1, FreshShape DEF IsNext, LoopInv
<1>3. \A d \in FreshEvents \ batchLeft : d \in EventIds /\ d < e
  BY <1>1, FreshShape DEF LoopInv
<1>4. \A d \in batchLeft : begun[e] <= begun[d]
  BY <1>2, MarkNats DEF ListedInOrder
<1>5. \A d \in FreshEvents \ batchLeft : begun[d] <= begun[e]
  BY <1>3 DEF ListedInOrder
<1>6. /\ RetryMark(e) \in Nat /\ lastMark <= RetryMark(e) /\ RetryMark(e) < begun[e]
      /\ begun[e] <= RetryMark(e) + 1
  BY <1>1, MarkNats DEF RetryMark
<1> QED BY <1>1, <1>2, <1>3, <1>4, <1>5, <1>6

(* After a turn the rest of the poll is still to come, in order.               *)
LEMMA LoopTurn ==
  ASSUME ResumeTypeOK, ListedInOrder, LoopInv, NEW e \in EventIds, Turn(e) PROVE LoopInv'
<1>1. IsNext(e)
  BY TurnShape DEF TurnSettles, TurnEnds, TurnRaises
<1>2. CASE TurnSettles(e) \/ (TurnRaises(e) /\ LastFailure(e))
  <2>1. /\ batchLeft' = batchLeft \ {e} /\ tickStep' = tickStep
        /\ UNCHANGED <<begun, listed, lastMark, markFile, pollMark, finished, unsaved>>
    BY <1>2 DEF TurnSettles, TurnEnds, TurnRaises, markVars, queueTables
  <2>2. FreshEvents' = FreshEvents
    BY <2>1 DEF FreshEvents, OnCamera
  <2>3. \A c \in FreshEvents \ batchLeft', d \in batchLeft' : c < d
    <3> TAKE c \in FreshEvents \ batchLeft', d \in batchLeft'
    <3>1. d \in batchLeft /\ d # e /\ c \in EventIds /\ d \in EventIds
      BY <2>1, FreshShape DEF LoopInv, ResumeTypeOK, IsNext
    <3>2. CASE c = e
      BY <1>1, <3>1, <3>2, NextOfPoll, MarkNats
    <3>3. CASE c # e
      BY <1>1, <2>1, <3>1, <3>3, NextOfPoll DEF LoopInv
    <3> QED BY <3>2, <3>3
  <2> QED BY <1>1, <2>1, <2>2, <2>3 DEF LoopInv, IsNext, Running
<1>3. CASE TurnRaises(e) /\ ~LastFailure(e)
  <2>1. /\ batchLeft' = {} /\ tickStep' = "mark" /\ lastMark' = RetryMark(e)
        /\ UNCHANGED <<begun, listed, markFile, finished, unsaved>>
    BY <1>3 DEF TurnRaises, queueTables
  <2>2. markFile <= lastMark /\ finished = {}
    BY <1>1 DEF LoopInv, IsNext, Running
  <2> QED BY <1>1, <2>1, <2>2, NextOfPoll, MarkNats DEF LoopInv, Running
<1> QED BY <1>2, <1>3, TurnShape

(* The loop keeps its place, and the saved watermark stays behind.             *)
LEMMA LoopStep ==
  ASSUME ResumeTypeOK, ListedInOrder, LoopInv, [ResumeNext]_resumeVars PROVE LoopInv'
<1> USE DEF LoopInv, Running, tellVars, markVars, pollVars, queueTables, costVars
<1>1. CASE Lists
  BY <1>1 DEF Lists
<1>2. CASE TickStarts \/ PollMissed
  BY <1>2 DEF TickStarts, PollMissed
<1>3. CASE PollTaken
  <2>1. FreshEvents' = FreshEvents /\ batchLeft' = FreshEvents
    BY <1>3 DEF PollTaken, FreshEvents, OnCamera
  <2>2. lastMark <= pollMark'
    BY <1>3, MarkNats, FreshShape DEF PollTaken, FreshEvents
  <2> QED BY <1>3, <2>1, <2>2 DEF PollTaken
<1>4. CASE PollOver
  BY <1>4, MarkNats DEF PollOver
<1>5. CASE \E e \in EventIds : Turn(e)
  BY <1>5, LoopTurn
<1>6. CASE \E e \in EventIds : FollowUpDropped(e) \/ FollowUpSent(e)
  BY <1>6, DrainShape DEF FollowUpEnds
<1>7. CASE MarkSaved \/ MarkNotSaved
  BY <1>7, MarkNats DEF MarkSaved, MarkNotSaved
<1>8. CASE HealthWritten
  <2>1. FreshEvents' = FreshEvents
    BY <1>8 DEF HealthWritten, FreshEvents, OnCamera
  <2> QED BY <1>8, <2>1, MarkNats DEF HealthWritten
<1>9. CASE HubSavesTables \/ TablesSaved \/ TablesNotSaved
  BY <1>9 DEF HubSavesTables, TablesSaved, TablesNotSaved
<1>10. CASE DrainOver \/ TickRaises \/ Resumes
  BY <1>10, MarkNats DEF DrainOver, TickRaises, TickSteps, Resumes
<1>11. CASE Stops \/ Unwinds \/ Dies
  BY <1>11, DownShape DEF Down
<1>12. CASE UNCHANGED resumeVars
  <2>1. FreshEvents' = FreshEvents
    BY <1>12 DEF resumeVars, FreshEvents, OnCamera
  <2> QED BY <1>12, <2>1 DEF resumeVars
<1> QED
  BY <1>1, <1>2, <1>3, <1>4, <1>5, <1>6, <1>7, <1>8, <1>9, <1>10, <1>11, <1>12 DEF ResumeNext

----------------------------------------------------------------------------
(* Resume: the failure counts *)

(* Whose turn is still to come after a step had it to come before.              *)
LEMMA CountTurn ==
  ASSUME ResumeTypeOK, ListedInOrder, LoopInv, CountInv, NEW e \in EventIds, Turn(e)
  PROVE  CountInv'
<1>1. IsNext(e) /\ begun' = begun /\ listed' = listed /\ e \in OnCamera /\ e <= listed
  BY TurnShape, MarkNats
     DEF TurnSettles, TurnEnds, TurnRaises, IsNext, ResumeTypeOK, OnCamera
<1>2. \A d \in EventIds : Alone(d)' <=> Alone(d)
  BY <1>1 DEF Alone
<1>3. TurnToCome(e)
  BY <1>1 DEF TurnToCome, IsNext
<1>4. CASE TurnSettles(e)
  <2>1. /\ failCounts' = [failCounts EXCEPT ![begun[e]] = 0] /\ batchLeft' = batchLeft \ {e}
        /\ UNCHANGED <<tickStep, lastMark, raised, gaveUp>>
    BY <1>4 DEF TurnSettles, TurnEnds, markVars
  <2>2. \A d \in EventIds : TurnToCome(d)' => TurnToCome(d) /\ d # e
    BY <1>1, <2>1, MarkNats DEF TurnToCome, IsNext
  <2>3. ASSUME NEW d \in EventIds, Alone(d), TurnToCome(d)'
        PROVE  failCounts'[begun[d]] = raised[d] /\ raised[d] < RetryLimit
    BY <2>1, <2>2, <2>3, MarkNats DEF Alone, CountInv, ResumeTypeOK
  <2> QED BY <1>1, <1>2, <2>1, <2>3 DEF CountInv, LimitIsOwn
<1>5. CASE TurnRaises(e)
  <2>1. /\ failCounts' = [failCounts EXCEPT ![begun[e]] = @ + 1]
        /\ raised' = [raised EXCEPT ![e] = @ + 1]
    BY <1>5 DEF TurnRaises
  <2>2. \A d \in EventIds : TurnToCome(d)' /\ Alone(d) => TurnToCome(d) /\ (d = e => ~LastFailure(e))
    <3>1. CASE LastFailure(e)
      <4>1. batchLeft' = batchLeft \ {e} /\ UNCHANGED <<tickStep, lastMark>>
        BY <1>5, <3>1 DEF TurnRaises
      <4> QED BY <1>1, <4>1, MarkNats DEF TurnToCome, IsNext
    <3>2. CASE ~LastFailure(e)
      <4>1. batchLeft' = {} /\ tickStep' = "mark" /\ lastMark' = RetryMark(e)
        BY <1>5, <3>2 DEF TurnRaises
      <4>2. ASSUME NEW d \in EventIds, RetryMark(e) < begun[d], Alone(d) PROVE TurnToCome(d)
        <5>1. lastMark < begun[d] /\ begun[e] <= begun[d]
          BY <1>1, <4>2, NextOfPoll, MarkNats
        <5>2. d > listed \/ d \in FreshEvents
          BY <5>1, MarkNats DEF FreshEvents, OnCamera, EventIds
        <5>3. d \in FreshEvents => d \in batchLeft
          <6> SUFFICES ASSUME d \in FreshEvents, d \notin batchLeft PROVE FALSE
            OBVIOUS
          <6>1. d < e /\ begun[d] <= begun[e]
            BY <1>1, NextOfPoll
          <6> QED BY <4>2, <5>1, <6>1, MarkNats DEF Alone
        <5> QED BY <1>1, <5>1, <5>2, <5>3 DEF TurnToCome, IsNext
      <4> QED BY <1>1, <3>2, <4>1, <4>2, NextOfPoll, MarkNats DEF TurnToCome
    <3> QED BY <3>1, <3>2
  <2>3. \A d \in EventIds : Alone(d) /\ d # e =>
          failCounts'[begun[d]] = failCounts[begun[d]] /\ raised'[d] = raised[d]
    BY <2>1, MarkNats DEF Alone, ResumeTypeOK
  <2>4. /\ raised'[e] = raised[e] + 1 /\ failCounts'[begun[e]] = failCounts[begun[e]] + 1
        /\ raised[e] \in Nat /\ failCounts[begun[e]] \in Nat
    BY <2>1, MarkNats DEF ResumeTypeOK
  <2>5. gaveUp' = IF LastFailure(e) THEN gaveUp \cup {e} ELSE gaveUp
    BY <1>5 DEF TurnRaises
  <2>6. Alone(e) =>
          /\ failCounts[begun[e]] = raised[e] /\ raised[e] < RetryLimit /\ e \notin gaveUp
          /\ LastFailure(e) <=> raised'[e] >= RetryLimit
    BY <1>3, <2>4, MarkNats DEF CountInv, LimitIsOwn, LastFailure
  <2>7. ASSUME NEW d \in EventIds, Alone(d)
        PROVE  /\ raised'[d] <= RetryLimit /\ (d \in gaveUp' <=> raised'[d] = RetryLimit)
               /\ TurnToCome(d)' => failCounts'[begun[d]] = raised'[d] /\ raised'[d] < RetryLimit
    <3>1. CASE d = e
      BY <2>2, <2>4, <2>5, <2>6, <2>7, <3>1, MarkNats
    <3>2. CASE d # e
      BY <2>2, <2>3, <2>5, <2>7, <3>2 DEF CountInv, LimitIsOwn
    <3> QED BY <3>1, <3>2
  <2> QED BY <1>1, <1>2, <2>7 DEF CountInv, LimitIsOwn
<1> QED BY <1>4, <1>5, TurnShape

(* Nothing is counted, and nobody's turn comes that was not to come before.      *)
LEMMA CountKept ==
  ASSUME CountInv, UNCHANGED <<begun, failCounts, raised, gaveUp>>,
         \A e \in EventIds : TurnToCome(e)' => TurnToCome(e)
  PROVE  CountInv'
  BY DEF CountInv, LimitIsOwn, Alone

(* An event alone in its second is counted under its own number.               *)
LEMMA CountStep ==
  ASSUME ResumeTypeOK, ListedInOrder, LoopInv, CountInv, [ResumeNext]_resumeVars PROVE CountInv'
<1> USE DEF tellVars, markVars, pollVars, queueTables, costVars
<1>1. CASE Lists
  BY <1>1, CountKept DEF Lists, TurnToCome
<1>2. CASE TickStarts \/ PollMissed
  BY <1>2, CountKept DEF TickStarts, PollMissed, TurnToCome
<1>3. CASE PollTaken
  <2>1. \A e \in EventIds : TurnToCome(e)' => TurnToCome(e)
    BY <1>3 DEF PollTaken, TurnToCome, FreshEvents
  <2> QED BY <1>3, <2>1, CountKept DEF PollTaken
<1>4. CASE PollOver
  <2>1. ASSUME NEW e \in EventIds, pollMark < begun[e] PROVE e > listed /\ lastMark < begun[e]
    BY <1>4, <2>1, MarkNats DEF PollOver, LoopInv, FreshEvents, OnCamera, EventIds
  <2>2. \A e \in EventIds : TurnToCome(e)' => TurnToCome(e)
    BY <1>4, <2>1, MarkNats DEF PollOver, TurnToCome
  <2> QED BY <1>4, <2>2, CountKept DEF PollOver
<1>5. CASE \E e \in EventIds : Turn(e)
  BY <1>5, CountTurn
<1>6. CASE \E e \in EventIds : FollowUpDropped(e) \/ FollowUpSent(e)
  <2>1. UNCHANGED <<begun, listed, tickStep, lastMark, batchLeft, failCounts, raised, gaveUp>>
    BY <1>6, DrainShape DEF FollowUpEnds
  <2> QED BY <2>1, CountKept DEF TurnToCome
<1>7. CASE MarkSaved \/ MarkNotSaved \/ HealthWritten
  <2>1. UNCHANGED <<begun, listed, lastMark, batchLeft, failCounts, raised, gaveUp>>
    BY <1>7 DEF MarkSaved, MarkNotSaved, HealthWritten
  <2>2. (tickStep = "live") <=> (tickStep' = "live")
    BY <1>7 DEF MarkSaved, MarkNotSaved, HealthWritten
  <2> QED BY <2>1, <2>2, CountKept DEF TurnToCome
<1>8. CASE HubSavesTables \/ TablesSaved \/ TablesNotSaved \/ DrainOver \/ TickRaises
  <2>1. UNCHANGED <<begun, listed, lastMark, batchLeft, failCounts, raised, gaveUp>>
    BY <1>8 DEF HubSavesTables, TablesSaved, TablesNotSaved, DrainOver, TickRaises
  <2>2. tickStep # "live" /\ tickStep' # "live"
    BY <1>8 DEF HubSavesTables, TablesSaved, TablesNotSaved, DrainOver, TickRaises
  <2> QED BY <2>1, <2>2, CountKept DEF TurnToCome
<1>9. CASE Resumes
  <2>1. UNCHANGED <<begun, failCounts, raised, gaveUp>>
    BY <1>9 DEF Resumes
  <2>2. \A e \in EventIds : TurnToCome(e)' => TurnToCome(e)
    BY <1>9, MarkNats DEF Resumes, TurnToCome, LoopInv, Running
  <2> QED BY <2>1, <2>2, CountKept
<1>10. CASE Stops \/ Unwinds \/ Dies
  <2>1. /\ begun' = begun /\ failCounts' = [m \in Moments |-> 0]
        /\ raised' = [e \in EventIds |-> 0] /\ gaveUp' = {}
    BY <1>10, DownShape DEF Down
  <2> QED BY <2>1, MarkNats DEF CountInv, LimitIsOwn
<1>11. CASE UNCHANGED resumeVars
  BY <1>11, CountKept DEF resumeVars, TurnToCome
<1> QED
  BY <1>1, <1>2, <1>3, <1>4, <1>5, <1>6, <1>7, <1>8, <1>9, <1>10, <1>11 DEF ResumeNext

----------------------------------------------------------------------------
(* Resume: what was read *)

(* A turn leaves nobody unread behind it.                                      *)
LEMMA ReadTurn ==
  ASSUME ResumeTypeOK, ListedInOrder, LoopInv, ReadInv, NEW e \in EventIds, Turn(e)
  PROVE  ReadInv'
<1>1. /\ IsNext(e) /\ UNCHANGED <<begun, listed, markFile>> /\ OnCamera' = OnCamera
      /\ tickStep = "live"
  BY TurnShape DEF TurnSettles, TurnEnds, TurnRaises, IsNext, OnCamera, markVars
<1>2. CASE TurnSettles(e) \/ (TurnRaises(e) /\ LastFailure(e))
  <2>1. batchLeft' = batchLeft \ {e} /\ UNCHANGED <<lastMark, tickStep>>
    BY <1>2 DEF TurnSettles, TurnEnds, TurnRaises, markVars
  <2>2. \A d \in EventIds : turn'[d] = "unseen" => turn[d] = "unseen" /\ d # e
    BY <1>2, NothingNewIs DEF TurnSettles, TurnEnds, TurnRaises, TurnVerdicts, ResumeTypeOK
  <2> QED BY <1>1, <2>1, <2>2, MarkNats DEF ReadInv, Running
<1>3. CASE TurnRaises(e) /\ ~LastFailure(e)
  <2>1. tickStep' = "mark" /\ lastMark' = RetryMark(e) /\ turn' = turn
    BY <1>3 DEF TurnRaises
  <2>2. \A d \in OnCamera : turn[d] = "unseen" => d \in batchLeft /\ markFile < begun[d]
    BY <1>1, MarkNats DEF ReadInv
  <2>3. \A d \in batchLeft : RetryMark(e) < begun[d]
    BY <1>1, NextOfPoll, MarkNats, FreshShape DEF LoopInv
  <2> QED BY <1>1, <2>1, <2>2, <2>3, MarkNats DEF ReadInv
<1> QED BY <1>2, <1>3, TurnShape

(* The watermark passes nobody that had no turn.                               *)
LEMMA PassedReadStep ==
  ASSUME ResumeTypeOK, ListedInOrder, LoopInv, ReadInv, [ResumeNext]_resumeVars PROVE ReadInv'
<1> USE DEF tellVars, markVars, pollVars, queueTables, costVars
<1>1. CASE Lists
  <2>1. UNCHANGED <<begun, markFile, lastMark, tickStep>> /\ tickStep # "live"
    BY <1>1 DEF Lists
  <2>2. OnCamera' = OnCamera \cup {listed'} /\ listed' \in EventIds
    BY <1>1, MarkNats DEF Lists, OnCamera, EventIds
  <2>3. turn'[listed'] = "unseen" => begun[listed'] > (IF Running THEN lastMark ELSE markFile)
    BY <1>1, <2>2, MarkNats DEF Lists, ResumeTypeOK
  <2>4. \A d \in OnCamera : turn'[d] = "unseen" => turn[d] = "unseen"
    BY <1>1, <2>2 DEF Lists, ResumeTypeOK
  <2> QED BY <2>1, <2>2, <2>3, <2>4, MarkNats DEF ReadInv, LoopInv, Running
<1>2. CASE TickStarts \/ PollMissed
  BY <1>2 DEF TickStarts, PollMissed, ReadInv, OnCamera, Running
<1>3. CASE PollTaken
  BY <1>3 DEF PollTaken, ReadInv, OnCamera, FreshEvents, Running
<1>4. CASE PollOver
  BY <1>4 DEF PollOver, ReadInv, OnCamera, Running
<1>5. CASE \E e \in EventIds : Turn(e)
  BY <1>5, ReadTurn
<1>6. CASE \E e \in EventIds : FollowUpDropped(e) \/ FollowUpSent(e)
  <2>1. PICK e \in EventIds : FollowUpEnds(e)
    BY <1>6, DrainShape
  <2>2. UNCHANGED <<begun, listed, tickStep, lastMark, markFile, batchLeft>>
    BY <2>1 DEF FollowUpEnds
  <2>3. \A d \in EventIds : turn'[d] = "unseen" => turn[d] = "unseen"
    BY <2>1 DEF FollowUpEnds, ResumeTypeOK
  <2> QED BY <2>2, <2>3, MarkNats DEF ReadInv, Running, OnCamera
<1>7. CASE MarkSaved \/ MarkNotSaved \/ HealthWritten
  <2>1. /\ UNCHANGED <<begun, listed, lastMark, batchLeft, turn>>
        /\ markFile' \in {markFile, lastMark} /\ Running
        /\ tickStep' = "live" => tickStep = "live"
    BY <1>7 DEF MarkSaved, MarkNotSaved, HealthWritten, Running
  <2> QED BY <2>1, MarkNats DEF ReadInv, OnCamera
<1>8. CASE HubSavesTables \/ TablesSaved \/ TablesNotSaved \/ DrainOver \/ TickRaises
  <2>1. UNCHANGED <<begun, listed, lastMark, markFile, batchLeft, turn>>
    BY <1>8 DEF HubSavesTables, TablesSaved, TablesNotSaved, DrainOver, TickRaises
  <2>2. Running /\ tickStep' # "live"
    BY <1>8
       DEF HubSavesTables, TablesSaved, TablesNotSaved, DrainOver, TickRaises, TickSteps, Running
  <2> QED BY <2>1, <2>2 DEF ReadInv, OnCamera
<1>9. CASE Resumes
  BY <1>9 DEF Resumes, ReadInv, OnCamera
<1>10. CASE Stops \/ Unwinds \/ Dies
  <2>1. UNCHANGED <<begun, listed, markFile, turn>> /\ tickStep' = "down"
    BY <1>10, DownShape DEF Down, Stops, Unwinds, Dies
  <2> QED BY <2>1 DEF ReadInv, OnCamera, Running
<1>11. CASE UNCHANGED resumeVars
  BY <1>11 DEF resumeVars, ReadInv, OnCamera, Running
<1> QED
  BY <1>1, <1>2, <1>3, <1>4, <1>5, <1>6, <1>7, <1>8, <1>9, <1>10, <1>11 DEF ResumeNext

----------------------------------------------------------------------------
(* Resume: the follow-ups *)

(* A turn keeps the follow-up it defers to, and those of others.               *)
LEMMA KeptTurn ==
  ASSUME ResumeTypeOK, ListedInOrder, LoopInv, FollowUpsKept, NEW e \in EventIds, Turn(e)
  PROVE  FollowUpsKept'
<1>1. /\ IsNext(e) /\ UNCHANGED <<begun, listed, markFile, torn, tables, unsaved, finished>>
      /\ OnCamera' = OnCamera /\ tickStep = "live" /\ finished = {} /\ e \in FreshEvents
      /\ lastMark < begun[e]
  BY TurnShape, NextOfPoll
     DEF TurnSettles, TurnEnds, TurnRaises, IsNext, OnCamera, markVars, queueTables, LoopInv
<1>2. CASE TurnSettles(e) \/ (TurnRaises(e) /\ LastFailure(e))
  <2>1. /\ batchLeft' = batchLeft \ {e} /\ UNCHANGED <<lastMark, tickStep>>
        /\ followUps \subseteq followUps'
    BY <1>2 DEF TurnSettles, TurnEnds, TurnRaises, markVars, queueTables
  <2>2. turn'[e] = "deferred" => e \in followUps'
    BY <1>2, NothingNewIs
       DEF TurnSettles, TurnEnds, TurnRaises, TurnVerdicts, ResumeTypeOK, queueTables
  <2>3. \A d \in OnCamera : d # e => turn'[d] = turn[d]
    BY <1>2, MarkNats DEF TurnSettles, TurnEnds, TurnRaises, ResumeTypeOK
  <2>4. ASSUME NEW d \in OnCamera, torn = 0, turn'[d] = "deferred" PROVE DeferredKept(d)'
    <3>1. CASE d = e
      BY <1>1, <2>1, <2>2, <2>4, <3>1 DEF DeferredKept, Running
    <3>2. CASE d # e
      <4>1. DeferredKept(d)
        BY <2>3, <2>4, <3>2 DEF FollowUpsKept
      <4> QED BY <1>1, <2>1, <3>2, <4>1 DEF DeferredKept, Running, WouldTear
    <3> QED BY <3>1, <3>2
  <2> QED BY <1>1, <2>4 DEF FollowUpsKept
<1>3. CASE TurnRaises(e) /\ ~LastFailure(e)
  <2>1. tickStep' = "mark" /\ lastMark' = RetryMark(e) /\ turn' = turn /\ followUps' = followUps
    BY <1>3 DEF TurnRaises, queueTables
  <2>2. \A d \in batchLeft : RetryMark(e) < begun[d]
    BY <1>1, NextOfPoll, MarkNats, FreshShape DEF LoopInv
  <2>3. \A d \in OnCamera : torn = 0 /\ turn[d] = "deferred" => d \in followUps \/ d \in batchLeft
    BY <1>1 DEF FollowUpsKept, DeferredKept
  <2> QED BY <1>1, <2>1, <2>2, <2>3 DEF FollowUpsKept, DeferredKept, Running, WouldTear
<1> QED BY <1>2, <1>3, TurnShape

(* Deferred are the events that were; each is kept where it was, or elsewhere.  *)
LEMMA KeptKept ==
  ASSUME FollowUpsKept, \A e \in finished' : turn'[e] # "deferred", torn' = 0 => torn = 0,
         \A e \in OnCamera' : turn'[e] = "deferred" => e \in OnCamera /\ turn[e] = "deferred",
         \A e \in OnCamera : torn' = 0 /\ turn[e] = "deferred" /\ DeferredKept(e) => DeferredKept(e)'
  PROVE  FollowUpsKept'
  BY DEF FollowUpsKept

(* What an end of the process leaves in the files.                             *)
LEMMA KeptDown ==
  ASSUME ResumeTypeOK, LoopInv, FollowUpsKept, Stops \/ Unwinds \/ Dies PROVE FollowUpsKept'
<1>1. Down /\ Running /\ markFile <= lastMark
  BY DownShape DEF Down, LoopInv
<1>2. UNCHANGED <<begun, listed, markFile, turn>> /\ tickStep' = "down" /\ finished' = {}
  BY DownShape DEF Down, Stops, Unwinds, Dies
<1>3. torn' = 0 => torn = 0
  BY DEF Stops, Unwinds, Dies, costVars, ResumeTypeOK
<1>4. OnCamera' = OnCamera
  BY <1>2 DEF OnCamera
<1>5. CASE Stops \/ Unwinds
  <2>1. tables'.queue = followUps
    BY <1>5 DEF Stops, Unwinds, RuntimeSnapshot
  <2>2. \A e \in OnCamera : DeferredKept(e) => DeferredKept(e)'
    BY <1>1, <1>2, <2>1, MarkNats DEF DeferredKept, Running
  <2> QED BY <1>2, <1>3, <1>4, <2>2, KeptKept
<1>6. CASE Dies
  <2>1. tables' = tables /\ (torn' = 0 => ~WouldTear)
    BY <1>6 DEF Dies, ResumeTypeOK
  <2>2. \A e \in OnCamera : torn' = 0 /\ DeferredKept(e) => DeferredKept(e)'
    BY <1>1, <1>2, <2>1, MarkNats DEF DeferredKept, Running
  <2> QED BY <1>2, <1>3, <1>4, <2>2, KeptKept
<1> QED BY <1>5, <1>6

(* Every step keeps a deferred event where a start would find it.              *)
LEMMA KeptStep ==
  ASSUME ResumeTypeOK, ListedInOrder, LoopInv, FollowUpsKept, [ResumeNext]_resumeVars PROVE FollowUpsKept'
<1> USE DEF tellVars, markVars, pollVars, queueTables, costVars
<1>0. \A e \in finished : turn[e] # "deferred"
  BY DEF FollowUpsKept
<1>1. CASE Lists
  <2>1. /\ UNCHANGED <<begun, tickStep, lastMark, markFile, batchLeft, followUps, finished, tables,
                       unsaved, torn>>
        /\ OnCamera' = OnCamera \cup {listed'} /\ listed' \in EventIds /\ listed < listed'
    BY <1>1, MarkNats DEF Lists, OnCamera, EventIds
  <2>2. turn[listed'] = "unseen"
    BY <2>1 DEF ListedInOrder
  <2>3. \A d \in EventIds : turn'[d] = "deferred" => turn[d] = "deferred"
    BY <1>1, <2>1 DEF Lists, ResumeTypeOK
  <2>4. \A e \in OnCamera : DeferredKept(e) => DeferredKept(e)'
    BY <2>1 DEF DeferredKept, Running, WouldTear
  <2>5. \A e \in finished' : turn'[e] # "deferred"
    BY <1>0, <2>1, <2>3, MarkNats DEF ResumeTypeOK
  <2>6. \A e \in OnCamera' : turn'[e] = "deferred" => e \in OnCamera /\ turn[e] = "deferred"
    BY <2>1, <2>2, <2>3, MarkNats
  <2> QED BY <2>1, <2>4, <2>5, <2>6, KeptKept
<1>2. CASE TickStarts \/ PollMissed \/ PollTaken \/ PollOver
  <2>1. UNCHANGED <<begun, listed, followUps, finished, tables, unsaved, turn, torn>>
    BY <1>2 DEF TickStarts, PollMissed, PollTaken, PollOver
  <2>2. \A e \in OnCamera : DeferredKept(e) => DeferredKept(e)'
    BY <1>2, FreshShape
       DEF TickStarts, PollMissed, PollTaken, PollOver, DeferredKept, Running, WouldTear, FreshEvents
  <2> QED BY <1>0, <2>1, <2>2, KeptKept DEF OnCamera
<1>3. CASE \E e \in EventIds : Turn(e)
  BY <1>3, KeptTurn
<1>4. CASE \E e \in EventIds : FollowUpDropped(e) \/ FollowUpSent(e)
  <2>1. PICK e \in EventIds : FollowUpEnds(e)
    BY <1>4, DrainShape
  <2>2. /\ UNCHANGED <<begun, listed, tickStep, lastMark, markFile, batchLeft, followUps, tables,
                       unsaved, torn>>
        /\ finished' = finished \cup {e} /\ tickStep = "drain"
    BY <2>1 DEF FollowUpEnds
  <2>3. \A d \in EventIds : turn'[d] = "deferred" => turn[d] = "deferred" /\ d # e
    BY <2>1 DEF FollowUpEnds, ResumeTypeOK
  <2>4. \A d \in OnCamera : DeferredKept(d) => DeferredKept(d)'
    BY <2>2 DEF DeferredKept, Running, WouldTear
  <2>5. \A d \in finished' : turn'[d] # "deferred"
    BY <1>0, <2>2, <2>3, MarkNats DEF ResumeTypeOK
  <2>6. \A d \in OnCamera' : turn'[d] = "deferred" => d \in OnCamera /\ turn[d] = "deferred"
    BY <2>2, <2>3, MarkNats DEF OnCamera
  <2> QED BY <2>2, <2>4, <2>5, <2>6, KeptKept
<1>5. CASE MarkSaved \/ MarkNotSaved \/ HealthWritten
  <2>1. UNCHANGED <<begun, listed, lastMark, batchLeft, followUps, finished, tables, unsaved, turn,
                    torn>>
    BY <1>5 DEF MarkSaved, MarkNotSaved, HealthWritten
  <2>2. \/ tickStep = "mark" /\ tickStep' = "drain"
        \/ Running /\ tickStep' = tickStep
    BY <1>5 DEF MarkSaved, MarkNotSaved, HealthWritten
  <2>3. \A e \in OnCamera : DeferredKept(e) => DeferredKept(e)'
    BY <2>1, <2>2 DEF DeferredKept, Running, WouldTear
  <2> QED BY <1>0, <2>1, <2>3, KeptKept DEF OnCamera
<1>6. CASE HubSavesTables \/ TablesSaved \/ TablesNotSaved
  <2>1. UNCHANGED <<begun, listed, lastMark, followUps, finished, turn, torn>>
    BY <1>6 DEF HubSavesTables, TablesSaved, TablesNotSaved
  <2>2. /\ Running /\ tickStep' \in {"drain", "asleep"}
        /\ WouldTear' \/ tables'.queue = followUps
    BY <1>6 DEF HubSavesTables, TablesSaved, TablesNotSaved, RuntimeSnapshot, WouldTear, Running
  <2>3. \A e \in OnCamera : DeferredKept(e) => DeferredKept(e)'
    BY <2>1, <2>2 DEF DeferredKept, Running
  <2> QED BY <1>0, <2>1, <2>3, KeptKept DEF OnCamera
<1>7. CASE DrainOver
  <2>1. /\ UNCHANGED <<begun, listed, lastMark, turn, torn>> /\ finished' = {}
        /\ followUps' = followUps \ finished /\ tickStep = "drain" /\ tickStep' = "save"
    BY <1>7 DEF DrainOver
  <2>2. \A e \in OnCamera : turn[e] = "deferred" /\ DeferredKept(e) => DeferredKept(e)'
    BY <1>0, <2>1 DEF DeferredKept, Running, WouldTear
  <2> QED BY <2>1, <2>2, KeptKept DEF OnCamera
<1>8. CASE TickRaises
  <2>1. /\ UNCHANGED <<begun, listed, lastMark, markFile, followUps, tables, turn, torn>>
        /\ finished' = {} /\ tickStep' = "asleep" /\ Running
        /\ unsaved' = (unsaved \/ tickStep # "poll")
    BY <1>8 DEF TickRaises, TickSteps, Running
  <2>2. WouldTear => WouldTear'
    BY <2>1 DEF WouldTear
  <2>3. \A e \in OnCamera : DeferredKept(e) => DeferredKept(e)'
    BY <2>1, <2>2 DEF DeferredKept, Running
  <2> QED BY <2>1, <2>3, KeptKept DEF OnCamera
<1>9. CASE Stops \/ Unwinds \/ Dies
  BY <1>9, KeptDown
<1>10. CASE Resumes
  <2>1. /\ UNCHANGED <<begun, listed, tables, finished, turn, torn, unsaved>>
        /\ lastMark' = markFile /\ followUps' = tables.queue
        /\ tickStep = "down" /\ tickStep' = "asleep"
    BY <1>10 DEF Resumes
  <2>2. \A e \in OnCamera : DeferredKept(e) => DeferredKept(e)'
    BY <2>1 DEF DeferredKept, Running
  <2> QED BY <1>0, <2>1, <2>2, KeptKept DEF OnCamera
<1>11. CASE UNCHANGED resumeVars
  <2>1. \A e \in OnCamera : DeferredKept(e) => DeferredKept(e)'
    BY <1>11 DEF resumeVars, DeferredKept, Running, WouldTear
  <2> QED BY <1>0, <1>11, <2>1, KeptKept DEF resumeVars, OnCamera
<1> QED
  BY <1>1, <1>2, <1>3, <1>4, <1>5, <1>6, <1>7, <1>8, <1>9, <1>10, <1>11 DEF ResumeNext

----------------------------------------------------------------------------
(* Resume: what the files hold *)

(* The excuses never become fewer.                                             *)
LEMMA ExcusesGrow ==
  ASSUME ResumeTypeOK, [ResumeNext]_resumeVars PROVE excuses' = 0 => excuses = 0
<1> USE DEF tellVars, markVars, pollVars, queueTables, costVars
<1>0. excuses \in Nat
  BY DEF ResumeTypeOK
<1>1. ASSUME NEW e \in EventIds, Turn(e) PROVE excuses' = 0 => excuses = 0
  <2>1. excuses' = excuses \/ excuses' = excuses + 1
    BY <1>1
       DEF Turn, TurnCooled, TurnSends, TurnDefers, TurnRefused, TurnDrops, TurnRaises, Excuse
  <2> QED BY <1>0, <2>1
<1>2. ASSUME NEW e \in EventIds, FollowUpDropped(e) \/ FollowUpSent(e)
      PROVE  excuses' = 0 => excuses = 0
  BY <1>0, <1>2 DEF FollowUpDropped, FollowUpSent, Excuse
<1>3. CASE Lists \/ TickStarts \/ PollMissed \/ PollTaken \/ PollOver
  BY <1>3 DEF Lists, TickStarts, PollMissed, PollTaken, PollOver
<1>4. CASE MarkSaved \/ MarkNotSaved \/ HealthWritten
  BY <1>0, <1>4 DEF MarkSaved, MarkNotSaved, HealthWritten, Excuse
<1>5. CASE HubSavesTables \/ TablesSaved \/ TablesNotSaved \/ DrainOver \/ Resumes
  BY <1>5 DEF HubSavesTables, TablesSaved, TablesNotSaved, DrainOver, Resumes
<1>6. CASE TickRaises \/ Stops \/ Unwinds \/ Dies
  BY <1>0, <1>6 DEF TickRaises, Stops, Unwinds, Dies
<1>7. CASE UNCHANGED resumeVars
  BY <1>7 DEF resumeVars
<1> QED BY <1>1, <1>2, <1>3, <1>4, <1>5, <1>6, <1>7 DEF ResumeNext

(* The files agree with the memory where a tick begins and ends.               *)
LEMMA SavedStep ==
  ASSUME ResumeTypeOK, LoopInv, SavedInv, [ResumeNext]_resumeVars PROVE SavedInv'
<1> USE DEF tellVars, markVars, pollVars, queueTables, costVars
<1>0. excuses' = 0 => excuses = 0
  BY ExcusesGrow
<1>1. CASE Lists \/ TickStarts \/ PollMissed
  BY <1>1 DEF Lists, TickStarts, PollMissed, SavedInv, Running, RuntimeSnapshot
<1>2. CASE PollTaken \/ PollOver
  BY <1>2 DEF PollTaken, PollOver, SavedInv, Running, RuntimeSnapshot
<1>3. ASSUME NEW e \in EventIds, Turn(e) PROVE SavedInv'
  <2>1. /\ tickStep = "live" /\ tickStep' \in {"live", "mark"} /\ UNCHANGED <<markFile, markBefore>>
        /\ tickStep' = "live" => lastMark' = lastMark
    BY <1>3, TurnShape DEF TurnSettles, TurnEnds, TurnRaises, IsNext
  <2> QED BY <1>0, <2>1 DEF SavedInv, Running
<1>4. CASE \E e \in EventIds : FollowUpDropped(e) \/ FollowUpSent(e)
  <2>1. UNCHANGED <<tickStep, lastMark, markFile, markBefore>> /\ tickStep = "drain"
    BY <1>4, DrainShape DEF FollowUpEnds
  <2> QED BY <1>0, <2>1 DEF SavedInv, Running
<1>5. CASE MarkSaved
  BY <1>5 DEF MarkSaved, SavedInv, Running
<1>6. CASE MarkNotSaved
  BY <1>6, <1>0 DEF MarkNotSaved, SavedInv, Excuse, ResumeTypeOK
<1>7. CASE HealthWritten
  BY <1>7 DEF HealthWritten, SavedInv, Running, RuntimeSnapshot
<1>8. CASE HubSavesTables \/ TablesSaved \/ TablesNotSaved
  BY <1>8 DEF HubSavesTables, TablesSaved, TablesNotSaved, SavedInv, Running, RuntimeSnapshot
<1>9. CASE DrainOver
  BY <1>9 DEF DrainOver, SavedInv, Running
<1>10. CASE TickRaises
  <2>1. /\ UNCHANGED <<lastMark, markFile, gateStart, followUps, tables>> /\ tickStep' = "asleep"
        /\ unsaved' = (unsaved \/ tickStep # "poll") /\ Running
        /\ excuses' = 0 => tickStep # "mark"
    BY <1>10 DEF TickRaises, TickSteps, Running, ResumeTypeOK
  <2> QED BY <1>0, <2>1 DEF SavedInv, Running, RuntimeSnapshot
<1>11. CASE Stops \/ Unwinds \/ Dies
  BY <1>11, DownShape DEF Down, SavedInv, Running
<1>12. CASE Resumes
  <2>1. tables = [starts |-> tables.starts, queue |-> tables.queue]
    BY DEF ResumeTypeOK
  <2> QED BY <1>12, <2>1 DEF Resumes, SavedInv, Running, RuntimeSnapshot
<1>13. CASE UNCHANGED resumeVars
  BY <1>13 DEF resumeVars, SavedInv, Running, RuntimeSnapshot
<1> QED
  BY <1>1, <1>2, <1>3, <1>4, <1>5, <1>6, <1>7, <1>8, <1>9, <1>10, <1>11, <1>12, <1>13
     DEF ResumeNext

----------------------------------------------------------------------------
(* Resume: no photo twice *)

(* A passage is free only of events that did not arm the gate.                  *)
LEMMA GateHoldsOwn ==
  ASSUME NEW starts, NEW s \in Nat, starts["confirmed"] = s PROVE GateHolds(starts, s)
<1>1. SamePassage(s, starts["confirmed"])
  BY CooldownAssumption DEF SamePassage
<1>2. starts["confirmed"] # NoTime
  BY DEF NoTime
<1> QED BY <1>1, <1>2 DEF GateHolds, PassageFree, PassageKeys

(* Whom a turn admits, known faces aside, has no photo and no follow-up.         *)
LEMMA AdmittedUntold ==
  ASSUME ResumeTypeOK, ListedInOrder, LoopInv, NEW e \in EventIds \ Faces, EchoOf(e), IsNext(e),
         AdmittedTurn(e)
  PROVE  ~Told(e)
<1>1. tickStep = "live" /\ e \in batchLeft /\ lastMark < begun[e]
  BY NextOfPoll
<1>2. Told(e) => gateStart["confirmed"] = begun[e]
  BY <1>1, MarkNats DEF EchoOf, GateArmed, MarkInForce, GateInForce, Running
<1> QED BY <1>2, GateHoldsOwn, MarkNats DEF AdmittedTurn

(* The same memory, in another place.                                          *)
LEMMA EchoSame ==
  ASSUME ResumeTypeOK, EchoInv, excuses = 0,
         UNCHANGED <<begun, photos, finished, batchLeft, MarkInForce, QueueInForce>>,
         \/ tickStep = "live" /\ UNCHANGED <<tickStep, listed, lastMark, gateStart>>
         \/ tickStep # "live" /\ tickStep' # "live" /\ batchLeft = {} /\ UNCHANGED GateInForce
  PROVE  EchoExplained' /\ \A e \in OnCamera : EchoOf(e)'
<1>1. EchoExplained' /\ \A e \in OnCamera : EchoOf(e)
  BY DEF EchoInv, EchoExplained
<1>2. ASSUME NEW e \in OnCamera PROVE EchoOf(e)'
  <2>1. EchoOf(e)
    BY <1>1
  <2>2. Told(e)' <=> Told(e)
    BY DEF Told
  <2>3. CASE tickStep = "live"
    <3>1. FreshEvents' = FreshEvents /\ UNCHANGED <<tickStep, lastMark, gateStart>>
      BY <2>3 DEF FreshEvents, OnCamera
    <3>2. GateInForce' = GateInForce
      BY <2>3, <3>1 DEF GateInForce, Running
    <3>3. QueuedUntold(e)' /\ QueuedNear(e)'
      BY <2>1, <2>3, <3>1 DEF EchoOf, QueuedUntold, QueuedNear
    <3>4. GateArmed(e)' /\ GateNotAhead(e)'
      BY <2>1, <2>2, <2>3, <3>1, <3>2 DEF EchoOf, GateArmed, GateNotAhead
    <3> QED BY <3>3, <3>4 DEF EchoOf
  <2>4. CASE tickStep # "live"
    BY <2>1, <2>2, <2>4 DEF EchoOf, QueuedUntold, QueuedNear, GateArmed, GateNotAhead
  <2> QED BY <2>3, <2>4
<1> QED BY <1>1, <1>2

(* After a turn that settles: whoever is told among the events of the poll is     *)
(* known to the gate, which is not ahead of those that wait.                    *)
LEMMA EchoAfterTurn ==
  ASSUME ResumeTypeOK, ListedInOrder, LoopInv, EchoInv, excuses = 0,
         NEW e \in EventIds, IsNext(e), batchLeft' = batchLeft \ {e},
         UNCHANGED <<begun, listed, tickStep, lastMark, finished>>,
         followUps \subseteq followUps', followUps' \subseteq followUps \cup {e},
         \A d \in EventIds : d # e => photos'[d] = photos[d],
         e \notin Faces => photos'[e] = 0 \/ (photos'[e] = 1 /\ e \notin followUps')
                             \/ (photos'[e] = photos[e] /\ followUps' = followUps),
         \/ gateStart'["confirmed"] = begun[e]
         \/ gateStart' = gateStart /\ followUps' = followUps /\ photos' = photos
  PROVE  EchoExplained' /\ \A d \in OnCamera : EchoOf(d)'
<1>1. /\ tickStep = "live" /\ e \in batchLeft /\ e \in FreshEvents /\ lastMark < begun[e]
      /\ \A d \in batchLeft : e <= d /\ begun[e] <= begun[d]
  BY NextOfPoll
<1>2. FreshEvents' = FreshEvents /\ OnCamera' = OnCamera
  BY DEF FreshEvents, OnCamera
<1>3. EchoExplained /\ \A d \in OnCamera : EchoOf(d)
  BY DEF EchoInv
<1>4. /\ MarkInForce = lastMark /\ MarkInForce' = lastMark /\ GateInForce = gateStart["confirmed"]
      /\ GateInForce' = gateStart'["confirmed"]
      /\ QueueInForce = followUps /\ QueueInForce' = followUps'
  BY <1>1 DEF MarkInForce, GateInForce, QueueInForce, Running
<1>5. EchoExplained'
  BY <1>3, MarkNats DEF EchoExplained, ResumeTypeOK
<1>6. \A d \in OnCamera : d # e /\ Told(d)' => Told(d)
  BY <1>4, MarkNats DEF Told
<1>7. ASSUME NEW d \in OnCamera PROVE EchoOf(d)'
  <2>1. d \in EventIds /\ EchoOf(d) /\ begun[d] \in Nat /\ begun[e] \in Nat /\ lastMark \in Nat
    BY <1>3, MarkNats
  <2>2. QueuedUntold(d)'
    <3>1. CASE d = e
      BY <1>1, <1>4, <2>1, <3>1 DEF EchoOf, QueuedUntold
    <3>2. CASE d # e
      BY <1>4, <2>1, <3>2 DEF EchoOf, QueuedUntold
    <3> QED BY <3>1, <3>2
  <2>3. QueuedNear(d)'
    BY <1>1, <1>2, <1>4, <2>1 DEF EchoOf, QueuedNear
  <2>4. CASE gateStart'["confirmed"] = begun[e]
    <3>1. GateNotAhead(d)'
      BY <1>1, <2>4 DEF GateNotAhead
    <3>2. ASSUME d \notin Faces, Told(d)', begun[d] > lastMark, d \notin batchLeft'
          PROVE  begun[d] <= gateStart'["confirmed"]
      <4>1. CASE d = e
        BY <2>1, <2>4, <4>1
      <4>2. CASE d # e
        <5>1. Told(d) /\ d \notin batchLeft
          BY <1>6, <3>2, <4>2
        <5>2. d \in FreshEvents
          BY <3>2 DEF FreshEvents
        <5> QED BY <2>4, <5>1, <5>2, NextOfPoll
      <4> QED BY <4>1, <4>2
    <3>3. ASSUME d \notin Faces, Told(d)', begun[d] > lastMark, d \in batchLeft'
          PROVE  begun[d] = lastMark + 1 /\ gateStart'["confirmed"] = begun[d]
      <4>1. Told(d) /\ d \in batchLeft
        BY <1>6, <3>3
      <4>2. begun[d] = lastMark + 1
        BY <1>1, <1>4, <2>1, <3>3, <4>1 DEF EchoOf, GateArmed
      <4> QED BY <1>1, <2>1, <2>4, <4>1, <4>2
    <3>4. GateArmed(d)'
      BY <1>1, <1>4, <3>2, <3>3 DEF GateArmed
    <3> QED BY <2>2, <2>3, <3>1, <3>4 DEF EchoOf
  <2>5. CASE gateStart' = gateStart /\ followUps' = followUps /\ photos' = photos
    <3>1. Told(d)' <=> Told(d)
      BY <1>4, <2>5 DEF Told
    <3>2. d = e /\ d \notin Faces /\ Told(d) => gateStart["confirmed"] = begun[e]
      BY <1>1, <1>4, <2>1 DEF EchoOf, GateArmed
    <3>3. GateArmed(d)'
      BY <1>1, <1>4, <2>1, <2>5, <3>1, <3>2 DEF EchoOf, GateArmed
    <3>4. GateNotAhead(d)'
      BY <1>1, <1>4, <2>1, <2>5, <3>1, <3>2 DEF EchoOf, GateNotAhead
    <3> QED BY <2>2, <2>3, <3>3, <3>4 DEF EchoOf
  <2> QED BY <2>4, <2>5
<1> QED BY <1>5, <1>7

(* The turns that end with a verdict...                                        *)
LEMMA EchoSettles ==
  ASSUME ResumeTypeOK, ListedInOrder, LoopInv, EchoInv, excuses = 0, excuses' = 0,
         NEW e \in EventIds, Turn(e), ~TurnRaises(e)
  PROVE  EchoExplained' /\ \A d \in OnCamera : EchoOf(d)'
<1>1. /\ IsNext(e) /\ batchLeft' = batchLeft \ {e}
      /\ UNCHANGED <<begun, listed, tickStep, lastMark, finished>>
      /\ followUps \subseteq followUps' /\ followUps' \subseteq followUps \cup {e}
  BY TurnShape DEF TurnSettles, TurnEnds, markVars
<1>2. e \notin Faces /\ AdmittedTurn(e) => photos[e] = 0 /\ e \notin followUps
  <2>1. e \in OnCamera /\ tickStep = "live"
    BY <1>1 DEF IsNext, ResumeTypeOK
  <2> QED BY <1>1, <2>1, AdmittedUntold DEF EchoInv, Told, QueueInForce, Running
<1>3. CASE TurnCooled(e) \/ TurnDrops(e)
  BY <1>1, <1>3, EchoAfterTurn DEF TurnCooled, TurnDrops
<1>4. CASE TurnSends(e)
  <2>1. gateStart'["confirmed"] = begun[e] /\ AdmittedTurn(e)
    BY <1>4, StampConfirmed DEF TurnSends
  <2>2. photos' = [photos EXCEPT ![e] = @ + 1] /\ followUps' = followUps
    BY <1>4 DEF TurnSends
  <2>3. photos'[e] = photos[e] + 1 /\ \A d \in EventIds : d # e => photos'[d] = photos[d]
    BY <2>2 DEF ResumeTypeOK
  <2> QED BY <1>1, <1>2, <2>1, <2>2, <2>3, EchoAfterTurn
<1>5. CASE TurnDefers(e)
  <2>1. gateStart'["confirmed"] = begun[e] /\ AdmittedTurn(e) /\ photos' = photos
    BY <1>5, StampConfirmed DEF TurnDefers
  <2> QED BY <1>1, <1>2, <2>1, EchoAfterTurn
<1>6. CASE TurnRefused(e)
  BY <1>6 DEF TurnRefused, Excuse
<1> QED BY <1>3, <1>4, <1>5, <1>6 DEF Turn

(* ... and those that raise: the retry begins with the second of the failure, for *)
(* which the gate is armed if anyone there was told.                           *)
LEMMA EchoRaises ==
  ASSUME ResumeTypeOK, ListedInOrder, LoopInv, EchoInv, excuses = 0,
         NEW e \in EventIds, TurnRaises(e)
  PROVE  EchoExplained' /\ \A d \in OnCamera : EchoOf(d)'
<1>1. /\ IsNext(e) /\ tickStep = "live" /\ e \in batchLeft
      /\ UNCHANGED <<begun, listed, followUps, finished, photos, gateStart>>
  BY DEF TurnRaises, IsNext, queueTables
<1>2. CASE LastFailure(e)
  <2>1. batchLeft' = batchLeft \ {e} /\ UNCHANGED <<tickStep, lastMark>>
    BY <1>2 DEF TurnRaises
  <2> QED BY <1>1, <2>1, EchoAfterTurn
<1>3. CASE ~LastFailure(e)
  <2>1. batchLeft' = {} /\ tickStep' = "mark" /\ lastMark' = RetryMark(e)
    BY <1>3 DEF TurnRaises
  <2>2. EchoExplained /\ \A d \in OnCamera : EchoOf(d)
    BY DEF EchoInv
  <2>3. EchoExplained'
    BY <1>1, <2>2 DEF EchoExplained
  <2>4. /\ MarkInForce = lastMark /\ MarkInForce' = RetryMark(e)
        /\ GateInForce = gateStart["confirmed"] /\ GateInForce' = gateStart["confirmed"]
        /\ QueueInForce = followUps /\ QueueInForce' = followUps
    BY <1>1, <2>1 DEF MarkInForce, GateInForce, QueueInForce, Running
  <2>5. /\ RetryMark(e) \in Nat /\ lastMark <= RetryMark(e) /\ RetryMark(e) < begun[e]
        /\ begun[e] <= RetryMark(e) + 1
    BY <1>1, NextOfPoll
  <2>6. ASSUME NEW d \in OnCamera PROVE EchoOf(d)'
    <3>0. gateStart["confirmed"] \in Int
      BY DEF ResumeTypeOK, GateKeys, EventTypes, NoTime, Moments
    <3>1. /\ d \in EventIds /\ EchoOf(d) /\ begun[d] \in Nat /\ begun[e] \in Nat /\ lastMark \in Nat
          /\ gateStart["confirmed"] \in Int
      BY <2>2, <3>0, MarkNats
    <3>2. QueuedUntold(d)' /\ GateNotAhead(d)'
      BY <1>1, <2>1, <2>4, <3>1 DEF EchoOf, QueuedUntold, GateNotAhead
    <3>3. QueuedNear(d)'
      <4>1. d \in FreshEvents \ batchLeft => begun[d] <= begun[e]
        BY <1>1, NextOfPoll
      <4> QED BY <1>1, <2>4, <2>5, <3>1, <4>1 DEF EchoOf, QueuedNear
    <3>4. ASSUME d \notin Faces, Told(d), begun[d] > RetryMark(e)
          PROVE  begun[d] = RetryMark(e) + 1 /\ gateStart["confirmed"] = begun[d]
      <4>1. begun[d] > lastMark /\ d \in FreshEvents
        BY <2>5, <3>1, <3>4 DEF FreshEvents
      <4>2. CASE d \in batchLeft
        <5>1. begun[d] = lastMark + 1 /\ gateStart["confirmed"] = begun[d]
          BY <1>1, <2>4, <3>1, <3>4, <4>1, <4>2 DEF EchoOf, GateArmed
        <5> QED BY <2>5, <3>1, <3>4, <5>1
      <4>3. CASE d \notin batchLeft
        <5>1. begun[d] <= gateStart["confirmed"] /\ gateStart["confirmed"] <= begun[e]
          BY <1>1, <2>4, <3>1, <3>4, <4>1, <4>3 DEF EchoOf, GateArmed, GateNotAhead
        <5>2. begun[d] <= begun[e]
          BY <1>1, <4>1, <4>3, NextOfPoll
        <5> QED BY <2>5, <3>1, <3>4, <5>1, <5>2
      <4> QED BY <4>2, <4>3
    <3>5. Told(d)' => Told(d)
      BY <1>1, <2>4 DEF Told
    <3>6. GateArmed(d)'
      BY <1>1, <2>1, <2>4, <3>4, <3>5 DEF GateArmed
    <3> QED BY <3>2, <3>3, <3>6 DEF EchoOf
  <2> QED BY <2>3, <2>6
<1> QED BY <1>2, <1>3

(* A card photo goes to an event that has none, and leaves the gate where it was *)
(* armed unless it takes it back.                                              *)
LEMMA EchoDrain ==
  ASSUME ResumeTypeOK, LoopInv, EchoInv, excuses = 0, excuses' = 0,
         NEW e \in EventIds, FollowUpDropped(e) \/ FollowUpSent(e)
  PROVE  EchoExplained' /\ \A d \in OnCamera : EchoOf(d)'
<1>1. /\ tickStep = "drain" /\ e \in followUps /\ e \notin finished /\ finished' = finished \cup {e}
      /\ UNCHANGED <<begun, listed, tickStep, lastMark, batchLeft, followUps, tables>>
  BY DrainShape DEF FollowUpEnds, markVars, pollVars
<1>2. EchoExplained /\ \A d \in OnCamera : EchoOf(d)
  BY DEF EchoInv
<1>3. /\ MarkInForce = lastMark /\ MarkInForce' = lastMark /\ GateInForce = gateStart["confirmed"]
      /\ GateInForce' = gateStart'["confirmed"]
      /\ QueueInForce = followUps /\ QueueInForce' = followUps
  BY <1>1 DEF MarkInForce, GateInForce, QueueInForce, Running
<1>4. e \in OnCamera /\ batchLeft = {}
  BY <1>1 DEF ResumeTypeOK, LoopInv
<1>5. e \notin Faces => photos[e] = 0
  BY <1>1, <1>2, <1>3, <1>4 DEF EchoOf, QueuedUntold
<1>6. /\ \A d \in EventIds : d # e => photos'[d] = photos[d]
      /\ photos'[e] \in {photos[e], photos[e] + 1}
  BY DEF FollowUpDropped, FollowUpSent, ResumeTypeOK
<1>7. EchoExplained'
  BY <1>2, <1>5, <1>6 DEF EchoExplained
<1>8. \/ gateStart' = gateStart
      \/ gateStart'["confirmed"] = begun[e] /\ gateStart["confirmed"] <= begun[e]
  <2>1. gateStart["confirmed"] \in Int
    BY DEF ResumeTypeOK, GateKeys, EventTypes, NoTime, Moments
  <2>2. CASE FollowUpSent(e)
    <3>1. gateStart'["confirmed"] = begun[e]
      BY <2>2, StampConfirmed DEF FollowUpSent
    <3>2. ~MovesGateBack(e)
      BY <2>2 DEF FollowUpSent, Excuse
    <3> QED BY <2>1, <3>1, <3>2, MarkNats DEF MovesGateBack
  <2> QED BY <2>2 DEF FollowUpDropped
<1>9. ASSUME NEW d \in OnCamera PROVE EchoOf(d)'
  <2>1. d \in EventIds /\ EchoOf(d) /\ begun[d] \in Nat /\ begun[e] \in Nat /\ lastMark \in Nat
    BY <1>2, MarkNats
  <2>2. QueuedUntold(d)' /\ QueuedNear(d)' /\ GateNotAhead(d)'
    BY <1>1, <1>3, <1>4, <1>6, <2>1 DEF EchoOf, QueuedUntold, QueuedNear, GateNotAhead
  <2>3. ASSUME d \notin Faces, Told(d)', begun[d] > lastMark
        PROVE  begun[d] = lastMark + 1 /\ gateStart'["confirmed"] = begun[d]
    <3>1. Told(d)
      BY <1>1, <1>3, <1>6, <2>1, <2>3 DEF Told
    <3>2. begun[d] = lastMark + 1 /\ gateStart["confirmed"] = begun[d]
      BY <1>1, <1>3, <2>1, <2>3, <3>1 DEF EchoOf, GateArmed
    <3>3. begun[e] <= lastMark + 1
      BY <1>1, <1>2, <1>3, <1>4 DEF EchoOf, QueuedNear
    <3> QED BY <1>8, <2>1, <3>2, <3>3
  <2>4. GateArmed(d)'
    BY <1>1, <1>3, <2>3 DEF GateArmed
  <2> QED BY <2>2, <2>4 DEF EchoOf
<1> QED BY <1>7, <1>9

(* Between ticks the files are the memory.                                     *)
LEMMA EchoDown ==
  ASSUME ResumeTypeOK, LoopInv, SavedInv, EchoInv, excuses = 0, excuses' = 0,
         Stops \/ Unwinds \/ Dies
  PROVE  EchoExplained' /\ \A e \in OnCamera : EchoOf(e)'
<1>1. Running /\ tickStep' = "down" /\ UNCHANGED <<begun, markFile>> /\ batchLeft' = {} /\ finished' = {}
  BY DownShape DEF Down
<1>2. /\ tickStep \notin {"live", "mark"} /\ finished = {} /\ photos' = photos
      /\ tables' = RuntimeSnapshot
  <2>1. CASE Stops
    BY <2>1 DEF Stops, LoopInv
  <2>2. CASE Unwinds
    <3>1. tickStep \notin {"live", "mark"} /\ finished = {}
      BY <2>2 DEF Unwinds
    <3> QED BY <2>2, <3>1 DEF Unwinds, MaybeTold, IsNext
  <2>3. CASE Dies
    <3>1. ~WouldTear /\ tickStep # "live"
      BY <2>3 DEF Dies
    <3>2. tickStep \in {"asleep", "poll"} /\ ~unsaved
      BY <1>1, <3>1 DEF WouldTear, Running, ResumeTypeOK, TickSteps
    <3>3. tables = RuntimeSnapshot
      BY <3>2 DEF SavedInv
    <3>4. finished = {}
      BY <3>2 DEF LoopInv
    <3> QED BY <2>3, <3>1, <3>2, <3>3, <3>4 DEF Dies, MaybeTold, IsNext
  <2> QED BY <2>1, <2>2, <2>3
<1>3. markFile = lastMark /\ batchLeft = {}
  BY <1>1, <1>2 DEF SavedInv, LoopInv
<1>4. UNCHANGED <<MarkInForce, QueueInForce, GateInForce>>
  BY <1>1, <1>2, <1>3 DEF MarkInForce, QueueInForce, GateInForce, Running, RuntimeSnapshot
<1> QED BY <1>1, <1>2, <1>3, <1>4, EchoSame

(* Every step leaves nothing to repeat.                                        *)
LEMMA EchoStep ==
  ASSUME ResumeTypeOK, ListedInOrder, LoopInv, SavedInv, EchoInv, [ResumeNext]_resumeVars
  PROVE  EchoInv'
<1> SUFFICES ASSUME excuses' = 0 PROVE EchoExplained' /\ \A e \in OnCamera' : EchoOf(e)'
  BY DEF EchoInv
<1> USE DEF tellVars, markVars, pollVars, queueTables, costVars
<1>0. excuses = 0
  BY ExcusesGrow
<1>a. EchoExplained /\ \A e \in OnCamera : EchoOf(e)
  BY <1>0 DEF EchoInv
<1>1. CASE Lists
  <2>1. /\ UNCHANGED <<begun, photos, finished, batchLeft, followUps, gateStart, lastMark, markFile,
                       tables, tickStep>>
        /\ tickStep # "live"
    BY <1>1 DEF Lists
  <2>2. UNCHANGED <<MarkInForce, QueueInForce, GateInForce>> /\ batchLeft = {}
    BY <2>1 DEF MarkInForce, QueueInForce, GateInForce, Running, LoopInv
  <2>3. EchoExplained' /\ \A e \in OnCamera : EchoOf(e)'
    BY <1>0, <2>1, <2>2, EchoSame
  <2>4. OnCamera' = OnCamera \cup {listed'} /\ listed' \in EventIds /\ listed < listed'
    BY <1>1, MarkNats DEF Lists, OnCamera, EventIds
  <2>5. QueueInForce' \subseteq OnCamera
    BY <2>2 DEF QueueInForce, ResumeTypeOK
  <2>6. ASSUME NEW e \in OnCamera', e \notin OnCamera PROVE EchoOf(e)'
    <3>1. photos'[e] = 0
      BY <2>1, <2>4, <2>6, MarkNats DEF ListedInOrder
    <3> QED BY <2>5, <2>6, <3>1 DEF EchoOf, QueuedUntold, QueuedNear, GateArmed, GateNotAhead, Told
  <2> QED BY <2>3, <2>6
<1>2. CASE TickStarts \/ PollMissed
  <2>1. /\ UNCHANGED <<begun, listed, photos, finished, batchLeft, followUps, gateStart, lastMark>>
        /\ tickStep # "live" /\ tickStep' # "live" /\ Running /\ Running'
    BY <1>2 DEF TickStarts, PollMissed, Running
  <2>2. UNCHANGED <<MarkInForce, QueueInForce, GateInForce>> /\ batchLeft = {}
    BY <2>1 DEF MarkInForce, QueueInForce, GateInForce, LoopInv
  <2> QED BY <1>0, <2>1, <2>2, EchoSame DEF OnCamera
<1>3. CASE PollTaken
  <2>1. /\ UNCHANGED <<begun, listed, photos, finished, followUps, gateStart, lastMark>>
        /\ tickStep = "poll" /\ tickStep' = "live" /\ batchLeft' = FreshEvents
    BY <1>3 DEF PollTaken
  <2>2. UNCHANGED <<MarkInForce, QueueInForce, GateInForce>> /\ OnCamera' = OnCamera
        /\ MarkInForce = lastMark
    BY <2>1 DEF MarkInForce, QueueInForce, GateInForce, Running, OnCamera
  <2>3. EchoExplained'
    BY <1>0, <1>a, <2>1 DEF EchoExplained
  <2>4. ASSUME NEW e \in OnCamera PROVE EchoOf(e)'
    <3>1. EchoOf(e) /\ (Told(e)' <=> Told(e))
      BY <1>a, <2>1, <2>2 DEF Told
    <3>2. begun[e] > lastMark => e \in batchLeft'
      BY <2>1 DEF FreshEvents
    <3> QED BY <2>1, <2>2, <3>1, <3>2
            DEF EchoOf, QueuedUntold, QueuedNear, GateArmed, GateNotAhead
  <2> QED BY <2>2, <2>3, <2>4
<1>4. CASE PollOver
  <2>1. /\ UNCHANGED <<begun, listed, photos, finished, followUps, gateStart, batchLeft>>
        /\ tickStep = "live" /\ tickStep' = "mark" /\ lastMark' = pollMark /\ batchLeft = {}
    BY <1>4 DEF PollOver
  <2>2. /\ MarkInForce = lastMark /\ MarkInForce' = pollMark /\ lastMark <= pollMark
        /\ UNCHANGED QueueInForce /\ OnCamera' = OnCamera
        /\ \A e \in FreshEvents : begun[e] <= pollMark
    BY <2>1 DEF MarkInForce, QueueInForce, Running, OnCamera, LoopInv
  <2>3. EchoExplained'
    BY <1>0, <1>a, <2>1 DEF EchoExplained
  <2>4. ASSUME NEW e \in OnCamera PROVE EchoOf(e)'
    <3>1. EchoOf(e) /\ begun[e] \in Nat /\ lastMark \in Nat /\ pollMark \in Nat
      BY <1>a, MarkNats
    <3>2. begun[e] <= pollMark
      BY <2>2, <3>1 DEF FreshEvents
    <3>3. QueuedUntold(e)' /\ QueuedNear(e)'
      BY <2>1, <2>2, <3>1, <3>2 DEF EchoOf, QueuedUntold, QueuedNear
    <3>4. GateArmed(e)' /\ GateNotAhead(e)'
      BY <2>1, <2>2, <3>1, <3>2 DEF GateArmed, GateNotAhead
    <3> QED BY <3>3, <3>4 DEF EchoOf
  <2> QED BY <2>2, <2>3, <2>4
<1>5. ASSUME NEW e \in EventIds, Turn(e)
      PROVE  EchoExplained' /\ \A d \in OnCamera' : EchoOf(d)'
  <2>1. OnCamera' = OnCamera
    BY <1>5, TurnShape DEF TurnSettles, TurnEnds, TurnRaises, OnCamera
  <2> QED BY <1>0, <1>5, <2>1, EchoSettles, EchoRaises
<1>6. ASSUME NEW e \in EventIds, FollowUpDropped(e) \/ FollowUpSent(e)
      PROVE  EchoExplained' /\ \A d \in OnCamera' : EchoOf(d)'
  <2>1. OnCamera' = OnCamera
    BY <1>6, DrainShape DEF FollowUpEnds, OnCamera
  <2> QED BY <1>0, <1>6, <2>1, EchoDrain
<1>7. CASE MarkSaved \/ MarkNotSaved \/ HealthWritten
  <2>1. /\ UNCHANGED <<begun, listed, photos, finished, batchLeft, followUps, gateStart, lastMark>>
        /\ Running /\ Running'
        /\ tickStep' = tickStep \/ (tickStep # "live" /\ tickStep' # "live")
    BY <1>7 DEF MarkSaved, MarkNotSaved, HealthWritten, Running
  <2>2. UNCHANGED <<MarkInForce, QueueInForce, GateInForce>>
    BY <2>1 DEF MarkInForce, QueueInForce, GateInForce
  <2>3. tickStep # "live" => batchLeft = {}
    BY DEF LoopInv
  <2> QED BY <1>0, <2>1, <2>2, <2>3, EchoSame DEF OnCamera
<1>8. CASE HubSavesTables \/ TablesSaved \/ TablesNotSaved
  <2>1. /\ UNCHANGED <<begun, listed, photos, finished, batchLeft, followUps, gateStart, lastMark>>
        /\ Running /\ Running' /\ tickStep # "live" /\ tickStep' # "live"
    BY <1>8 DEF HubSavesTables, TablesSaved, TablesNotSaved, Running
  <2>2. UNCHANGED <<MarkInForce, QueueInForce, GateInForce>> /\ batchLeft = {}
    BY <2>1 DEF MarkInForce, QueueInForce, GateInForce, LoopInv
  <2> QED BY <1>0, <2>1, <2>2, EchoSame DEF OnCamera
<1>9. CASE DrainOver
  <2>1. /\ UNCHANGED <<begun, listed, photos, batchLeft, gateStart, lastMark>>
        /\ followUps' = followUps \ finished /\ finished' = {}
        /\ tickStep = "drain" /\ tickStep' = "save"
    BY <1>9 DEF DrainOver
  <2>2. /\ UNCHANGED <<MarkInForce, GateInForce>> /\ batchLeft = {} /\ OnCamera' = OnCamera
        /\ QueueInForce = followUps /\ QueueInForce' = followUps'
    BY <2>1 DEF MarkInForce, QueueInForce, GateInForce, Running, LoopInv, OnCamera
  <2>3. EchoExplained'
    BY <1>0, <1>a, <2>1 DEF EchoExplained
  <2>4. ASSUME NEW e \in OnCamera PROVE EchoOf(e)'
    <3>1. EchoOf(e) /\ (Told(e)' => Told(e))
      BY <1>a, <2>1, <2>2 DEF Told
    <3> QED BY <2>1, <2>2, <3>1
            DEF EchoOf, QueuedUntold, QueuedNear, GateArmed, GateNotAhead
  <2> QED BY <2>2, <2>3, <2>4
<1>10. CASE TickRaises
  <2>1. /\ UNCHANGED <<begun, listed, photos, batchLeft, followUps, gateStart, lastMark>>
        /\ Running /\ Running' /\ tickStep # "live" /\ tickStep' # "live"
        /\ finished' = {}
    BY <1>10 DEF TickRaises, TickSteps, Running
  <2>2. finished = {}
    BY <1>0, <1>10 DEF TickRaises
  <2>3. UNCHANGED <<MarkInForce, QueueInForce, GateInForce>> /\ batchLeft = {}
    BY <2>1 DEF MarkInForce, QueueInForce, GateInForce, LoopInv
  <2> QED BY <1>0, <2>1, <2>2, <2>3, EchoSame DEF OnCamera
<1>11. CASE Stops \/ Unwinds \/ Dies
  <2>1. OnCamera' = OnCamera
    BY <1>11, DownShape DEF Down, OnCamera
  <2> QED BY <1>0, <1>11, <2>1, EchoDown
<1>12. CASE Resumes
  <2>1. /\ UNCHANGED <<begun, listed, photos, batchLeft, finished, markFile, tables>>
        /\ lastMark' = markFile /\ gateStart' = tables.starts /\ followUps' = tables.queue
        /\ tickStep = "down" /\ tickStep' = "asleep"
    BY <1>12 DEF Resumes
  <2>2. UNCHANGED <<MarkInForce, QueueInForce, GateInForce>> /\ batchLeft = {}
    BY <2>1 DEF MarkInForce, QueueInForce, GateInForce, Running, LoopInv
  <2> QED BY <1>0, <2>1, <2>2, EchoSame DEF OnCamera
<1>13. CASE UNCHANGED resumeVars
  <2>1. UNCHANGED <<MarkInForce, QueueInForce, GateInForce>> /\ OnCamera' = OnCamera
    BY <1>13 DEF resumeVars, MarkInForce, QueueInForce, GateInForce, Running, OnCamera
  <2>2. tickStep # "live" => batchLeft = {}
    BY DEF LoopInv
  <2> QED BY <1>0, <1>13, <2>1, <2>2, EchoSame DEF resumeVars
<1> QED
  BY <1>1, <1>2, <1>3, <1>4, <1>5, <1>6, <1>7, <1>8, <1>9, <1>10, <1>11, <1>12, <1>13
     DEF ResumeNext

----------------------------------------------------------------------------
(* Resume: the theorems *)

(* The invariant holds at the start...                                         *)
LEMMA ResumeInvInit == ResumeInit => ResumeInv
<1> SUFFICES ASSUME ResumeInit PROVE ResumeInv
  OBVIOUS
<1>1. ResumeTypeOK
  BY ResumeTypeInit
<1>2. ListedInOrder
  BY DEF ResumeInit, ListedInOrder
<1>3. LoopInv
  BY DEF ResumeInit, LoopInv
<1>4. CountInv
  BY <1>1, MarkNats DEF ResumeInit, CountInv, LimitIsOwn
<1>5. ReadInv
  BY DEF ResumeInit, ReadInv, OnCamera
<1>6. FollowUpsKept
  BY DEF ResumeInit, FollowUpsKept, OnCamera
<1>7. SavedInv
  BY DEF ResumeInit, SavedInv, RuntimeSnapshot
<1>8. EchoInv
  BY DEF ResumeInit, EchoInv, EchoExplained, OnCamera
<1> QED BY <1>1, <1>2, <1>3, <1>4, <1>5, <1>6, <1>7, <1>8 DEF ResumeInv

(* ... and is kept by every step.                                              *)
LEMMA ResumeInvStep == ResumeInv /\ [ResumeNext]_resumeVars => ResumeInv'
  BY ResumeTypeStep, ListedInOrderStep, LoopStep, CountStep, PassedReadStep, KeptStep, SavedStep, EchoStep
     DEF ResumeInv

(* Every variable of the live pass and its two files stays of its type.          *)
THEOREM ResumeTypeCorrect == ResumeSpec => []ResumeTypeOK
<1>1. ResumeInv => ResumeTypeOK
  BY DEF ResumeInv
<1> QED BY <1>1, ResumeInvInit, ResumeInvStep, PTL DEF ResumeSpec

(* The watermark, in memory or in health.json, never passes an event that had no *)
(* turn (monitor.run_monitor, daemon.loop_step).                               *)
THEOREM NoneUnreadCorrect == ResumeSpec => []NoneUnread
<1>1. ResumeInv => NoneUnread
  <2> SUFFICES ASSUME ResumeInv, NEW e \in OnCamera, begun[e] <= MarkInForce, turn[e] = "unseen"
               PROVE  FALSE
    BY DEF NoneUnread
  <2>1. begun[e] \in Nat /\ lastMark \in Nat /\ markFile \in Nat
    BY MarkNats DEF ResumeInv
  <2> QED BY <2>1 DEF ResumeInv, ReadInv, MarkInForce
<1> QED BY <1>1, ResumeInvInit, ResumeInvStep, PTL DEF ResumeSpec

(* No stop, kill, failed write or exception loses a follow-up, unless a death came *)
(* between the writes of the two files (daemon.process_pending_sd,              *)
(* runtime_state).                                                             *)
THEOREM FollowUpsSurviveCorrect == ResumeSpec => []FollowUpsSurvive
<1>1. ResumeInv => FollowUpsSurvive
  BY DEF ResumeInv, FollowUpsKept, DeferredKept, FollowUpsSurvive, QueueInForce, MarkInForce
<1> QED BY <1>1, ResumeInvInit, ResumeInvStep, PTL DEF ResumeSpec

(* No event but one of a known face is told twice while nothing that excuses it   *)
(* has happened (alert_gate, monitor.run_monitor, daemon.process_pending_sd).   *)
THEOREM EchoExplainedCorrect == ResumeSpec => []EchoExplained
<1>1. ResumeInv => EchoExplained
  BY DEF ResumeInv, EchoInv, EchoExplained
<1> QED BY <1>1, ResumeInvInit, ResumeInvStep, PTL DEF ResumeSpec

(* An event alone in its second is skipped at its EVENT_FAILURE_LIMIT'th failure   *)
(* since the start and not before (monitor._event_failed).                      *)
THEOREM LimitIsOwnCorrect == ResumeSpec => []LimitIsOwn
<1>1. ResumeInv => LimitIsOwn
  BY DEF ResumeInv, CountInv
<1> QED BY <1>1, ResumeInvInit, ResumeInvStep, PTL DEF ResumeSpec
===============================================================================
