-------------------------- MODULE AlertFlow_proofs --------------------------
(***************************************************************************)
(* Proofs about module AlertFlow, for every value of its constants.        *)
(***************************************************************************)
EXTENDS AlertFlow, FiniteSetTheorems, TLAPS

\* The open group is named by an event start.
GroupStart == group.open => group.ev \in Starts

TypeInv == TypeOK /\ GroupStart
-----------------------------------------------------------------------------
(* What the operators of the group and of the queue return *)

\* The group an event falls in is a group, named by a start.
LEMMA EnsureGroupType ==
    ASSUME NEW g \in Group, NEW s \in Starts, now \in Times, g.open => g.ev \in Starts
    PROVE  /\ EnsureGroup(g, s) \in Group
           /\ EnsureGroup(g, s).open => EnsureGroup(g, s).ev \in Starts
<1>1. s \in Times /\ s + Interval \in Nat
  BY FlowAssumption DEF Starts, Times
<1>2. NoGroup \in Group
  BY FlowAssumption DEF NoGroup, Group, EventTypes, Times
<1> DEFINE fresh == [NoGroup EXCEPT !.open = TRUE, !.etype = EType(s), !.ev = s,
                       !.started = s, !.lastAt = now, !.nextDue = s + Interval,
                       !.pir = (events[s] = "pir")]
<1>3. EType(s) \in EventTypes /\ (events[s] = "pir") \in BOOLEAN
  BY DEF EType, EventTypes
<1>4. fresh \in Group
  BY <1>1, <1>2, <1>3 DEF Group
<1>5. fresh.ev = s
  BY <1>2 DEF Group
<1> HIDE DEF fresh
<1>6. EnsureGroup(g, s) = g \/ EnsureGroup(g, s) = fresh
  BY DEF EnsureGroup, fresh
<1>7. QED
  BY <1>4, <1>5, <1>6

\* Folding an event into a group yields a group, named by a start.
LEMMA ObserveType ==
    ASSUME NEW g \in Group, NEW s \in Starts, NEW a \in BOOLEAN, NEW b \in BOOLEAN,
           now \in Times, events \in [Starts -> AllKinds \cup {"none"}],
           g.open => g.ev \in Starts
    PROVE  /\ Observe(g, s, a, b) \in Group
           /\ Observe(g, s, a, b).open => Observe(g, s, a, b).ev \in Starts
<1> DEFINE h == EnsureGroup(g, s)
<1>1. s \in Times
  BY FlowAssumption DEF Starts, Times
<1>3. h \in Group /\ (h.open => h.ev \in Starts)
  BY EnsureGroupType
<1> HIDE DEF h
<1>4. CASE ~SamplerOn
  BY <1>4 DEF Observe
<1>5. CASE SamplerOn
  <2> DEFINE c == EType(s) = "confirmed"
  <2> DEFINE e == [h EXCEPT !.lastAt = now, !.sent = (h.sent \/ a),
                    !.delivered = (h.delivered \/ b), !.pir = (h.pir \/ events[s] = "pir"),
                    !.etype = IF c THEN "confirmed" ELSE h.etype,
                    !.ev = IF c THEN s ELSE h.ev]
  <2>1. Observe(g, s, a, b) = e
    BY <1>5 DEF Observe, h
  <2>2. /\ (h.sent \/ a) \in BOOLEAN /\ (h.delivered \/ b) \in BOOLEAN
        /\ (h.pir \/ events[s] = "pir") \in BOOLEAN
    OBVIOUS
  <2>3. /\ (IF c THEN "confirmed" ELSE h.etype) \in EventTypes
        /\ (IF c THEN s ELSE h.ev) \in Times
    BY <1>1, <1>3 DEF Group, EventTypes
  <2>4. e \in Group
    BY <1>3, <2>2, <2>3 DEF Group
  <2>5. e.open => e.ev \in Starts
    BY <1>3 DEF Group
  <2>6. QED
    BY <2>1, <2>4, <2>5
<1>6. QED
  BY <1>4, <1>5 DEF h

\* The group corroboration has counted a frame into is a group.
LEMMA CountedType ==
    ASSUME NEW g \in Group, NEW f
    PROVE  /\ Counted(g, f) \in Group
           /\ Counted(g, f).open = g.open /\ Counted(g, f).ev = g.ev
  BY DEF Counted, Group

\* A queued follow-up is an entry, whichever event it is for.
LEMMA DeferType ==
    ASSUME pending \in [Starts -> Entry], NEW s \in Starts,
           NEW armed \in MaybeTime, NEW keep \in BOOLEAN, Defer(s, armed, keep)
    PROVE  pending' \in [Starts -> Entry]
<1>1. NoTime \in MaybeTime /\ s \in Nat
  BY FlowAssumption DEF MaybeTime, Starts, Times
<1>2. NewEntry(s, armed, keep) \in Entry
  <2>1. s + (IF EarlyLook THEN EarlyDelay ELSE SdDelay) \in Nat
    BY <1>1, FlowAssumption
  <2>2. (IF EType(s) = "motion" THEN NoTime ELSE armed) \in MaybeTime
    BY <1>1
  <2>3. EarlyLook \in BOOLEAN
    BY FlowAssumption
  <2> QED
    BY <2>1, <2>2, <2>3 DEF NewEntry, NoEntry, Entry
<1>3. QED
  BY <1>2 DEF Defer

\* Marking a passage keeps the queue a table of entries.
LEMMA NotePassageType ==
    ASSUME pending \in [Starts -> Entry], NEW a, NEW b, NEW person
    PROVE  NotePassage(a, b, person) \in [Starts -> Entry]
  BY DEF NotePassage, Entry

\* Arming stamps times into both tables.
LEMMA StampType ==
    ASSUME NEW table \in [GateKeys -> MaybeTime], NEW etype, NEW person,
           NEW v \in Times
    PROVE  Stamp(table, etype, person, v) \in [GateKeys -> MaybeTime]
  BY DEF Stamp, MaybeTime
-----------------------------------------------------------------------------
\* The actions of the live pass keep the types.
LEMMA LiveType ==
    ASSUME TypeInv, NEW s \in Starts, Live(s)
    PROVE  TypeInv'
<1> DEFINE GroupOK == group' \in Group /\ GroupStart'
<1> DEFINE GateOK == /\ lastAlert' \in [GateKeys -> MaybeTime]
                     /\ lastStart' \in [GateKeys -> MaybeTime]
<1> DEFINE QueueOK == pending' \in [Starts -> Entry]
<1>s. s \in Times /\ s - 1 \in Times /\ now \in MaybeTime /\ NoTime \in MaybeTime
      /\ Starts \subseteq Times
  BY FlowAssumption DEF TypeInv, TypeOK, Starts, Times, MaybeTime
<1>a. ASSUME NEW etype, NEW person, Arm(etype, s, person)
      PROVE  GateOK
  BY <1>s, <1>a, StampType DEF Arm, TypeInv, TypeOK
<1>d. ASSUME NEW armed \in MaybeTime, NEW keep \in BOOLEAN, Defer(s, armed, keep)
      PROVE  QueueOK
  BY <1>d, DeferType DEF TypeInv, TypeOK
<1>o. ASSUME NEW a \in BOOLEAN, NEW b \in BOOLEAN, group' = Observe(group, s, a, b)
      PROVE  GroupOK
  BY <1>o, ObserveType DEF TypeInv, TypeOK, GroupStart
<1>e. /\ EnsureGroup(group, s) \in Group
      /\ EnsureGroup(group, s).open => EnsureGroup(group, s).ev \in Starts
  BY EnsureGroupType DEF TypeInv, TypeOK, GroupStart
<1>u. ASSUME NEW v \in Fates, Unsent(s, v)
      PROVE  GroupOK /\ GateOK /\ QueueOK /\ UNCHANGED <<box, phone>>
  <2>1. GroupOK
    BY <1>u, <1>o DEF Unsent
  <2> QED
    BY <1>u, <2>1 DEF Unsent, TypeInv, TypeOK, gateVars
<1>v. ASSUME ArmAndDefer(s)
      PROVE  GroupOK /\ GateOK /\ QueueOK /\ UNCHANGED <<box, phone>>
  <2>1. GroupOK
    BY <1>v, <1>o DEF ArmAndDefer
  <2>2. GateOK
    BY <1>v, <1>a DEF ArmAndDefer
  <2>3. QueueOK
    BY <1>v, <1>s, <1>d DEF ArmAndDefer
  <2> QED
    BY <1>v, <2>1, <2>2, <2>3 DEF ArmAndDefer
<1>f. ASSUME NEW v \in Fates, Process(s), Decide(s, v), GroupOK, GateOK, QueueOK,
             box' \in [Starts -> MaybeTime], phone' \subseteq Photo
      PROVE  TypeInv'
  BY <1>f, FlowAssumption DEF Process, Decide, TypeInv, TypeOK, loopVars, readVars
<1> HIDE DEF GroupOK, GateOK, QueueOK
<1>1. CASE LiveRaises(s)
  BY <1>1, <1>s, FlowAssumption
  DEF LiveRaises, First, Decide, Fates, RetryFrom, Phases, TypeInv, TypeOK, GroupStart, gateVars,
      readVars
<1>2. CASE LiveCooldown(s)
  BY <1>2, FlowAssumption
  DEF LiveCooldown, Process, Decide, Fates, TypeInv, TypeOK, GroupStart, loopVars, gateVars, readVars
<1>3. CASE LiveBlind(s)
  <2>1. CASE ArmAndDefer(s)
    BY <1>3, <2>1, <1>v, <1>f DEF LiveBlind, ArmAndDefer, Fates, TypeInv, TypeOK
  <2>2. CASE Unsent(s, "lost")
    BY <1>3, <2>2, <1>u, <1>f DEF LiveBlind, Unsent, Fates, TypeInv, TypeOK
  <2> QED
    BY <1>3, <2>1, <2>2 DEF LiveBlind
<1>4. CASE LiveOpenBurstNoPerson(s)
  BY <1>4, <1>u, <1>f DEF LiveOpenBurstNoPerson, Unsent, Fates, TypeInv, TypeOK
<1>5. CASE LiveDeferMotion(s)
  <2>1. GroupOK
    BY <1>5, <1>o DEF LiveDeferMotion
  <2>2. QueueOK
    BY <1>5, <1>s, <1>d DEF LiveDeferMotion
  <2> QED
    BY <1>5, <2>1, <2>2, <1>f DEF LiveDeferMotion, GateOK, Fates, TypeInv, TypeOK, gateVars
<1>6. CASE LiveMotionHeld(s)
  <2> PICK f \in {"marginal", "empty"} : LiveMotionHeld(s)!(f)
    BY <1>6 DEF LiveMotionHeld
  <2> DEFINE g == IF Corroborate THEN Counted(EnsureGroup(group, s), f) ELSE group
  <2>1. g \in Group /\ (g.open => g.ev \in Starts)
    BY <1>e, CountedType DEF TypeInv, TypeOK, GroupStart
  <2>2. GroupOK
    BY <2>1, ObserveType DEF GroupOK, TypeInv, TypeOK, GroupStart
  <2> QED
    BY <2>2, <1>f DEF GateOK, QueueOK, Fates, TypeInv, TypeOK, gateVars
<1>7. CASE LiveConfirmedEmpty(s)
  <2>1. CASE Unsent(s, "skipped")
    BY <1>7, <2>1, <1>u, <1>f DEF LiveConfirmedEmpty, Unsent, Fates, TypeInv, TypeOK
  <2>2. CASE ArmAndDefer(s)
    BY <1>7, <2>2, <1>v, <1>f DEF LiveConfirmedEmpty, ArmAndDefer, Fates, TypeInv, TypeOK
  <2>3. CASE /\ Arm("confirmed", s, FALSE) /\ Defer(s, now, TRUE)
             /\ group' = Observe(group, s, FALSE, FALSE)
             /\ Decide(s, IF Duplicate(s) THEN "skipped" ELSE "queued")
             /\ UNCHANGED <<box, phone>>
    <3>1. GroupOK /\ GateOK /\ QueueOK
      BY <2>3, <1>s, <1>a, <1>d, <1>o
    <3> QED
      BY <1>7, <2>3, <3>1, <1>f DEF LiveConfirmedEmpty, Fates, TypeInv, TypeOK
  <2> QED
    BY <1>7, <2>1, <2>2, <2>3 DEF LiveConfirmedEmpty
<1>8. ASSUME NEW f \in Frames
      PROVE  /\ Scored(s, f) \in Group
             /\ Scored(s, f).open => Scored(s, f).ev \in Starts
  BY <1>e, CountedType DEF Scored, TypeInv, TypeOK, GroupStart
<1>9. CASE LiveSends(s)
  <2> PICK f \in Frames : LiveSends(s)!(f)
    BY <1>9 DEF LiveSends
  <2>1. GroupOK
    BY <1>8, ObserveType DEF GroupOK, TypeInv, TypeOK, GroupStart
  <2>2. QueueOK
    BY NotePassageType DEF QueueOK, TypeInv, TypeOK
  <2>3. box' \in [Starts -> MaybeTime]
    BY <1>s DEF Resolve, TypeInv, TypeOK
  <2>4. ShowsPerson(f) \in BOOLEAN
    BY DEF ShowsPerson
  <2>5. phone' \subseteq Photo
    BY <2>4 DEF ToPhone, Photo, TypeInv, TypeOK
  <2> QED
    BY <1>a, <2>1, <2>2, <2>3, <2>5, <1>f DEF Fates
<1>10. CASE LiveSendRefused(s)
  <2> PICK f \in Frames : LiveSendRefused(s)!(f)
    BY <1>10 DEF LiveSendRefused
  <2>1. SdSnapshot \in BOOLEAN
    BY FlowAssumption
  <2>2. GroupOK
    BY <1>8, <2>1, ObserveType DEF GroupOK, TypeInv, TypeOK, GroupStart
  <2>3. lastAlert["confirmed"] \in MaybeTime
    BY DEF GateKeys, EventTypes, TypeInv, TypeOK
  <2>4. QueueOK
    BY <1>d, <2>3 DEF QueueOK, TypeInv, TypeOK
  <2>5. box' \in [Starts -> MaybeTime]
    BY <1>s DEF Capture, TypeInv, TypeOK
  <2> QED
    BY <2>2, <2>4, <2>5, <1>f DEF GateOK, Fates, TypeInv, TypeOK, gateVars
<1> QED
  BY <1>1, <1>2, <1>3, <1>4, <1>5, <1>6, <1>7, <1>9, <1>10 DEF Live

\* A due grab keeps the group a group of the same name.
LEMMA GrabType ==
    ASSUME TypeInv, group.open, Due(group), NEW f
    PROVE  /\ SamplerCounted(f) \in Group
           /\ SamplerCounted(f).open = group.open /\ SamplerCounted(f).ev = group.ev
<1>1. group \in Group /\ group.frames + 1 \in 0 .. MaxFrames /\ now + Interval \in Nat
  BY FlowAssumption DEF TypeInv, TypeOK, Group, Due, Times
<1>2. (group.scored \/ f \in {"person", "marginal", "empty"}) \in BOOLEAN
  OBVIOUS
<1>3. Grabbed(f) \in Group /\ Grabbed(f).open = group.open /\ Grabbed(f).ev = group.ev
  BY <1>1, <1>2 DEF Grabbed, Group
<1>4. QED
  BY <1>3, CountedType DEF SamplerCounted

\* The sampler's actions keep the types.
LEMMA SamplerType ==
    ASSUME TypeInv, Sampler
    PROVE  TypeInv'
<1>s. now \in MaybeTime /\ NoTime \in MaybeTime /\ Starts \subseteq Times
  BY FlowAssumption DEF TypeInv, TypeOK, Starts, Times, MaybeTime
<1>g. NoGroup \in Group /\ ~NoGroup.open
  BY FlowAssumption DEF NoGroup, Group, EventTypes, Times
<1>n. ASSUME group.open PROVE group.ev \in Starts
  BY <1>n DEF TypeInv, GroupStart
<1>a. ASSUME NEW etype, NEW person, NEW s \in Starts, Arm(etype, s, person)
      PROVE  /\ lastAlert' \in [GateKeys -> MaybeTime]
             /\ lastStart' \in [GateKeys -> MaybeTime]
  BY <1>s, <1>a, StampType DEF Arm, TypeInv, TypeOK
<1>m. ASSUME NEW a, NEW b, NEW person, pending' = NotePassage(a, b, person)
      PROVE  pending' \in [Starts -> Entry]
  BY <1>m, NotePassageType DEF TypeInv, TypeOK
<1>b. ASSUME NEW s \in Starts, Resolve(s) \/ Capture(s)
      PROVE  box' \in [Starts -> MaybeTime]
  BY <1>s, <1>b DEF Resolve, Capture, TypeInv, TypeOK
<1>p. ASSUME NEW s \in Starts, NEW person \in BOOLEAN, NEW path \in {"hold", "sampler"},
             ToPhone(s, person, path)
      PROVE  phone' \subseteq Photo
  BY <1>p DEF ToPhone, Photo, TypeInv, TypeOK
<1>d. ASSUME NEW s \in Starts, NEW v \in Fates, Decide(s, v)
      PROVE  fate' \in [Starts -> Fates]
  BY <1>d DEF Decide, TypeInv, TypeOK
<1>f. ASSUME SamplerDone, group' \in Group, group'.open => group'.ev \in Starts,
             lastAlert' \in [GateKeys -> MaybeTime], lastStart' \in [GateKeys -> MaybeTime],
             pending' \in [Starts -> Entry], box' \in [Starts -> MaybeTime],
             phone' \subseteq Photo, fate' \in [Starts -> Fates]
      PROVE  TypeInv'
  BY <1>f DEF SamplerDone, Queued, Phases, TypeInv, TypeOK, GroupStart, liveVars
<1>t. {"sent", "refused", "skipped"} \subseteq Fates
  BY DEF Fates
<1>1. CASE SamplerIdle
  BY <1>1, <1>f DEF SamplerIdle, TypeInv, TypeOK, GroupStart, gateVars
<1>2. CASE SamplerCloses
  BY <1>2, <1>g, <1>f DEF SamplerCloses, TypeInv, TypeOK, gateVars
<1>3. CASE HoldSent
  <2>1. SamplerDone /\ group' = NoGroup /\ group.ev \in Starts
    BY <1>3, <1>n DEF HoldSent, HoldRipe
  <2>2. /\ lastAlert' \in [GateKeys -> MaybeTime] /\ lastStart' \in [GateKeys -> MaybeTime]
        /\ pending' \in [Starts -> Entry] /\ box' \in [Starts -> MaybeTime]
    BY <1>3, <2>1, <1>a, <1>m, <1>b DEF HoldSent
  <2>3. phone' \subseteq Photo /\ fate' \in [Starts -> Fates]
    BY <1>3, <2>1, <1>p, <1>d, <1>t DEF HoldSent
  <2> QED
    BY <2>1, <2>2, <2>3, <1>g, <1>f
<1>4. CASE HoldRefused
  <2>1. SamplerDone /\ group' = NoGroup /\ group.ev \in Starts
    BY <1>4, <1>n DEF HoldRefused, HoldRipe
  <2>2. box' \in [Starts -> MaybeTime] /\ fate' \in [Starts -> Fates]
    BY <1>4, <2>1, <1>b, <1>d, <1>t DEF HoldRefused
  <2> QED
    BY <1>4, <2>1, <2>2, <1>g, <1>f DEF HoldRefused, TypeInv, TypeOK, gateVars
<1>5. ASSUME NEW f \in Frames, Grabs
      PROVE  /\ SamplerDone /\ group.ev \in Starts
             /\ SamplerCounted(f) \in Group /\ SamplerCounted(f).ev \in Starts
             /\ [SamplerCounted(f) EXCEPT !.sent = TRUE] \in Group
             /\ [SamplerCounted(f) EXCEPT !.sent = TRUE].ev \in Starts
             /\ [SamplerCounted(f) EXCEPT !.sent = TRUE, !.delivered = TRUE] \in Group
             /\ [SamplerCounted(f) EXCEPT !.sent = TRUE, !.delivered = TRUE].ev \in Starts
             /\ ShowsPerson(f) \in BOOLEAN
  <2>1. SamplerDone /\ group.ev \in Starts
    BY <1>5, <1>n DEF Grabs
  <2>2. SamplerCounted(f) \in Group /\ SamplerCounted(f).ev = group.ev
    BY <1>5, GrabType DEF Grabs
  <2>3. ShowsPerson(f) \in BOOLEAN
    BY DEF ShowsPerson
  <2> DEFINE c == SamplerCounted(f)
  <2>4. c \in Group /\ c.ev \in Starts
    BY <2>1, <2>2
  <2> HIDE DEF c
  <2>5. [c EXCEPT !.sent = TRUE] \in Group /\ [c EXCEPT !.sent = TRUE].ev = c.ev
    BY <2>4 DEF Group
  <2>6. /\ [c EXCEPT !.sent = TRUE, !.delivered = TRUE] \in Group
        /\ [c EXCEPT !.sent = TRUE, !.delivered = TRUE].ev = c.ev
    BY <2>4 DEF Group
  <2> QED
    BY <2>1, <2>3, <2>4, <2>5, <2>6 DEF c
<1>6. CASE SamplerSuppresses
  BY <1>6, <1>5, <1>f DEF SamplerSuppresses, TypeInv, TypeOK, gateVars
<1>7. CASE SamplerCooldown
  <2> PICK f \in Frames : SamplerCooldown!(f)
    BY <1>7 DEF SamplerCooldown
  <2>1. fate' \in [Starts -> Fates]
    BY <1>5, <1>d, <1>t
  <2> QED
    BY <2>1, <1>5, <1>f DEF TypeInv, TypeOK, gateVars
<1>8. CASE SamplerSends
  <2> PICK f \in Frames : SamplerSends!(f)
    BY <1>8 DEF SamplerSends
  <2>1. /\ lastAlert' \in [GateKeys -> MaybeTime] /\ lastStart' \in [GateKeys -> MaybeTime]
        /\ pending' \in [Starts -> Entry] /\ box' \in [Starts -> MaybeTime]
    BY <1>5, <1>a, <1>m, <1>b
  <2>2. phone' \subseteq Photo /\ fate' \in [Starts -> Fates]
    BY <1>5, <1>p, <1>d, <1>t
  <2> QED
    BY <2>1, <2>2, <1>5, <1>f
<1>9. CASE SamplerRefused
  <2> PICK f \in Frames : SamplerRefused!(f)
    BY <1>9 DEF SamplerRefused
  <2>1. box' \in [Starts -> MaybeTime] /\ fate' \in [Starts -> Fates]
    BY <1>5, <1>b, <1>d, <1>t
  <2> QED
    BY <2>1, <1>5, <1>f DEF TypeInv, TypeOK, gateVars
<1> QED
  BY <1>1, <1>2, <1>3, <1>4, <1>6, <1>7, <1>8, <1>9 DEF Sampler

\* The follow-up drain's decisions keep the types.
LEMMA FinishType ==
    ASSUME TypeInv, NEW s \in Starts, Finish(s)
    PROVE  TypeInv'
<1>s. /\ now \in MaybeTime /\ NoTime \in MaybeTime /\ Starts \subseteq Times
      /\ s + SdDelay \in Nat /\ now \in Nat /\ now + RetryDelay \in Nat
  BY FlowAssumption DEF TypeInv, TypeOK, Starts, Times, MaybeTime
<1>a. ASSUME NEW person, Arm(EType(s), s, person)
      PROVE  /\ lastAlert' \in [GateKeys -> MaybeTime]
             /\ lastStart' \in [GateKeys -> MaybeTime]
  BY <1>s, <1>a, StampType DEF Arm, TypeInv, TypeOK
<1>b. ASSUME Resolve(s) \/ Capture(s) \/ UNCHANGED box
      PROVE  box' \in [Starts -> MaybeTime]
  BY <1>s, <1>b DEF Resolve, Capture, TypeInv, TypeOK
<1>d. ASSUME NEW v \in Fates, Decide(s, v)
      PROVE  fate' \in [Starts -> Fates]
  BY <1>d DEF Decide, TypeInv, TypeOK
<1>l. ASSUME Leaves(s) PROVE pending' \in [Starts -> Entry]
  BY <1>l DEF Leaves, TypeInv, TypeOK, Entry
<1>f. ASSUME Collects(s), group' \in Group, group'.open => group'.ev \in Starts,
             lastAlert' \in [GateKeys -> MaybeTime], lastStart' \in [GateKeys -> MaybeTime],
             pending' \in [Starts -> Entry], box' \in [Starts -> MaybeTime],
             phone' \subseteq Photo, fate' \in [Starts -> Fates]
      PROVE  TypeInv'
  BY <1>f DEF Collects, Phases, TypeInv, TypeOK, GroupStart, liveVars
<1>k. ASSUME Collects(s), UNCHANGED <<gateVars, group, phone>>,
             pending' \in [Starts -> Entry], box' \in [Starts -> MaybeTime],
             fate' \in [Starts -> Fates]
      PROVE  TypeInv'
  BY <1>k, <1>f DEF TypeInv, TypeOK, GroupStart, gateVars
<1>t. {"sent", "refused", "skipped", "cooled", "lost"} \subseteq Fates
  BY DEF Fates
<1>1. CASE FinishBlocked(s)
  <2>1. pending' \in [Starts -> Entry]
    BY <1>1, <1>l DEF FinishBlocked, TypeInv, TypeOK
  <2>2. box' \in [Starts -> MaybeTime]
    BY <1>1, <1>b DEF FinishBlocked
  <2>3. fate' \in [Starts -> Fates]
    BY <1>1, <1>d, <1>t DEF FinishBlocked, TypeInv, TypeOK
  <2> QED
    BY <1>1, <2>1, <2>2, <2>3, <1>k DEF FinishBlocked
<1>2. CASE FinishEarlyLook(s)
  <2> PICK r \in {"nobody", "noframes"} : FinishEarlyLook(s)!(r)
    BY <1>2 DEF FinishEarlyLook
  <2>1. (r = "nobody") \in BOOLEAN
    OBVIOUS
  <2>2. pending' \in [Starts -> Entry]
    <3> DEFINE e == pending[s]
    <3>1. e \in Entry
      BY DEF TypeInv, TypeOK
    <3> HIDE DEF e
    <3>2. [e EXCEPT !.rest = FALSE, !.due = s + SdDelay, !.early = (r = "nobody")] \in Entry
      BY <1>s, <2>1, <3>1 DEF Entry
    <3>3. pending' = [pending EXCEPT ![s] =
             [e EXCEPT !.rest = FALSE, !.due = s + SdDelay, !.early = (r = "nobody")]]
      BY <3>1 DEF TypeInv, TypeOK, e, Entry
    <3> QED
      BY <3>2, <3>3 DEF TypeInv, TypeOK
  <2> QED
    BY <2>2, <1>k DEF Finishes, TypeInv, TypeOK
<1>3. CASE FinishExtend(s)
  <2>1. pending' \in [Starts -> Entry]
    <3> DEFINE e == pending[s]
    <3>1. e \in Entry
      BY DEF TypeInv, TypeOK
    <3> HIDE DEF e
    <3>2. [e EXCEPT !.ext = TRUE, !.due = now] \in Entry
      BY <1>s, <3>1 DEF Entry
    <3>3. pending' = [pending EXCEPT ![s] = [e EXCEPT !.ext = TRUE, !.due = now]]
      BY <1>3, <3>1 DEF FinishExtend, TypeInv, TypeOK, e, Entry
    <3> QED
      BY <3>2, <3>3 DEF TypeInv, TypeOK
  <2> QED
    BY <1>3, <2>1, <1>k DEF FinishExtend, Finishes, TypeInv, TypeOK
<1>4. CASE FinishNobody(s) \/ FinishFallbackEmpty(s) \/ FinishCooled(s)
  <2>1. \E v \in {"skipped", "cooled"} :
          Collects(s) /\ Leaves(s) /\ Resolve(s) /\ Decide(s, v) /\ UNCHANGED <<gateVars, group, phone>>
    BY <1>4 DEF FinishNobody, FinishFallbackEmpty, FinishCooled, Unread, Finishes
  <2> QED
    BY <2>1, <1>l, <1>b, <1>d, <1>t, <1>k
<1>5. CASE FinishNoMedia(s) \/ FinishHeld(s)
  <2>1. /\ Collects(s) /\ Leaves(s) /\ Decide(s, "lost")
        /\ UNCHANGED <<gateVars, group, box, phone>>
    BY <1>5 DEF FinishNoMedia, FinishHeld, FinishSendable, Unread, Finishes
  <2> QED
    BY <2>1, <1>l, <1>b, <1>d, <1>t, <1>k
<1>6. CASE FinishSends(s)
  <2> PICK person \in BOOLEAN : FinishSends(s)!(person)
    BY <1>6 DEF FinishSends
  <2>1. group' \in Group /\ (group'.open => group'.ev \in Starts)
    BY DEF TypeInv, TypeOK, GroupStart, Group
  <2>2. pending' \in [Starts -> Entry]
    <3>1. NotePassage(s, s, person) \in [Starts -> Entry]
      BY NotePassageType DEF TypeInv, TypeOK
    <3> QED
      BY <3>1 DEF Entry
  <2>3. phone' \subseteq Photo
    BY DEF ToPhone, Photo, TypeInv, TypeOK
  <2>4. fate' \in [Starts -> Fates] /\ box' \in [Starts -> MaybeTime]
    BY <1>b, <1>d, <1>t
  <2> QED
    BY <1>a, <2>1, <2>2, <2>3, <2>4, <1>f DEF FinishSendable, Finishes
<1>7. CASE FinishRefused(s)
  <2>1. pending' \in [Starts -> Entry]
    BY <1>7, <1>s DEF FinishRefused, TypeInv, TypeOK, Entry
  <2> QED
    BY <1>7, <2>1, <1>b, <1>d, <1>t, <1>k DEF FinishRefused, FinishSendable, Finishes
<1> QED
  BY <1>1, <1>2, <1>3, <1>4, <1>5, <1>6, <1>7 DEF Finish

\* The scan of the queue keeps the types: it only takes entries out of reach or
\* marks them gone.
LEMMA ScanType ==
    ASSUME TypeInv, NEW s \in Starts, Scan(s)
    PROVE  TypeInv'
<1>b. ASSUME Resolve(s) PROVE box' \in [Starts -> MaybeTime]
  BY <1>b DEF Resolve, TypeInv, TypeOK, MaybeTime
<1>l. ASSUME Leaves(s) PROVE pending' \in [Starts -> Entry]
  BY <1>l DEF Leaves, TypeInv, TypeOK, Entry
<1>d. ASSUME NEW v \in Fates, Decide(s, v)
      PROVE  fate' \in [Starts -> Fates]
  BY <1>d DEF Decide, TypeInv, TypeOK
<1>t. {"skipped", "lost"} \subseteq Fates
  BY DEF Fates
<1>1. CASE ScanKeeps(s)
  BY <1>1 DEF ScanKeeps, Ripe, Scans, TypeInv, TypeOK, GroupStart, liveVars, gateVars
<1>2. CASE ScanLoses(s)
  BY <1>2, <1>l, <1>d, <1>t DEF ScanLoses, Scans, TypeInv, TypeOK, GroupStart, liveVars, gateVars
<1>3. CASE ScanDrops(s)
  BY <1>3, <1>l, <1>b, <1>d, <1>t
  DEF ScanDrops, Ripe, Scans, TypeInv, TypeOK, GroupStart, liveVars, gateVars
<1>4. CASE ScanSubmits(s)
  BY <1>4 DEF ScanSubmits, Ripe, Scans, Phases, TypeInv, TypeOK, GroupStart, liveVars, gateVars
<1> QED
  BY <1>1, <1>2, <1>3, <1>4 DEF Scan

\* So does every other action of the loop and its environment.
LEMMA LoopType ==
    ASSUME TypeInv,
           \/ \E s \in Starts, k \in Kinds : CameraReports(s, k)
           \/ Tick \/ PollFails \/ Poll \/ LiveEnds \/ JobEnds \/ CollectNothing \/ ScanEnds
           \/ \E s \in Starts : OutboxSends(s) \/ OutboxReviews(s)
           \/ OutboxEnds
    PROVE  TypeInv'
<1>s. Starts \subseteq Times /\ now \in Times /\ NoTime \in MaybeTime
  BY FlowAssumption DEF Starts, Times, TypeInv, TypeOK, MaybeTime
<1>1. ASSUME NEW s \in Starts, NEW k \in Kinds, CameraReports(s, k)
      PROVE  TypeInv'
  BY <1>1, FlowAssumption
  DEF CameraReports, TypeInv, TypeOK, GroupStart, Fates, loopVars, gateVars, readVars
<1>2. CASE Tick
  BY <1>2, FlowAssumption
  DEF Tick, TypeInv, TypeOK, GroupStart, Phases, Times, liveVars, gateVars, readVars
<1>3. CASE PollFails \/ LiveEnds \/ JobEnds \/ CollectNothing \/ OutboxEnds
  BY <1>3 DEF PollFails, LiveEnds, JobEnds, CollectNothing, OutboxEnds, TypeInv, TypeOK,
              GroupStart, Phases, loopVars, liveVars, gateVars, readVars
<1>4. CASE Poll
  BY <1>4 DEF Poll, IsWatermark, Fresh, TypeInv, TypeOK, GroupStart, Phases, Fates, gateVars,
              readVars
<1>5. CASE ScanEnds
  <2>1. NoEntry \in Entry
    BY DEF NoEntry, Entry, MaybeTime
  <2> QED
    BY <1>5, <2>1
    DEF ScanEnds, TypeInv, TypeOK, GroupStart, Phases, liveVars, gateVars, readVars
<1>6. ASSUME NEW s \in Starts, OutboxSends(s) \/ OutboxReviews(s)
      PROVE  TypeInv'
  <2>1. box' \in [Starts -> MaybeTime] /\ fate' \in [Starts -> Fates]
    BY <1>6, <1>s DEF OutboxSends, OutboxReviews, Resolve, Decide, Fates, TypeInv, TypeOK
  <2>2. phone' \subseteq Photo
    BY <1>6 DEF OutboxSends, OutboxReviews, ToPhone, Photo, TypeInv, TypeOK
  <2> QED
    BY <1>6, <2>1, <2>2 DEF OutboxSends, OutboxReviews, TypeInv, TypeOK, GroupStart, loopVars,
                            liveVars, gateVars, readVars
<1> QED
  BY <1>1, <1>2, <1>3, <1>4, <1>5, <1>6

\* The daemon starts with an empty queue, no group and nothing on the phone.
LEMMA TypeInit == Init => TypeInv
<1>1. NoGroup \in Group /\ ~NoGroup.open
  BY FlowAssumption DEF NoGroup, Group, EventTypes, Times
<1>2. NoEntry \in Entry
  BY DEF NoEntry, Entry, MaybeTime
<1>3. 0 \in Times /\ 0 \in 0 .. FailureLimit /\ NoTime \in MaybeTime
  BY FlowAssumption DEF Times, MaybeTime
<1> SUFFICES ASSUME Init PROVE TypeInv
  OBVIOUS
<1>4. /\ now \in Times /\ phase \in Phases /\ online \in BOOLEAN
      /\ lastSeen \in Times /\ newest \in Times /\ batch \subseteq Starts
      /\ todo \subseteq Starts /\ job \in Starts \cup {0} /\ jobDone \in BOOLEAN
      /\ phone \subseteq Photo
  BY <1>3 DEF Init, Phases
<1>5. /\ events \in [Starts -> AllKinds \cup {"none"}]
      /\ fails \in [Starts -> 0 .. FailureLimit] /\ fate \in [Starts -> Fates]
      /\ lastAlert \in [GateKeys -> MaybeTime] /\ lastStart \in [GateKeys -> MaybeTime]
      /\ pending \in [Starts -> Entry] /\ box \in [Starts -> MaybeTime]
  BY <1>2, <1>3 DEF Init, Fates
<1> QED
  BY <1>1, <1>4, <1>5 DEF Init, TypeInv, TypeOK, GroupStart

\* The table of types holds in every reachable state: a frame never exceeds its
\* budget, an event its failures, and a photo always names an event of the camera.
THEOREM TypeCorrect == Spec => []TypeOK
<1>2. TypeInv /\ [Next]_vars => TypeInv'
  <2> SUFFICES ASSUME TypeInv, [Next]_vars PROVE TypeInv'
    OBVIOUS
  <2>1. CASE UNCHANGED vars
    BY <2>1 DEF TypeInv, TypeOK, GroupStart, vars
  <2>2. CASE Next
    BY <2>2, LiveType, SamplerType, FinishType, ScanType, LoopType DEF Next
  <2> QED
    BY <2>1, <2>2
<1>3. TypeInv => TypeOK
  BY DEF TypeInv
<1> QED
  BY TypeInit, <1>2, <1>3, PTL DEF Spec
-----------------------------------------------------------------------------
(* What the pipeline handles, the camera has reported *)

Known(s) == events[s] # "none"

\* Every event the pipeline holds or has sent was reported, so that its type
\* can no longer change.
AllKnown ==
    /\ \A s \in batch : Known(s)
    /\ \A s \in todo : Known(s)
    /\ \A s \in Queued : Known(s)
    /\ job \in Starts => Known(job)
    /\ \A p \in Alerts : Known(p.start)
    /\ GroupNamed

KnownInv == TypeInv /\ AllKnown

\* The part of the state the lemmas below follow through a step.
Grows(s) == \A t \in Starts : pending'[t].queued => pending[t].queued \/ t = s
NoMore   == \A t \in Starts : pending'[t].queued => pending[t].queued
Tells(s) == \A p \in Alerts' : p \in Alerts \/ p.start = s

\* The reported type of an event never changes.
LEMMA KindKept ==
    ASSUME TypeInv, Next, NEW s \in Starts, Known(s)
    PROVE  events'[s] = events[s]
<1>1. ASSUME NEW t \in Starts, NEW k \in Kinds, CameraReports(t, k)
      PROVE  events'[s] = events[s]
  BY <1>1 DEF CameraReports, Known, TypeInv, TypeOK
<1>2. CASE UNCHANGED events
  BY <1>2
<1>3. ASSUME NEW t \in Starts, Live(t) \/ Finish(t) \/ Scan(t) \/ OutboxSends(t) \/ OutboxReviews(t)
      PROVE  UNCHANGED events
  BY <1>3 DEF Live, LiveRaises, LiveCooldown, LiveBlind, LiveOpenBurstNoPerson, LiveDeferMotion,
     LiveMotionHeld, LiveConfirmedEmpty, LiveSends, LiveSendRefused, Process, Finish,
     FinishBlocked, FinishEarlyLook, FinishExtend, FinishNobody, FinishNoMedia,
     FinishFallbackEmpty, FinishCooled, FinishHeld, FinishSends, FinishRefused, FinishSendable,
     Unread, Finishes, Collects, Scan, ScanKeeps, ScanLoses, ScanDrops, ScanSubmits, Ripe, Scans,
     OutboxSends, OutboxReviews, liveVars
<1>4. CASE Sampler
  BY <1>4 DEF Sampler, SamplerIdle, SamplerCloses, HoldSent, HoldRefused, HoldRipe,
     SamplerSuppresses, SamplerCooldown, SamplerSends, SamplerRefused, Grabs, SamplerDone, liveVars
<1>5. CASE \/ Tick \/ PollFails \/ Poll \/ LiveEnds \/ JobEnds \/ CollectNothing \/ ScanEnds
           \/ OutboxEnds
  BY <1>5 DEF Tick, PollFails, Poll, LiveEnds, JobEnds, CollectNothing, ScanEnds, OutboxEnds,
     liveVars
<1> QED
  BY <1>1, <1>2, <1>3, <1>4, <1>5 DEF Next

\* A group folded with a reported event is named after one of its own type.
LEMMA ObserveNamed ==
    ASSUME TypeInv, NEW g \in Group, NEW s \in Starts, Known(s), NEW a \in BOOLEAN,
           NEW b \in BOOLEAN,
           g.open => g.ev \in Starts /\ Known(g.ev) /\ EType(g.ev) = g.etype
    PROVE  LET h == Observe(g, s, a, b)
           IN  h.open => Known(h.ev) /\ EType(h.ev) = h.etype
<1> DEFINE h == EnsureGroup(g, s)
<1>1. h \in Group /\ (h.open => h.ev \in Starts /\ Known(h.ev) /\ EType(h.ev) = h.etype)
  <2>1. h = g \/ (h.ev = s /\ h.etype = EType(s))
    BY DEF EnsureGroup, NoGroup
  <2>2. h \in Group
    BY EnsureGroupType DEF TypeInv, TypeOK
  <2> QED
    BY <2>1, <2>2
<1> HIDE DEF h
<1>2. CASE ~SamplerOn
  BY <1>2 DEF Observe
<1>3. CASE SamplerOn
  <2> DEFINE o == Observe(g, s, a, b)
  <2>1. /\ o.open = h.open
        /\ o.etype = (IF EType(s) = "confirmed" THEN "confirmed" ELSE h.etype)
        /\ o.ev = (IF EType(s) = "confirmed" THEN s ELSE h.ev)
    BY <1>1, <1>3 DEF Observe, h, Group
  <2> HIDE DEF o
  <2>2. o.open => Known(o.ev) /\ EType(o.ev) = o.etype
    BY <1>1, <2>1
  <2> QED
    BY <2>2 DEF o
<1> QED
  BY <1>2, <1>3

\* Counting a frame or ensuring the group keeps it so.
LEMMA EnsureNamed ==
    ASSUME KnownInv, NEW s \in Starts, Known(s), NEW f
    PROVE  LET e == EnsureGroup(group, s)
               c == Counted(e, f)
           IN  /\ e.open => e.ev \in Starts /\ Known(e.ev) /\ EType(e.ev) = e.etype
               /\ c \in Group
               /\ c.open => c.ev \in Starts /\ Known(c.ev) /\ EType(c.ev) = c.etype
<1> DEFINE e == EnsureGroup(group, s)
<1>1. e \in Group
  BY EnsureGroupType DEF KnownInv, TypeInv, TypeOK, GroupStart
<1>2. e = group \/ (e.ev = s /\ e.etype = EType(s))
  BY DEF EnsureGroup, NoGroup
<1>3. e.open => e.ev \in Starts /\ Known(e.ev) /\ EType(e.ev) = e.etype
  BY <1>1, <1>2 DEF KnownInv, AllKnown, GroupNamed, TypeInv, GroupStart, Known
<1> HIDE DEF e
<1>4. /\ Counted(e, f) \in Group /\ Counted(e, f).open = e.open
      /\ Counted(e, f).ev = e.ev /\ Counted(e, f).etype = e.etype
  BY <1>1 DEF Counted, Group
<1> QED
  BY <1>3, <1>4 DEF e

\* What a live event does to the queue, the phone and the group.
LEMMA LiveKnown ==
    ASSUME KnownInv, NEW s \in Starts, Live(s)
    PROVE  AllKnown'
<1>k. Known(s) /\ UNCHANGED events
  BY DEF Live, LiveRaises, LiveCooldown, LiveBlind, LiveOpenBurstNoPerson, LiveDeferMotion,
     LiveMotionHeld, LiveConfirmedEmpty, LiveSends, LiveSendRefused, Process, First, KnownInv,
     AllKnown
<1>f. ASSUME batch' \subseteq batch, UNCHANGED <<todo, job>>, Grows(s), Tells(s), GroupNamed'
      PROVE  AllKnown'
  BY <1>f, <1>k DEF AllKnown, KnownInv, Known, Grows, Tells, Queued
<1>o. ASSUME NEW a \in BOOLEAN, NEW b \in BOOLEAN, group' = Observe(group, s, a, b)
      PROVE  GroupNamed'
  <2>1. LET h == Observe(group, s, a, b) IN h.open => Known(h.ev) /\ EType(h.ev) = h.etype
    BY <1>k, ObserveNamed DEF KnownInv, AllKnown, GroupNamed, TypeInv, TypeOK, GroupStart, Known
  <2> QED
    BY <2>1, <1>k, <1>o DEF GroupNamed, Known, EType
<1>d. ASSUME NEW armed, NEW keep, Defer(s, armed, keep)
      PROVE  Grows(s)
  BY <1>d DEF Defer, Grows, KnownInv, TypeInv, TypeOK
<1>p. ASSUME Process(s) PROVE batch' \subseteq batch /\ UNCHANGED <<todo, job>>
  BY <1>p DEF Process, readVars
<1>q. ASSUME UNCHANGED pending PROVE Grows(s)
  BY <1>q DEF Grows
<1>r. ASSUME UNCHANGED phone PROVE Tells(s)
  BY <1>r DEF Tells, Alerts
<1>u. ASSUME NEW v, Process(s), Unsent(s, v) PROVE AllKnown'
  BY <1>u, <1>o, <1>p, <1>q, <1>r, <1>f DEF Unsent
<1>v. ASSUME Process(s), ArmAndDefer(s) PROVE AllKnown'
  BY <1>v, <1>o, <1>d, <1>p, <1>r, <1>f DEF ArmAndDefer
<1>g. UNCHANGED group => GroupNamed'
  BY <1>k DEF KnownInv, AllKnown, GroupNamed, EType
<1>1. CASE LiveRaises(s)
  BY <1>1, <1>f, <1>g, <1>q, <1>r DEF LiveRaises, readVars
<1>2. CASE LiveCooldown(s)
  BY <1>2, <1>f, <1>g, <1>p, <1>q, <1>r DEF LiveCooldown
<1>3. CASE LiveBlind(s)
  BY <1>3, <1>u, <1>v DEF LiveBlind
<1>4. CASE LiveOpenBurstNoPerson(s)
  BY <1>4, <1>u DEF LiveOpenBurstNoPerson
<1>5. CASE LiveDeferMotion(s)
  BY <1>5, <1>o, <1>d, <1>p, <1>r, <1>f DEF LiveDeferMotion
<1>c. ASSUME NEW f
      PROVE  LET c == Counted(EnsureGroup(group, s), f)
             IN  c \in Group /\ (c.open => c.ev \in Starts /\ Known(c.ev) /\ EType(c.ev) = c.etype)
  BY <1>k, EnsureNamed
<1>w. ASSUME NEW g, NEW a \in BOOLEAN, NEW b \in BOOLEAN, NEW f,
             g = group \/ g = Counted(EnsureGroup(group, s), f),
             group' = Observe(g, s, a, b)
      PROVE  GroupNamed'
  <2>1. g \in Group /\ (g.open => g.ev \in Starts /\ Known(g.ev) /\ EType(g.ev) = g.etype)
    BY <1>w, <1>c DEF KnownInv, AllKnown, GroupNamed, TypeInv, TypeOK, GroupStart, Known
  <2>2. LET h == Observe(g, s, a, b) IN h.open => Known(h.ev) /\ EType(h.ev) = h.etype
    BY <1>k, <2>1, ObserveNamed DEF KnownInv
  <2> QED
    BY <2>2, <1>k, <1>w DEF GroupNamed, Known, EType
<1>6. CASE LiveMotionHeld(s)
  <2> PICK f \in {"marginal", "empty"} : LiveMotionHeld(s)!(f)
    BY <1>6 DEF LiveMotionHeld
  <2>1. GroupNamed'
    BY <1>w
  <2> QED
    BY <2>1, <1>f, <1>p, <1>q, <1>r
<1>7. CASE LiveConfirmedEmpty(s)
  <2>1. CASE Unsent(s, "skipped")
    BY <1>7, <2>1, <1>u DEF LiveConfirmedEmpty
  <2>2. CASE ArmAndDefer(s)
    BY <1>7, <2>2, <1>v DEF LiveConfirmedEmpty
  <2>3. CASE /\ Defer(s, now, TRUE) /\ group' = Observe(group, s, FALSE, FALSE)
             /\ UNCHANGED <<box, phone>>
    BY <1>7, <2>3, <1>o, <1>d, <1>p, <1>r, <1>f DEF LiveConfirmedEmpty
  <2> QED
    BY <1>7, <2>1, <2>2, <2>3 DEF LiveConfirmedEmpty
<1>8. CASE LiveSends(s)
  <2> PICK f \in Frames : LiveSends(s)!(f)
    BY <1>8 DEF LiveSends
  <2>1. GroupNamed'
    BY <1>w DEF Scored
  <2>2. Grows(s)
    BY DEF NotePassage, Grows, KnownInv, TypeInv, TypeOK, Entry
  <2>3. Tells(s)
    BY DEF ToPhone, Tells, Alerts
  <2> QED
    BY <2>1, <2>2, <2>3, <1>f, <1>p
<1>9. CASE LiveSendRefused(s)
  <2> PICK f \in Frames : LiveSendRefused(s)!(f)
    BY <1>9 DEF LiveSendRefused
  <2>1. SdSnapshot \in BOOLEAN
    BY FlowAssumption
  <2>2. GroupNamed'
    BY <2>1, <1>w DEF Scored
  <2>3. Grows(s)
    BY <1>d, <1>q
  <2> QED
    BY <2>2, <2>3, <1>f, <1>p, <1>r
<1> QED
  BY <1>1, <1>2, <1>3, <1>4, <1>5, <1>6, <1>7, <1>8, <1>9 DEF Live

\* The sampler, the drain and the rest of the loop keep it too.
LEMMA SamplerKnown ==
    ASSUME KnownInv, Sampler
    PROVE  AllKnown' /\ NoMore
<1>e. UNCHANGED events /\ SamplerDone
  BY DEF Sampler, SamplerIdle, SamplerCloses, HoldSent, HoldRefused, HoldRipe,
     SamplerSuppresses, SamplerCooldown, SamplerSends, SamplerRefused, Grabs, SamplerDone, liveVars
<1>n. group.open => group.ev \in Starts /\ Known(group.ev) /\ EType(group.ev) = group.etype
  BY DEF KnownInv, AllKnown, GroupNamed, TypeInv, GroupStart, Known
<1>f. ASSUME NoMore, GroupNamed',
             \A p \in Alerts' : p \in Alerts \/ (group.open /\ p.start = group.ev)
      PROVE  AllKnown' /\ NoMore
  BY <1>f, <1>e, <1>n DEF AllKnown, KnownInv, Known, NoMore, Queued, SamplerDone, liveVars
<1>q. UNCHANGED pending => NoMore
  BY DEF NoMore
<1>m. ASSUME NEW a, NEW b, NEW person, pending' = NotePassage(a, b, person)
      PROVE  NoMore
  BY <1>m DEF NotePassage, NoMore, KnownInv, TypeInv, TypeOK, Entry
<1>g. ASSUME UNCHANGED group \/ group' = NoGroup
      PROVE  GroupNamed'
  BY <1>g, <1>e, <1>n DEF GroupNamed, NoGroup, Known, EType
<1>r. ASSUME UNCHANGED phone PROVE \A p \in Alerts' : p \in Alerts
  BY <1>r DEF Alerts
<1>p. ASSUME NEW person, NEW path, group.open, ToPhone(group.ev, person, path)
      PROVE  \A p \in Alerts' : p \in Alerts \/ (group.open /\ p.start = group.ev)
  BY <1>p DEF ToPhone, Alerts
<1>c. ASSUME NEW f, group.open, Due(group),
             \/ group' = SamplerCounted(f)
             \/ group' = [SamplerCounted(f) EXCEPT !.sent = TRUE]
             \/ group' = [SamplerCounted(f) EXCEPT !.sent = TRUE, !.delivered = TRUE]
      PROVE  GroupNamed'
  <2>1. /\ SamplerCounted(f) \in Group /\ SamplerCounted(f).open = group.open
        /\ SamplerCounted(f).ev = group.ev
    BY <1>c, GrabType DEF KnownInv
  <2>2. SamplerCounted(f).etype = group.etype
    <3>1. group \in Group
      BY DEF KnownInv, TypeInv, TypeOK
    <3>2. Grabbed(f).etype = group.etype
      BY <3>1 DEF Grabbed, Group
    <3>3. Counted(Grabbed(f), f).etype = Grabbed(f).etype
      <4> DEFINE g == Grabbed(f)
      <4>1. DOMAIN g = DOMAIN group
        BY DEF Grabbed
      <4>2. "etype" \in DOMAIN g
        BY <3>1, <4>1 DEF Group
      <4> HIDE DEF g
      <4>3. Counted(g, f).etype = g.etype
        BY <4>2 DEF Counted
      <4> QED
        BY <4>3 DEF g
    <3> QED
      BY <3>2, <3>3 DEF SamplerCounted
  <2> DEFINE c == SamplerCounted(f)
  <2> HIDE DEF c
  <2>3. group'.ev = c.ev /\ group'.etype = c.etype
    BY <1>c, <2>1 DEF c, Group
  <2> QED
    BY <1>c, <1>e, <1>n, <2>1, <2>2, <2>3 DEF GroupNamed, Known, EType, c
<1>1. CASE SamplerIdle \/ SamplerCloses
  BY <1>1, <1>f, <1>q, <1>g, <1>r DEF SamplerIdle, SamplerCloses
<1>2. CASE HoldSent
  BY <1>2, <1>f, <1>m, <1>g, <1>p DEF HoldSent, HoldRipe
<1>3. CASE HoldRefused
  BY <1>3, <1>f, <1>q, <1>g, <1>r DEF HoldRefused, HoldRipe
<1>4. CASE SamplerSuppresses \/ SamplerCooldown \/ SamplerRefused
  BY <1>4, <1>f, <1>q, <1>c, <1>r DEF SamplerSuppresses, SamplerCooldown, SamplerRefused, Grabs
<1>5. CASE SamplerSends
  BY <1>5, <1>f, <1>m, <1>c, <1>p DEF SamplerSends, Grabs
<1> QED
  BY <1>1, <1>2, <1>3, <1>4, <1>5 DEF Sampler

\* The drain's decisions only concern queued, hence reported, events.
LEMMA FinishKnown ==
    ASSUME KnownInv, NEW s \in Starts, Finish(s)
    PROVE  AllKnown' /\ NoMore
<1>e. UNCHANGED events /\ Collects(s)
  BY DEF Finish, FinishBlocked, FinishEarlyLook, FinishExtend, FinishNobody, FinishNoMedia,
     FinishFallbackEmpty, FinishCooled, FinishHeld, FinishSends, FinishRefused, FinishSendable,
     Unread, Finishes, Collects, liveVars
<1>k. Known(s)
  BY <1>e DEF Collects, KnownInv, AllKnown
<1>f. ASSUME NoMore, UNCHANGED group \/ group' = [group EXCEPT !.delivered = TRUE],
             Tells(s)
      PROVE  AllKnown' /\ NoMore
  <2>1. GroupNamed'
    BY <1>f, <1>e DEF GroupNamed, EType, KnownInv, AllKnown, TypeInv, TypeOK, Group
  <2>2. job' \notin Starts
    BY <1>e DEF Collects, Starts
  <2> QED
    BY <1>f, <1>e, <1>k, <2>1, <2>2
    DEF AllKnown, KnownInv, Known, NoMore, Tells, Queued, Collects, liveVars
<1>r. ASSUME UNCHANGED phone PROVE Tells(s)
  BY <1>r DEF Tells, Alerts
<1>q. ASSUME \/ UNCHANGED pending \/ Leaves(s)
             \/ pending' = [pending EXCEPT ![s].ext = TRUE, ![s].due = now]
             \/ pending' = [pending EXCEPT ![s].due = now + RetryDelay]
      PROVE  NoMore
  <2>1. CASE UNCHANGED pending
    BY <2>1 DEF NoMore
  <2>2. CASE Leaves(s)
    BY <2>2 DEF Leaves, NoMore, KnownInv, TypeInv, TypeOK, Entry
  <2>3. CASE pending' = [pending EXCEPT ![s].ext = TRUE, ![s].due = now]
    BY <2>3 DEF NoMore, KnownInv, TypeInv, TypeOK, Entry
  <2>4. CASE pending' = [pending EXCEPT ![s].due = now + RetryDelay]
    BY <2>4 DEF NoMore, KnownInv, TypeInv, TypeOK, Entry
  <2> QED
    BY <1>q, <2>1, <2>2, <2>3, <2>4
<1>1. CASE FinishBlocked(s)
  BY <1>1, <1>q, <1>r, <1>f DEF FinishBlocked
<1>2. CASE FinishEarlyLook(s)
  <2>1. NoMore
    BY <1>2 DEF FinishEarlyLook, NoMore, KnownInv, TypeInv, TypeOK, Entry
  <2> QED
    BY <1>2, <2>1, <1>r, <1>f DEF FinishEarlyLook
<1>3. CASE FinishExtend(s) \/ FinishRefused(s)
  BY <1>3, <1>q, <1>r, <1>f DEF FinishExtend, FinishRefused
<1>4. CASE \/ FinishNobody(s) \/ FinishNoMedia(s) \/ FinishFallbackEmpty(s) \/ FinishCooled(s)
           \/ FinishHeld(s)
  BY <1>4, <1>q, <1>r, <1>f
  DEF FinishNobody, FinishNoMedia, FinishFallbackEmpty, FinishCooled, FinishHeld
<1>5. CASE FinishSends(s)
  <2> PICK person \in BOOLEAN : FinishSends(s)!(person)
    BY <1>5 DEF FinishSends
  <2> DEFINE q == NotePassage(s, s, person)
  <2>1. q \in [Starts -> Entry] /\ \A t \in Starts : q[t].queued => pending[t].queued
    BY NotePassageType DEF NotePassage, KnownInv, TypeInv, TypeOK, Entry
  <2> HIDE DEF q
  <2>2. pending' = [q EXCEPT ![s].gone = TRUE]
    BY DEF q
  <2>3. NoMore
    BY <2>1, <2>2 DEF NoMore, Entry
  <2>4. Tells(s)
    BY DEF ToPhone, Tells, Alerts
  <2> QED
    BY <2>3, <2>4, <1>f
<1> QED
  BY <1>1, <1>2, <1>3, <1>4, <1>5 DEF Finish

\* The rest of the loop, the reader and the camera keep what is handled reported.
LEMMA LoopKnown ==
    ASSUME KnownInv, Next,
           \/ \E s \in Starts, k \in Kinds : CameraReports(s, k)
           \/ Tick \/ PollFails \/ Poll \/ LiveEnds \/ JobEnds \/ CollectNothing \/ ScanEnds
           \/ \E s \in Starts : Scan(s) \/ OutboxSends(s) \/ OutboxReviews(s)
           \/ OutboxEnds
    PROVE  AllKnown' /\ NoMore
<1>k. \A s \in Starts : Known(s) => events'[s] = events[s]
  BY KindKept DEF KnownInv
<1>s. /\ batch \subseteq Starts /\ todo \subseteq Starts /\ Queued \subseteq Starts
      /\ \A p \in Alerts : p.start \in Starts
      /\ group.open => group.ev \in Starts
  BY DEF KnownInv, TypeInv, TypeOK, GroupStart, Queued, Alerts, Photo
<1>f. ASSUME NoMore, UNCHANGED group, \A p \in Alerts' : p \in Alerts,
             \A s \in batch' : s \in batch \/ (s \in Starts /\ Known(s)),
             todo' \subseteq todo, job' \in Starts => job' = job \/ job' \in todo
      PROVE  AllKnown' /\ NoMore
  <2>1. GroupNamed'
    BY <1>f, <1>k, <1>s DEF KnownInv, AllKnown, GroupNamed, Known, EType
  <2>2. \A s \in Queued' : s \in Queued
    BY <1>f DEF Queued, NoMore
  <2> QED
    BY <1>f, <1>k, <1>s, <2>1, <2>2 DEF AllKnown, KnownInv, Known
<1>q. ASSUME NEW s \in Starts, Leaves(s) PROVE NoMore
  BY <1>q DEF Leaves, NoMore, KnownInv, TypeInv, TypeOK, Entry
<1>u. UNCHANGED pending => NoMore
  BY DEF NoMore
<1>r. UNCHANGED phone => \A p \in Alerts' : p \in Alerts
  BY DEF Alerts
<1>1. ASSUME NEW s \in Starts, NEW k \in Kinds, CameraReports(s, k)
      PROVE  AllKnown' /\ NoMore
  BY <1>1, <1>u, <1>r, <1>f DEF CameraReports, readVars
<1>2. CASE \/ Tick \/ PollFails \/ LiveEnds \/ JobEnds \/ CollectNothing \/ OutboxEnds
  BY <1>2, <1>u, <1>r, <1>f DEF Tick, PollFails, LiveEnds, JobEnds, CollectNothing, OutboxEnds,
     liveVars, readVars
<1>3. CASE Poll
  BY <1>3, <1>u, <1>r, <1>f DEF Poll, Fresh, Known, readVars
<1>4. CASE ScanEnds
  <2>1. NoMore
    BY <1>4 DEF ScanEnds, NoMore, NoEntry
  <2> QED
    BY <1>4, <2>1, <1>r, <1>f DEF ScanEnds, liveVars, readVars
<1>5. ASSUME NEW s \in Starts, Scan(s)
      PROVE  AllKnown' /\ NoMore
  <2>1. Scans(s)
    BY <1>5 DEF Scan, ScanKeeps, ScanLoses, ScanDrops, ScanSubmits, Ripe
  <2>2. NoMore
    BY <1>5, <1>q, <1>u DEF Scan, ScanKeeps, ScanLoses, ScanDrops, ScanSubmits
  <2>3. job' = job \/ job' \in todo
    BY <1>5, <2>1 DEF Scan, ScanKeeps, ScanLoses, ScanDrops, ScanSubmits, Scans, First
  <2> QED
    BY <2>1, <2>2, <2>3, <1>r, <1>f DEF Scans, liveVars
<1>6. ASSUME NEW s \in Starts, OutboxSends(s) \/ OutboxReviews(s)
      PROVE  AllKnown' /\ NoMore
  <2>1. \A p \in Alerts' : p \in Alerts
    BY <1>6 DEF OutboxSends, OutboxReviews, ToPhone, Alerts
  <2> QED
    BY <1>6, <2>1, <1>u, <1>f DEF OutboxSends, OutboxReviews, liveVars, readVars
<1> QED
  BY <1>1, <1>2, <1>3, <1>4, <1>5, <1>6

\* Every step keeps all that is handled reported.
LEMMA KnownStep == KnownInv /\ [Next]_vars => KnownInv'
<1> SUFFICES ASSUME KnownInv, [Next]_vars PROVE KnownInv'
  OBVIOUS
<1>1. CASE UNCHANGED vars
  BY <1>1 DEF KnownInv, AllKnown, Known, GroupNamed, EType, Queued, Alerts, TypeInv, TypeOK,
     GroupStart, vars
<1>2. CASE Next
  <2>1. TypeInv'
    BY <1>2, LiveType, SamplerType, FinishType, ScanType, LoopType DEF Next, KnownInv
  <2>2. AllKnown'
    BY <1>2, LiveKnown, SamplerKnown, FinishKnown, LoopKnown DEF Next
  <2> QED
    BY <2>1, <2>2 DEF KnownInv
<1> QED
  BY <1>1, <1>2

\* Nothing is handled at the start.
LEMMA KnownInit == Init => KnownInv
<1> SUFFICES ASSUME Init PROVE KnownInv
  OBVIOUS
<1>1. TypeInv
  BY TypeInit
<1>2. AllKnown
  BY DEF Init, AllKnown, GroupNamed, NoGroup, Queued, NoEntry, Alerts, Starts
<1> QED
  BY <1>1, <1>2 DEF KnownInv

-----------------------------------------------------------------------------
(* The queue *)

\* A step adds at most one follow-up, and only through the duplicate test of
\* the live pass.
LEMMA QueueStep ==
    ASSUME KnownInv, Next
    PROVE  \/ NoMore
           \/ \E s \in batch : /\ s \in Starts /\ Known(s) /\ UNCHANGED events
                               /\ \E armed, keep : Defer(s, armed, keep)
<1>1. ASSUME NEW s \in Starts, Live(s)
      PROVE  \/ NoMore
             \/ /\ s \in batch /\ UNCHANGED events
                /\ \E armed, keep : Defer(s, armed, keep)
  <2>1. s \in batch /\ UNCHANGED events
    BY <1>1 DEF Live, LiveRaises, LiveCooldown, LiveBlind, LiveOpenBurstNoPerson, LiveDeferMotion,
       LiveMotionHeld, LiveConfirmedEmpty, LiveSends, LiveSendRefused, Process, First
  <2>2. CASE UNCHANGED pending
    BY <2>2 DEF NoMore
  <2>3. CASE LiveSends(s)
    BY <2>3 DEF LiveSends, NotePassage, NoMore, KnownInv, TypeInv, TypeOK, Entry
  <2>4. CASE \E armed, keep : Defer(s, armed, keep)
    BY <2>1, <2>4
  <2> QED
    BY <1>1, <2>2, <2>3, <2>4 DEF Live, LiveRaises, LiveCooldown, LiveBlind, LiveOpenBurstNoPerson,
       LiveDeferMotion, LiveMotionHeld, LiveConfirmedEmpty, LiveSendRefused, ArmAndDefer, Unsent
<1> QED
  BY <1>1, SamplerKnown, FinishKnown, LoopKnown DEF Next, KnownInv, AllKnown

\* A step that only marks or removes entries keeps one follow-up per passage.
LEMMA QueueKeeps ==
    ASSUME KnownInv, QueueOnePerPassage, Next
    PROVE  QueueOnePerPassage'
<1>k. \A s \in Queued : EType(s)' = EType(s)
  BY KindKept DEF Queued, EType, KnownInv, AllKnown
<1>1. CASE NoMore
  <2>1. Queued' \subseteq Queued
    BY <1>1 DEF Queued, NoMore
  <2> QED
    BY <2>1, <1>k DEF QueueOnePerPassage
<1>2. ASSUME NEW s \in Starts, UNCHANGED events, NEW armed, NEW keep, Defer(s, armed, keep)
      PROVE  QueueOnePerPassage'
  <2>1. CASE Duplicate(s)
    BY <1>2, <2>1 DEF Defer, QueueOnePerPassage, Queued, EType
  <2>2. CASE ~Duplicate(s)
    <3>1. Queued' \subseteq Queued \cup {s}
      BY <1>2, <2>2 DEF Defer, Queued, KnownInv, TypeInv, TypeOK
    <3>2. ASSUME NEW t \in Queued, EType(t) = EType(s)
          PROVE  EType(s) = "confirmed" /\ ~SamePassage(s, t) /\ ~SamePassage(t, s)
      BY <2>2, <3>2 DEF Duplicate, EType, SamePassage
    <3>3. \A t \in Starts : EType(t)' = EType(t)
      BY <1>2 DEF EType
    <3> QED
      BY <3>1, <3>2, <3>3 DEF QueueOnePerPassage, Queued
  <2> QED
    BY <2>1, <2>2
<1> QED
  BY <1>1, <1>2, QueueStep

\* The queue never holds two motion follow-ups, nor two follow-ups of one
\* passage, however many events one poll processes.
THEOREM QueueOnePerPassageCorrect == Spec => []QueueOnePerPassage
<1>1. Init => QueueOnePerPassage
  BY DEF Init, QueueOnePerPassage, Queued, NoEntry
<1>2. KnownInv /\ QueueOnePerPassage /\ [Next]_vars => QueueOnePerPassage'
  <2> SUFFICES ASSUME KnownInv, QueueOnePerPassage, [Next]_vars PROVE QueueOnePerPassage'
    OBVIOUS
  <2>1. CASE UNCHANGED vars
    BY <2>1 DEF QueueOnePerPassage, Queued, EType, vars
  <2> QED
    BY <2>1, QueueKeeps
<1> QED
  BY <1>1, <1>2, KnownInit, KnownStep, PTL DEF Spec

\* The sampler's group is always named after a reported event of its own type,
\* so the frame it sends arms the gate for the right class.
THEOREM GroupNamedCorrect == Spec => []GroupNamed
<1>1. KnownInv => GroupNamed
  BY DEF KnownInv, AllKnown
<1> QED
  BY <1>1, KnownInit, KnownStep, PTL DEF Spec
-----------------------------------------------------------------------------
(* The gate and the phone *)

\* The gate key an alert on the phone stands for.
Key(p) == IF p.path = "hold" THEN "motion" ELSE EType(p.start)

\* What the paths ask of a person event before its photo.
PersonClock == ShouldSend(lastAlert["confirmed"], now) \/ ShouldSend(lastAlert["person_photo"], now)

\* What a step that alerts has asked and done.
Alerted(s, person, path) ==
    /\ path # "outbox" /\ ToPhone(s, person, path)
    /\ Arm(IF path = "hold" THEN "motion" ELSE EType(s), s, person)
    /\ Known(s) /\ UNCHANGED <<now, events>> /\ ~Muted
    /\ EType(s) = "motion" /\ ~KeepSampling => ClockOpen(lastAlert, "motion", now)
    /\ person /\ events[s] = "person" /\ ~KeepSampling /\ path # "hold" => PersonClock

\* A step that does not: it may still arm the gate, with the present time.
Silent ==
    /\ Alerts' = Alerts /\ phone \subseteq phone'
    /\ now' >= now /\ \A p \in phone' : p \in phone \/ p.at = now'
    /\ \A k \in GateKeys : lastAlert'[k] = lastAlert[k] \/ lastAlert'[k] = now

\* Live passes run outside the quiet hours.
LiveAwake == phase = "live" => ~Muted

GateInv ==
    /\ LiveAwake /\ GateRemembers /\ QuietHours
    /\ \A p \in phone : p.at <= now

\* Arming at the current time never turns an entry of the gate back.
LEMMA StampNow ==
    ASSUME TypeInv, NEW etype, NEW s, NEW person, Arm(etype, s, person), NEW k \in GateKeys
    PROVE  lastAlert'[k] = lastAlert[k] \/ lastAlert'[k] = now
  BY DEF Arm, Stamp

\* A step that leaves phone and clock alone, and at most arms the gate.
LEMMA QuietStep ==
    ASSUME TypeInv, UNCHANGED <<phone, now>>,
           \/ UNCHANGED lastAlert
           \/ \E etype, s, person : Arm(etype, s, person)
    PROVE  Silent
<1>1. \A k \in GateKeys : lastAlert'[k] = lastAlert[k] \/ lastAlert'[k] = now
  BY StampNow
<1>2. now' >= now
  BY DEF TypeInv, TypeOK, Times
<1> QED
  BY <1>1, <1>2 DEF Silent, Alerts

\* A live event either leaves the phone and the clock alone or sends one photo and
\* arms the gate for it, awake.
LEMMA LiveAlerts ==
    ASSUME KnownInv, LiveAwake, NEW s \in Starts, Live(s)
    PROVE  Silent \/ \E person \in BOOLEAN : Alerted(s, person, "live")
<1>1. CASE LiveSends(s)
  <2> PICK f \in Frames : LiveSends(s)!(f)
    BY <1>1 DEF LiveSends
  <2>1. Known(s) /\ UNCHANGED <<now, events>> /\ ~Muted
    BY DEF Process, First, LiveAwake, KnownInv, AllKnown, loopVars
  <2>2. EType(s) = "motion" /\ ~KeepSampling => ClockOpen(lastAlert, "motion", now)
    BY DEF LiveSendable, Admitted, Open, CooledOpen, CanAlert, EType
  <2>3. ShowsPerson(f) \in BOOLEAN
    BY DEF ShowsPerson
  <2>4. events[s] = "person" /\ ~KeepSampling => PersonClock
    BY DEF LiveSendable, Admitted, Open, CooledOpen, CanAlert, ClockOpen, PersonClock
  <2> QED
    BY <2>1, <2>2, <2>3, <2>4 DEF Alerted
<1>2. CASE ~LiveSends(s)
  <2>1. UNCHANGED <<phone, now>>
    BY <1>2 DEF Live, LiveRaises, LiveCooldown, LiveBlind, LiveOpenBurstNoPerson, LiveDeferMotion,
       LiveMotionHeld, LiveConfirmedEmpty, LiveSendRefused, Process, ArmAndDefer, Unsent, loopVars
  <2>2. UNCHANGED lastAlert \/ \E etype, t, person : Arm(etype, t, person)
    BY <1>2 DEF Live, LiveRaises, LiveCooldown, LiveBlind, LiveOpenBurstNoPerson, LiveDeferMotion,
       LiveMotionHeld, LiveConfirmedEmpty, LiveSendRefused, ArmAndDefer, Unsent, gateVars
  <2> QED
    BY <2>1, <2>2, QuietStep DEF KnownInv
<1> QED
  BY <1>1, <1>2

\* So does an iteration of the sampler.
LEMMA SamplerAlerts ==
    ASSUME KnownInv, Sampler
    PROVE  Silent \/ \E s \in Starts, person \in BOOLEAN : \E path : Alerted(s, person, path)
<1>e. UNCHANGED <<now, events>>
  BY DEF Sampler, SamplerIdle, SamplerCloses, HoldSent, HoldRefused, HoldRipe,
     SamplerSuppresses, SamplerCooldown, SamplerSends, SamplerRefused, Grabs, SamplerDone, liveVars
<1>n. group.open => group.ev \in Starts /\ Known(group.ev) /\ EType(group.ev) = group.etype
  BY DEF KnownInv, AllKnown, GroupNamed, TypeInv, GroupStart, Known
<1>1. CASE HoldSent
  <2>1. group.open /\ ~Muted /\ ClockOpen(lastAlert, "motion", now) /\ HoldSends
    BY <1>1 DEF HoldSent, HoldRipe
  <2>2. Alerted(group.ev, TRUE, "hold")
    BY <1>1, <1>e, <1>n, <2>1 DEF HoldSent, Alerted
  <2> QED
    BY <1>n, <2>1, <2>2
<1>2. CASE SamplerSends
  <2> PICK f \in Frames : SamplerSends!(f)
    BY <1>2 DEF SamplerSends
  <2>1. group.open /\ ~Muted
    BY DEF Grabs
  <2>2. ~KeepSampling => ClockOpen(lastAlert, group.etype, now)
    BY DEF SamplerAdmitted
  <2>c. ~KeepSampling => PersonClock
    BY <2>2 DEF ClockOpen, PersonClock
  <2>3. ShowsPerson(f) \in BOOLEAN
    BY DEF ShowsPerson
  <2>4. Alerted(group.ev, ShowsPerson(f), "sampler")
    BY <1>e, <1>n, <2>1, <2>2, <2>c DEF Alerted
  <2> QED
    BY <1>n, <2>1, <2>3, <2>4
<1>3. CASE ~HoldSent /\ ~SamplerSends
  <2>1. UNCHANGED <<phone, lastAlert>>
    BY <1>3 DEF Sampler, SamplerIdle, SamplerCloses, HoldRefused, SamplerSuppresses,
       SamplerCooldown, SamplerRefused, gateVars
  <2> QED
    BY <1>e, <2>1, QuietStep DEF KnownInv
<1> QED
  BY <1>1, <1>2, <1>3

\* So does the drain when it takes over a card read.
LEMMA FinishAlerts ==
    ASSUME KnownInv, NEW s \in Starts, Finish(s)
    PROVE  Silent \/ \E person \in BOOLEAN : Alerted(s, person, "sd")
<1>e. UNCHANGED <<now, events>> /\ Collects(s)
  BY DEF Finish, FinishBlocked, FinishEarlyLook, FinishExtend, FinishNobody, FinishNoMedia,
     FinishFallbackEmpty, FinishCooled, FinishHeld, FinishSends, FinishRefused, FinishSendable,
     Unread, Finishes, Collects, liveVars
<1>1. CASE FinishSends(s)
  <2> PICK person \in BOOLEAN : FinishSends(s)!(person)
    BY <1>1 DEF FinishSends
  <2>1. Known(s) /\ ~Muted /\ Blocked(s) = "go"
    BY <1>e DEF FinishSendable, Finishes, Collects, KnownInv, AllKnown
  <2>2. EType(s) = "motion" => ClockOpen(lastAlert, "motion", now)
    BY <2>1 DEF Blocked, CanAlert
  <2>3. events[s] = "person" => PersonClock
    BY DEF FinishSendable, WithinCooldown, EType, PersonClock
  <2> QED
    BY <1>e, <2>1, <2>2, <2>3 DEF Alerted
<1>2. CASE ~FinishSends(s)
  <2>1. UNCHANGED <<phone, lastAlert>>
    BY <1>2 DEF Finish, FinishBlocked, FinishEarlyLook, FinishExtend, FinishNobody, FinishNoMedia,
       FinishFallbackEmpty, FinishCooled, FinishHeld, FinishRefused, gateVars
  <2> QED
    BY <1>e, <2>1, QuietStep DEF KnownInv
<1> QED
  BY <1>1, <1>2

\* The rest of the loop arms nothing; only the outbox reaches the phone without arming.
LEMMA LoopAlerts ==
    ASSUME KnownInv,
           \/ \E s \in Starts, k \in Kinds : CameraReports(s, k)
           \/ Tick \/ PollFails \/ Poll \/ LiveEnds \/ JobEnds \/ CollectNothing \/ ScanEnds
           \/ \E s \in Starts : Scan(s) \/ OutboxSends(s) \/ OutboxReviews(s)
           \/ OutboxEnds
    PROVE  Silent
<1>1. CASE \E s \in Starts : OutboxSends(s)
  <2> PICK s \in Starts : OutboxSends(s)
    BY <1>1
  <2> PICK person \in BOOLEAN : ToPhone(s, person, "outbox")
    BY DEF OutboxSends
  <2>1. UNCHANGED <<now, lastAlert>>
    BY DEF OutboxSends, loopVars, gateVars
  <2>2. Alerts' = Alerts
    BY DEF ToPhone, Alerts
  <2> QED
    BY <2>1, <2>2 DEF ToPhone, Silent, KnownInv, TypeInv, TypeOK, Times
<1>2. CASE Tick
  <2>1. now' >= now
    BY <1>2 DEF Tick, KnownInv, TypeInv, TypeOK, Times
  <2> QED
    BY <1>2, <2>1 DEF Tick, Silent, Alerts, gateVars
<1>3. CASE \/ \E s \in Starts, k \in Kinds : CameraReports(s, k)
           \/ \E s \in Starts : Scan(s) \/ OutboxReviews(s)
           \/ PollFails \/ Poll \/ LiveEnds \/ JobEnds \/ CollectNothing \/ ScanEnds
           \/ OutboxEnds
  <2>1. UNCHANGED <<phone, now, lastAlert>>
    BY <1>3 DEF CameraReports, Scan, ScanKeeps, ScanLoses, ScanDrops, ScanSubmits, Ripe, Scans,
       OutboxReviews, PollFails, Poll, LiveEnds, JobEnds, CollectNothing, ScanEnds, OutboxEnds,
       loopVars, gateVars
  <2> QED
    BY <2>1, QuietStep DEF KnownInv
<1> QED
  BY <1>1, <1>2, <1>3

\* A photo joins the phone, or the phone and the gate stay as they are.
LEMMA PhoneStep ==
    ASSUME KnownInv, LiveAwake, Next
    PROVE  Silent \/ \E s \in Starts, person \in BOOLEAN : \E path : Alerted(s, person, path)
  BY LiveAlerts, SamplerAlerts, FinishAlerts, LoopAlerts DEF Next

\* The live pass is only ever entered, and stays, outside the quiet hours.
LEMMA AwakeKeeps ==
    ASSUME KnownInv, LiveAwake, Next
    PROVE  LiveAwake'
<1>1. CASE phase' = "live" /\ now' = now
  <2>1. phase = "live" \/ Poll
    BY <1>1 DEF Next, CameraReports, Tick, PollFails, LiveEnds, Live, LiveRaises, LiveCooldown,
       LiveBlind, LiveOpenBurstNoPerson, LiveDeferMotion, LiveMotionHeld, LiveConfirmedEmpty,
       LiveSends, LiveSendRefused, Process, Sampler, SamplerIdle, SamplerCloses, HoldSent,
       HoldRefused, HoldRipe, SamplerSuppresses, SamplerCooldown, SamplerSends, SamplerRefused,
       Grabs, SamplerDone, JobEnds, CollectNothing, Finish, FinishBlocked, FinishEarlyLook,
       FinishExtend, FinishNobody, FinishNoMedia, FinishFallbackEmpty, FinishCooled, FinishHeld,
       FinishSends, FinishRefused, FinishSendable, Unread, Finishes, Collects, Scan, ScanKeeps,
       ScanLoses, ScanDrops, ScanSubmits, Ripe, Scans, ScanEnds, OutboxSends, OutboxReviews,
       OutboxEnds, loopVars
  <2>2. Poll /\ Muted => phase' = "sampler"
    BY DEF Poll
  <2> QED
    BY <1>1, <2>1, <2>2 DEF LiveAwake, Muted
<1>2. CASE phase' = "live" /\ now' # now
  <2>1. Tick
    BY <1>2 DEF Next, CameraReports, PollFails, Poll, LiveEnds, Live, LiveRaises, LiveCooldown,
       LiveBlind, LiveOpenBurstNoPerson, LiveDeferMotion, LiveMotionHeld, LiveConfirmedEmpty,
       LiveSends, LiveSendRefused, Process, Sampler, SamplerIdle, SamplerCloses, HoldSent,
       HoldRefused, HoldRipe, SamplerSuppresses, SamplerCooldown, SamplerSends, SamplerRefused,
       Grabs, SamplerDone, JobEnds, CollectNothing, Finish, FinishBlocked, FinishEarlyLook,
       FinishExtend, FinishNobody, FinishNoMedia, FinishFallbackEmpty, FinishCooled, FinishHeld,
       FinishSends, FinishRefused, FinishSendable, Unread, Finishes, Collects, Scan, ScanKeeps,
       ScanLoses, ScanDrops, ScanSubmits, Ripe, Scans, ScanEnds, OutboxSends, OutboxReviews,
       OutboxEnds, loopVars
  <2> QED
    BY <1>2, <2>1 DEF Tick
<1> QED
  BY <1>1, <1>2 DEF LiveAwake

\* Every step keeps the gate at least as new as the phone, and the phone quiet in
\* the quiet hours.
LEMMA GateStep == KnownInv /\ GateInv /\ [Next]_vars => GateInv'
<1> SUFFICES ASSUME KnownInv, GateInv, [Next]_vars PROVE GateInv'
  OBVIOUS
<1>1. CASE UNCHANGED vars
  BY <1>1 DEF GateInv, LiveAwake, GateRemembers, QuietHours, Muted, Alerts, EType, vars
<1>2. CASE Next
  <2>1. LiveAwake'
    BY <1>2, AwakeKeeps DEF GateInv
  <2>k. \A p \in Alerts : EType(p.start)' = EType(p.start)
    BY <1>2, KindKept DEF EType, KnownInv, AllKnown, TypeInv, TypeOK, Photo, Alerts
  <2>t. /\ now \in Int /\ now' \in Int /\ \A p \in phone : p.at \in Int
        /\ \A p \in Alerts : EType(p.start) \in GateKeys
        /\ {"motion", "person_photo"} \subseteq GateKeys
        /\ \A k \in GateKeys : lastAlert[k] \in Int
    <3>1. TypeInv'
      BY <1>2, KnownStep DEF KnownInv
    <3> QED
      BY <3>1 DEF KnownInv, TypeInv, TypeOK, Times, MaybeTime, NoTime, Photo, EType, GateKeys,
         EventTypes
  <2>2. CASE Silent
    <3>1. GateRemembers'
      <4> SUFFICES ASSUME NEW p \in Alerts
                   PROVE  /\ lastAlert'[IF p.path = "hold" THEN "motion" ELSE EType(p.start)] >= p.at
                          /\ p.person => lastAlert'["person_photo"] >= p.at
        BY <2>2, <2>k DEF GateRemembers, Silent, Alerts
      <4>1. /\ lastAlert[IF p.path = "hold" THEN "motion" ELSE EType(p.start)] >= p.at
            /\ p.person => lastAlert["person_photo"] >= p.at
            /\ p.at <= now
        BY DEF GateInv, GateRemembers, Alerts
      <4>2. (IF p.path = "hold" THEN "motion" ELSE EType(p.start)) \in GateKeys
        BY <2>t
      <4> QED
        BY <2>2, <2>t, <4>1, <4>2 DEF Silent, Alerts
    <3>2. QuietHours'
      BY <2>2 DEF Silent, GateInv, QuietHours
    <3>3. \A p \in phone' : p.at <= now'
      BY <2>2, <2>t DEF Silent, GateInv
    <3> QED
      BY <2>1, <3>1, <3>2, <3>3 DEF GateInv
  <2>3. ASSUME NEW s \in Starts, NEW person \in BOOLEAN, NEW path, Alerted(s, person, path)
        PROVE  GateInv'
    <3> DEFINE new == [start |-> s, at |-> now, person |-> person, path |-> path]
    <3>1. phone' = phone \cup {new} /\ UNCHANGED <<now, events>> /\ new.at = now
      BY <2>3 DEF Alerted, ToPhone
    <3>2. /\ \A p \in phone' : p \in phone \/ p = new
          /\ new.start = s /\ new.path = path /\ new.person = person
      BY <3>1
    <3> HIDE DEF new
    <3>3. GateRemembers'
      <4> SUFFICES ASSUME NEW p \in phone', p.path # "outbox"
                   PROVE  /\ lastAlert'[IF p.path = "hold" THEN "motion" ELSE EType(p.start)] >= p.at
                          /\ p.person => lastAlert'["person_photo"] >= p.at
        BY <3>1 DEF GateRemembers, EType
      <4>1. CASE p \in phone
        <5>1. /\ lastAlert[IF p.path = "hold" THEN "motion" ELSE EType(p.start)] >= p.at
              /\ p.person => lastAlert["person_photo"] >= p.at
              /\ p.at <= now
          BY <4>1 DEF GateInv, GateRemembers
        <5>2. (IF p.path = "hold" THEN "motion" ELSE EType(p.start)) \in GateKeys
          BY <4>1, <2>t DEF Alerts
        <5>3. \A k \in GateKeys : lastAlert'[k] = lastAlert[k] \/ lastAlert'[k] = now
          BY <2>3, StampNow DEF Alerted, KnownInv
        <5> QED
          BY <4>1, <5>1, <5>2, <5>3, <2>t
      <4>2. CASE p = new
        <5>1. /\ EType(s) \in GateKeys /\ "motion" \in GateKeys
              /\ "person_photo" \in GateKeys
          BY DEF EType, GateKeys, EventTypes
        <5>2. /\ lastAlert'[IF path = "hold" THEN "motion" ELSE EType(s)] = now
              /\ person => lastAlert'["person_photo"] = now
          BY <2>3, <5>1 DEF Alerted, Arm, Stamp
        <5> QED
          BY <3>1, <3>2, <4>2, <5>2, <2>t
      <4> QED
        BY <3>2, <4>1, <4>2
    <3>4. QuietHours'
      BY <2>3, <3>1, <3>2 DEF Alerted, GateInv, QuietHours, Alerts, Muted
    <3>5. \A p \in phone' : p.at <= now'
      BY <3>1, <3>2, <2>t DEF GateInv
    <3> QED
      BY <2>1, <3>3, <3>4, <3>5 DEF GateInv
  <2> QED
    BY <1>2, <2>2, <2>3, PhoneStep DEF GateInv
<1> QED
  BY <1>1, <1>2

\* At the start the phone is empty, so the gate owes it nothing.
LEMMA GateInit == Init => GateInv
  BY DEF Init, GateInv, LiveAwake, GateRemembers, QuietHours, Alerts

\* The gate's table is never older than an alert it stands for: every path that
\* reaches the phone has armed it, and nothing turns it back.
THEOREM GateRemembersCorrect == Spec => []GateRemembers
<1>1. GateInv => GateRemembers
  BY DEF GateInv
<1> QED
  BY <1>1, KnownInit, KnownStep, GateInit, GateStep, PTL DEF Spec

\* In the camera's quiet hours only the outbox reaches the phone.
THEOREM QuietHoursCorrect == Spec => []QuietHours
<1>1. GateInv => QuietHours
  BY DEF GateInv
<1> QED
  BY <1>1, KnownInit, KnownStep, GateInit, GateStep, PTL DEF Spec

\* A motion photo that joins the phone finds the confirmed arming of every confirmed
\* photo a whole cooldown old.
LEMMA MotionStep ==
    ASSUME ~KeepSampling, KnownInv, GateInv, MotionQuieted, Next
    PROVE  MotionQuieted'
<1>k. \A p \in Alerts : EType(p.start)' = EType(p.start)
  BY KindKept DEF EType, KnownInv, AllKnown, TypeInv, TypeOK, Photo, Alerts
<1>1. CASE Silent
  BY <1>1, <1>k DEF Silent, MotionQuieted
<1>2. ASSUME NEW s \in Starts, NEW person \in BOOLEAN, NEW path, Alerted(s, person, path)
      PROVE  MotionQuieted'
  <2> DEFINE new == [start |-> s, at |-> now, person |-> person, path |-> path]
  <2>1. /\ phone' = phone \cup {new} /\ new.at = now /\ new.start = s
        /\ UNCHANGED <<now, events>>
    BY <1>2 DEF Alerted, ToPhone
  <2> HIDE DEF new
  <2>2. /\ \A p \in Alerts' : p \in Alerts \/ p = new
        /\ \A p \in Alerts : p.at \in Nat /\ p.at <= now
        /\ now \in Nat /\ Cooldown \in Nat \ {0}
    BY <2>1, CooldownAssumption DEF Alerts, GateInv, KnownInv, TypeInv, TypeOK, Photo, Times
  <2>3. ASSUME NEW q \in Alerts, EType(s) = "motion", EType(q.start) = "confirmed"
        PROVE  now - q.at >= Cooldown
    <3>1. ShouldSend(lastAlert["confirmed"], now) /\ ShouldSend(lastAlert["motion"], now)
      BY <1>2, <2>3 DEF Alerted, ClockOpen
    <3>2. lastAlert["confirmed"] >= q.at \/ lastAlert["motion"] >= q.at
      BY <2>3 DEF GateInv, GateRemembers, Alerts
    <3>3. lastAlert["confirmed"] \in Int /\ lastAlert["motion"] \in Int
      BY DEF KnownInv, TypeInv, TypeOK, GateKeys, EventTypes, MaybeTime, NoTime, Times
    <3> QED
      BY <2>2, <3>1, <3>2, <3>3 DEF ShouldSend, NoTime
  <2>4. \A t : EType(t)' = EType(t)
    BY <2>1 DEF EType
  <2>5. SUFFICES ASSUME NEW p \in Alerts', NEW q \in Alerts', EType(p.start) = "motion",
                        EType(q.start) = "confirmed", q.at < p.at
                 PROVE  p.at - q.at >= Cooldown
    BY <2>4 DEF MotionQuieted
  <2>6. CASE p \in Alerts /\ q \in Alerts
    BY <2>5, <2>6 DEF MotionQuieted
  <2>7. CASE p = new /\ q \in Alerts
    BY <2>1, <2>3, <2>5, <2>7
  <2>8. CASE q = new
    <3>1. p = new => FALSE
      BY <2>1, <2>5, <2>8
    <3>2. p \in Alerts => FALSE
      BY <2>1, <2>2, <2>5, <2>8
    <3> QED
      BY <2>2, <3>1, <3>2
  <2> QED
    BY <2>2, <2>6, <2>7, <2>8
<1> QED
  BY <1>1, <1>2, PhoneStep DEF GateInv

\* Without keep_sampling, bare motion never follows a confirmed alert within the
\* cooldown, whichever two paths send them and however long the card read took.
THEOREM MotionQuietedCorrect ==
    ASSUME ~KeepSampling
    PROVE  Spec => []MotionQuieted
<1>1. Init => MotionQuieted
  BY DEF Init, MotionQuieted, Alerts
<1>2. KnownInv /\ GateInv /\ MotionQuieted /\ [Next]_vars => MotionQuieted'
  <2> SUFFICES ASSUME KnownInv, GateInv, MotionQuieted, [Next]_vars PROVE MotionQuieted'
    OBVIOUS
  <2>1. CASE UNCHANGED vars
    BY <2>1 DEF MotionQuieted, Alerts, EType, vars
  <2> QED
    BY <2>1, MotionStep
<1> QED
  BY <1>1, <1>2, KnownInit, KnownStep, GateInit, GateStep, PTL DEF Spec


\* Without keep_sampling, a person's photo finds the arming of every earlier one
\* a whole cooldown old.
LEMMA SpacedStep ==
    ASSUME ~KeepSampling, KnownInv, GateInv, SpacedPersonPhotos, Next
    PROVE  SpacedPersonPhotos'
<1>k. \A p \in Alerts : events'[p.start] = events[p.start]
  BY KindKept DEF KnownInv, AllKnown, TypeInv, TypeOK, Photo, Alerts
<1>1. CASE Silent
  BY <1>1, <1>k DEF Silent, SpacedPersonPhotos
<1>2. ASSUME NEW s \in Starts, NEW person \in BOOLEAN, NEW path, Alerted(s, person, path)
      PROVE  SpacedPersonPhotos'
  <2> DEFINE new == [start |-> s, at |-> now, person |-> person, path |-> path]
  <2>1. /\ phone' = phone \cup {new} /\ new.at = now /\ new.start = s /\ new.person = person
        /\ new.path = path /\ UNCHANGED <<now, events>>
    BY <1>2 DEF Alerted, ToPhone
  <2> HIDE DEF new
  <2>2. /\ \A p \in Alerts' : p \in Alerts \/ p = new
        /\ \A p \in Alerts : p.at \in Nat /\ p.at <= now
        /\ now \in Nat /\ Cooldown \in Nat \ {0}
    BY <2>1, CooldownAssumption DEF Alerts, GateInv, KnownInv, TypeInv, TypeOK, Photo, Times
  <2>3. ASSUME NEW q \in Alerts, person, q.person, events[s] = "person",
               events[q.start] = "person", path # "hold", q.path # "hold"
        PROVE  now - q.at >= Cooldown
    <3>1. PersonClock
      BY <1>2, <2>3 DEF Alerted
    <3>2. lastAlert["confirmed"] >= q.at /\ lastAlert["person_photo"] >= q.at
      BY <2>3 DEF GateInv, GateRemembers, Alerts, EType
    <3>3. lastAlert["confirmed"] \in Int /\ lastAlert["person_photo"] \in Int
      BY DEF KnownInv, TypeInv, TypeOK, GateKeys, EventTypes, MaybeTime, NoTime, Times
    <3> QED
      BY <2>2, <3>1, <3>2, <3>3 DEF PersonClock, ShouldSend, NoTime
  <2>4. ASSUME NEW p \in Alerts', NEW q \in Alerts', p # q, p.person, q.person,
               p.path # "hold", q.path # "hold",
               events[p.start] = "person", events[q.start] = "person"
        PROVE  p.at - q.at >= Cooldown \/ q.at - p.at >= Cooldown
    <3>1. CASE p \in Alerts /\ q \in Alerts
      BY <2>4, <3>1 DEF SpacedPersonPhotos
    <3>2. CASE p = new /\ q \in Alerts
      BY <2>1, <2>3, <2>4, <3>2
    <3>3. CASE p \in Alerts /\ q = new
      BY <2>1, <2>3, <2>4, <3>3
    <3> QED
      BY <2>2, <2>4, <3>1, <3>2, <3>3
  <2> QED
    BY <2>1, <2>4 DEF SpacedPersonPhotos
<1> QED
  BY <1>1, <1>2, PhoneStep DEF GateInv

\* Two person photos are a cooldown apart, whichever of the live pass, the
\* sampler and the card sends them and however long the card's read took.
THEOREM SpacedPersonPhotosCorrect ==
    ASSUME ~KeepSampling
    PROVE  Spec => []SpacedPersonPhotos
<1>1. Init => SpacedPersonPhotos
  BY DEF Init, SpacedPersonPhotos, Alerts
<1>2. KnownInv /\ GateInv /\ SpacedPersonPhotos /\ [Next]_vars => SpacedPersonPhotos'
  <2> SUFFICES ASSUME KnownInv, GateInv, SpacedPersonPhotos, [Next]_vars
               PROVE  SpacedPersonPhotos'
    OBVIOUS
  <2>1. CASE UNCHANGED vars
    BY <2>1 DEF SpacedPersonPhotos, Alerts, vars
  <2> QED
    BY <2>1, SpacedStep
<1> QED
  BY <1>1, <1>2, KnownInit, KnownStep, GateInit, GateStep, PTL DEF Spec

\* Without keep_sampling the cooldown holds at the moment of every send.
THEOREM CooldownKeptCorrect ==
    ASSUME ~KeepSampling
    PROVE  Spec => []CooldownKept
<1>1. MotionQuieted /\ SpacedPersonPhotos => CooldownKept
  BY DEF CooldownKept
<1> QED
  BY <1>1, MotionQuietedCorrect, SpacedPersonPhotosCorrect, PTL

-----------------------------------------------------------------------------
(* The watermark of the live pass *)

LivePhotos == {p \in phone : p.path = "live"}

\* What the live pass has behind it: everything up to the watermark and, while
\* a poll runs, everything before the events it has still to process.
Behind(s) == s <= lastSeen \/ (phase = "live" /\ s <= newest /\ \A b \in batch : s < b)

\* How far the camera's list has been taken in.
Front == IF phase = "live" THEN newest ELSE lastSeen

WaterInv ==
    /\ phase # "live" => batch = {}
    /\ phase = "live" => lastSeen <= newest /\ \A b \in batch : lastSeen < b /\ b <= newest
    /\ \A s \in Starts : Known(s) /\ s <= Front /\ s \notin batch => fate[s] # "none"
    /\ \A p \in LivePhotos : Behind(p.start)
    /\ LiveOnce

\* A decided event keeps a verdict.
FatesKept == \A s \in Starts : fate[s] # "none" => fate'[s] # "none"

LEMMA DecideKeeps ==
    ASSUME TypeInv, NEW s, NEW v, Decide(s, v), v # "none"
    PROVE  FatesKept /\ (s \in Starts => fate'[s] # "none")
  BY DEF TypeInv, TypeOK, Decide, FatesKept

\* A step that leaves the watermark and the poll alone.
LEMMA StillWater ==
    ASSUME TypeInv, WaterInv, FatesKept, LivePhotos' = LivePhotos,
           UNCHANGED <<events, lastSeen, newest, batch>>, phase' = "live" <=> phase = "live"
    PROVE  WaterInv'
<1>1. LiveOnce'
  <2>1. \A p, q \in LivePhotos : p.start = q.start => p = q
    BY DEF WaterInv, LiveOnce, LivePhotos
  <2> QED BY <2>1 DEF LiveOnce, LivePhotos
<1>2. \A p \in LivePhotos' : Behind(p.start)'
  BY DEF WaterInv, Behind
<1>3. \A s \in Starts : Known(s)' /\ s <= Front' /\ s \notin batch' => fate'[s] # "none"
  BY DEF WaterInv, Known, Front, FatesKept
<1> QED
  BY <1>1, <1>2, <1>3 DEF WaterInv

\* What the other passes leave to the live one.
Aside ==
    /\ UNCHANGED <<events, lastSeen, newest, batch>>
    /\ phase' = "live" <=> phase = "live"
    /\ \/ UNCHANGED fate
       \/ \E s \in Starts, v \in {"skipped", "lost", "cooled", "sent", "refused"} : Decide(s, v)
    /\ UNCHANGED phone \/ \E s, person, path : path # "live" /\ ToPhone(s, person, path)

LEMMA AsideStill == ASSUME TypeInv, WaterInv, Aside PROVE WaterInv'
<1>1. FatesKept
  BY DecideKeeps DEF Aside, FatesKept
<1>2. LivePhotos' = LivePhotos
  BY DEF Aside, LivePhotos, ToPhone
<1> QED
  BY <1>1, <1>2, StillWater DEF Aside

LEMMA SamplerAside == ASSUME KnownInv, Sampler PROVE Aside
<1>1. /\ UNCHANGED <<events, lastSeen, newest, batch>>
      /\ phase = "sampler" /\ phase' = "sdcollect"
  BY DEF Sampler, SamplerIdle, SamplerCloses, HoldSent, HoldRefused, HoldRipe, SamplerSuppresses,
     SamplerCooldown, SamplerSends, SamplerRefused, Grabs, SamplerDone, liveVars
<1>n. group.open => group.ev \in Starts
  BY DEF KnownInv, TypeInv, GroupStart
<1>2. \/ UNCHANGED fate
      \/ \E s \in Starts, v \in {"skipped", "lost", "cooled", "sent", "refused"} : Decide(s, v)
  BY <1>n DEF Sampler, SamplerIdle, SamplerCloses, HoldSent, HoldRefused, HoldRipe,
     SamplerSuppresses, SamplerCooldown, SamplerSends, SamplerRefused, Grabs
<1>3. UNCHANGED phone \/ \E s, person, path : path # "live" /\ ToPhone(s, person, path)
  BY DEF Sampler, SamplerIdle, SamplerCloses, HoldSent, HoldRefused, SamplerSuppresses,
     SamplerCooldown, SamplerSends, SamplerRefused
<1> QED
  BY <1>1, <1>2, <1>3 DEF Aside

LEMMA FinishAside == ASSUME NEW s \in Starts, Finish(s) PROVE Aside
<1>1. Collects(s)
  BY DEF Finish, FinishBlocked, FinishEarlyLook, FinishExtend, FinishNobody, FinishNoMedia,
     FinishFallbackEmpty, FinishCooled, FinishHeld, FinishSends, FinishRefused, FinishSendable,
     Unread, Finishes
<1>2. /\ UNCHANGED <<events, lastSeen, newest, batch>>
      /\ phase = "sdcollect" /\ phase' = "sdscan"
  BY <1>1 DEF Collects, liveVars
<1>3. \/ UNCHANGED fate
      \/ \E v \in {"skipped", "lost", "cooled", "sent", "refused"} : Decide(s, v)
  BY DEF Finish, FinishBlocked, FinishEarlyLook, FinishExtend, FinishNobody, FinishNoMedia,
     FinishFallbackEmpty, FinishCooled, FinishHeld, FinishSends, FinishRefused
<1>4. UNCHANGED phone \/ \E person : ToPhone(s, person, "sd")
  BY DEF Finish, FinishBlocked, FinishEarlyLook, FinishExtend, FinishNobody, FinishNoMedia,
     FinishFallbackEmpty, FinishCooled, FinishHeld, FinishSends, FinishRefused
<1> QED
  BY <1>2, <1>3, <1>4 DEF Aside

LEMMA RestAside ==
    ASSUME \/ Tick \/ PollFails \/ JobEnds \/ CollectNothing \/ ScanEnds \/ OutboxEnds
           \/ \E s \in Starts : Scan(s) \/ OutboxSends(s) \/ OutboxReviews(s)
    PROVE  Aside
<1>1. CASE Tick \/ PollFails \/ JobEnds \/ CollectNothing \/ ScanEnds \/ OutboxEnds
  <2>1. UNCHANGED <<events, lastSeen, newest, batch, phone, fate>>
    BY <1>1 DEF Tick, PollFails, JobEnds, CollectNothing, ScanEnds, OutboxEnds, liveVars
  <2>2. phase' = "live" <=> phase = "live"
    BY <1>1 DEF Tick, PollFails, JobEnds, CollectNothing, ScanEnds, OutboxEnds, loopVars
  <2> QED
    BY <2>1, <2>2 DEF Aside
<1>2. ASSUME NEW s \in Starts, Scan(s) PROVE Aside
  <2>1. Scans(s)
    BY <1>2 DEF Scan, ScanKeeps, ScanLoses, ScanDrops, ScanSubmits, Ripe
  <2>2. UNCHANGED <<events, lastSeen, newest, batch, phone>> /\ phase = "sdscan"
    BY <2>1 DEF Scans, liveVars
  <2>3. phase' \in {"sdscan", "sdcollect"}
    BY <1>2, <2>2 DEF Scan, ScanKeeps, ScanLoses, ScanDrops, ScanSubmits
  <2>4. UNCHANGED fate \/ \E v \in {"lost", "skipped"} : Decide(s, v)
    BY <1>2 DEF Scan, ScanKeeps, ScanLoses, ScanDrops, ScanSubmits
  <2> QED
    BY <2>2, <2>3, <2>4 DEF Aside
<1>3. ASSUME NEW s \in Starts, OutboxSends(s) \/ OutboxReviews(s) PROVE Aside
  <2>1. UNCHANGED <<events, lastSeen, newest, batch, phase>>
    BY <1>3 DEF OutboxSends, OutboxReviews, loopVars, liveVars
  <2>2. UNCHANGED fate \/ Decide(s, "sent")
    BY <1>3 DEF OutboxSends, OutboxReviews
  <2>3. UNCHANGED phone \/ \E person : ToPhone(s, person, "outbox")
    BY <1>3 DEF OutboxSends, OutboxReviews
  <2> QED
    BY <2>1, <2>2, <2>3 DEF Aside
<1> QED
  BY <1>1, <1>2, <1>3

\* The camera lists an event before the next poll, or after the watermark.
LEMMA ReportStill ==
    ASSUME TypeInv, WaterInv, NEW s \in Starts, NEW k \in Kinds, CameraReports(s, k)
    PROVE  WaterInv'
<1>1. /\ phase = "idle" /\ UNCHANGED <<phase, lastSeen, batch, newest, phone>>
      /\ events' = [events EXCEPT ![s] = k]
      /\ fate' = [fate EXCEPT ![s] = IF s <= lastSeen THEN "missed" ELSE @]
  BY DEF CameraReports, loopVars
<1>2. \A t \in Starts : Known(t)' /\ t <= Front' /\ t \notin batch' => fate'[t] # "none"
  BY <1>1 DEF WaterInv, Known, Front, TypeInv, TypeOK
<1>3. LiveOnce' /\ \A p \in LivePhotos' : Behind(p.start)'
  BY <1>1 DEF WaterInv, LiveOnce, LivePhotos, Behind
<1> QED
  BY <1>1, <1>2, <1>3 DEF WaterInv

\* A poll takes in what is new, all of it above the watermark.
LEMMA PollTakes ==
    ASSUME TypeInv, WaterInv, Poll PROVE WaterInv'
<1>1. PICK mark \in Times : Poll!(mark)
  BY DEF Poll
<1>2. /\ phase = "poll" /\ batch = {} /\ UNCHANGED <<events, phone>>
      /\ lastSeen <= mark /\ \A s \in Fresh : s <= mark
  <2>1. mark \in Fresh \cup {lastSeen} /\ \A s \in Fresh : s <= mark
    BY <1>1 DEF IsWatermark
  <2>2. lastSeen <= mark
    BY <2>1, FlowAssumption DEF Fresh, TypeInv, TypeOK, Times, Starts
  <2> QED BY <1>1, <2>1, <2>2 DEF WaterInv
<1>3. \A s \in Starts : Known(s) /\ s \notin Fresh => fate[s] # "none"
  BY <1>2, FlowAssumption DEF Fresh, Known, WaterInv, Front, TypeInv, TypeOK, Times, Starts
<1>4. \A p \in LivePhotos : p.start <= lastSeen /\ p.start \in Starts
  BY <1>2 DEF WaterInv, Behind, LivePhotos, TypeInv, TypeOK, Photo
<1>5. CASE Muted
  <2>1. /\ phase' = "sampler" /\ lastSeen' = mark /\ UNCHANGED batch
        /\ fate' = [s \in Starts |-> IF s \in Fresh THEN "lost" ELSE fate[s]]
    BY <1>1, <1>5
  <2>2. \A s \in Starts : Known(s)' => fate'[s] # "none"
    BY <1>2, <1>3, <2>1 DEF Known
  <2>3. \A p \in LivePhotos' : Behind(p.start)'
    <3>1. \A p \in LivePhotos : p.start <= mark
      BY <1>2, <1>4, FlowAssumption DEF TypeInv, TypeOK, Times, Starts
    <3> QED BY <1>2, <2>1, <3>1 DEF LivePhotos, Behind
  <2> QED
    BY <1>2, <2>1, <2>2, <2>3 DEF WaterInv, LiveOnce
<1>6. CASE ~Muted
  <2>1. /\ phase' = "live" /\ batch' = Fresh /\ newest' = mark /\ UNCHANGED <<lastSeen, fate>>
    BY <1>1, <1>6
  <2>2. \A b \in Fresh : lastSeen < b /\ b <= mark
    BY <1>2, FlowAssumption DEF Fresh, TypeInv, TypeOK, Times, Starts
  <2>3. \A p \in LivePhotos' : Behind(p.start)'
    BY <1>2, <1>4, <2>1 DEF LivePhotos, Behind
  <2> QED
    BY <1>2, <1>3, <2>1, <2>2, <2>3 DEF WaterInv, LiveOnce, Known
<1> QED
  BY <1>5, <1>6

LEMMA LiveEndsWater ==
    ASSUME TypeInv, WaterInv, LiveEnds PROVE WaterInv'
<1>1. /\ phase = "live" /\ batch = {} /\ phase' = "sampler" /\ lastSeen' = newest
      /\ UNCHANGED <<events, batch, newest, phone, fate>>
  BY DEF LiveEnds
<1>2. \A p \in LivePhotos : p.start <= newest
  BY <1>1, FlowAssumption
  DEF WaterInv, Behind, LivePhotos, TypeInv, TypeOK, Photo, Times, Starts
<1> QED
  BY <1>1, <1>2 DEF WaterInv, LiveOnce, LivePhotos, Behind, Front, Known

\* A retry starts after everything that was processed, and before the rest.
LEMMA RaisesWater ==
    ASSUME TypeInv, WaterInv, NEW s \in Starts, LiveRaises(s) PROVE WaterInv'
<1>1. /\ phase = "live" /\ s \in batch /\ \A b \in batch : s <= b
      /\ UNCHANGED <<events, newest, phone>>
  BY DEF LiveRaises, First
<1>2. /\ s \in Int /\ lastSeen \in Int /\ newest \in Int /\ \A b \in batch : b \in Int
      /\ \A t \in Starts : t \in Int
      /\ \A p \in LivePhotos : p.start \in Int
  BY FlowAssumption DEF TypeInv, TypeOK, Times, Starts, LivePhotos, Photo
<1>3. /\ lastSeen < s /\ s <= newest
      /\ \A p \in LivePhotos : p.start < s /\ p.start <= newest
  BY <1>1, <1>2 DEF WaterInv, Behind
<1>4. CASE GivesUp(s)
  <2>1. /\ batch' = batch \ {s} /\ Decide(s, "lost") /\ UNCHANGED <<phase, lastSeen>>
    BY <1>4 DEF LiveRaises
  <2>2. \A t \in Starts : Known(t)' /\ t <= Front' /\ t \notin batch' => fate'[t] # "none"
    BY <1>1, <2>1, DecideKeeps DEF WaterInv, Known, Front, FatesKept
  <2>3. \A p \in LivePhotos' : Behind(p.start)'
    BY <1>1, <1>2, <1>3, <2>1 DEF LivePhotos, Behind
  <2> QED
    BY <1>1, <2>1, <2>2, <2>3 DEF WaterInv, LiveOnce
<1>5. CASE ~GivesUp(s)
  <2>1. batch' = {} /\ phase' = "sampler" /\ lastSeen' = RetryFrom(s) /\ UNCHANGED fate
    BY <1>5 DEF LiveRaises
  <2>2. lastSeen' = s - 1
    BY <1>2, <1>3, <2>1 DEF RetryFrom
  <2>3. \A t \in Starts : Known(t)' /\ t <= Front' /\ t \notin batch' => fate'[t] # "none"
    BY <1>1, <1>2, <1>3, <2>1, <2>2 DEF WaterInv, Known, Front
  <2>4. \A p \in LivePhotos' : Behind(p.start)'
    BY <1>1, <1>2, <1>3, <2>2 DEF LivePhotos, Behind
  <2> QED
    BY <1>1, <2>1, <2>3, <2>4 DEF WaterInv, LiveOnce
<1> QED
  BY <1>4, <1>5

\* An event's turn ends with its verdict, and with at most one photo of it.
LEMMA TurnWater ==
    ASSUME TypeInv, WaterInv, NEW s \in Starts, Live(s), ~LiveRaises(s) PROVE WaterInv'
<1>a. Process(s)
  BY DEF Live, LiveCooldown, LiveBlind, LiveOpenBurstNoPerson, LiveDeferMotion, LiveMotionHeld,
     LiveConfirmedEmpty, LiveSends, LiveSendRefused
<1>b. \E v : Decide(s, v) /\ v # "none"
  <2>1. \E v \in {"skipped", "lost", "queued", "sent", "refused"} : Decide(s, v)
    BY DEF Live, LiveCooldown, LiveBlind, LiveOpenBurstNoPerson, LiveDeferMotion, LiveMotionHeld,
       LiveConfirmedEmpty, LiveSends, LiveSendRefused, Unsent, ArmAndDefer
  <2> QED BY <2>1
<1>c. UNCHANGED phone \/ \E person : ToPhone(s, person, "live")
  BY DEF Live, LiveCooldown, LiveBlind, LiveOpenBurstNoPerson, LiveDeferMotion, LiveMotionHeld,
     LiveConfirmedEmpty, LiveSends, LiveSendRefused, Unsent, ArmAndDefer
<1>1. /\ Process(s)
      /\ \E v : Decide(s, v) /\ v # "none"
      /\ UNCHANGED phone \/ \E person : ToPhone(s, person, "live")
  BY <1>a, <1>b, <1>c
<1>2. /\ phase = "live" /\ s \in batch /\ \A b \in batch : s <= b
      /\ batch' = batch \ {s} /\ UNCHANGED <<phase, events, lastSeen, newest>>
  BY <1>1 DEF Process, First, loopVars
<1>3. /\ s \in Int /\ lastSeen \in Int /\ newest \in Int /\ \A b \in batch : b \in Int
      /\ \A p \in LivePhotos : p.start \in Int
  BY FlowAssumption DEF TypeInv, TypeOK, Times, Starts, LivePhotos, Photo
<1>4. /\ lastSeen < s /\ s <= newest
      /\ \A p \in LivePhotos : p.start < s /\ p.start <= newest
  BY <1>2, <1>3 DEF WaterInv, Behind
<1>5. \A t \in Starts : Known(t)' /\ t <= Front' /\ t \notin batch' => fate'[t] # "none"
  BY <1>1, <1>2, DecideKeeps DEF WaterInv, Known, Front, FatesKept
<1>6. \A p \in LivePhotos' : p \in LivePhotos \/ p.start = s
  BY <1>1 DEF LivePhotos, ToPhone
<1>7. \A p \in LivePhotos' : Behind(p.start)'
  BY <1>2, <1>3, <1>4, <1>6 DEF Behind
<1>8. \A p, q \in LivePhotos' : p.start = q.start => p = q
  <2>1. CASE UNCHANGED phone
    BY <2>1 DEF WaterInv, LiveOnce, LivePhotos
  <2>2. ASSUME NEW person, ToPhone(s, person, "live")
        PROVE  \A p, q \in LivePhotos' : p.start = q.start => p = q
    <3> DEFINE new == [start |-> s, at |-> now, person |-> person, path |-> "live"]
    <3>1. phone' = phone \cup {new} /\ new.start = s
      BY <2>2 DEF ToPhone
    <3> HIDE DEF new
    <3>2. \A p \in LivePhotos : p.start # s
      BY <1>3, <1>4
    <3> QED
      BY <3>1, <3>2 DEF WaterInv, LiveOnce, LivePhotos
  <2> QED
    BY <1>1, <2>1, <2>2
<1> QED
  BY <1>2, <1>5, <1>7, <1>8 DEF WaterInv, LiveOnce, LivePhotos

LEMMA WaterInit == Init => WaterInv
  BY DEF Init, WaterInv, Known, LivePhotos, LiveOnce

LEMMA WaterStep == KnownInv /\ WaterInv /\ [Next]_vars => WaterInv'
<1> SUFFICES ASSUME KnownInv, TypeInv, WaterInv, [Next]_vars PROVE WaterInv'
  BY DEF KnownInv
<1>1. CASE UNCHANGED vars
  BY <1>1, StillWater DEF vars, FatesKept, LivePhotos
<1>2. CASE Next
  <2>1. CASE Aside
    BY <2>1, AsideStill
  <2>2. CASE ~Aside
    BY <1>2, <2>2, SamplerAside, FinishAside, RestAside, ReportStill, PollTakes, LiveEndsWater,
       RaisesWater, TurnWater DEF Next
  <2> QED
    BY <2>1, <2>2
<1> QED
  BY <1>1, <1>2

LEMMA WaterHolds == Spec => []WaterInv
  BY KnownInit, KnownStep, WaterInit, WaterStep, PTL DEF Spec

\* The watermark passes no event without a verdict, whatever fails, is retried
\* or listed late (run_monitor's newest and its per-event retries).
THEOREM NothingSkippedCorrect == Spec => []NothingSkipped
<1>1. TypeInv /\ WaterInv => NothingSkipped
  <2> SUFFICES ASSUME TypeInv, WaterInv, NEW s \in Starts,
                      events[s] # "none" /\ s <= lastSeen /\ s \notin batch
               PROVE  fate[s] # "none"
    BY DEF NothingSkipped
  <2>1. s <= Front
    BY FlowAssumption DEF Front, WaterInv, TypeInv, TypeOK, Times, Starts
  <2> QED
    BY <2>1 DEF WaterInv, Known
<1>2. KnownInv => TypeInv
  BY DEF KnownInv
<1> QED
  BY <1>1, <1>2, KnownInit, KnownStep, WaterHolds, PTL DEF Spec

\* A retry from just before a failed event replays none that was processed: the
\* live pass puts an event on the phone at most once, whatever raises.
THEOREM LiveOnceCorrect == Spec => []LiveOnce
<1>1. WaterInv => LiveOnce
  BY DEF WaterInv
<1> QED
  BY <1>1, WaterHolds, PTL

-----------------------------------------------------------------------------
(* Passages that are delivered already *)

\* A photo that joins the phone from the card is one no delivery had marked.
LEMMA CardPhotoUnmarked ==
    ASSUME KnownInv, LiveAwake, Next, NEW p \in phone' \ phone, p.path = "sd"
    PROVE  ~pending[p.start].done
<1>1. CASE Silent
  BY <1>1 DEF Silent, Alerts
<1>2. ASSUME NEW s \in Starts, Live(s), ~Silent PROVE FALSE
  BY <1>2, LiveAlerts DEF Alerted, ToPhone
<1>3. CASE Sampler
  <2>1. CASE HoldSent
    BY <2>1 DEF HoldSent, ToPhone
  <2>2. CASE SamplerSends
    BY <2>2 DEF SamplerSends, ToPhone
  <2>3. CASE ~HoldSent /\ ~SamplerSends
    BY <1>3, <2>3 DEF Sampler, SamplerIdle, SamplerCloses, HoldRefused, SamplerSuppresses,
       SamplerCooldown, SamplerRefused
  <2> QED
    BY <2>1, <2>2, <2>3
<1>4. ASSUME NEW s \in Starts, Finish(s) PROVE ~pending[p.start].done
  <2>1. CASE FinishSends(s)
    <3>1. ~pending[s].done
      BY <2>1 DEF FinishSends, FinishSendable, Finishes, Blocked
    <3>2. p.start = s
      BY <2>1 DEF FinishSends, ToPhone
    <3> QED
      BY <3>1, <3>2
  <2>2. CASE ~FinishSends(s)
    BY <1>4, <2>2 DEF Finish, FinishBlocked, FinishEarlyLook, FinishExtend, FinishNobody,
       FinishNoMedia, FinishFallbackEmpty, FinishCooled, FinishHeld, FinishRefused
  <2> QED
    BY <2>1, <2>2
<1> QED
  BY <1>1, <1>2, <1>3, <1>4, LoopAlerts DEF Next

\* A follow-up whose passage a live or sampler frame has delivered is never
\* sent, not even when its card read was already running: the mark is read again
\* after the read (_sd_followup_blocked in _finish_sd_followup).
THEOREM DeliveredPassageNotRepeatedCorrect == Spec => DeliveredPassageNotRepeated
<1>1. KnownInv /\ GateInv /\ [Next]_vars
        => [\A p \in phone' \ phone : p.path = "sd" => ~pending[p.start].done]_vars
  BY CardPhotoUnmarked DEF GateInv
<1> QED
  BY <1>1, KnownInit, KnownStep, GateInit, GateStep, PTL DEF Spec, DeliveredPassageNotRepeated

-----------------------------------------------------------------------------
(* One photo of a passage, when the camera reports two events at most *)

\* Of any three events that were reported, two are the same.
TwoEvents ==
    \A a, b, c \in Starts : Known(a) /\ Known(b) /\ Known(c) => a = b \/ b = c \/ a = c

\* Person photos of person events, and a group that may still send one.
PersonPhotos == {p \in Alerts : p.person /\ events[p.start] = "person"}
PersonGroup == group.open /\ ~group.sent /\ events[group.ev] = "person"

\* Whatever was queued, sent, grouped or stamped had its turn in the live pass; a
\* queued confirmed event and a person photo have left their stamps.
TouchInv ==
    /\ \A s \in Queued : Behind(s)
    /\ \A p \in Alerts : Behind(p.start)
    /\ group.open => Behind(group.ev) /\ SamplerOn
    /\ \A k \in GateKeys : lastStart[k] # NoTime =>
          lastStart[k] \in Starts /\ Behind(lastStart[k]) /\ Known(lastStart[k])
    /\ \A s \in Queued : EType(s) = "confirmed" => lastStart["confirmed"] # NoTime
    /\ \A p \in Alerts : p.person => lastStart["person_photo"] # NoTime

\* A queued follow-up whose passage has its photo is marked, or leaves.
Answered ==
    \A p \in PersonPhotos, b \in Queued :
        events[b] = "person" /\ SamePassage(p.start, b)
            => pending[b].done \/ (pending[b].gone /\ ~pending[b].keep)

\* A follow-up that stood the sampler down has no open group of its passage.
StoodDown ==
    \A b \in Queued :
        events[b] = "person" /\ ~pending[b].keep /\ PersonGroup => ~SamePassage(group.ev, b)

\* While a group may still send, only the card has sent a photo of its passage.
OnlyCard ==
    PersonGroup =>
        \A p \in PersonPhotos : SamePassage(p.start, group.ev) => p.path = "sd"

\* The follow-up of another passage does not open the cooldown for the group.
Outside ==
    PersonGroup =>
        \A t \in Queued :
            t # group.ev => SamePassage(t, group.ev) \/ t \notin OpenBurst(group.started, group.ev)

\* Nor does one of its own passage once the card has sent the group's event.
ReadFirst ==
    PersonGroup =>
        \A t \in Queued :
            t # group.ev /\ EType(t) = "confirmed" /\ SamePassage(t, group.ev) =>
                \A p \in Alerts : p.start = group.ev => p.path # "sd"

\* A group only its own queued event has touched was touched last when that event
\* armed the gate.
LastTouch ==
    /\ group.open /\ pending[group.ev].queued /\ pending[group.ev].keep
    /\ \A x \in Starts : Known(x) /\ Behind(x) => x = group.ev
    => group.lastAt <= lastAlert["confirmed"]

\* The drain and the reader hold entries that have not been decided.
DrainInv ==
    /\ \A s \in todo : pending[s].queued /\ ~pending[s].gone
    /\ job # 0 => pending[job].queued /\ ~pending[job].gone
    /\ phase \notin {"sdcollect", "sdscan"} => \A s \in Queued : ~pending[s].gone

\* No event starts after the clock, and the group's times are of the clock's past but
\* for the next grab.
GroupTimes ==
    /\ \A s \in Starts : Known(s) => s <= now
    /\ group.open => group.lastAt <= now /\ group.nextDue <= now + Interval

BurstInv ==
    /\ TwoEvents /\ TouchInv /\ Answered /\ StoodDown /\ OnlyCard /\ Outside /\ ReadFirst
    /\ LastTouch /\ DrainInv /\ GroupTimes

\* How an observed event leaves the group: closed when the sampler is off, fresh, or
\* the one that was open.
Folds(s, a) ==
    \/ ~group'.open
    \/ /\ SamplerOn /\ group'.open /\ group'.lastAt = now
       /\ a => group'.sent
       /\ EType(s) = "confirmed" => group'.ev = s
       /\ \/ group'.started = s /\ group'.ev = s /\ group'.nextDue = s + Interval
          \/ /\ group.open /\ now - group.lastAt <= GroupGap
             /\ group'.started = group.started /\ group'.nextDue = group.nextDue
             /\ group'.frames = group.frames /\ (group.sent => group'.sent)
             /\ EType(s) # "confirmed" => group'.ev = group.ev

\* What observe_event makes of the group, for an event as it comes or with its frame
\* counted.
LEMMA FoldShape ==
    ASSUME TypeInv, group.open => SamplerOn, NEW s \in Starts, NEW a \in BOOLEAN,
           NEW b \in BOOLEAN, NEW f, NEW g,
           g = group \/ (Corroborate /\ g = Counted(EnsureGroup(group, s), f)),
           group' = Observe(g, s, a, b)
    PROVE  Folds(s, a)
<1> DEFINE e == EnsureGroup(group, s)
           fresh == [NoGroup EXCEPT !.open = TRUE, !.etype = EType(s), !.ev = s,
                       !.started = s, !.lastAt = now, !.nextDue = s + Interval,
                       !.pir = (events[s] = "pir")]
           Old(x) == /\ group.open /\ now - group.lastAt <= GroupGap /\ x.open
                     /\ x.lastAt = group.lastAt /\ x.started = group.started
                     /\ x.nextDue = group.nextDue /\ x.frames = group.frames
                     /\ x.sent = group.sent /\ x.ev = group.ev
           New(x) == /\ x.open /\ x.lastAt = now /\ x.started = s /\ x.ev = s
                     /\ x.nextDue = s + Interval
<1>t. /\ group \in Group /\ now \in Nat /\ GroupGap \in Nat /\ s \in Nat
      /\ Corroborate => SamplerOn
  BY FlowAssumption DEF TypeInv, TypeOK, Times, Starts
<1>1. e \in Group
  BY EnsureGroupType DEF TypeInv, TypeOK, GroupStart
<1>2. New(fresh)
  BY DEF NoGroup
<1>3. (e = group /\ Old(group)) \/ (e = fresh /\ New(e))
  BY <1>2 DEF EnsureGroup
<1> HIDE DEF e, fresh
<1>4. CASE ~SamplerOn
  BY <1>t, <1>4 DEF Observe, Folds
<1>5. CASE SamplerOn
  <2> DEFINE h == EnsureGroup(g, s)
  <2>1. h \in Group /\ (Old(h) \/ New(h))
    <3>1. CASE g = group
      BY <1>1, <1>3, <3>1 DEF e
    <3>2. CASE g = Counted(e, f)
      <4>1. /\ g \in Group /\ g.open = e.open /\ g.lastAt = e.lastAt /\ g.started = e.started
            /\ g.nextDue = e.nextDue /\ g.frames = e.frames /\ g.sent = e.sent /\ g.ev = e.ev
        BY <1>1, <3>2 DEF Counted, Group
      <4>2. Old(g) \/ New(g)
        BY <1>3, <4>1
      <4>3. g.open /\ now - g.lastAt <= GroupGap
        BY <1>t, <4>2
      <4> QED
        BY <4>1, <4>2, <4>3 DEF EnsureGroup
    <3> QED
      BY <3>1, <3>2 DEF e
  <2> HIDE DEF h
  <2>2. /\ group'.open = h.open /\ group'.lastAt = now /\ group'.sent = (h.sent \/ a)
        /\ group'.ev = (IF EType(s) = "confirmed" THEN s ELSE h.ev)
        /\ group'.started = h.started /\ group'.nextDue = h.nextDue /\ group'.frames = h.frames
    BY <1>5, <2>1 DEF Observe, h, Group
  <2> QED
    BY <1>5, <2>1, <2>2 DEF Folds
<1> QED
  BY <1>4, <1>5

\* What the live pass has behind it stays behind it.
LEMMA BehindKept ==
    ASSUME KnownInv, WaterInv, Next, NEW s \in Starts, Behind(s)
    PROVE  Behind(s)'
<1>t. /\ s \in Int /\ lastSeen \in Int /\ newest \in Int
      /\ \A b \in batch : b \in Int
  BY FlowAssumption DEF KnownInv, TypeInv, TypeOK, Times, Starts
<1>1. CASE Aside
  BY <1>1 DEF Aside, Behind
<1>2. CASE \E t \in Starts, k \in Kinds : CameraReports(t, k)
  BY <1>2 DEF CameraReports, Behind, loopVars
<1>3. CASE Poll
  <2> PICK mark \in Times : Poll!(mark)
    BY <1>3 DEF Poll
  <2>1. s <= lastSeen /\ lastSeen <= mark /\ mark \in Int
    BY <1>t, FlowAssumption DEF Behind, IsWatermark, Fresh, Times, Starts
  <2> QED
    BY <1>t, <2>1 DEF Behind
<1>4. CASE LiveEnds
  BY <1>4, <1>t DEF LiveEnds, Behind, WaterInv
<1>5. ASSUME NEW t \in Starts, Live(t), ~LiveRaises(t) PROVE Behind(s)'
  <2>1. Process(t)
    BY <1>5 DEF Live, LiveCooldown, LiveBlind, LiveOpenBurstNoPerson, LiveDeferMotion,
       LiveMotionHeld, LiveConfirmedEmpty, LiveSends, LiveSendRefused
  <2> QED
    BY <2>1 DEF Process, Behind, loopVars
<1>6. ASSUME NEW t \in Starts, LiveRaises(t) PROVE Behind(s)'
  <2>1. /\ phase = "live" /\ t \in batch /\ \A b \in batch : t <= b
        /\ UNCHANGED newest
    BY <1>6 DEF LiveRaises, First
  <2>2. CASE GivesUp(t)
    BY <1>6, <2>1, <2>2 DEF LiveRaises, Behind
  <2>3. CASE ~GivesUp(t)
    <3>1. lastSeen' = RetryFrom(t)
      BY <1>6, <2>3 DEF LiveRaises
    <3>2. s < t
      BY <1>t, <2>1 DEF Behind, WaterInv
    <3> QED
      BY <1>t, <2>1, <3>1, <3>2 DEF RetryFrom, Behind
  <2> QED
    BY <2>2, <2>3
<1> QED
  BY <1>1, <1>2, <1>3, <1>4, <1>5, <1>6, SamplerAside, FinishAside, RestAside DEF Next

-----------------------------------------------------------------------------
(* The steps of the pipeline, as a passage sees them *)

\* The steps that put nothing on the phone and nothing in the queue, and leave the
\* gate alone: entries leave the queue or are marked, the group stays, closes or
\* grabs a frame.
QueueEases ==
    \A t \in Starts : pending'[t].queued =>
        /\ pending[t].queued /\ pending'[t].keep = pending[t].keep
        /\ (pending[t].done => pending'[t].done) /\ (pending[t].gone => pending'[t].gone)

GroupGrabs ==
    /\ phase = "sampler" /\ phase' = "sdcollect" /\ Due(group)
    /\ group'.nextDue = now + Interval /\ group'.frames = group.frames + 1

GroupEases ==
    group'.open =>
        /\ group.open /\ group'.ev = group.ev /\ group'.started = group.started
        /\ group'.lastAt = group.lastAt /\ (group.sent => group'.sent)
        /\ \/ group'.nextDue = group.nextDue /\ group'.frames = group.frames
           \/ GroupGrabs

Quiet == QueueEases /\ GroupEases /\ Alerts' = Alerts /\ UNCHANGED gateVars

\* An admitted event's turn in the live pass: it is only watched, it is queued (a
\* confirmed event arms the gate; the sampler stands down unless the burst is kept
\* open), or its frame is sent.
Turn(s) ==
    /\ phase = "live" /\ First(s, batch) /\ Admitted(s)
    /\ Behind(s)' /\ UNCHANGED <<now, phase, events>>

Watched(s) == Turn(s) /\ Folds(s, FALSE) /\ Alerts' = Alerts /\ UNCHANGED <<gateVars, pending>>

Queues(s, keep, sent) ==
    /\ Turn(s) /\ Folds(s, sent) /\ Alerts' = Alerts
    /\ \E armed : Defer(s, armed, keep)
    /\ \/ Arm(EType(s), s, FALSE)
       \/ EType(s) = "motion" /\ UNCHANGED gateVars
    /\ EType(s) = "confirmed" => keep \/ sent
    /\ keep => EType(s) = "confirmed"

Sends(s, person) ==
    /\ Turn(s) /\ Folds(s, TRUE)
    /\ Arm(EType(s), s, person) /\ pending' = NotePassage(s, s, person)
    /\ ToPhone(s, person, "live")

\* The sampler sends a frame of the group, on time or as the group expires.
GroupSends(person, path) ==
    /\ phase = "sampler" /\ group.open /\ ~group.sent /\ UNCHANGED <<now, events>>
    /\ group'.open => group'.sent /\ group'.ev = group.ev /\ group'.lastAt = group.lastAt
                      /\ group'.nextDue = now + Interval
    /\ pending' = NotePassage(group.started, group.ev, person)
    /\ ToPhone(group.ev, person, path)
    /\ \/ /\ path = "sampler" /\ Due(group)
          /\ Arm(group.etype, group.ev, person)
          /\ ClockOpen(lastAlert, group.etype, now) \/ OpenBurst(group.started, group.ev) # {}
       \/ /\ path = "hold" /\ HoldSends
          /\ Arm("motion", group.ev, person)
          /\ ClockOpen(lastAlert, "motion", now)

\* The card's photo of a queued event.
CardSends(s, person) ==
    /\ phase = "sdcollect" /\ s = job /\ UNCHANGED <<now, events>>
    /\ ~WithinCooldown(s) /\ Blocked(s) = "go"
    /\ Arm(EType(s), s, person) /\ ToPhone(s, person, "sd")
    /\ pending' = [NotePassage(s, s, person) EXCEPT ![s].gone = TRUE]
    /\ group' = IF group.open THEN [group EXCEPT !.delivered = TRUE] ELSE group

\* What an event's turn does, if it changes more than the watermark.
LEMMA TurnShape ==
    ASSUME KnownInv, WaterInv, ~Refusals, group.open => SamplerOn, NEW s \in Starts, Live(s)
    PROVE  \/ Quiet \/ Watched(s)
           \/ \E keep, sent \in BOOLEAN : Queues(s, keep, sent)
           \/ \E person \in BOOLEAN : Sends(s, person)
<1>t. TypeInv /\ group \in Group
  BY DEF KnownInv, TypeInv, TypeOK
<1>1. CASE LiveRaises(s) \/ LiveCooldown(s)
  <2>1. UNCHANGED <<gateVars, group, pending, phone>>
    BY <1>1 DEF LiveRaises, LiveCooldown
  <2> QED
    BY <2>1 DEF Quiet, QueueEases, GroupEases, Alerts
<1>2. CASE Process(s) /\ Admitted(s)
  <2>1. Turn(s)
    <3>1. /\ phase = "live" /\ First(s, batch) /\ UNCHANGED <<now, phase, events, newest>>
          /\ batch' = batch \ {s} /\ s \in batch /\ \A b \in batch : s <= b
      BY <1>2 DEF Process, First, loopVars
    <3>2. s <= newest /\ \A b \in batch' : s < b
      BY <3>1, FlowAssumption DEF WaterInv, TypeInv, TypeOK, KnownInv, Starts
    <3> QED
      BY <1>2, <3>1, <3>2 DEF Turn, Behind
  <2>f. Observe(group, s, FALSE, FALSE) = group' => Folds(s, FALSE)
    BY <1>t, FoldShape
  <2>g. Observe(group, s, TRUE, FALSE) = group' => Folds(s, TRUE)
    BY <1>t, FoldShape
  <2>2. ASSUME NEW v, Unsent(s, v) PROVE Watched(s)
    BY <2>1, <2>2, <2>f DEF Unsent, Watched, Alerts
  <2>3. ASSUME ArmAndDefer(s) PROVE Queues(s, FALSE, TRUE)
    BY <2>1, <2>3, <2>g DEF ArmAndDefer, Queues, Alerts
  <2>4. CASE LiveBlind(s)
    BY <2>2, <2>3, <2>4 DEF LiveBlind
  <2>5. CASE LiveOpenBurstNoPerson(s)
    BY <2>2, <2>5 DEF LiveOpenBurstNoPerson
  <2>6. CASE LiveDeferMotion(s)
    <3>1. Queues(s, FALSE, FALSE)
      BY <2>1, <2>6, <2>f DEF LiveDeferMotion, Queues, Alerts
    <3> QED
      BY <3>1
  <2>7. CASE LiveMotionHeld(s)
    <3>1. PICK f \in {"marginal", "empty"} :
             /\ group' = Observe(IF Corroborate THEN Counted(EnsureGroup(group, s), f) ELSE group,
                                 s, FALSE, FALSE)
             /\ UNCHANGED <<gateVars, pending, phone>>
      BY <2>7 DEF LiveMotionHeld
    <3>2. Folds(s, FALSE)
      BY <1>t, <3>1, FoldShape
    <3> QED
      BY <2>1, <3>1, <3>2 DEF Watched, Alerts
  <2>8. CASE LiveConfirmedEmpty(s)
    <3>1. CASE BurstSent
      BY <2>2, <2>8, <3>1 DEF LiveConfirmedEmpty
    <3>2. CASE ~BurstSent /\ ~KeepSampling
      BY <2>3, <2>8, <3>2 DEF LiveConfirmedEmpty
    <3>3. CASE ~BurstSent /\ KeepSampling
      <4>1. Queues(s, TRUE, FALSE)
        BY <2>1, <2>8, <2>f, <3>3 DEF LiveConfirmedEmpty, Queues, Alerts
      <4> QED
        BY <4>1
    <3> QED
      BY <3>1, <3>2, <3>3
  <2>9. CASE LiveSends(s)
    <3> PICK f \in Frames : LiveSends(s)!(f)
      BY <2>9 DEF LiveSends
    <3>1. Folds(s, TRUE)
      BY <1>t, FoldShape DEF Scored
    <3>2. ShowsPerson(f) \in BOOLEAN
      BY DEF ShowsPerson
    <3>3. Sends(s, ShowsPerson(f))
      BY <2>1, <3>1 DEF Sends
    <3> QED
      BY <3>2, <3>3
  <2>10. CASE LiveRaises(s) \/ LiveCooldown(s)
    BY <1>1, <2>10
  <2> QED
    BY <2>4, <2>5, <2>6, <2>7, <2>8, <2>9, <2>10 DEF Live, LiveSendRefused
<1>3. CASE ~(LiveRaises(s) \/ LiveCooldown(s))
  <2>1. Process(s) /\ Admitted(s)
    BY <1>3 DEF Live, LiveBlind, LiveOpenBurstNoPerson, LiveDeferMotion, LiveMotionHeld,
       LiveConfirmedEmpty, LiveSends, LiveSendRefused, LiveSendable, Admitted
  <2> QED
    BY <1>2, <2>1
<1> QED
  BY <1>1, <1>3

\* What an iteration of the sampler does; its next grab lies ahead of it.
LEMMA SamplerShape ==
    ASSUME KnownInv, ~Refusals, Sampler
    PROVE  /\ phase = "sampler" /\ phase' = "sdcollect" /\ UNCHANGED <<now, events>>
           /\ Quiet \/ \E person \in BOOLEAN, path \in {"sampler", "hold"} : GroupSends(person, path)
           /\ group'.open => (group' = group /\ ~Due(group)) \/ group'.nextDue = now + Interval
<1>t. TypeInv /\ group \in Group
  BY DEF KnownInv, TypeInv, TypeOK
<1>1. phase = "sampler" /\ phase' = "sdcollect" /\ UNCHANGED <<now, events>>
  BY DEF Sampler, SamplerIdle, SamplerCloses, HoldSent, HoldRefused, HoldRipe,
     SamplerSuppresses, SamplerCooldown, SamplerSends, SamplerRefused, Grabs, SamplerDone, liveVars
<1>2. CASE SamplerIdle \/ SamplerCloses
  <2>1. /\ UNCHANGED <<gateVars, pending, phone>>
        /\ ~group'.open \/ (group' = group /\ (group.open => ~Due(group)))
    BY <1>2 DEF SamplerIdle, SamplerCloses, NoGroup
  <2> QED
    BY <1>1, <2>1 DEF Quiet, QueueEases, GroupEases, Alerts
<1>g. ASSUME Due(group), NEW f, NEW g, g = SamplerCounted(f)
      PROVE  /\ g \in Group /\ g.open = group.open /\ g.ev = group.ev /\ g.started = group.started
             /\ g.lastAt = group.lastAt /\ g.sent = group.sent
             /\ g.nextDue = now + Interval /\ g.frames = group.frames + 1
  <2> DEFINE h == Grabbed(f)
  <2>1. /\ h.open = group.open /\ h.ev = group.ev /\ h.started = group.started
        /\ h.lastAt = group.lastAt /\ h.sent = group.sent
        /\ h.nextDue = now + Interval /\ h.frames = group.frames + 1
    BY <1>t DEF Grabbed, Group
  <2>2. h \in Group
    <3>1. group.frames + 1 \in 0 .. MaxFrames /\ now + Interval \in Nat
      BY <1>t, <1>g, FlowAssumption DEF TypeInv, TypeOK, Group, Due, Times
    <3>2. (group.scored \/ f \in {"person", "marginal", "empty"}) \in BOOLEAN
      OBVIOUS
    <3> QED
      BY <1>t, <3>1, <3>2 DEF Grabbed, Group
  <2> HIDE DEF h
  <2>3. g = h \/ g = [h EXCEPT !.cand = @ + 1]
    BY <1>g DEF SamplerCounted, Counted, h
  <2>4. g \in Group
    BY <1>g, <2>2, CountedType DEF SamplerCounted, h
  <2> QED
    BY <2>1, <2>2, <2>3, <2>4 DEF Group
<1>3. CASE SamplerSuppresses \/ SamplerCooldown
  <2>1. PICK f \in Frames : /\ Grabs /\ UNCHANGED <<gateVars, pending, phone>>
                            /\ \/ group' = SamplerCounted(f)
                               \/ group' = [SamplerCounted(f) EXCEPT !.sent = TRUE]
    BY <1>3 DEF SamplerSuppresses, SamplerCooldown
  <2>2. Due(group) /\ group.open /\ ~group.sent
    BY <2>1 DEF Grabs, Due
  <2> DEFINE g == SamplerCounted(f)
  <2>3. /\ g \in Group /\ g.open = group.open /\ g.ev = group.ev /\ g.started = group.started
        /\ g.lastAt = group.lastAt /\ g.sent = group.sent
        /\ g.nextDue = now + Interval /\ g.frames = group.frames + 1
    BY <1>g, <2>2
  <2>s. group' = g \/ group' = [g EXCEPT !.sent = TRUE]
    BY <2>1
  <2> HIDE DEF g
  <2>4. /\ group'.ev = group.ev /\ group'.started = group.started /\ group'.lastAt = group.lastAt
        /\ group'.nextDue = now + Interval /\ group'.frames = group.frames + 1
    BY <2>3, <2>s DEF Group
  <2>5. GroupEases
    BY <1>1, <2>2, <2>4 DEF GroupEases, GroupGrabs
  <2> QED
    BY <1>1, <2>1, <2>4, <2>5 DEF Quiet, QueueEases, Alerts
<1>4. CASE SamplerSends
  <2>1. PICK f \in Frames : SamplerSends!(f)
    BY <1>4 DEF SamplerSends
  <2>2. Due(group) /\ group.open /\ ~group.sent
    BY <2>1 DEF Grabs, Due
  <2> DEFINE g == SamplerCounted(f)
  <2>3. /\ g \in Group /\ g.ev = group.ev /\ g.lastAt = group.lastAt
        /\ g.nextDue = now + Interval
    BY <1>g, <2>2
  <2>s. group' = [g EXCEPT !.sent = TRUE, !.delivered = TRUE]
    BY <2>1
  <2> HIDE DEF g
  <2>4. group'.sent /\ group'.ev = group.ev /\ group'.lastAt = group.lastAt
        /\ group'.nextDue = now + Interval
    BY <2>3, <2>s DEF Group
  <2>5. ClockOpen(lastAlert, group.etype, now) \/ OpenBurst(group.started, group.ev) # {}
    BY <2>1 DEF SamplerAdmitted
  <2>6. ShowsPerson(f) \in BOOLEAN
    BY DEF ShowsPerson
  <2>7. GroupSends(ShowsPerson(f), "sampler")
    BY <1>1, <2>1, <2>2, <2>4, <2>5 DEF GroupSends
  <2> QED
    BY <1>1, <2>4, <2>6, <2>7
<1>5. CASE HoldSent
  <2>1. GroupSends(TRUE, "hold")
    BY <1>1, <1>5 DEF HoldSent, HoldRipe, GroupSends, NoGroup
  <2>2. ~group'.open
    BY <1>5 DEF HoldSent, HoldRipe, NoGroup
  <2> QED
    BY <1>1, <2>1, <2>2
<1> QED
  BY <1>2, <1>3, <1>4, <1>5 DEF Sampler, HoldRefused, SamplerRefused

\* What the drain does with a card read it takes over.
LEMMA FinishShape ==
    ASSUME KnownInv, ~Refusals, NEW s \in Starts, Finish(s)
    PROVE  Quiet \/ \E person \in BOOLEAN : CardSends(s, person)
<1>1. CASE FinishSends(s)
  <2>1. PICK person \in BOOLEAN : FinishSends(s)!(person)
    BY <1>1 DEF FinishSends
  <2>2. CardSends(s, person)
    BY <2>1 DEF CardSends, FinishSendable, Finishes, Collects, liveVars
  <2> QED
    BY <2>2
<1>2. CASE ~FinishSends(s)
  <2>1. UNCHANGED <<gateVars, group, phone>>
    BY <1>2 DEF Finish, FinishBlocked, FinishEarlyLook, FinishExtend, FinishNobody, FinishNoMedia,
       FinishFallbackEmpty, FinishCooled, FinishHeld, FinishRefused
  <2>2. \/ UNCHANGED pending \/ Leaves(s)
        \/ \E early \in BOOLEAN :
              pending' = [pending EXCEPT ![s].rest = FALSE, ![s].due = s + SdDelay,
                                         ![s].early = early]
        \/ pending' = [pending EXCEPT ![s].ext = TRUE, ![s].due = now]
    <3>1. CASE FinishEarlyLook(s)
      <4>1. PICK r \in {"nobody", "noframes"} : FinishEarlyLook(s)!(r)
        BY <3>1 DEF FinishEarlyLook
      <4> QED
        BY <4>1
    <3>2. CASE ~FinishEarlyLook(s)
      BY <1>2, <3>2 DEF Finish, FinishBlocked, FinishExtend, FinishNobody, FinishNoMedia,
         FinishFallbackEmpty, FinishCooled, FinishHeld, FinishRefused
    <3> QED
      BY <3>1, <3>2
  <2>3. pending \in [Starts -> Entry]
    BY DEF KnownInv, TypeInv, TypeOK
  <2>4. QueueEases
    BY <2>2, <2>3 DEF QueueEases, Leaves, Entry
  <2> QED
    BY <2>1, <2>4 DEF Quiet, GroupEases, Alerts
<1> QED
  BY <1>1, <1>2

\* The rest of the loop puts nothing on the phone or in the queue.
LEMMA RestQuiet ==
    ASSUME KnownInv,
           \/ \E s \in Starts, k \in Kinds : CameraReports(s, k)
           \/ Tick \/ PollFails \/ Poll \/ LiveEnds \/ JobEnds \/ CollectNothing \/ ScanEnds
           \/ \E s \in Starts : Scan(s) \/ OutboxSends(s) \/ OutboxReviews(s)
           \/ OutboxEnds
    PROVE  Quiet
<1>1. UNCHANGED <<gateVars, group>>
  BY DEF CameraReports, Tick, PollFails, Poll, LiveEnds, JobEnds, CollectNothing, ScanEnds,
     OutboxEnds, OutboxSends, OutboxReviews, Scan, ScanKeeps, ScanLoses, ScanDrops, ScanSubmits,
     Ripe, Scans
<1>2. Alerts' = Alerts
  BY LoopAlerts DEF Silent
<1>3. QueueEases
  <2>1. CASE UNCHANGED pending
    BY <2>1 DEF QueueEases
  <2>2. CASE \E s \in Starts : Leaves(s)
    BY <2>2 DEF QueueEases, Leaves, KnownInv, TypeInv, TypeOK, Entry
  <2>3. CASE ScanEnds
    BY <2>3 DEF ScanEnds, QueueEases, NoEntry
  <2> QED
    BY <2>1, <2>2, <2>3 DEF CameraReports, Tick, PollFails, Poll, LiveEnds, JobEnds,
       CollectNothing, OutboxEnds, OutboxSends, OutboxReviews, Scan, ScanKeeps, ScanLoses,
       ScanDrops, ScanSubmits
<1> QED
  BY <1>1, <1>2, <1>3 DEF Quiet, GroupEases

-----------------------------------------------------------------------------
(* An event's turn, and what came before it *)

\* Only the camera adds events.
LEMMA EventsStep ==
    ASSUME KnownInv, Next
    PROVE  UNCHANGED events \/ \E s \in Starts, k \in Kinds : CameraReports(s, k)
<1>1. ASSUME NEW s \in Starts, Live(s) PROVE UNCHANGED events
  BY <1>1 DEF Live, LiveRaises, LiveCooldown, LiveBlind, LiveOpenBurstNoPerson, LiveDeferMotion,
     LiveMotionHeld, LiveConfirmedEmpty, LiveSends, LiveSendRefused, Process
<1>2. Poll \/ LiveEnds => UNCHANGED events
  BY DEF Poll, LiveEnds
<1>3. Aside => UNCHANGED events
  BY DEF Aside
<1> QED
  BY <1>1, <1>2, <1>3, SamplerAside, FinishAside, RestAside DEF Next

\* The two events the camera may report stay two.
LEMMA TwoStep ==
    ASSUME KnownInv, MaxEvents <= 2, TwoEvents, Next
    PROVE  TwoEvents'
<1>1. ASSUME NEW s \in Starts, NEW k \in Kinds, CameraReports(s, k)
      PROVE  TwoEvents'
  <2> DEFINE K == {t \in Starts : events[t] # "none"}
  <2>1. Cardinality(K) < MaxEvents /\ \A t \in Starts : Known(t)' => t \in K \/ t = s
    BY <1>1 DEF CameraReports, Known, KnownInv, TypeInv, TypeOK
  <2>2. IsFiniteSet(Starts)
    BY FlowAssumption, FS_Interval DEF Starts
  <2>3. IsFiniteSet(K) /\ Cardinality(K) \in Nat
    BY <2>2, FS_Subset, FS_CardinalityType
  <2>4. ASSUME NEW a \in K, NEW b \in K, a # b PROVE FALSE
    <3>1. IsFiniteSet({a}) /\ Cardinality({a}) = 1
      BY FS_Singleton
    <3>2. IsFiniteSet({a} \cup {b}) /\ Cardinality({a} \cup {b}) = 2
      <4>1. b \notin {a}
        BY <2>4
      <4>2. IsFiniteSet({a} \cup {b}) /\ Cardinality({a} \cup {b}) = Cardinality({a}) + 1
        BY <3>1, <4>1, FS_AddElement
      <4> QED
        BY <3>1, <4>2
    <3>3. Cardinality({a} \cup {b}) <= Cardinality(K)
      BY <2>3, FS_Subset, {a} \cup {b} \subseteq K
    <3> HIDE DEF K
    <3> QED
      BY <2>1, <2>3, <3>2, <3>3, FlowAssumption
  <2> QED
    BY <2>1, <2>4 DEF TwoEvents
<1>2. CASE UNCHANGED events
  BY <1>2 DEF TwoEvents, Known
<1> QED
  BY <1>1, <1>2, EventsStep

\* While an event has its turn, at most one other one has had its.
LEMMA OneBefore ==
    ASSUME KnownInv, WaterInv, TwoEvents, NEW s \in Starts, phase = "live", First(s, batch)
    PROVE  /\ ~Behind(s) /\ Known(s)
           /\ \A a, b \in Starts : Known(a) /\ Known(b) /\ Behind(a) /\ Behind(b) => a = b
<1>1. s \in batch /\ Known(s)
  BY DEF First, KnownInv, AllKnown
<1>2. ~Behind(s)
  BY <1>1, FlowAssumption DEF Behind, WaterInv, KnownInv, TypeInv, TypeOK, Times, Starts
<1> QED
  BY <1>1, <1>2 DEF TwoEvents

\* An admitted person event finds no photo of its passage, and no follow-up but one
\* that keeps the burst open.
LEMMA Clear ==
    ASSUME KnownInv, WaterInv, BurstInv, NEW s \in Starts, phase = "live", First(s, batch),
           events[s] = "person", Admitted(s)
    PROVE  /\ \A p \in PersonPhotos : ~SamePassage(p.start, s)
           /\ \A b \in Queued : EType(b) = "confirmed" /\ SamePassage(b, s) => b \in OpenBurst(s, s)
<1>1. /\ ~Behind(s)
      /\ \A a, b \in Starts : Known(a) /\ Known(b) /\ Behind(a) /\ Behind(b) => a = b
  BY OneBefore DEF BurstInv
<1>2. /\ \A b \in Queued : b \in Starts /\ Known(b) /\ Behind(b)
      /\ \A p \in Alerts : p.start \in Starts /\ Known(p.start) /\ Behind(p.start)
  BY DEF BurstInv, TouchInv, KnownInv, AllKnown, Queued, TypeInv, TypeOK, Photo, Alerts
<1>3. \A a, b \in Starts : SamePassage(a, b) => SamePassage(b, a)
  BY DEF SamePassage
<1>4. EType(s) = "confirmed" /\ (Open(s) \/ (CooledOpen(s) /\ OpenBurst(s, s) # {}))
  BY DEF EType, Admitted, CooledOpen
<1>5. Open(s) => \A k \in {"confirmed", "person_photo"} :
                   lastStart[k] = NoTime \/ ~SamePassage(s, lastStart[k])
  BY <1>4 DEF Open, CanAlert, PassageFree, PassageKeys
<1>6. ASSUME NEW p \in PersonPhotos, SamePassage(p.start, s) PROVE FALSE
  <2>1. p \in Alerts /\ p.person /\ events[p.start] = "person"
    BY DEF PersonPhotos
  <2>2. CASE Open(s)
    <3>1. lastStart["person_photo"] = p.start
      BY <1>1, <1>2, <2>1 DEF BurstInv, TouchInv, GateKeys
    <3>2. p.start # NoTime
      BY <1>2, <2>1 DEF Starts, NoTime
    <3> QED
      BY <1>2, <1>3, <1>5, <1>6, <2>1, <2>2, <3>1, <3>2
  <2>3. CASE OpenBurst(s, s) # {}
    <3>1. PICK t \in Queued : pending[t].keep /\ ~pending[t].done
      BY <2>3 DEF OpenBurst
    <3>2. t = p.start
      BY <1>1, <1>2, <2>1
    <3>3. SamePassage(t, t)
      BY CooldownAssumption, <1>2 DEF SamePassage, Starts
    <3> QED
      BY <2>1, <3>1, <3>2, <3>3 DEF BurstInv, Answered
  <2> QED
    BY <1>4, <2>2, <2>3
<1>7. ASSUME NEW b \in Queued, EType(b) = "confirmed", SamePassage(b, s)
      PROVE  b \in OpenBurst(s, s)
  <2>1. CASE Open(s)
    <3>1. lastStart["confirmed"] = b
      BY <1>1, <1>2, <1>7 DEF BurstInv, TouchInv, GateKeys, EventTypes
    <3>2. b # NoTime
      BY <1>2 DEF Starts, NoTime
    <3> QED
      BY <1>2, <1>3, <1>5, <1>7, <2>1, <3>1, <3>2
  <2>2. CASE OpenBurst(s, s) # {}
    <3>1. PICK t \in OpenBurst(s, s) : t \in Queued
      BY <2>2 DEF OpenBurst
    <3> QED
      BY <1>1, <1>2, <3>1
  <2> QED
    BY <1>4, <2>1, <2>2
<1> QED
  BY <1>6, <1>7

-----------------------------------------------------------------------------
(* The burst invariant, kind of step by kind of step *)

\* The parts of BurstInv that the sends and the queue disturb.
PassageInv ==
    /\ TouchInv /\ Answered /\ StoodDown /\ OnlyCard /\ Outside /\ ReadFirst /\ LastTouch

\* Every event that is handled is a reported one the live pass has behind it, and
\* stays so.
LEMMA Handled ==
    ASSUME KnownInv, WaterInv, TouchInv, Next
    PROVE  /\ \A b \in Queued : b \in Starts /\ Known(b) /\ Behind(b)
           /\ \A p \in Alerts : p.start \in Starts /\ Known(p.start) /\ Behind(p.start)
           /\ group.open => group.ev \in Starts /\ Known(group.ev) /\ Behind(group.ev)
           /\ \A s \in Starts : Known(s) => events'[s] = events[s] /\ Known(s)'
           /\ \A s \in Starts : Behind(s) => Behind(s)'
<1>1. /\ \A b \in Queued : b \in Starts /\ Known(b) /\ Behind(b)
      /\ \A p \in Alerts : p.start \in Starts /\ Known(p.start) /\ Behind(p.start)
      /\ group.open => group.ev \in Starts /\ Known(group.ev) /\ Behind(group.ev)
  BY DEF TouchInv, KnownInv, AllKnown, GroupNamed, Queued, TypeInv, GroupStart, TypeOK, Photo,
     Alerts, Known
<1>2. \A s \in Starts : Known(s) => events'[s] = events[s] /\ Known(s)'
  BY KindKept DEF KnownInv, Known
<1> QED
  BY <1>1, <1>2, BehindKept

\* Where nothing is sent, queued or folded, nothing changes but by losses.
LEMMA QuietBurst ==
    ASSUME KnownInv, WaterInv, BurstInv, Next, Quiet
    PROVE  PassageInv'
<1>1. /\ \A b \in Queued : b \in Starts /\ Known(b) /\ Behind(b)
      /\ \A p \in Alerts : p.start \in Starts /\ Known(p.start) /\ Behind(p.start)
      /\ group.open => group.ev \in Starts /\ Known(group.ev) /\ Behind(group.ev)
      /\ \A s \in Starts : Known(s) => events'[s] = events[s] /\ Known(s)'
      /\ \A s \in Starts : Behind(s) => Behind(s)'
  BY Handled DEF BurstInv
<1>2. /\ \A t \in Queued' : /\ t \in Queued /\ pending'[t].keep = pending[t].keep
                            /\ pending[t].done => pending'[t].done
                            /\ pending[t].gone => pending'[t].gone
                            /\ EType(t)' = EType(t)
      /\ Alerts' = Alerts /\ lastAlert' = lastAlert /\ lastStart' = lastStart
      /\ group'.open => /\ group.open /\ group'.ev = group.ev /\ group'.started = group.started
                        /\ group'.lastAt = group.lastAt /\ (group.sent => group'.sent)
  BY <1>1 DEF Quiet, QueueEases, GroupEases, Queued, gateVars, EType
<1>3. PersonGroup' => PersonGroup /\ group'.ev = group.ev /\ group'.started = group.started
  BY <1>1, <1>2 DEF PersonGroup
<1>4. PersonPhotos' = PersonPhotos
  BY <1>1, <1>2 DEF PersonPhotos
<1>5. \A t \in Queued' : events'[t] = events[t]
  BY <1>1, <1>2
<1>6. OpenBurst(group.started, group.ev)' \subseteq OpenBurst(group'.started, group'.ev)
  BY <1>2 DEF OpenBurst
<1>7. TouchInv'
  <2>1. (group.open => Behind(group.ev) /\ SamplerOn)'
    BY <1>1, <1>2 DEF BurstInv, TouchInv, Behind
  <2>2. \A k \in GateKeys : lastStart'[k] # NoTime =>
          lastStart'[k] \in Starts /\ (Behind(lastStart[k]) /\ Known(lastStart[k]))'
    BY <1>1, <1>2 DEF BurstInv, TouchInv, Behind, Known
  <2>3. /\ \A s \in Queued' : Behind(s)'
        /\ \A p \in Alerts' : Behind(p.start)'
        /\ \A s \in Queued' : EType(s)' = "confirmed" => lastStart'["confirmed"] # NoTime
        /\ \A p \in Alerts' : p.person => lastStart'["person_photo"] # NoTime
    BY <1>1, <1>2 DEF BurstInv, TouchInv
  <2> QED
    BY <2>1, <2>2, <2>3 DEF TouchInv
<1>8. Answered'
  BY <1>1, <1>2, <1>4, <1>5 DEF BurstInv, Answered
<1>9. StoodDown' /\ OnlyCard'
  BY <1>1, <1>2, <1>3, <1>4, <1>5 DEF BurstInv, StoodDown, OnlyCard
<1>10. Outside' /\ ReadFirst'
  BY <1>1, <1>2, <1>3, <1>6 DEF BurstInv, Outside, ReadFirst
<1>11. LastTouch'
  <2> SUFFICES ASSUME group'.open, pending'[group'.ev].queued, pending'[group'.ev].keep,
                      \A x \in Starts : Known(x)' /\ Behind(x)' => x = group'.ev
               PROVE  group'.lastAt <= lastAlert'["confirmed"]
    BY DEF LastTouch
  <2>1. group.open /\ group'.ev = group.ev /\ group.ev \in Queued' /\ pending[group.ev].keep
        /\ pending[group.ev].queued
    BY <1>1, <1>2 DEF Queued
  <2> QED
    BY <1>1, <1>2, <2>1 DEF BurstInv, LastTouch
<1> QED
  BY <1>7, <1>8, <1>9, <1>10, <1>11 DEF PassageInv

\* What an event that is watched or queued leaves: its own entry at most, in a burst
\* that is kept open or with a group that has stood down.
Joins(s, keep, sent) ==
    /\ \A t \in Queued' :
          \/ t \in Queued /\ pending'[t] = pending[t]
          \/ /\ t = s /\ pending'[s].keep = keep
             /\ EType(s) = "confirmed" => keep \/ sent
             /\ keep => EType(s) = "confirmed" /\ lastAlert'["confirmed"] = now
             /\ EType(s) = "confirmed" => lastStart'["confirmed"] # NoTime
    /\ lastAlert'["confirmed"] \in {lastAlert["confirmed"], now}
    /\ \A k \in GateKeys : lastStart'[k] \in {lastStart[k], s}

\* Both a watched and a queued event join so.
LEMMA JoinsShape ==
    ASSUME KnownInv, NEW s \in Starts, NEW keep \in BOOLEAN, NEW sent \in BOOLEAN,
           Queues(s, keep, sent) \/ (Watched(s) /\ sent = FALSE)
    PROVE  Joins(s, keep, sent)
<1>k. {"confirmed", "motion", "person_photo"} = GateKeys
  BY DEF GateKeys, EventTypes
<1>1. CASE Watched(s)
  <2>1. UNCHANGED <<pending, lastAlert, lastStart>>
    BY <1>1 DEF Watched, gateVars
  <2> QED
    BY <1>k, <2>1 DEF Joins, Queued
<1>2. CASE Queues(s, keep, sent)
  <2>0. PICK armed : Defer(s, armed, keep)
    BY <1>2 DEF Queues
  <2>1. \A t \in Queued' : \/ t \in Queued /\ pending'[t] = pending[t]
                           \/ t = s /\ pending'[s].keep = keep
    BY <2>0 DEF Defer, NewEntry, NoEntry, Queued, KnownInv, TypeInv, TypeOK
  <2>2. CASE Arm(EType(s), s, FALSE)
    <3>1. /\ \A k \in GateKeys : lastAlert'[k] \in {lastAlert[k], now}
          /\ \A k \in GateKeys : lastStart'[k] \in {lastStart[k], s}
      BY <2>2 DEF Arm, Stamp
    <3>2. EType(s) = "confirmed" => lastStart'["confirmed"] = s /\ lastAlert'["confirmed"] = now
      BY <1>k, <2>2 DEF Arm, Stamp
    <3>3. s # NoTime
      BY DEF Starts, NoTime
    <3> QED
      BY <1>k, <1>2, <2>1, <3>1, <3>2, <3>3 DEF Queues, Joins
  <2>3. CASE EType(s) = "motion" /\ UNCHANGED gateVars
    BY <1>k, <1>2, <2>1, <2>3 DEF Queues, Joins, gateVars
  <2> QED
    BY <1>2, <2>2, <2>3 DEF Queues
<1> QED
  BY <1>1, <1>2

\* An event that is watched or queued finds its passage clear, or joins the open
\* burst.
LEMMA JoinsBurst ==
    ASSUME GroupGap < Cooldown, KnownInv, WaterInv, BurstInv, Next, NEW s \in Starts,
           NEW keep \in BOOLEAN, NEW sent \in BOOLEAN, Turn(s), Folds(s, sent),
           Alerts' = Alerts, Joins(s, keep, sent)
    PROVE  PassageInv'
<1>1. /\ \A b \in Queued : b \in Starts /\ Known(b) /\ Behind(b)
      /\ \A p \in Alerts : p.start \in Starts /\ Known(p.start) /\ Behind(p.start)
      /\ group.open => group.ev \in Starts /\ Known(group.ev) /\ Behind(group.ev)
      /\ \A x \in Starts : Known(x) => events'[x] = events[x] /\ Known(x)'
      /\ \A x \in Starts : Behind(x) => Behind(x)'
  BY Handled DEF BurstInv
<1>2. /\ ~Behind(s) /\ Known(s) /\ Behind(s)' /\ phase = "live" /\ First(s, batch) /\ Admitted(s)
      /\ now' = now /\ events' = events
      /\ \A a, b \in Starts : Known(a) /\ Known(b) /\ Behind(a) /\ Behind(b) => a = b
  BY OneBefore DEF BurstInv, Turn
<1>3. /\ \A t \in Queued' :
            \/ t \in Queued /\ pending'[t] = pending[t]
            \/ /\ t = s /\ pending'[s].keep = keep /\ (EType(s) = "confirmed" => keep \/ sent)
               /\ keep => EType(s) = "confirmed" /\ lastAlert'["confirmed"] = now
               /\ EType(s) = "confirmed" => lastStart'["confirmed"] # NoTime
      /\ lastAlert'["confirmed"] \in {lastAlert["confirmed"], now}
      /\ \A k \in GateKeys : lastStart'[k] \in {lastStart[k], s}
  BY DEF Joins
<1>4. s \notin Queued /\ (\A p \in Alerts : p.start # s) /\ (group.open => group.ev # s)
  BY <1>1, <1>2
<1>5. \A t : EType(t)' = EType(t)
  BY <1>2 DEF EType
<1>6. PersonPhotos' = PersonPhotos /\ \A p \in PersonPhotos : p \in Alerts
  BY <1>2 DEF PersonPhotos
<1>7. ASSUME events[s] = "person"
      PROVE  /\ EType(s) = "confirmed"
             /\ \A p \in PersonPhotos : ~SamePassage(p.start, s)
             /\ \A b \in Queued : EType(b) = "confirmed" /\ SamePassage(b, s) => b \in OpenBurst(s, s)
  BY <1>2, <1>7, Clear DEF EType
<1>8. \A a, b \in Starts : SamePassage(a, b) => SamePassage(b, a)
  BY DEF SamePassage
<1>9. TouchInv'
  <2>1. (group.open => Behind(group.ev) /\ SamplerOn)'
    <3>1. group'.open => SamplerOn /\ (group'.ev = s \/ (group.open /\ group'.ev = group.ev))
      BY DEF Folds, EType
    <3> QED
      BY <1>1, <1>2, <3>1 DEF Behind
  <2>2. \A k \in GateKeys : lastStart'[k] # NoTime =>
          lastStart'[k] \in Starts /\ (Behind(lastStart[k]) /\ Known(lastStart[k]))'
    BY <1>1, <1>2, <1>3 DEF BurstInv, TouchInv, Behind, Known
  <2>s. s # NoTime /\ "confirmed" \in GateKeys /\ "person_photo" \in GateKeys
    BY DEF GateKeys, EventTypes, Starts, NoTime
  <2>3. /\ \A b \in Queued' : Behind(b)'
        /\ \A p \in Alerts' : Behind(p.start)'
        /\ \A b \in Queued' : EType(b)' = "confirmed" => lastStart'["confirmed"] # NoTime
        /\ \A p \in Alerts' : p.person => lastStart'["person_photo"] # NoTime
    BY <1>1, <1>2, <1>3, <1>5, <2>s DEF BurstInv, TouchInv
  <2> QED
    BY <2>1, <2>2, <2>3 DEF TouchInv
<1>10. Answered'
  <2> SUFFICES ASSUME NEW p \in PersonPhotos, NEW b \in Queued', events[b] = "person",
                      SamePassage(p.start, b)
               PROVE  pending'[b].done \/ (pending'[b].gone /\ ~pending'[b].keep)
    BY <1>2, <1>6 DEF Answered
  <2>1. b # s
    BY <1>7
  <2> QED
    BY <1>3, <2>1 DEF BurstInv, Answered
<1>11. ASSUME PersonGroup', group'.ev = s
       PROVE  StoodDown' /\ OnlyCard' /\ Outside' /\ ReadFirst'
  <2>1. events[s] = "person" /\ ~sent
    BY <1>2, <1>11 DEF PersonGroup, Folds
  <2>2. StoodDown'
    <3> SUFFICES ASSUME NEW b \in Queued', events[b] = "person", ~pending'[b].keep,
                        SamePassage(s, b)
                 PROVE  FALSE
      BY <1>2, <1>11 DEF StoodDown
    <3>1. b \in Queued /\ pending'[b] = pending[b]
      BY <1>3, <1>7, <2>1
    <3> QED
      BY <1>1, <1>7, <1>8, <2>1, <3>1 DEF OpenBurst, EType
  <2>3. OnlyCard'
    BY <1>6, <1>7, <1>11, <2>1 DEF OnlyCard
  <2>4. Outside'
    <3> SUFFICES ASSUME NEW t \in Queued', t # s, ~SamePassage(t, s),
                        t \in OpenBurst(group.started, group.ev)'
                 PROVE  FALSE
      BY <1>11 DEF Outside
    <3>1. /\ t \in Queued /\ pending'[t] = pending[t] /\ t \in Starts
          /\ EType(t) = "confirmed" /\ pending[t].keep /\ ~pending[t].done
      BY <1>1, <1>3, <1>5 DEF OpenBurst
    <3>2. CASE group'.started = s
      BY <1>11, <3>2, <3>1, CooldownAssumption DEF OpenBurst, SamePassage, Starts
    <3>3. CASE group.open /\ now - group.lastAt <= GroupGap
      <4>1. t = group.ev /\ \A x \in Starts : Known(x) /\ Behind(x) => x = group.ev
        BY <1>1, <1>2, <3>1, <3>3
      <4>2. group.lastAt <= lastAlert["confirmed"]
        BY <3>1, <3>3, <4>1 DEF BurstInv, LastTouch, Queued
      <4>3. OpenBurst(s, s) = {}
        <5>1. \A u \in OpenBurst(s, s) : u = t
          BY <1>1, <1>2, <3>1 DEF OpenBurst
        <5>2. t \in OpenBurst(s, s) => SamePassage(t, s)
          BY <3>1, CooldownAssumption DEF OpenBurst, SamePassage, Starts
        <5> QED
          BY <5>1, <5>2
      <4>4. Open(s)
        BY <1>2, <2>1, <4>3 DEF Admitted, CooledOpen
      <4>5. ShouldSend(lastAlert["confirmed"], now)
        BY <4>4 DEF Open, CanAlert, ClockOpen
      <4>6. group.lastAt \in Nat /\ now \in Nat /\ lastAlert["confirmed"] \in Int
        BY DEF KnownInv, TypeInv, TypeOK, Group, Times, GateKeys, EventTypes, MaybeTime, NoTime
      <4> QED
        BY <3>3, <4>2, <4>5, <4>6, FlowAssumption, CooldownAssumption DEF ShouldSend, NoTime
    <3> QED
      BY <1>11, <3>2, <3>3 DEF Folds, PersonGroup
  <2>5. ReadFirst'
    BY <1>4, <1>11 DEF ReadFirst
  <2> QED
    BY <2>2, <2>3, <2>4, <2>5
<1>12. ASSUME PersonGroup', group'.ev # s
      PROVE  StoodDown' /\ OnlyCard' /\ Outside' /\ ReadFirst'
  <2>1. /\ group.open /\ group'.ev = group.ev /\ group'.started = group.started
        /\ EType(s) # "confirmed" /\ (group.sent => group'.sent)
    BY <1>12 DEF Folds, PersonGroup
  <2>2. PersonGroup
    BY <1>2, <1>12, <2>1 DEF PersonGroup
  <2>3. \A t \in Queued' : EType(t) = "confirmed" => t \in Queued /\ pending'[t] = pending[t]
    BY <1>3, <2>1
  <2>4. StoodDown' /\ OnlyCard'
    BY <1>2, <1>6, <2>1, <2>2, <2>3 DEF BurstInv, StoodDown, OnlyCard, EType
  <2>5. OpenBurst(group.started, group.ev)' \subseteq OpenBurst(group.started, group.ev)
    BY <1>5, <2>1, <2>3 DEF OpenBurst
  <2>6. Outside'
    <3> SUFFICES ASSUME NEW t \in Queued', t # group.ev,
                        t \in OpenBurst(group.started, group.ev)'
                 PROVE  SamePassage(t, group.ev)
      BY <2>1 DEF Outside
    <3>1. t \in Queued /\ t \in OpenBurst(group.started, group.ev)
      BY <2>5 DEF OpenBurst
    <3> QED
      BY <2>2, <3>1 DEF BurstInv, Outside
  <2>7. ReadFirst'
    BY <1>5, <2>1, <2>2, <2>3 DEF BurstInv, ReadFirst
  <2> QED
    BY <2>4, <2>6, <2>7
<1>13. ASSUME ~PersonGroup'
      PROVE  StoodDown' /\ OnlyCard' /\ Outside' /\ ReadFirst'
  BY <1>13 DEF StoodDown, OnlyCard, Outside, ReadFirst
<1>14. LastTouch'
  <2> SUFFICES ASSUME group'.open, pending'[group'.ev].queued, pending'[group'.ev].keep,
                      \A x \in Starts : Known(x)' /\ Behind(x)' => x = group'.ev
               PROVE  group'.lastAt <= lastAlert'["confirmed"]
    BY DEF LastTouch
  <2>1. group'.ev = s /\ group'.lastAt = now
    BY <1>1, <1>2 DEF Folds
  <2>2. lastAlert'["confirmed"] = now
    BY <1>3, <1>4, <2>1 DEF Queued
  <2>3. now \in Nat
    BY DEF KnownInv, TypeInv, TypeOK, Times
  <2> QED
    BY <2>1, <2>2, <2>3
<1> QED
  BY <1>9, <1>10, <1>11, <1>12, <1>13, <1>14 DEF PassageInv

\* A photo of event s, its arming of the gate and its marks in the queue.
Tell(s, person, path) ==
    /\ path # "outbox" /\ ToPhone(s, person, path) /\ UNCHANGED <<now, events>>
    /\ \E etype \in EventTypes : Arm(etype, s, person)
    /\ QueueEases
    /\ Known(s) /\ Behind(s)'
    /\ group'.open => SamplerOn /\ (group'.ev = s \/ (group.open /\ group'.ev = group.ev))

PhotoOf(s, person, path) == [start |-> s, at |-> now, person |-> person, path |-> path]

\* What such a photo leaves of the phone, the queue and the stamps.
LEMMA TellShape ==
    ASSUME KnownInv, WaterInv, TouchInv, Next, NEW s \in Starts, NEW person \in BOOLEAN,
           NEW path, Tell(s, person, path)
    PROVE  /\ \A p \in Alerts' : p \in Alerts \/ p = PhotoOf(s, person, path)
           /\ \A p \in PersonPhotos' :
                 \/ p \in PersonPhotos
                 \/ p = PhotoOf(s, person, path) /\ person /\ events[s] = "person"
           /\ \A t \in Queued' : /\ t \in Queued /\ pending'[t].keep = pending[t].keep
                                 /\ pending[t].done => pending'[t].done
                                 /\ pending[t].gone => pending'[t].gone
           /\ lastAlert'["confirmed"] \in {lastAlert["confirmed"], now}
           /\ TouchInv'
<1> DEFINE new == PhotoOf(s, person, path)
<1>1. /\ phone' = phone \cup {new} /\ new.start = s /\ new.at = now /\ new.person = person
      /\ new.path = path
  BY DEF Tell, ToPhone, PhotoOf
<1> HIDE DEF new
<1>2. \A p \in Alerts' : p \in Alerts \/ p = new
  BY <1>1 DEF Alerts
<1>3. events' = events /\ now' = now
  BY DEF Tell
<1>4. \A p \in PersonPhotos' : p \in PersonPhotos \/ (p = new /\ person /\ events[s] = "person")
  BY <1>1, <1>2, <1>3 DEF PersonPhotos
<1>5. \A t \in Queued' : /\ t \in Queued /\ pending'[t].keep = pending[t].keep
                         /\ pending[t].done => pending'[t].done
                         /\ pending[t].gone => pending'[t].gone
  BY DEF Tell, QueueEases, Queued
<1>k. {"confirmed", "motion", "person_photo"} = GateKeys
  BY DEF GateKeys, EventTypes
<1>6. /\ \A k \in GateKeys : lastAlert'[k] \in {lastAlert[k], now}
      /\ \A k \in GateKeys : lastStart'[k] \in {lastStart[k], s}
      /\ person => lastStart'["person_photo"] = s
  BY <1>k DEF Tell, Arm, Stamp
<1>7. TouchInv'
  <2>1. /\ \A b \in Queued : b \in Starts /\ Known(b) /\ Behind(b)
        /\ \A p \in Alerts : p.start \in Starts /\ Known(p.start) /\ Behind(p.start)
        /\ group.open => group.ev \in Starts /\ Known(group.ev) /\ Behind(group.ev)
        /\ \A x \in Starts : Known(x) => events'[x] = events[x] /\ Known(x)'
        /\ \A x \in Starts : Behind(x) => Behind(x)'
    BY Handled
  <2>2. Known(s)' /\ Behind(s)' /\ s # NoTime
    BY <2>1 DEF Tell, Starts, NoTime
  <2>3. (group.open => Behind(group.ev) /\ SamplerOn)'
    BY <2>1, <2>2 DEF Tell, Behind
  <2>4. \A k \in GateKeys : lastStart'[k] # NoTime =>
          lastStart'[k] \in Starts /\ (Behind(lastStart[k]) /\ Known(lastStart[k]))'
    BY <1>6, <2>1, <2>2 DEF TouchInv, Behind, Known
  <2>5. \A b \in Queued' : EType(b)' = EType(b)
    BY <1>3 DEF EType
  <2>6. /\ \A b \in Queued' : Behind(b)'
        /\ \A p \in Alerts' : Behind(p.start)'
        /\ \A b \in Queued' : EType(b)' = "confirmed" => lastStart'["confirmed"] # NoTime
        /\ \A p \in Alerts' : p.person => lastStart'["person_photo"] # NoTime
    BY <1>1, <1>2, <1>5, <1>6, <1>k, <2>1, <2>2, <2>5 DEF TouchInv
  <2> QED
    BY <2>3, <2>4, <2>6 DEF TouchInv
<1> QED
  BY <1>2, <1>4, <1>5, <1>6, <1>7, <1>k DEF new

\* Marking a passage only marks.
LEMMA NoteEases ==
    ASSUME TypeInv, NEW a, NEW b, NEW person, pending' = NotePassage(a, b, person)
    PROVE  /\ QueueEases
           /\ \A t \in OpenBurst(a, b) : person => pending'[t].done
<1>1. pending \in [Starts -> Entry]
  BY DEF TypeInv, TypeOK
<1> QED
  BY <1>1 DEF NotePassage, QueueEases, Entry, OpenBurst, Queued

\* A live photo of an admitted event is the first of its passage, and marks what is
\* queued of it.
LEMMA SendsBurst ==
    ASSUME KnownInv, WaterInv, BurstInv, Next, NEW s \in Starts, NEW person \in BOOLEAN,
           Sends(s, person)
    PROVE  PassageInv'
<1>1. /\ \A b \in Queued : b \in Starts /\ Known(b) /\ Behind(b)
      /\ \A x \in Starts : Known(x) => Known(x)'
  BY Handled DEF BurstInv
<1>2. /\ ~Behind(s) /\ Known(s) /\ Behind(s)' /\ phase = "live" /\ First(s, batch) /\ Admitted(s)
  BY OneBefore DEF BurstInv, Sends, Turn
<1>3. QueueEases /\ \A t \in OpenBurst(s, s) : person => pending'[t].done
  BY NoteEases DEF Sends, KnownInv
<1>4. Tell(s, person, "live")
  <2>1. EType(s) \in EventTypes
    BY DEF EType, EventTypes
  <2>2. group'.open => SamplerOn /\ (group'.ev = s \/ (group.open /\ group'.ev = group.ev))
    BY DEF Sends, Folds, EType
  <2> QED
    BY <1>2, <1>3, <2>1, <2>2 DEF Tell, Sends, Turn
<1> DEFINE new == PhotoOf(s, person, "live")
<1>5. /\ \A p \in PersonPhotos' :
            p \in PersonPhotos \/ (p = new /\ person /\ events[s] = "person")
      /\ \A t \in Queued' : /\ t \in Queued /\ pending'[t].keep = pending[t].keep
                            /\ pending[t].done => pending'[t].done
                            /\ pending[t].gone => pending'[t].gone
      /\ TouchInv'
  BY <1>4, TellShape DEF BurstInv
<1>6. new.start = s
  BY DEF PhotoOf
<1> HIDE DEF new
<1>7. ~PersonGroup'
  BY DEF Sends, Folds, PersonGroup
<1>8. Answered'
  <2> SUFFICES ASSUME NEW p \in PersonPhotos', NEW b \in Queued', events'[b] = "person",
                      SamePassage(p.start, b)
               PROVE  pending'[b].done \/ (pending'[b].gone /\ ~pending'[b].keep)
    BY DEF Answered
  <2>1. events[b] = "person" /\ b \in Queued /\ EType(b) = "confirmed"
    BY <1>5 DEF Sends, Turn, EType
  <2>2. CASE p \in PersonPhotos
    BY <1>5, <2>1, <2>2 DEF BurstInv, Answered
  <2>3. CASE p = new /\ person /\ events[s] = "person"
    <3>1. SamePassage(b, s)
      BY <1>6, <2>3 DEF SamePassage
    <3>2. b \in OpenBurst(s, s)
      BY <1>2, <2>1, <2>3, <3>1, Clear
    <3> QED
      BY <1>3, <2>3, <3>2
  <2> QED
    BY <1>5, <2>2, <2>3
<1>9. LastTouch'
  <2> SUFFICES ASSUME group'.open, pending'[group'.ev].queued,
                      \A x \in Starts : Known(x)' /\ Behind(x)' => x = group'.ev
               PROVE  FALSE
    BY DEF LastTouch
  <2>1. s \in Queued'
    BY <1>1, <1>2 DEF Queued
  <2> QED
    BY <1>1, <1>2, <1>5, <2>1
<1> QED
  BY <1>5, <1>7, <1>8, <1>9 DEF PassageInv, StoodDown, OnlyCard, Outside, ReadFirst

\* A photo of the group is the first of its passage but for the card's, and marks
\* what is queued of it.
LEMMA GroupBurst ==
    ASSUME KnownInv, WaterInv, BurstInv, Next, NEW person \in BOOLEAN,
           NEW path \in {"sampler", "hold"}, GroupSends(person, path)
    PROVE  PassageInv'
<1>0. PICK s \in Starts : s = group.ev
  BY DEF KnownInv, TypeInv, GroupStart, GroupSends
<1>1. /\ \A b \in Queued : b \in Starts /\ Known(b) /\ Behind(b)
      /\ s \in Starts /\ Known(s) /\ Behind(s)'
  <2>1. Known(s) /\ Behind(s)
    BY <1>0, Handled DEF BurstInv, GroupSends
  <2> QED
    BY <2>1, Handled DEF BurstInv
<1>2. QueueEases /\ \A t \in OpenBurst(group.started, group.ev) : person => pending'[t].done
  BY NoteEases DEF GroupSends, KnownInv
<1>3. Tell(s, person, path)
  <2>1. group.etype \in EventTypes /\ "motion" \in EventTypes
    BY DEF KnownInv, TypeInv, TypeOK, Group, EventTypes
  <2>2. group'.open => SamplerOn /\ group'.ev = s
    BY <1>0 DEF GroupSends, BurstInv, TouchInv
  <2> QED
    BY <1>0, <1>1, <1>2, <2>1, <2>2 DEF Tell, GroupSends
<1>4. /\ \A p \in PersonPhotos' :
            p \in PersonPhotos \/ (p = PhotoOf(s, person, path) /\ person /\ events[s] = "person")
      /\ \A t \in Queued' : /\ t \in Queued /\ pending'[t].keep = pending[t].keep
                            /\ pending[t].done => pending'[t].done
                            /\ pending[t].gone => pending'[t].gone
      /\ lastAlert'["confirmed"] \in {lastAlert["confirmed"], now}
      /\ TouchInv'
  BY <1>1, <1>3, TellShape DEF BurstInv
<1>5. ~PersonGroup'
  BY DEF GroupSends, PersonGroup
<1>6. Answered'
  <2> SUFFICES ASSUME NEW p \in PersonPhotos', NEW b \in Queued', events'[b] = "person",
                      SamePassage(p.start, b)
               PROVE  pending'[b].done \/ (pending'[b].gone /\ ~pending'[b].keep)
    BY DEF Answered
  <2>1. events[b] = "person" /\ b \in Queued /\ EType(b) = "confirmed" /\ b \in Starts
    BY <1>1, <1>4 DEF GroupSends, EType
  <2>2. CASE p \in PersonPhotos
    BY <1>4, <2>1, <2>2 DEF BurstInv, Answered
  <2>3. CASE p = PhotoOf(s, person, path) /\ person /\ events[s] = "person"
    <3>1. SamePassage(s, b)
      BY <2>3 DEF PhotoOf
    <3>2. PersonGroup
      BY <1>0, <2>3 DEF PersonGroup, GroupSends
    <3>3. pending[b].keep
      BY <1>0, <2>1, <3>1, <3>2 DEF BurstInv, StoodDown
    <3>4. CASE pending[b].done
      BY <1>4, <3>4
    <3>5. CASE ~pending[b].done
      <4>1. group.started \in Int /\ s \in Int /\ b \in Int
        BY <1>1, <2>1 DEF KnownInv, TypeInv, TypeOK, Group, Times, Starts
      <4>2. b \in OpenBurst(group.started, group.ev)
        BY <1>0, <2>1, <3>1, <3>3, <3>5, <4>1, CooldownAssumption DEF OpenBurst, SamePassage
      <4> QED
        BY <1>2, <2>3, <4>2
    <3> QED
      BY <3>4, <3>5
  <2> QED
    BY <1>4, <2>2, <2>3
<1>7. LastTouch'
  <2> SUFFICES ASSUME group'.open, pending'[group'.ev].queued, pending'[group'.ev].keep,
                      \A x \in Starts : Known(x)' /\ Behind(x)' => x = group'.ev
               PROVE  group'.lastAt <= lastAlert'["confirmed"]
    BY DEF LastTouch
  <2>1. group'.ev = s /\ group'.lastAt = group.lastAt /\ group.open
    BY <1>0 DEF GroupSends
  <2>2. s \in Queued' /\ s \in Queued /\ pending[s].keep
    BY <1>1, <1>4, <2>1 DEF Queued
  <2>3. \A x \in Starts : Known(x) /\ Behind(x) => x = s
    BY <1>0, <2>1, Handled DEF BurstInv
  <2>4. group.lastAt <= lastAlert["confirmed"] /\ group.lastAt <= now
    BY <1>0, <2>1, <2>2, <2>3 DEF BurstInv, LastTouch, GroupTimes, Queued
  <2> QED
    BY <1>4, <2>1, <2>4
<1> QED
  BY <1>4, <1>5, <1>6, <1>7 DEF PassageInv, StoodDown, OnlyCard, Outside, ReadFirst

\* The card's photo of a queued event answers its own follow-up, the only one of the
\* passage.
LEMMA CardBurst ==
    ASSUME KnownInv, WaterInv, QueueOnePerPassage, BurstInv, Next, NEW s \in Starts,
           NEW person \in BOOLEAN, CardSends(s, person)
    PROVE  PassageInv'
<1>1. /\ \A b \in Queued : b \in Starts /\ Known(b) /\ Behind(b)
      /\ group.open => group.ev \in Starts /\ Known(group.ev)
      /\ \A x \in Starts : Behind(x) => Behind(x)'
      /\ \A x \in Starts : Known(x) => Known(x)'
  BY Handled DEF BurstInv
<1>2. s \in Queued /\ s \in Starts /\ ~pending[s].done /\ ~pending[s].gone
  BY FlowAssumption DEF CardSends, BurstInv, DrainInv, Queued, Blocked, Starts
<1>n. /\ \A t \in Starts : /\ pending'[t].queued = pending[t].queued
                           /\ pending'[t].keep = pending[t].keep
                           /\ pending[t].done => pending'[t].done
                           /\ pending[t].gone => pending'[t].gone
      /\ person /\ s \in OpenBurst(s, s) => pending'[s].done
      /\ pending'[s].gone
  <2>1. NotePassage(s, s, person) \in [Starts -> Entry] /\ pending \in [Starts -> Entry]
    BY NotePassageType DEF KnownInv, TypeInv, TypeOK
  <2> QED
    BY <2>1 DEF CardSends, NotePassage, Entry
<1>3. Tell(s, person, "sd")
  <2>1. EType(s) \in EventTypes
    BY DEF EType, EventTypes
  <2>2. group'.open => SamplerOn /\ group.open /\ group'.ev = group.ev
    BY DEF CardSends, BurstInv, TouchInv, KnownInv, TypeInv, TypeOK, Group
  <2>3. QueueEases
    BY <1>n DEF QueueEases
  <2> QED
    BY <1>1, <1>2, <2>1, <2>2, <2>3 DEF Tell, CardSends
<1>4. /\ \A p \in Alerts' : p \in Alerts \/ p = PhotoOf(s, person, "sd")
      /\ \A p \in PersonPhotos' :
            p \in PersonPhotos \/ (p = PhotoOf(s, person, "sd") /\ person /\ events[s] = "person")
      /\ \A t \in Queued' : /\ t \in Queued /\ pending'[t].keep = pending[t].keep
                            /\ pending[t].done => pending'[t].done
                            /\ pending[t].gone => pending'[t].gone
      /\ lastAlert'["confirmed"] \in {lastAlert["confirmed"], now}
      /\ TouchInv'
  BY <1>3, TellShape DEF BurstInv
<1>5. /\ group'.open = group.open /\ group'.ev = group.ev /\ group'.started = group.started
      /\ group'.sent = group.sent /\ group'.lastAt = group.lastAt
      /\ events' = events
  BY DEF CardSends, KnownInv, TypeInv, TypeOK, Group
<1>6. /\ PhotoOf(s, person, "sd").path = "sd" /\ PhotoOf(s, person, "sd").start = s
      /\ \A t : EType(t)' = EType(t)
      /\ PersonGroup' = PersonGroup
  BY <1>5 DEF PhotoOf, EType, PersonGroup
<1>o. ASSUME NEW b \in Queued, EType(b) = "confirmed", EType(s) = "confirmed",
             SamePassage(s, b)
      PROVE  b = s
  BY <1>2, <1>o DEF QueueOnePerPassage
<1>7. Answered'
  <2> SUFFICES ASSUME NEW p \in PersonPhotos', NEW b \in Queued', events'[b] = "person",
                      SamePassage(p.start, b)
               PROVE  pending'[b].done \/ (pending'[b].gone /\ ~pending'[b].keep)
    BY DEF Answered
  <2>1. events[b] = "person" /\ b \in Queued /\ EType(b) = "confirmed" /\ b \in Starts
    BY <1>1, <1>4, <1>5 DEF EType
  <2>2. CASE p \in PersonPhotos
    BY <1>4, <2>1, <2>2 DEF BurstInv, Answered
  <2>3. CASE p = PhotoOf(s, person, "sd") /\ person /\ events[s] = "person"
    <3>1. b = s
      BY <1>6, <1>o, <2>1, <2>3 DEF EType
    <3>2. CASE ~pending[s].keep
      BY <1>4, <1>n, <3>1, <3>2
    <3>3. CASE pending[s].keep
      <4>1. s \in OpenBurst(s, s)
        BY <1>2, <2>1, <3>1, <3>3, CooldownAssumption DEF OpenBurst, Starts
      <4> QED
        BY <1>n, <2>3, <3>1, <4>1
    <3> QED
      BY <3>2, <3>3
  <2> QED
    BY <1>4, <2>2, <2>3
<1>8. StoodDown' /\ OnlyCard'
  BY <1>4, <1>5, <1>6 DEF BurstInv, StoodDown, OnlyCard
<1>9. Outside'
  <2>1. OpenBurst(group.started, group.ev)' \subseteq OpenBurst(group.started, group.ev)
    BY <1>4, <1>5, <1>6 DEF OpenBurst
  <2> QED
    BY <1>4, <1>5, <1>6, <2>1 DEF BurstInv, Outside
<1>10. ReadFirst'
  <2> SUFFICES ASSUME PersonGroup, NEW t \in Queued', t # group.ev, EType(t) = "confirmed",
                      SamePassage(t, group.ev), NEW p \in Alerts', p.start = group.ev,
                      p.path = "sd"
               PROVE  FALSE
    BY <1>5, <1>6 DEF ReadFirst
  <2>1. t \in Queued
    BY <1>4
  <2>2. p \notin Alerts
    BY <2>1 DEF BurstInv, ReadFirst
  <2>3. group.ev = s
    BY <1>4, <1>6, <2>2
  <2>4. EType(s) = "confirmed" /\ SamePassage(s, t)
    BY <2>3 DEF PersonGroup, EType, SamePassage
  <2> QED
    BY <1>o, <2>1, <2>3, <2>4
<1>11. LastTouch'
  <2> SUFFICES ASSUME group'.open, pending'[group'.ev].queued, pending'[group'.ev].keep,
                      \A x \in Starts : Known(x)' /\ Behind(x)' => x = group'.ev
               PROVE  group'.lastAt <= lastAlert'["confirmed"]
    BY DEF LastTouch
  <2>1. /\ group.open /\ pending[group.ev].queued /\ pending[group.ev].keep
        /\ \A x \in Starts : Known(x) /\ Behind(x) => x = group.ev
    BY <1>1, <1>5, <1>n
  <2>2. group.lastAt <= lastAlert["confirmed"] /\ group.lastAt <= now
    BY <2>1 DEF BurstInv, LastTouch, GroupTimes
  <2> QED
    BY <1>4, <1>5, <2>2
<1> QED
  BY <1>4, <1>7, <1>8, <1>9, <1>10, <1>11 DEF PassageInv

-----------------------------------------------------------------------------
(* The drain and the clocks *)

\* Every entry stays, undecided if it was; a new one is undecided.
HoldsOn ==
    /\ \A t \in Starts : pending[t].queued =>
          pending'[t].queued /\ pending'[t].gone = pending[t].gone
    /\ \A t \in Starts : pending'[t].queued => pending[t].queued \/ ~pending'[t].gone

\* The live pass and the sampler take nothing from the queue.
LEMMA HoldsLive ==
    ASSUME KnownInv, Sampler \/ \E s \in Starts : Live(s)
    PROVE  HoldsOn
<1>1. pending \in [Starts -> Entry]
  BY DEF KnownInv, TypeInv, TypeOK
<1>2. CASE UNCHANGED pending
  BY <1>2 DEF HoldsOn
<1>3. ASSUME NEW a, NEW b, NEW person, pending' = NotePassage(a, b, person) PROVE HoldsOn
  BY <1>1, <1>3 DEF NotePassage, HoldsOn, Entry
<1>4. ASSUME NEW s \in Starts, NEW armed, NEW keep, Defer(s, armed, keep) PROVE HoldsOn
  <2>1. pending[s].queued => Duplicate(s)
    BY CooldownAssumption DEF Duplicate, Queued, SamePassage, Starts, EType
  <2> QED
    BY <1>1, <1>4, <2>1 DEF Defer, NewEntry, NoEntry, HoldsOn
<1>5. ASSUME NEW s \in Starts, Live(s) PROVE HoldsOn
  <2>1. CASE LiveSends(s)
    BY <1>3, <2>1 DEF LiveSends
  <2>2. CASE ~LiveSends(s)
    <3>1. UNCHANGED pending \/ \E armed, keep : Defer(s, armed, keep)
      BY <1>5, <2>2 DEF Live, LiveRaises, LiveCooldown, LiveBlind, LiveOpenBurstNoPerson,
         LiveDeferMotion, LiveMotionHeld, LiveConfirmedEmpty, LiveSendRefused, ArmAndDefer, Unsent
    <3> QED
      BY <1>2, <1>4, <3>1
  <2> QED
    BY <2>1, <2>2
<1>6. ASSUME Sampler PROVE HoldsOn
  <2>1. CASE HoldSent \/ SamplerSends
    BY <1>3, <2>1 DEF HoldSent, SamplerSends
  <2>2. CASE ~(HoldSent \/ SamplerSends)
    BY <1>2, <1>6, <2>2 DEF Sampler, SamplerIdle, SamplerCloses, HoldRefused, SamplerSuppresses,
       SamplerCooldown, SamplerRefused
  <2> QED
    BY <2>1, <2>2
<1> QED
  BY <1>5, <1>6

\* The drain decides each entry once, after its read.
LEMMA DrainStep ==
    ASSUME KnownInv, DrainInv, Next
    PROVE  DrainInv'
<1>t. pending \in [Starts -> Entry] /\ Queued \subseteq Starts /\ todo \subseteq Starts /\ 0 \notin Starts
  BY FlowAssumption DEF KnownInv, TypeInv, TypeOK, Queued, Starts
<1>1. ASSUME NEW s \in Starts, Live(s) PROVE DrainInv'
  <2>1. /\ UNCHANGED <<todo, job>> /\ phase = "live" /\ phase' \notin {"sdcollect", "sdscan"}
    BY <1>1 DEF Live, LiveRaises, LiveCooldown, LiveBlind, LiveOpenBurstNoPerson, LiveDeferMotion,
       LiveMotionHeld, LiveConfirmedEmpty, LiveSends, LiveSendRefused, Process, readVars, loopVars
  <2>2. HoldsOn
    BY <1>1, HoldsLive
  <2> QED
    BY <1>t, <2>1, <2>2 DEF DrainInv, HoldsOn, Queued, KnownInv, TypeInv, TypeOK
<1>2. CASE Sampler
  <2>1. /\ todo' = Queued /\ UNCHANGED job /\ phase = "sampler" /\ phase' = "sdcollect"
    BY <1>2 DEF Sampler, SamplerIdle, SamplerCloses, HoldSent, HoldRefused, HoldRipe,
       SamplerSuppresses, SamplerCooldown, SamplerSends, SamplerRefused, Grabs, SamplerDone
  <2>2. HoldsOn
    BY <1>2, HoldsLive
  <2> QED
    BY <1>t, <2>1, <2>2 DEF DrainInv, HoldsOn, Queued, KnownInv, TypeInv, TypeOK
<1>3. ASSUME NEW s \in Starts, Finish(s) PROVE DrainInv'
  <2>1. phase' = "sdscan" /\ job' = 0 /\ todo' = todo \ {s}
    BY <1>3 DEF Finish, FinishBlocked, FinishEarlyLook, FinishExtend, FinishNobody, FinishNoMedia,
       FinishFallbackEmpty, FinishCooled, FinishHeld, FinishSends, FinishRefused, FinishSendable,
       Unread, Finishes, Collects
  <2>2. ASSUME NEW t \in Starts, t # s
        PROVE  pending'[t].queued = pending[t].queued /\ pending'[t].gone = pending[t].gone
    <3>1. CASE FinishSends(s)
      <4>1. PICK person \in BOOLEAN :
                pending' = [NotePassage(s, s, person) EXCEPT ![s].gone = TRUE]
        BY <3>1 DEF FinishSends
      <4> QED
        BY <1>t, <2>2, <4>1 DEF NotePassage, Entry
    <3>2. CASE ~FinishSends(s)
      <4>1. pending'[t] = pending[t]
        BY <1>3, <1>t, <2>2, <3>2 DEF Finish, FinishBlocked, FinishEarlyLook, FinishExtend,
           FinishNobody, FinishNoMedia, FinishFallbackEmpty, FinishCooled, FinishHeld,
           FinishRefused, Leaves
      <4> QED
        BY <4>1
    <3> QED
      BY <3>1, <3>2
  <2> QED
    BY <1>t, <2>1, <2>2 DEF DrainInv
<1>4. ASSUME NEW s \in Starts, Scan(s) PROVE DrainInv'
  <2>1. /\ todo' = todo \ {s} /\ phase' \in {"sdcollect", "sdscan"} /\ s \in todo
        /\ \/ UNCHANGED <<pending, job>>
           \/ UNCHANGED job /\ job # s /\ Leaves(s)
           \/ UNCHANGED pending /\ job' = s
    BY <1>4 DEF Scan, ScanKeeps, ScanLoses, ScanDrops, ScanSubmits, Ripe, Scans, First
  <2> QED
    BY <1>t, <2>1 DEF DrainInv, Leaves, KnownInv, TypeInv, TypeOK
<1>5. CASE ScanEnds
  <2>1. /\ todo = {} /\ UNCHANGED <<todo, job>>
        /\ pending' = [t \in Starts |-> IF pending[t].gone THEN NoEntry ELSE pending[t]]
    BY <1>5 DEF ScanEnds, readVars
  <2> QED
    BY <1>t, <2>1 DEF DrainInv, NoEntry, Queued, KnownInv, TypeInv, TypeOK
<1>6. CASE \/ \E s \in Starts, k \in Kinds : CameraReports(s, k)
           \/ Tick \/ PollFails \/ Poll \/ LiveEnds \/ JobEnds \/ CollectNothing
           \/ \E s \in Starts : OutboxSends(s) \/ OutboxReviews(s)
           \/ OutboxEnds
  <2>1. /\ UNCHANGED <<todo, job, pending>>
        /\ phase \in {"sdcollect", "sdscan"} => phase' \in {"sdcollect", "sdscan"}
    BY <1>6 DEF CameraReports, Tick, PollFails, Poll, LiveEnds, JobEnds, CollectNothing,
       OutboxEnds, OutboxSends, OutboxReviews, readVars, loopVars
  <2> QED
    BY <2>1 DEF DrainInv, Queued
<1> QED
  BY <1>1, <1>2, <1>3, <1>4, <1>5, <1>6 DEF Next

\* The five kinds of step.
LEMMA StepShape ==
    ASSUME KnownInv, WaterInv, TouchInv, ~Refusals, Next
    PROVE  \/ Quiet
           \/ \E s \in Starts : Watched(s)
           \/ \E s \in Starts, keep, sent \in BOOLEAN : Queues(s, keep, sent)
           \/ \E s \in Starts, person \in BOOLEAN : Sends(s, person)
           \/ \E person \in BOOLEAN, path \in {"sampler", "hold"} : GroupSends(person, path)
           \/ \E s \in Starts, person \in BOOLEAN : CardSends(s, person)
<1>1. group.open => SamplerOn
  BY DEF TouchInv
<1> QED
  BY <1>1, TurnShape, SamplerShape, FinishShape, RestQuiet DEF Next

\* Every step keeps the parts of the invariant about passages.
LEMMA PassageStep ==
    ASSUME ~Refusals, GroupGap < Cooldown, KnownInv, WaterInv, QueueOnePerPassage, BurstInv, Next
    PROVE  PassageInv'
<1>1. ASSUME NEW s \in Starts, Watched(s) PROVE PassageInv'
  <2>1. Turn(s) /\ Folds(s, FALSE) /\ Alerts' = Alerts /\ Joins(s, FALSE, FALSE)
    BY <1>1, JoinsShape DEF Watched
  <2> QED
    BY <2>1, JoinsBurst
<1>2. ASSUME NEW s \in Starts, NEW keep \in BOOLEAN, NEW sent \in BOOLEAN, Queues(s, keep, sent)
      PROVE  PassageInv'
  <2>1. Turn(s) /\ Folds(s, sent) /\ Alerts' = Alerts /\ Joins(s, keep, sent)
    BY <1>2, JoinsShape DEF Queues
  <2> QED
    BY <2>1, JoinsBurst
<1>3. TouchInv
  BY DEF BurstInv
<1>4. CASE Quiet
  BY <1>4, QuietBurst
<1>5. ASSUME NEW s \in Starts, NEW person \in BOOLEAN, Sends(s, person) PROVE PassageInv'
  BY <1>5, SendsBurst
<1>6. ASSUME NEW person \in BOOLEAN, NEW path \in {"sampler", "hold"}, GroupSends(person, path)
      PROVE  PassageInv'
  BY <1>6, GroupBurst
<1>7. ASSUME NEW s \in Starts, NEW person \in BOOLEAN, CardSends(s, person) PROVE PassageInv'
  BY <1>7, CardBurst
<1> QED
  BY <1>1, <1>2, <1>3, <1>4, <1>5, <1>6, <1>7, StepShape

\* The clock never goes back.
LEMMA ClockGrows ==
    ASSUME KnownInv, LiveAwake, Next PROVE now' >= now /\ now \in Nat /\ now' \in Nat
<1>1. now \in Nat
  BY DEF KnownInv, TypeInv, TypeOK, Times
<1>2. KnownInv'
  BY KnownStep
<1>3. now' \in Nat
  BY <1>2 DEF KnownInv, TypeInv, TypeOK, Times
<1> QED
  BY <1>1, <1>3, PhoneStep DEF Silent, Alerted

\* Every step keeps the group's times behind the clock.
LEMMA TimesStep ==
    ASSUME ~Refusals, KnownInv, LiveAwake, WaterInv, TouchInv, GroupTimes, Next
    PROVE  GroupTimes'
<1>1. now' >= now /\ now \in Nat /\ now' \in Nat /\ Interval \in Nat
  BY ClockGrows, FlowAssumption
<1>2. ASSUME NEW s \in Starts, Known(s)' PROVE s <= now'
  <2>1. CASE Known(s)
    BY <1>1, <2>1 DEF GroupTimes, Starts
  <2>2. ASSUME NEW t \in Starts, NEW k \in Kinds, CameraReports(t, k), ~Known(s)
        PROVE  s <= now'
    <3>1. s = t
      BY <1>2, <2>2 DEF CameraReports, Known, KnownInv, TypeInv, TypeOK
    <3> QED
      BY <2>2, <3>1 DEF CameraReports, loopVars
  <2>3. CASE UNCHANGED events /\ ~Known(s)
    BY <1>2, <2>3 DEF Known
  <2> QED
    BY <2>1, <2>2, <2>3, EventsStep
<1>3. \A s \in batch : s \in Starts /\ Known(s)
  BY DEF KnownInv, AllKnown, TypeInv, TypeOK
<1>4. group \in Group /\ group' \in Group /\ \A g \in Group : g.lastAt \in Nat /\ g.nextDue \in Nat
  <2>1. TypeOK /\ TypeOK'
    BY KnownStep DEF KnownInv, TypeInv
  <2> QED
    BY <2>1 DEF TypeOK, Group, Times
<1>5. ASSUME group'.open PROVE group'.lastAt <= now' /\ group'.nextDue <= now' + Interval
  <2>1. CASE Quiet
    BY <1>1, <1>4, <1>5, <2>1 DEF Quiet, GroupEases, GroupGrabs, GroupTimes
  <2>2. ASSUME NEW s \in Starts, NEW sent, Turn(s), Folds(s, sent)
        PROVE  group'.lastAt <= now' /\ group'.nextDue <= now' + Interval
    <3>1. s <= now
      BY <1>3, <2>2 DEF Turn, First, GroupTimes
    <3> QED
      BY <1>1, <1>4, <1>5, <2>2, <3>1 DEF Folds, GroupTimes, Starts
  <2>3. ASSUME NEW person, NEW path, GroupSends(person, path)
        PROVE  group'.lastAt <= now' /\ group'.nextDue <= now' + Interval
    BY <1>1, <1>4, <1>5, <2>3 DEF GroupSends, GroupTimes
  <2>4. ASSUME NEW s, NEW person, CardSends(s, person)
        PROVE  group'.lastAt <= now' /\ group'.nextDue <= now' + Interval
    <3>1. group.open /\ group'.lastAt = group.lastAt /\ group'.nextDue = group.nextDue
      BY <1>4, <1>5, <2>4 DEF CardSends, Group
    <3> QED
      BY <1>1, <1>4, <3>1 DEF GroupTimes
  <2> QED
    BY <2>1, <2>2, <2>3, <2>4, StepShape DEF Watched, Queues, Sends
<1> QED
  BY <1>2, <1>5 DEF GroupTimes

\* The burst invariant is inductive.
LEMMA BurstStep ==
    ASSUME MaxEvents <= 2, ~Refusals, GroupGap < Cooldown
    PROVE  /\ KnownInv /\ GateInv /\ WaterInv /\ QueueOnePerPassage /\ BurstInv /\ [Next]_vars
           => BurstInv'
<1> SUFFICES ASSUME KnownInv, GateInv, WaterInv, QueueOnePerPassage, BurstInv, [Next]_vars
             PROVE  BurstInv'
  OBVIOUS
<1>1. CASE Next
  <2>1. TwoEvents'
    BY <1>1, TwoStep DEF BurstInv, KnownInv
  <2>2. PassageInv'
    BY <1>1, PassageStep
  <2>3. DrainInv'
    BY <1>1, DrainStep DEF BurstInv
  <2>4. GroupTimes'
    BY <1>1, TimesStep DEF BurstInv, GateInv
  <2> QED
    BY <2>1, <2>2, <2>3, <2>4 DEF PassageInv, BurstInv
<1>2. CASE UNCHANGED vars
  <2>1. PersonPhotos' = PersonPhotos /\ PersonGroup' = PersonGroup /\ Queued' = Queued
        /\ \A a, b : OpenBurst(a, b)' = OpenBurst(a, b)
    BY <1>2 DEF vars, PersonPhotos, PersonGroup, Queued, Alerts, OpenBurst, EType
  <2>2. TwoEvents' /\ TouchInv' /\ DrainInv' /\ GroupTimes'
    BY <1>2, <2>1 DEF vars, BurstInv, TwoEvents, Known, TouchInv, Behind, Alerts, EType, DrainInv,
       GroupTimes
  <2>3. Answered' /\ StoodDown' /\ OnlyCard'
    BY <1>2, <2>1 DEF vars, BurstInv, Answered, StoodDown, OnlyCard
  <2>4. Outside' /\ ReadFirst' /\ LastTouch'
    BY <1>2, <2>1 DEF vars, BurstInv, Outside, ReadFirst, LastTouch, Known, Behind, EType, Alerts
  <2> QED
    BY <2>2, <2>3, <2>4 DEF BurstInv
<1> QED
  BY <1>1, <1>2

\* It holds when nothing has been reported.
LEMMA BurstInit == Init => BurstInv
<1> SUFFICES ASSUME Init PROVE BurstInv
  OBVIOUS
<1>1. /\ \A s \in Starts : ~Known(s) /\ ~pending[s].queued
      /\ Queued = {} /\ Alerts = {} /\ PersonPhotos = {} /\ ~group.open /\ ~PersonGroup
      /\ todo = {} /\ job = 0 /\ \A k \in GateKeys : lastStart[k] = NoTime
  BY DEF Init, Known, Queued, Alerts, PersonPhotos, NoGroup, NoEntry, PersonGroup
<1> QED
  BY <1>1 DEF BurstInv, TwoEvents, TouchInv, Answered, StoodDown, OnlyCard, Outside, ReadFirst,
     LastTouch, DrainInv, GroupTimes

-----------------------------------------------------------------------------
(* What the invariant says of a passage *)

\* Two person photos of one passage are a whole cooldown apart.
PassageSpaced ==
    \A p, q \in PersonPhotos :
        p # q /\ SamePassage(p.start, q.start) => p.at - q.at >= Cooldown \/ q.at - p.at >= Cooldown

\* Where a photo of event s follows photo p of its passage: from the sampler, as the
\* group expires, or from the card, and a cooldown later.
Follows(s, path, p) ==
    /\ now - p.at >= Cooldown
    /\ \/ path = "sampler" /\ phase = "sampler" /\ s = group.ev /\ PersonGroup /\ Due(group)
       \/ path = "hold" /\ HoldSends
       \/ path = "sd" /\ s \in Queued /\ ~pending[s].done /\ ~pending[s].gone

Joined(s, person, path) ==
    \A q \in PersonPhotos' :
        \/ q \in PersonPhotos
        \/ /\ q = PhotoOf(s, person, path) /\ person /\ events[s] = "person"
           /\ \A p \in PersonPhotos : SamePassage(p.start, s) => Follows(s, path, p)

\* The gate has been armed since every photo on the phone.
LEMMA ArmedSince ==
    ASSUME KnownInv, GateInv, NEW p \in PersonPhotos
    PROVE  /\ p.at \in Nat /\ now \in Nat /\ p.start \in Starts
           /\ ShouldSend(lastAlert["person_photo"], now) => now - p.at >= Cooldown
           /\ ShouldSend(lastAlert["confirmed"], now) /\ p.path # "hold" => now - p.at >= Cooldown
           /\ ClockOpen(lastAlert, "motion", now) => now - p.at >= Cooldown
<1>1. p \in Alerts /\ p \in Photo /\ p.person /\ EType(p.start) = "confirmed" /\ p.path # "outbox"
      /\ p \in phone
  BY DEF PersonPhotos, Alerts, EType, KnownInv, TypeInv, TypeOK
<1>2. p.at \in Nat /\ now \in Nat /\ p.start \in Starts
  BY <1>1 DEF Photo, Times, KnownInv, TypeInv, TypeOK
<1>3. \A k \in GateKeys : lastAlert[k] \in Int
  BY DEF KnownInv, TypeInv, TypeOK, MaybeTime, NoTime, Times
<1>4. /\ lastAlert["person_photo"] >= p.at
      /\ p.path # "hold" => lastAlert["confirmed"] >= p.at
      /\ p.path = "hold" => lastAlert["motion"] >= p.at
  BY <1>1 DEF GateInv, GateRemembers
<1>5. \A k \in GateKeys : lastAlert[k] >= p.at /\ ShouldSend(lastAlert[k], now)
                            => now - p.at >= Cooldown
  BY <1>2, <1>3, CooldownAssumption DEF ShouldSend, NoTime
<1>6. {"confirmed", "motion", "person_photo"} = GateKeys
  BY DEF GateKeys, EventTypes
<1> QED
  BY <1>2, <1>4, <1>5, <1>6 DEF ClockOpen

\* While a group may still send, no burst of its passage is open once the card has
\* sent a photo of it.
LEMMA BurstShut ==
    ASSUME KnownInv, WaterInv, BurstInv, Next, PersonGroup, NEW p \in PersonPhotos,
           SamePassage(p.start, group.ev)
    PROVE  OpenBurst(group.started, group.ev) = {}
<1> SUFFICES ASSUME NEW t \in OpenBurst(group.started, group.ev) PROVE FALSE
  OBVIOUS
<1>1. /\ t \in Queued /\ t \in Starts /\ Known(t) /\ EType(t) = "confirmed"
      /\ pending[t].keep /\ ~pending[t].done
  BY Handled DEF OpenBurst, BurstInv
<1>2. /\ p \in Alerts /\ p.start \in Starts /\ Known(p.start) /\ events[p.start] = "person"
      /\ group.ev \in Starts /\ Known(group.ev) /\ events[group.ev] = "person"
  BY Handled DEF PersonPhotos, PersonGroup, BurstInv
<1>3. p.path = "sd"
  BY DEF BurstInv, OnlyCard
<1>4. \A a \in Starts : SamePassage(a, a)
  BY CooldownAssumption DEF SamePassage, Starts
<1>5. t # p.start
  BY <1>1, <1>2, <1>4 DEF BurstInv, Answered
<1>6. t # group.ev
  BY <1>1, <1>2 DEF BurstInv, Answered
<1>7. p.start = group.ev
  BY <1>1, <1>2, <1>5, <1>6 DEF BurstInv, TwoEvents
<1>8. SamePassage(t, group.ev)
  BY <1>1, <1>6 DEF BurstInv, Outside
<1> QED
  BY <1>1, <1>2, <1>3, <1>6, <1>7, <1>8 DEF BurstInv, ReadFirst

\* A step adds at most one person photo, and only late to one of its passage.
LEMMA NextPhoto ==
    ASSUME ~Refusals, KnownInv, GateInv, WaterInv, BurstInv, Next
    PROVE  \/ PersonPhotos' \subseteq PersonPhotos
           \/ \E s \in Starts, person \in BOOLEAN, path \in {"live", "sampler", "hold", "sd"} :
                 Joined(s, person, path)
<1>1. CASE Alerts' = Alerts
  <2>1. \A p \in Alerts : events'[p.start] = events[p.start]
    BY Handled DEF BurstInv
  <2> QED
    BY <1>1, <2>1 DEF PersonPhotos
<1>2. ASSUME NEW s \in Starts, NEW person \in BOOLEAN, NEW path, path # "outbox",
             ToPhone(s, person, path), UNCHANGED events
      PROVE  \A q \in PersonPhotos' :
                q \in PersonPhotos \/ (q = PhotoOf(s, person, path) /\ person /\ events[s] = "person")
  <2> DEFINE new == PhotoOf(s, person, path)
  <2>1. phone' = phone \cup {new} /\ new.start = s /\ new.person = person
    BY <1>2 DEF ToPhone, PhotoOf
  <2> HIDE DEF new
  <2>2. \A q \in Alerts' : q \in Alerts \/ q = new
    BY <2>1 DEF Alerts
  <2>3. \A q \in PersonPhotos' : q \in PersonPhotos \/ (q = new /\ person /\ events[s] = "person")
    BY <1>2, <2>1, <2>2 DEF PersonPhotos
  <2> QED
    BY <2>3 DEF new
<1>3. ASSUME NEW s \in Starts, NEW person \in BOOLEAN, Sends(s, person)
      PROVE  Joined(s, person, "live")
  <2>1. events[s] = "person" => \A p \in PersonPhotos : ~SamePassage(p.start, s)
    BY <1>3, Clear DEF Sends, Turn
  <2> QED
    BY <1>2, <1>3, <2>1 DEF Sends, Turn, Joined
<1>4. ASSUME NEW person \in BOOLEAN, NEW path \in {"sampler", "hold"}, GroupSends(person, path)
      PROVE  group.ev \in Starts /\ Joined(group.ev, person, path)
  <2>1. group.ev \in Starts /\ group.open /\ ~group.sent /\ path # "outbox"
    BY <1>4 DEF GroupSends, KnownInv, TypeInv, GroupStart
  <2>2. ASSUME NEW p \in PersonPhotos, events[group.ev] = "person", SamePassage(p.start, group.ev)
        PROVE  Follows(group.ev, path, p)
    <3>1. PersonGroup
      BY <2>1, <2>2 DEF PersonGroup
    <3>2. p.path = "sd" /\ OpenBurst(group.started, group.ev) = {}
      BY <2>2, <3>1, BurstShut DEF BurstInv, OnlyCard
    <3>3. \/ path = "sampler" /\ Due(group) /\ ShouldSend(lastAlert["confirmed"], now)
          \/ path = "hold" /\ HoldSends /\ ShouldSend(lastAlert["confirmed"], now)
      BY <1>4, <3>2 DEF GroupSends, ClockOpen
    <3>4. now - p.at >= Cooldown
      BY <3>2, <3>3, ArmedSince
    <3> QED
      BY <1>4, <3>1, <3>3, <3>4 DEF Follows, GroupSends
  <2>3. \A q \in PersonPhotos' :
           q \in PersonPhotos
           \/ (q = PhotoOf(group.ev, person, path) /\ person /\ events[group.ev] = "person")
    BY <1>2, <1>4, <2>1 DEF GroupSends
  <2> QED
    BY <2>1, <2>2, <2>3 DEF Joined
<1>5. ASSUME NEW s \in Starts, NEW person \in BOOLEAN, CardSends(s, person)
      PROVE  Joined(s, person, "sd")
  <2>1. s \in Queued /\ ~pending[s].done /\ ~pending[s].gone
    BY <1>5, FlowAssumption DEF CardSends, BurstInv, DrainInv, Queued, Blocked, Starts
  <2>2. events[s] = "person" => ShouldSend(lastAlert["person_photo"], now)
    BY <1>5 DEF CardSends, WithinCooldown, EType
  <2>3. \A p \in PersonPhotos : events[s] = "person" => Follows(s, "sd", p)
    BY <2>1, <2>2, ArmedSince DEF Follows
  <2>4. \A q \in PersonPhotos' :
           q \in PersonPhotos \/ (q = PhotoOf(s, person, "sd") /\ person /\ events[s] = "person")
    BY <1>2, <1>5 DEF CardSends
  <2> QED
    BY <2>3, <2>4 DEF Joined
<1>6. TouchInv
  BY DEF BurstInv
<1>7. ASSUME \/ Quiet \/ \E s \in Starts : Watched(s)
             \/ \E s \in Starts, keep, sent \in BOOLEAN : Queues(s, keep, sent)
      PROVE  Alerts' = Alerts
  BY <1>7 DEF Quiet, Watched, Queues
<1> QED
  BY <1>1, <1>3, <1>4, <1>5, <1>6, <1>7, StepShape

\* So the photos of a passage stay apart.
LEMMA PassageSpacedStep ==
    ASSUME ~Refusals, KnownInv, GateInv, WaterInv, BurstInv, PassageSpaced, Next
    PROVE  PassageSpaced'
<1>1. CASE PersonPhotos' \subseteq PersonPhotos
  BY <1>1 DEF PassageSpaced
<1>2. ASSUME NEW s \in Starts, NEW person \in BOOLEAN,
             NEW path \in {"live", "sampler", "hold", "sd"}, Joined(s, person, path)
      PROVE  PassageSpaced'
  <2> DEFINE new == PhotoOf(s, person, path)
  <2>1. new.start = s /\ new.at = now
    BY DEF PhotoOf
  <2> HIDE DEF new
  <2>2. \A q \in PersonPhotos' :
           \/ q \in PersonPhotos
           \/ /\ q = new
              /\ \A p \in PersonPhotos : SamePassage(p.start, s) => now - p.at >= Cooldown
    BY <1>2 DEF Joined, Follows, new
  <2>3. \A a, b : SamePassage(a, b) => SamePassage(b, a)
    BY DEF SamePassage
  <2> SUFFICES ASSUME NEW p \in PersonPhotos', NEW q \in PersonPhotos', p # q,
                      SamePassage(p.start, q.start)
               PROVE  p.at - q.at >= Cooldown \/ q.at - p.at >= Cooldown
    BY DEF PassageSpaced
  <2>4. CASE p \in PersonPhotos /\ q \in PersonPhotos
    BY <2>4 DEF PassageSpaced
  <2>5. ASSUME NEW a \in PersonPhotos', NEW b \in PersonPhotos', a \notin PersonPhotos,
               a # b, SamePassage(b.start, a.start)
        PROVE  a.at - b.at >= Cooldown
    <3>1. a = new /\ SamePassage(b.start, s) /\ a.at = now /\ b \in PersonPhotos
      BY <2>1, <2>2, <2>5
    <3>2. now - b.at >= Cooldown
      BY <2>2, <2>5, <3>1
    <3> QED
      BY <3>1, <3>2
  <2>6. CASE p \notin PersonPhotos \/ q \notin PersonPhotos
    BY <2>3, <2>5, <2>6
  <2> QED
    BY <2>2, <2>4, <2>6
<1> QED
  BY <1>1, <1>2, NextPhoto

\* The invariants the two theorems below rest on hold throughout.
LEMMA BurstHolds ==
    ASSUME MaxEvents <= 2, ~Refusals, GroupGap < Cooldown
    PROVE  Spec => [](KnownInv /\ GateInv /\ WaterInv /\ BurstInv)
<1>1. KnownInv /\ GateInv /\ WaterInv /\ QueueOnePerPassage /\ BurstInv /\ [Next]_vars => BurstInv'
  BY BurstStep
<1> QED
  BY <1>1, BurstInit, KnownInit, KnownStep, GateInit, GateStep, WaterInit, WaterStep,
     QueueOnePerPassageCorrect, PTL DEF Spec

\* The live pass, the sampler and the card never put two person photos of one passage
\* on the phone within a cooldown, keep_sampling or not, while Telegram answers and
\* the passage holds two events at most (burst.observe_event, note_passage_delivered,
\* _sd_followup_blocked, alert_gate's event starts).
THEOREM PassageSpacedCorrect ==
    ASSUME MaxEvents <= 2, ~Refusals, GroupGap < Cooldown
    PROVE  Spec => []PassageSpaced
<1>1. Init => PassageSpaced
  BY DEF Init, PassageSpaced, PersonPhotos, Alerts
<1>2. KnownInv /\ GateInv /\ WaterInv /\ BurstInv /\ PassageSpaced /\ [Next]_vars => PassageSpaced'
  <2> SUFFICES ASSUME KnownInv, GateInv, WaterInv, BurstInv, PassageSpaced, [Next]_vars
               PROVE  PassageSpaced'
    OBVIOUS
  <2>1. CASE UNCHANGED vars
    BY <2>1 DEF PassageSpaced, PersonPhotos, Alerts, vars
  <2> QED
    BY <2>1, PassageSpacedStep
<1>3. Spec => [](KnownInv /\ GateInv /\ WaterInv /\ BurstInv)
  BY BurstHolds
<1> QED
  BY <1>1, <1>2, <1>3, PTL DEF Spec

\* After the sampler's turn, its next grab is still to come.
OnTime ==
    /\ group.open /\ ~group.sent /\ group.frames < MaxFrames
    /\ phase \in {"sdcollect", "sdscan", "outbox", "idle"}
    => now < group.nextDue

\* The grabs that follow a photo of the group's passage keep to the sampler's interval.
Sched ==
    PersonGroup /\ group.frames < MaxFrames =>
        \A p \in PersonPhotos : SamePassage(p.start, group.ev) =>
            /\ group.nextDue <= p.at + (group.frames + 1) * Interval
            /\ phase \in {"poll", "live", "sampler"} => now <= group.nextDue

SchedInv == OnTime /\ Sched

\* Which pass follows which, and when the clock moves.
LEMMA PassStep ==
    ASSUME KnownInv, Next
    PROVE  /\ phase' \in {"poll", "live", "sampler"} =>
                 \/ phase \in {"poll", "live", "sampler"} /\ now' = now
                 \/ phase = "idle" /\ now' <= now + 1
           /\ phase' \in {"sdcollect", "sdscan", "outbox", "idle"} /\ ~Sampler =>
                 phase \in {"sdcollect", "sdscan", "outbox", "idle"} /\ now' = now
<1>t. now \in Nat
  BY DEF KnownInv, TypeInv, TypeOK, Times
<1>1. ASSUME NEW s \in Starts, Live(s) PROVE phase = "live" /\ phase' \in {"live", "sampler"} /\ now' = now
  BY <1>1 DEF Live, LiveRaises, LiveCooldown, LiveBlind, LiveOpenBurstNoPerson, LiveDeferMotion,
     LiveMotionHeld, LiveConfirmedEmpty, LiveSends, LiveSendRefused, Process, loopVars
<1>2. CASE Sampler
  <2>1. phase' = "sdcollect"
    BY <1>2 DEF Sampler, SamplerIdle, SamplerCloses, HoldSent, HoldRefused, HoldRipe,
       SamplerSuppresses, SamplerCooldown, SamplerSends, SamplerRefused, Grabs, SamplerDone
  <2> QED
    BY <1>2, <2>1
<1>3. ASSUME NEW s \in Starts, Finish(s)
      PROVE  phase = "sdcollect" /\ phase' = "sdscan" /\ now' = now
  BY <1>3 DEF Finish, FinishBlocked, FinishEarlyLook, FinishExtend, FinishNobody, FinishNoMedia,
     FinishFallbackEmpty, FinishCooled, FinishHeld, FinishSends, FinishRefused, FinishSendable,
     Unread, Finishes, Collects
<1>4. ASSUME NEW s \in Starts, Scan(s)
      PROVE  phase = "sdscan" /\ phase' \in {"sdscan", "sdcollect"} /\ now' = now
  BY <1>4 DEF Scan, ScanKeeps, ScanLoses, ScanDrops, ScanSubmits, Ripe, Scans
<1>5. CASE Tick \/ PollFails \/ Poll \/ LiveEnds
  BY <1>t, <1>5 DEF Tick, PollFails, Poll, LiveEnds
<1>6. CASE CollectNothing \/ ScanEnds \/ OutboxEnds
  BY <1>6 DEF CollectNothing, ScanEnds, OutboxEnds
<1>7. CASE \/ \E s \in Starts, k \in Kinds : CameraReports(s, k)
           \/ \E s \in Starts : OutboxSends(s) \/ OutboxReviews(s)
           \/ JobEnds
  BY <1>7 DEF CameraReports, OutboxSends, OutboxReviews, JobEnds, loopVars
<1> QED
  BY <1>1, <1>2, <1>3, <1>4, <1>5, <1>6, <1>7 DEF Next

\* The sampler grabs as soon as a grab is due, so the next one is always ahead.
LEMMA OnTimeStep ==
    ASSUME Interval >= 1, ~Refusals, KnownInv, WaterInv, TouchInv, OnTime, Next
    PROVE  OnTime'
<1>t. now \in Nat /\ group \in Group /\ Interval \in Nat
  BY FlowAssumption DEF KnownInv, TypeInv, TypeOK, Times
<1> SUFFICES ASSUME group'.open, ~group'.sent, group'.frames < MaxFrames,
                    phase' \in {"sdcollect", "sdscan", "outbox", "idle"}
             PROVE  now' < group'.nextDue
  BY DEF OnTime
<1>1. CASE Sampler
  <2>1. now' = now /\ ((group' = group /\ ~Due(group)) \/ group'.nextDue = now + Interval)
    BY <1>1, SamplerShape
  <2> QED
    BY <1>t, <2>1 DEF Due, Group
<1>2. CASE ~Sampler
  <2>1. phase \in {"sdcollect", "sdscan", "outbox", "idle"} /\ now' = now
    BY <1>2, PassStep
  <2>2. /\ group.open /\ ~group.sent /\ group'.frames = group.frames
        /\ group'.nextDue = group.nextDue
    <3>1. CASE Quiet
      BY <2>1, <3>1, <1>t DEF Quiet, GroupEases, GroupGrabs, Group
    <3>2. ASSUME NEW s, NEW person, CardSends(s, person)
          PROVE  /\ group.open /\ ~group.sent /\ group'.frames = group.frames
                 /\ group'.nextDue = group.nextDue
      BY <1>t, <3>2 DEF CardSends, Group
    <3>3. \A s : ~Turn(s)
      BY <2>1 DEF Turn
    <3>4. \A person, path : ~GroupSends(person, path)
      BY <2>1 DEF GroupSends
    <3> QED
      BY <3>1, <3>2, <3>3, <3>4, StepShape DEF Watched, Queues, Sends
  <2> QED
    BY <2>1, <2>2 DEF OnTime
<1> QED
  BY <1>1, <1>2

\* Arithmetic of the sampler's schedule.
LEMMA Product ==
    ASSUME NEW f \in Nat, NEW i \in Nat, NEW m \in Nat, f < m
    PROVE  /\ (f + 1) * i \in Nat /\ (f + 2) * i = (f + 1) * i + i
           /\ (f + 1) * i >= i /\ (f + 1) * i <= m * i
<1>1. (f + 1) * i = f * i + i /\ (f + 2) * i = f * i + i + i /\ f * i \in Nat
  OBVIOUS
<1>2. PICK k \in Nat : m = f + 1 + k
  <2>1. m - f - 1 \in Nat /\ m = f + 1 + (m - f - 1)
    OBVIOUS
  <2> QED
    BY <2>1
<1>3. m * i = (f + 1) * i + k * i /\ k * i \in Nat
  BY <1>2
<1> QED
  BY <1>1, <1>3

\* From a photo of the passage on, each grab is at most an interval after the last.
LEMMA SchedStep ==
    ASSUME ~Refusals, KnownInv, WaterInv, BurstInv, SchedInv, Next
    PROVE  Sched'
<1>t. now \in Nat /\ group \in Group /\ group' \in Group /\ Interval \in Nat /\ MaxFrames \in Nat
      /\ \A g \in Group : g.frames \in Nat /\ g.nextDue \in Nat
      /\ \A p \in PersonPhotos : p.at \in Nat
  <2>1. TypeOK /\ TypeOK'
    BY KnownStep DEF KnownInv, TypeInv
  <2> QED
    BY <2>1, FlowAssumption DEF TypeOK, Group, Times, PersonPhotos, Alerts, Photo
<1>p. /\ phase' \in {"poll", "live", "sampler"} =>
               \/ phase \in {"poll", "live", "sampler"} /\ now' = now
               \/ phase = "idle" /\ now' <= now + 1
      /\ now' \in Nat
  <2>1. now' \in Nat
    BY KnownStep DEF KnownInv, TypeInv, TypeOK, Times
  <2> QED
    BY <2>1, PassStep
<1>e. /\ group.open => group.ev \in Starts /\ Known(group.ev)
      /\ \A s \in Starts : Known(s) => events'[s] = events[s]
      /\ \A p \in Alerts : events'[p.start] = events[p.start]
  BY Handled DEF BurstInv
<1> SUFFICES ASSUME PersonGroup', group'.frames < MaxFrames, NEW p \in PersonPhotos',
                    SamePassage(p.start, group'.ev)
             PROVE  /\ group'.nextDue <= p.at + (group'.frames + 1) * Interval
                    /\ phase' \in {"poll", "live", "sampler"} => now' <= group'.nextDue
  BY DEF Sched
\* The group is as it was, and the photo old.
<1>s. ASSUME PersonGroup, p \in PersonPhotos, group'.ev = group.ev,
             group'.frames = group.frames, group'.nextDue = group.nextDue
      PROVE  /\ group'.nextDue <= p.at + (group'.frames + 1) * Interval
             /\ phase' \in {"poll", "live", "sampler"} => now' <= group'.nextDue
  <2>1. phase = "idle" => now < group.nextDue
    BY <1>s DEF SchedInv, OnTime, PersonGroup
  <2>2. /\ group.nextDue <= p.at + (group.frames + 1) * Interval
        /\ phase \in {"poll", "live", "sampler"} => now <= group.nextDue
    BY <1>s DEF SchedInv, Sched
  <2>3. group.nextDue \in Nat
    BY <1>t
  <2> QED
    BY <1>t, <1>p, <1>s, <2>1, <2>2, <2>3
<1>1. CASE Quiet
  <2>1. p \in PersonPhotos
    BY <1>1, <1>e DEF Quiet, PersonPhotos
  <2>2. PersonGroup /\ group'.ev = group.ev
    BY <1>1, <1>e DEF Quiet, GroupEases, PersonGroup
  <2>3. CASE group'.nextDue = group.nextDue /\ group'.frames = group.frames
    BY <1>s, <2>1, <2>2, <2>3
  <2>4. CASE GroupGrabs
    <3>1. /\ phase = "sampler" /\ phase' = "sdcollect" /\ group'.nextDue = now + Interval
          /\ group'.frames = group.frames + 1 /\ group.frames \in Nat
          /\ group.frames < MaxFrames
      BY <1>t, <2>4 DEF GroupGrabs, Due
    <3>2. now <= group.nextDue /\ group.nextDue <= p.at + (group.frames + 1) * Interval
      BY <2>1, <2>2, <3>1 DEF SchedInv, Sched
    <3>3. /\ (group.frames + 1) * Interval \in Nat
          /\ (group.frames + 2) * Interval = (group.frames + 1) * Interval + Interval
      BY <1>t, <3>1, Product
    <3>4. (group'.frames + 1) * Interval = (group.frames + 1) * Interval + Interval
      BY <3>1, <3>3
    <3>5. p.at \in Nat /\ group.nextDue \in Nat
      BY <1>t, <2>1
    <3> QED
      BY <1>t, <3>1, <3>2, <3>3, <3>4, <3>5
  <2> QED
    BY <1>1, <2>3, <2>4 DEF Quiet, GroupEases, PersonGroup
<1>2. ASSUME NEW s \in Starts, NEW sent, Turn(s), Folds(s, sent), Alerts' = Alerts
      PROVE  /\ group'.nextDue <= p.at + (group'.frames + 1) * Interval
             /\ phase' \in {"poll", "live", "sampler"} => now' <= group'.nextDue
  <2>1. p \in PersonPhotos /\ events' = events
    BY <1>2 DEF PersonPhotos, Turn
  <2>2. group'.ev # s
    <3>1. ASSUME events[s] = "person" PROVE \A q \in PersonPhotos : ~SamePassage(q.start, s)
      BY <1>2, <3>1, Clear DEF Turn
    <3> QED
      BY <2>1, <3>1 DEF PersonGroup
  <2>3. /\ PersonGroup /\ group'.ev = group.ev /\ group'.frames = group.frames
        /\ group'.nextDue = group.nextDue
    BY <1>2, <2>1, <2>2 DEF Folds, PersonGroup
  <2> QED
    BY <1>s, <2>1, <2>3
<1>3. ASSUME NEW s \in Starts, NEW person \in BOOLEAN, CardSends(s, person)
      PROVE  /\ group'.nextDue <= p.at + (group'.frames + 1) * Interval
             /\ phase' \in {"poll", "live", "sampler"} => now' <= group'.nextDue
  <2>1. /\ group.open = group'.open /\ group'.ev = group.ev /\ group'.sent = group.sent
        /\ group'.frames = group.frames /\ group'.nextDue = group.nextDue
        /\ now' = now /\ events' = events /\ phase = "sdcollect"
    BY <1>t, <1>3 DEF CardSends, Group
  <2>2. PersonGroup
    BY <2>1 DEF PersonGroup
  <2>3. CASE p \in PersonPhotos
    BY <1>s, <2>1, <2>2, <2>3
  <2>4. CASE p \notin PersonPhotos
    <3>1. p.at = now
      BY <1>3, <2>1, <2>4 DEF PersonPhotos, Alerts, CardSends, ToPhone
    <3>2. phase' \notin {"poll", "live", "sampler"}
      BY <1>p, <2>1
    <3>3. group.frames \in Nat /\ group.frames < MaxFrames /\ group.nextDue \in Nat
      BY <1>t, <2>1
    <3>4. group.nextDue <= now + Interval
      BY <2>2 DEF BurstInv, GroupTimes, PersonGroup
    <3>5. (group.frames + 1) * Interval >= Interval /\ (group.frames + 1) * Interval \in Nat
      BY <1>t, <3>3, Product
    <3> QED
      BY <1>t, <2>1, <3>1, <3>2, <3>3, <3>4, <3>5
  <2> QED
    BY <2>3, <2>4
<1>4. /\ \A s, person : ~Sends(s, person)
      /\ \A person, path : ~GroupSends(person, path)
  BY DEF Sends, GroupSends, Folds, PersonGroup
<1>5. TouchInv
  BY DEF BurstInv
<1> QED
  BY <1>1, <1>2, <1>3, <1>4, <1>5, StepShape DEF Watched, Queues

\* A second person photo of a passage would come a cooldown after the first: too
\* late for the sampler, and its follow-up has been answered.
LEMMA OnePhotoStep ==
    ASSUME ~Refusals, ~HoldSends, MaxFrames * Interval < Cooldown, KnownInv, GateInv, WaterInv,
           BurstInv, SchedInv, OnePhotoPerPassage, Next
    PROVE  OnePhotoPerPassage'
<1>0. \A p, q \in PersonPhotos : SamePassage(p.start, q.start) => p = q
  BY DEF OnePhotoPerPassage, PersonPhotos
<1> SUFFICES \A p, q \in PersonPhotos' : SamePassage(p.start, q.start) => p = q
  BY DEF OnePhotoPerPassage, PersonPhotos
<1>1. CASE PersonPhotos' \subseteq PersonPhotos
  BY <1>0, <1>1
<1>2. ASSUME NEW s \in Starts, NEW person \in BOOLEAN,
             NEW path \in {"live", "sampler", "hold", "sd"}, Joined(s, person, path)
      PROVE  \A p, q \in PersonPhotos' : SamePassage(p.start, q.start) => p = q
  <2>1. ASSUME NEW p \in PersonPhotos, events[s] = "person", SamePassage(p.start, s),
               Follows(s, path, p)
        PROVE  FALSE
    <3>1. CASE path = "sampler"
      <4>1. /\ now - p.at >= Cooldown /\ phase = "sampler" /\ s = group.ev /\ PersonGroup
            /\ Due(group)
        BY <2>1, <3>1 DEF Follows
      <4>2. /\ p.at \in Nat /\ now \in Nat /\ group.frames \in Nat /\ group.nextDue \in Nat
            /\ Interval \in Nat /\ MaxFrames \in Nat /\ Cooldown \in Nat
            /\ group.frames < MaxFrames
        BY <4>1, ArmedSince, FlowAssumption, CooldownAssumption
        DEF KnownInv, TypeInv, TypeOK, Group, Due
      <4>3. now <= group.nextDue /\ group.nextDue <= p.at + (group.frames + 1) * Interval
        BY <2>1, <4>1, <4>2 DEF SchedInv, Sched
      <4>4. /\ (group.frames + 1) * Interval \in Nat
            /\ (group.frames + 1) * Interval <= MaxFrames * Interval
        BY <4>2, Product
      <4>5. MaxFrames * Interval \in Nat
        BY <4>2
      <4> QED
        BY <4>1, <4>2, <4>3, <4>4, <4>5
    <3>2. CASE path = "sd"
      <4>1. s \in Queued /\ ~pending[s].done /\ ~pending[s].gone
        BY <2>1, <3>2 DEF Follows
      <4> QED
        BY <2>1, <4>1 DEF BurstInv, Answered
    <3> QED
      BY <2>1, <3>1, <3>2 DEF Follows
  <2>2. PhotoOf(s, person, path).start = s
    BY DEF PhotoOf
  <2>3. \A q \in PersonPhotos' :
           \/ q \in PersonPhotos
           \/ /\ q = PhotoOf(s, person, path)
              /\ \A p \in PersonPhotos : ~SamePassage(p.start, s)
    BY <1>2, <2>1 DEF Joined
  <2>4. \A a, b : SamePassage(a, b) => SamePassage(b, a)
    BY DEF SamePassage
  <2> QED
    BY <1>0, <2>2, <2>3, <2>4
<1> QED
  BY <1>1, <1>2, NextPhoto

\* One visit is one message: while Telegram answers, a passage of two events at most
\* is on the phone as one person photo, when the sampler's grabs all fall within the
\* cooldown and no held frame goes out late.
THEOREM OnePhotoPerPassageCorrect ==
    ASSUME MaxEvents <= 2, ~Refusals, ~HoldSends, GroupGap < Cooldown, Interval >= 1,
           MaxFrames * Interval < Cooldown
    PROVE  Spec => []OnePhotoPerPassage
<1>1. Init => SchedInv /\ OnePhotoPerPassage
  BY DEF Init, SchedInv, OnTime, Sched, PersonGroup, NoGroup, OnePhotoPerPassage, Alerts
<1>2. KnownInv /\ GateInv /\ WaterInv /\ BurstInv /\ SchedInv /\ OnePhotoPerPassage /\ [Next]_vars
        => SchedInv' /\ OnePhotoPerPassage'
  <2> SUFFICES ASSUME KnownInv, GateInv, WaterInv, BurstInv, SchedInv, OnePhotoPerPassage,
                      [Next]_vars
               PROVE  SchedInv' /\ OnePhotoPerPassage'
    OBVIOUS
  <2>1. CASE UNCHANGED vars
    BY <2>1 DEF SchedInv, OnTime, Sched, PersonGroup, PersonPhotos, OnePhotoPerPassage, Alerts, vars
  <2>2. CASE Next
    <3>1. TouchInv /\ OnTime
      BY DEF BurstInv, SchedInv
    <3>2. OnTime'
      BY <2>2, <3>1, OnTimeStep
    <3> QED
      BY <2>2, <3>2, SchedStep, OnePhotoStep DEF SchedInv
  <2> QED
    BY <2>1, <2>2
<1>3. Spec => [](KnownInv /\ GateInv /\ WaterInv /\ BurstInv)
  BY BurstHolds
<1> QED
  BY <1>1, <1>2, <1>3, PTL DEF Spec

-----------------------------------------------------------------------------
(* One incident, and the paths that may still send it *)

\* The card, the sampler, the outbox may still send incident s.
Waits(s)    == pending[s].queued /\ ~pending[s].gone
Grabbing(s) == group.open /\ ~group.sent /\ group.ev = s
Boxed(s)    == box[s] # NoTime

\* What a path may still send, or has sent, had its turn in the live pass.  No path
\* that has sent an incident can send it again, but for the outbox; after the live
\* pass none can.
IncidentInv ==
    /\ group.open => SamplerOn
    /\ \A s \in Starts : Boxed(s) => UseOutbox
    /\ \A s \in Starts : Waits(s) \/ Grabbing(s) \/ Boxed(s) => Behind(s)
    /\ \A p \in phone : Behind(p.start)
    /\ \A p \in phone :
          /\ p.path = "live" => ~Waits(p.start) /\ ~Grabbing(p.start) /\ ~Boxed(p.start)
          /\ p.path \in {"sampler", "hold"} => ~Grabbing(p.start)
          /\ p.path = "sd" => ~Waits(p.start)
    /\ EachPathOnce

\* One path at a time: what may still be sent is not on the phone, and either the card
\* or the sampler may send it.
Single ==
    /\ \A s \in Starts : ~(Waits(s) /\ Grabbing(s))
    /\ \A p \in phone : ~Waits(p.start) /\ ~Grabbing(p.start) /\ ~Boxed(p.start)
    /\ NothingTwice

\* The steps of the pipeline, as an incident sees them: for most of them no path gains
\* one; ...
Eases(s) ==
    (Waits(s)' => Waits(s)) /\ (Grabbing(s)' => Grabbing(s)) /\ (Boxed(s)' => Boxed(s))

Calm == phone' = phone /\ \A s \in Starts : Eases(s)

\* ... its turn in the live pass hands it on, to the sampler beside the card only by
\* keep_sampling or as bare motion, or sends it; ...
HasTurn(s) ==
    /\ ~Behind(s) /\ Behind(s)'
    /\ \A t \in Starts : t # s => Eases(t)
    /\ \/ /\ phone' = phone /\ (Boxed(s)' => UseOutbox)
          /\ Waits(s)' /\ Grabbing(s)' => KeepSampling \/ (SdSnapshot /\ SdMotion)
       \/ /\ \E person : ToPhone(s, person, "live")
          /\ ~Waits(s)' /\ ~Grabbing(s)' /\ ~Boxed(s)'

\* ... the sampler or the card is refused and the outbox gets it; ...
GoesToBox(s) ==
    /\ phone' = phone /\ (Waits(s) \/ Grabbing(s)) /\ (Boxed(s)' => UseOutbox)
    /\ \A t \in Starts : (Waits(t)' => Waits(t)) /\ (Grabbing(t)' => Grabbing(t))
    /\ \A t \in Starts : t # s => Eases(t)

\* ... or the sampler, the card or the outbox sends it.
FromSampler(s) ==
    /\ Grabbing(s) /\ ~Grabbing(s)' /\ ~Boxed(s)' /\ \A t \in Starts : Eases(t)
    /\ \E person, path : path \in {"sampler", "hold"} /\ ToPhone(s, person, path)

FromCard(s) ==
    /\ Waits(s) /\ ~Waits(s)' /\ ~Boxed(s)' /\ \A t \in Starts : Eases(t)
    /\ \E person : ToPhone(s, person, "sd")

FromBox(s) ==
    /\ Boxed(s) /\ ~Waits(s) /\ ~Boxed(s)' /\ \A t \in Starts : Eases(t)
    /\ \E person : ToPhone(s, person, "outbox")

\* What resolving, capturing, queueing and leaving do to the tables.
LEMMA BoxStep ==
    ASSUME TypeInv, NEW s \in Starts
    PROVE  /\ Resolve(s) => ~Boxed(s)' /\ \A t \in Starts : Boxed(t)' => Boxed(t)
           /\ Capture(s) => /\ Boxed(s)' => Boxed(s) \/ UseOutbox
                            /\ \A t \in Starts : t # s => (Boxed(t)' => Boxed(t))
           /\ UNCHANGED box => \A t \in Starts : Boxed(t)' => Boxed(t)
  BY DEF TypeInv, TypeOK, Resolve, Capture, Boxed

LEMMA WaitStep ==
    ASSUME TypeInv, NEW s \in Starts
    PROVE  /\ Leaves(s) => ~Waits(s)' /\ \A t \in Starts : Waits(t)' => Waits(t)
           /\ \A armed, keep : Defer(s, armed, keep) =>
                 \A t \in Starts : t # s => (Waits(t)' => Waits(t))
           /\ \A a, b, person : pending' = NotePassage(a, b, person) =>
                 \A t \in Starts : Waits(t)' => Waits(t)
           /\ UNCHANGED pending => \A t \in Starts : Waits(t)' => Waits(t)
<1>1. pending \in [Starts -> Entry]
  BY DEF TypeInv, TypeOK
<1> QED
  BY <1>1 DEF Leaves, Defer, NotePassage, Waits, Entry

\* An event observed in its turn: the group of another one does not come back.
LEMMA FoldStep ==
    ASSUME NEW s \in Starts, NEW a \in BOOLEAN, Folds(s, a)
    PROVE  /\ group'.open => SamplerOn
           /\ \A t \in Starts : t # s => (Grabbing(t)' => Grabbing(t))
           /\ a => ~Grabbing(s)'
  BY DEF Folds, Grabbing

\* What an event's turn does to it and to the others.
LEMMA TurnIncident ==
    ASSUME KnownInv, WaterInv, IncidentInv, NEW s \in Starts, Live(s)
    PROVE  (group'.open => SamplerOn) /\ (Calm \/ HasTurn(s))
<1>t. TypeInv /\ group \in Group /\ (group.open => SamplerOn)
  BY DEF KnownInv, TypeInv, TypeOK, IncidentInv
<1>1. CASE LiveRaises(s) \/ LiveCooldown(s)
  <2>1. UNCHANGED <<group, pending, box, phone>>
    BY <1>1 DEF LiveRaises, LiveCooldown
  <2> QED
    BY <1>t, <2>1 DEF Calm, Eases, Waits, Grabbing, Boxed
<1>2. CASE Process(s)
  <2>1. ~Behind(s) /\ Behind(s)'
    <3>1. /\ phase = "live" /\ First(s, batch) /\ UNCHANGED <<phase, newest>>
          /\ batch' = batch \ {s} /\ s \in batch /\ \A b \in batch : s <= b
      BY <1>2 DEF Process, First, loopVars
    <3>2. s <= newest /\ (\A b \in batch' : s < b) /\ ~(s <= lastSeen) /\ ~(s < s)
      BY <3>1, FlowAssumption DEF WaterInv, TypeInv, TypeOK, KnownInv, Starts, Times
    <3> QED
      BY <3>1, <3>2 DEF Behind
  <2>2. ~Waits(s) /\ ~Grabbing(s) /\ ~Boxed(s)
    BY <2>1 DEF IncidentInv
  <2>f. Observe(group, s, FALSE, FALSE) = group' => Folds(s, FALSE)
    BY <1>t, FoldShape
  <2>g. Observe(group, s, TRUE, FALSE) = group' => Folds(s, TRUE)
    BY <1>t, FoldShape
  <2>w. UNCHANGED pending => \A t \in Starts : Waits(t)' => Waits(t)
    BY <1>t, WaitStep
  <2>d. \A armed, keep : Defer(s, armed, keep) => \A t \in Starts : t # s => (Waits(t)' => Waits(t))
    BY <1>t, WaitStep
  <2>b. UNCHANGED box => \A t \in Starts : Boxed(t)' => Boxed(t)
    BY <1>t, BoxStep
  <2>3. ASSUME Folds(s, FALSE), UNCHANGED <<pending, box, phone>>
        PROVE  (group'.open => SamplerOn) /\ HasTurn(s)
    BY <2>1, <2>2, <2>3, <2>w, <2>b, FoldStep DEF HasTurn, Eases
  <2>4. ASSUME NEW v, Unsent(s, v) PROVE (group'.open => SamplerOn) /\ HasTurn(s)
    BY <2>3, <2>4, <2>f DEF Unsent
  <2>5. ASSUME ArmAndDefer(s) PROVE (group'.open => SamplerOn) /\ HasTurn(s)
    <3>1. Folds(s, TRUE) /\ UNCHANGED <<box, phone>> /\ \E armed, keep : Defer(s, armed, keep)
      BY <2>5, <2>g DEF ArmAndDefer
    <3> QED
      BY <2>1, <2>2, <2>b, <2>d, <3>1, FoldStep DEF HasTurn, Eases
  <2>6. ASSUME KeepSampling \/ (SdSnapshot /\ SdMotion), Folds(s, FALSE), UNCHANGED <<box, phone>>,
               \E armed, keep : Defer(s, armed, keep)
        PROVE  (group'.open => SamplerOn) /\ HasTurn(s)
    BY <2>1, <2>2, <2>6, <2>b, <2>d, FoldStep DEF HasTurn, Eases
  <2>7. CASE LiveBlind(s)
    BY <2>4, <2>5, <2>7 DEF LiveBlind
  <2>8. CASE LiveOpenBurstNoPerson(s)
    BY <2>4, <2>8 DEF LiveOpenBurstNoPerson
  <2>9. CASE LiveDeferMotion(s)
    BY <2>6, <2>9, <2>f DEF LiveDeferMotion, DeferMotion
  <2>10. CASE LiveMotionHeld(s)
    <3>1. PICK f \in {"marginal", "empty"} :
             /\ group' = Observe(IF Corroborate THEN Counted(EnsureGroup(group, s), f) ELSE group,
                                 s, FALSE, FALSE)
             /\ UNCHANGED <<pending, box, phone>>
      BY <2>10 DEF LiveMotionHeld
    <3>2. Folds(s, FALSE)
      BY <1>t, <3>1, FoldShape
    <3> QED
      BY <2>3, <3>1, <3>2
  <2>11. CASE LiveConfirmedEmpty(s)
    <3>1. CASE BurstSent
      BY <2>4, <2>11, <3>1 DEF LiveConfirmedEmpty
    <3>2. CASE ~BurstSent /\ ~KeepSampling
      BY <2>5, <2>11, <3>2 DEF LiveConfirmedEmpty
    <3>3. CASE ~BurstSent /\ KeepSampling
      BY <2>6, <2>11, <2>f, <3>3 DEF LiveConfirmedEmpty
    <3> QED
      BY <3>1, <3>2, <3>3
  <2>12. CASE LiveSends(s)
    <3> PICK f \in Frames : LiveSends(s)!(f)
      BY <2>12 DEF LiveSends
    <3>1. Folds(s, TRUE)
      BY <1>t, FoldShape DEF Scored
    <3>2. \A t \in Starts : Waits(t)' => Waits(t)
      BY <1>t, WaitStep
    <3>3. ~Boxed(s)' /\ \A t \in Starts : Boxed(t)' => Boxed(t)
      BY <1>t, BoxStep
    <3> QED
      BY <2>1, <2>2, <3>1, <3>2, <3>3, FoldStep DEF HasTurn, Eases
  <2>13. CASE LiveSendRefused(s)
    <3> PICK f \in Frames : LiveSendRefused(s)!(f)
      BY <2>13 DEF LiveSendRefused
    <3>1. Folds(s, SdSnapshot)
      BY <1>t, FoldShape, FlowAssumption DEF Scored
    <3>2. /\ \A t \in Starts : t # s => (Waits(t)' => Waits(t))
          /\ ~SdSnapshot => ~Waits(s)'
      BY <2>2, <2>w, <2>d
    <3>3. /\ Boxed(s)' => UseOutbox
          /\ \A t \in Starts : t # s => (Boxed(t)' => Boxed(t))
      BY <1>t, <2>2, BoxStep
    <3> QED
      BY <2>1, <2>2, <3>1, <3>2, <3>3, FoldStep, FlowAssumption DEF HasTurn, Eases
  <2>14. CASE LiveRaises(s) \/ LiveCooldown(s)
    BY <1>1, <2>14
  <2> QED
    BY <2>7, <2>8, <2>9, <2>10, <2>11, <2>12, <2>13, <2>14 DEF Live
<1>3. CASE ~(LiveRaises(s) \/ LiveCooldown(s))
  <2>1. Process(s)
    BY <1>3 DEF Live, LiveBlind, LiveOpenBurstNoPerson, LiveDeferMotion, LiveMotionHeld,
       LiveConfirmedEmpty, LiveSends, LiveSendRefused
  <2> QED
    BY <1>2, <2>1
<1> QED
  BY <1>1, <1>3

\* What the sampler's turn does.
LEMMA SamplerIncident ==
    ASSUME KnownInv, IncidentInv, Sampler
    PROVE  /\ group'.open => SamplerOn
           /\ Calm \/ \E s \in Starts : FromSampler(s) \/ GoesToBox(s)
<1>t. TypeInv /\ group \in Group /\ (group.open => SamplerOn /\ group.ev \in Starts)
  BY DEF KnownInv, TypeInv, TypeOK, IncidentInv, GroupStart
<1>w. UNCHANGED pending => \A t \in Starts : Waits(t)' => Waits(t)
  BY <1>t, WaitStep
<1>b. UNCHANGED box => \A t \in Starts : Boxed(t)' => Boxed(t)
  BY <1>t, BoxStep
<1>e. PICK s : s = group.ev
  OBVIOUS
<1>1. CASE SamplerIdle \/ SamplerCloses
  <2>1. UNCHANGED <<pending, box, phone>> /\ (group' = group \/ ~group'.open)
    BY <1>1 DEF SamplerIdle, SamplerCloses, NoGroup
  <2> QED
    BY <1>t, <1>w, <1>b, <2>1 DEF Calm, Eases, Grabbing
<1>g. ASSUME Grabs, NEW f, NEW g, g = SamplerCounted(f)
      PROVE  g \in Group /\ g.open /\ g.ev = group.ev /\ ~g.sent /\ Grabbing(group.ev)
  <2>1. Due(group) /\ group.open /\ ~group.sent
    BY <1>g DEF Grabs, Due
  <2>2. g \in Group /\ g.open = group.open /\ g.ev = group.ev
    BY <1>t, <1>g, <2>1, GrabType
  <2>3. Grabbed(f).sent = group.sent
    BY <1>t DEF Grabbed, Group
  <2>4. g.sent = group.sent
    <3>1. Grabbed(f) \in Group
      <4>1. group.frames + 1 \in 0 .. MaxFrames /\ now + Interval \in Nat
        BY <1>t, <2>1, FlowAssumption DEF TypeInv, TypeOK, Group, Due, Times
      <4>2. (group.scored \/ f \in {"person", "marginal", "empty"}) \in BOOLEAN
        OBVIOUS
      <4> QED
        BY <1>t, <4>1, <4>2 DEF Grabbed, Group
    <3> DEFINE h == Grabbed(f)
    <3>2. g = h \/ g = [h EXCEPT !.cand = @ + 1]
      BY <1>g DEF SamplerCounted, Counted
    <3> HIDE DEF h
    <3> QED
      BY <2>3, <3>1, <3>2 DEF h, Group
  <2> QED
    BY <2>1, <2>2, <2>4 DEF Grabbing
<1>2. CASE SamplerSuppresses \/ SamplerCooldown
  <2> PICK f \in Frames : /\ Grabs /\ UNCHANGED <<pending, box, phone>>
                          /\ \/ group' = SamplerCounted(f)
                             \/ group' = [SamplerCounted(f) EXCEPT !.sent = TRUE]
    BY <1>2 DEF SamplerSuppresses, SamplerCooldown
  <2> DEFINE g == SamplerCounted(f)
  <2>1. g \in Group /\ g.open /\ g.ev = group.ev /\ ~g.sent /\ Grabbing(group.ev)
    BY <1>g
  <2>2. group' = g \/ group' = [g EXCEPT !.sent = TRUE]
    OBVIOUS
  <2> HIDE DEF g
  <2>3. group'.ev = group.ev
    BY <2>1, <2>2 DEF Group
  <2> QED
    BY <1>t, <1>w, <1>b, <2>1, <2>3 DEF Calm, Eases, Grabbing
<1>3. CASE SamplerSends
  <2> PICK f \in Frames : SamplerSends!(f)
    BY <1>3 DEF SamplerSends
  <2> DEFINE g == SamplerCounted(f)
  <2>1. g \in Group /\ g.open /\ g.ev = group.ev /\ ~g.sent /\ Grabbing(group.ev)
    BY <1>g
  <2>2. group' = [g EXCEPT !.sent = TRUE, !.delivered = TRUE]
    OBVIOUS
  <2> HIDE DEF g
  <2>3. group'.sent
    BY <2>1, <2>2 DEF Group
  <2>4. /\ group.open /\ s \in Starts
        /\ ~Boxed(s)' /\ \A t \in Starts : Boxed(t)' => Boxed(t)
    BY <1>t, <1>e, <2>1, BoxStep DEF Grabbing
  <2>5. \A t \in Starts : Waits(t)' => Waits(t)
    BY <1>t, <1>e, <2>4, WaitStep
  <2>6. FromSampler(s)
    BY <1>e, <2>1, <2>3, <2>4, <2>5 DEF FromSampler, Eases, Grabbing
  <2> QED
    BY <1>t, <1>e, <2>4, <2>6
<1>4. CASE SamplerRefused
  <2> PICK f \in Frames : SamplerRefused!(f)
    BY <1>4 DEF SamplerRefused
  <2> DEFINE g == SamplerCounted(f)
  <2>1. g \in Group /\ g.open /\ g.ev = group.ev /\ ~g.sent /\ Grabbing(group.ev)
    BY <1>g
  <2>2. group' = g
    OBVIOUS
  <2> HIDE DEF g
  <2>3. group.open /\ s \in Starts
    BY <1>t, <1>e, <2>1 DEF Grabbing
  <2>4. /\ Boxed(s)' => UseOutbox
        /\ \A t \in Starts : t # s => (Boxed(t)' => Boxed(t))
    BY <1>t, <1>e, <2>3, BoxStep DEF IncidentInv
  <2>5. GoesToBox(s)
    BY <1>e, <1>w, <2>1, <2>2, <2>4 DEF GoesToBox, Eases, Grabbing
  <2> QED
    BY <1>t, <1>e, <2>3, <2>5
<1>5. CASE HoldSent \/ HoldRefused
  <2>1. group.open /\ ~group.sent /\ ~group'.open /\ s \in Starts
    <3>1. group.open /\ ~group.sent /\ group' = NoGroup
      BY <1>5 DEF HoldSent, HoldRefused, HoldRipe
    <3>2. ~NoGroup.open
      BY DEF NoGroup
    <3> QED
      BY <1>t, <1>e, <3>1, <3>2
  <2>2. CASE HoldSent
    <3>1. ~Boxed(s)' /\ \A t \in Starts : Boxed(t)' => Boxed(t)
      BY <1>t, <1>e, <2>1, <2>2, BoxStep DEF HoldSent
    <3>2. \A t \in Starts : Waits(t)' => Waits(t)
      BY <1>t, <1>e, <2>1, <2>2, WaitStep DEF HoldSent
    <3>3. \E person, path : path \in {"sampler", "hold"} /\ ToPhone(s, person, path)
      BY <1>e, <2>2 DEF HoldSent
    <3>4. FromSampler(s)
      BY <1>e, <2>1, <3>1, <3>2, <3>3 DEF FromSampler, Eases, Grabbing
    <3> QED
      BY <2>1, <3>4
  <2>3. CASE HoldRefused
    <3>1. UNCHANGED <<pending, phone>> /\ Capture(s)
      BY <1>e, <2>3 DEF HoldRefused
    <3>2. /\ Boxed(s)' => UseOutbox
          /\ \A t \in Starts : t # s => (Boxed(t)' => Boxed(t))
      BY <1>t, <1>e, <2>1, <3>1, BoxStep DEF IncidentInv
    <3>3. GoesToBox(s)
      BY <1>e, <1>w, <2>1, <3>1, <3>2 DEF GoesToBox, Eases, Grabbing
    <3> QED
      BY <2>1, <3>3
  <2> QED
    BY <1>5, <2>2, <2>3
<1> QED
  BY <1>1, <1>2, <1>3, <1>4, <1>5 DEF Sampler

\* What the drain does with a card read it takes over.
LEMMA FinishIncident ==
    ASSUME KnownInv, IncidentInv, DrainInv, NEW s \in Starts, Finish(s)
    PROVE  (group'.open => SamplerOn) /\ (Calm \/ FromCard(s) \/ GoesToBox(s))
<1>t. /\ TypeInv /\ (group.open => SamplerOn)
      /\ group \in Group /\ pending \in [Starts -> Entry]
  BY DEF KnownInv, TypeInv, TypeOK, IncidentInv
<1>b. UNCHANGED box => \A t \in Starts : Boxed(t)' => Boxed(t)
  BY <1>t, BoxStep
<1>r. Resolve(s) => ~Boxed(s)' /\ \A t \in Starts : Boxed(t)' => Boxed(t)
  BY <1>t, BoxStep
<1>w. Waits(s)
  <2>1. Collects(s)
    BY DEF Finish, FinishBlocked, FinishEarlyLook, FinishExtend, FinishNobody, FinishNoMedia,
       FinishFallbackEmpty, FinishCooled, FinishHeld, FinishSends, FinishRefused, FinishSendable,
       Unread, Finishes
  <2>2. s = job /\ job # 0
    BY <2>1, FlowAssumption DEF Collects, Starts
  <2> QED
    BY <2>2 DEF DrainInv, Waits
<1>1. CASE FinishSends(s)
  <2> PICK person \in BOOLEAN : FinishSends(s)!(person)
    BY <1>1 DEF FinishSends
  <2>1. ~Waits(s)' /\ \A t \in Starts : Waits(t)' => Waits(t)
    <3>1. NotePassage(s, s, person) \in [Starts -> Entry]
      BY <1>t, NotePassageType
    <3>2. \A t \in Starts : /\ NotePassage(s, s, person)[t].queued = pending[t].queued
                            /\ NotePassage(s, s, person)[t].gone = pending[t].gone
      BY <1>t DEF NotePassage, Entry
    <3> QED
      BY <3>1, <3>2 DEF Waits, Entry
  <2>2. /\ group'.open = group.open
        /\ \A t \in Starts : Grabbing(t)' => Grabbing(t)
    BY <1>t DEF Grabbing, Group
  <2>3. FromCard(s)
    BY <1>r, <1>w, <2>1, <2>2 DEF FromCard, Eases
  <2> QED
    BY <1>t, <2>2, <2>3
<1>2. CASE FinishRefused(s)
  <2>1. UNCHANGED <<group, phone>> /\ \A t \in Starts : Waits(t)' => Waits(t)
    BY <1>t, <1>2 DEF FinishRefused, Waits, Entry
  <2>2. /\ Boxed(s)' => UseOutbox
        /\ \A t \in Starts : t # s => (Boxed(t)' => Boxed(t))
    BY <1>t, <1>2, BoxStep DEF FinishRefused, IncidentInv
  <2> QED
    BY <1>t, <1>w, <2>1, <2>2 DEF GoesToBox, Eases, Grabbing
<1>3. CASE ~FinishSends(s) /\ ~FinishRefused(s)
  <2>1. UNCHANGED <<group, phone>> /\ (UNCHANGED box \/ Resolve(s))
    <3>1. CASE FinishBlocked(s) \/ FinishNobody(s)
      BY <3>1 DEF FinishBlocked, FinishNobody
    <3> QED
      BY <1>3, <3>1 DEF Finish, FinishEarlyLook, FinishExtend, FinishNoMedia,
         FinishFallbackEmpty, FinishCooled, FinishHeld
  <2>2. \/ UNCHANGED pending \/ Leaves(s)
        \/ \E early \in BOOLEAN :
              pending' = [pending EXCEPT ![s].rest = FALSE, ![s].due = s + SdDelay,
                                         ![s].early = early]
        \/ pending' = [pending EXCEPT ![s].ext = TRUE, ![s].due = now]
    <3>1. CASE FinishEarlyLook(s)
      <4>1. PICK r \in {"nobody", "noframes"} : FinishEarlyLook(s)!(r)
        BY <3>1 DEF FinishEarlyLook
      <4> QED
        BY <4>1
    <3> QED
      BY <1>3, <3>1 DEF Finish, FinishBlocked, FinishExtend, FinishNobody, FinishNoMedia,
         FinishFallbackEmpty, FinishCooled, FinishHeld
  <2>3. \A t \in Starts : Waits(t)' => Waits(t)
    BY <1>t, <2>2 DEF Waits, Leaves, Entry
  <2> QED
    BY <1>t, <1>b, <1>r, <2>1, <2>3 DEF Calm, Eases, Grabbing
<1> QED
  BY <1>1, <1>2, <1>3

\* What the rest of the loop does: only the outbox sends.
LEMMA RestIncident ==
    ASSUME KnownInv, IncidentInv,
           \/ \E s \in Starts, k \in Kinds : CameraReports(s, k)
           \/ Tick \/ PollFails \/ Poll \/ LiveEnds \/ JobEnds \/ CollectNothing \/ ScanEnds
           \/ \E s \in Starts : Scan(s) \/ OutboxSends(s) \/ OutboxReviews(s)
           \/ OutboxEnds
    PROVE  (group'.open => SamplerOn) /\ (Calm \/ \E s \in Starts : FromBox(s))
<1>t. TypeInv /\ (group.open => SamplerOn) /\ pending \in [Starts -> Entry]
  BY DEF KnownInv, TypeInv, TypeOK, IncidentInv
<1>g. UNCHANGED group
  BY DEF CameraReports, Tick, PollFails, Poll, LiveEnds, JobEnds, CollectNothing, ScanEnds,
     OutboxEnds, OutboxSends, OutboxReviews, Scan, ScanKeeps, ScanLoses, ScanDrops, ScanSubmits,
     Ripe, Scans
<1>w. UNCHANGED pending => \A t \in Starts : Waits(t)' => Waits(t)
  BY <1>t, WaitStep
<1>b. UNCHANGED box => \A t \in Starts : Boxed(t)' => Boxed(t)
  BY <1>t, BoxStep
<1>c. ASSUME UNCHANGED phone, \A t \in Starts : (Waits(t)' => Waits(t)) /\ (Boxed(t)' => Boxed(t))
      PROVE  Calm
  BY <1>g, <1>c DEF Calm, Eases, Grabbing
<1>1. CASE \/ \E s \in Starts, k \in Kinds : CameraReports(s, k)
           \/ Tick \/ PollFails \/ Poll \/ LiveEnds \/ JobEnds \/ CollectNothing \/ OutboxEnds
  <2>1. UNCHANGED <<phone, pending, box>>
    BY <1>1 DEF CameraReports, Tick, PollFails, Poll, LiveEnds, JobEnds, CollectNothing, OutboxEnds
  <2> QED
    BY <1>t, <1>g, <1>w, <1>b, <1>c, <2>1
<1>2. CASE ScanEnds
  <2>1. UNCHANGED <<phone, box>> /\ \A t \in Starts : Waits(t)' => Waits(t)
    BY <1>2 DEF ScanEnds, Waits, NoEntry
  <2> QED
    BY <1>t, <1>g, <1>b, <1>c, <2>1
<1>3. ASSUME NEW s \in Starts, Scan(s) PROVE Calm
  <2>1. UNCHANGED phone /\ (UNCHANGED pending \/ Leaves(s)) /\ (UNCHANGED box \/ Resolve(s))
    BY <1>3 DEF Scan, ScanKeeps, ScanLoses, ScanDrops, ScanSubmits, Ripe, Scans
  <2>2. \A t \in Starts : Waits(t)' => Waits(t)
    BY <1>t, <1>w, <2>1, WaitStep
  <2>3. \A t \in Starts : Boxed(t)' => Boxed(t)
    BY <1>t, <1>b, <2>1, BoxStep
  <2> QED
    BY <1>c, <2>1, <2>2, <2>3
<1>4. ASSUME NEW s \in Starts, OutboxReviews(s) PROVE Calm
  <2>1. UNCHANGED <<phone, pending>> /\ Resolve(s)
    BY <1>4 DEF OutboxReviews
  <2> QED
    BY <1>t, <1>w, <1>c, <2>1, BoxStep
<1>5. ASSUME NEW s \in Starts, OutboxSends(s) PROVE FromBox(s)
  <2>1. Takeable(s) /\ Resolve(s) /\ UNCHANGED pending /\ \E person : ToPhone(s, person, "outbox")
    BY <1>5 DEF OutboxSends
  <2>2. Boxed(s) /\ ~Waits(s)
    BY <2>1 DEF Takeable, Boxed, Waits
  <2>3. ~Boxed(s)' /\ \A t \in Starts : Boxed(t)' => Boxed(t)
    BY <1>t, <2>1, BoxStep
  <2> QED
    BY <1>g, <1>w, <2>1, <2>2, <2>3 DEF FromBox, Eases, Grabbing
<1> QED
  BY <1>t, <1>g, <1>1, <1>2, <1>3, <1>4, <1>5

\* The six kinds of step.
LEMMA IncidentShape ==
    ASSUME KnownInv, WaterInv, IncidentInv, DrainInv, Next
    PROVE  /\ group'.open => SamplerOn
           /\ \/ Calm
              \/ \E s \in Starts : \/ HasTurn(s) \/ GoesToBox(s)
                                   \/ FromSampler(s) \/ FromCard(s) \/ FromBox(s)
  BY TurnIncident, SamplerIncident, FinishIncident, RestIncident DEF Next

\* A photo that joins the phone.
LEMMA Joining ==
    ASSUME NEW s, NEW person, NEW path, ToPhone(s, person, path)
    PROVE  \A p \in phone' : p \in phone \/ (p = PhotoOf(s, person, path)
                                              /\ p.start = s /\ p.path = path)
  BY DEF ToPhone, PhotoOf

\* Every step keeps the incident invariant.
LEMMA IncidentStep ==
    ASSUME KnownInv, WaterInv, IncidentInv, DrainInv, Next
    PROVE  IncidentInv'
<1> DEFINE Tabled == /\ group.open => SamplerOn
                     /\ \A x \in Starts : Boxed(x) => UseOutbox
                     /\ \A x \in Starts : Waits(x) \/ Grabbing(x) \/ Boxed(x) => Behind(x)
           Shut(p) == /\ p.path = "live" =>
                             ~Waits(p.start) /\ ~Grabbing(p.start) /\ ~Boxed(p.start)
                      /\ p.path \in {"sampler", "hold"} => ~Grabbing(p.start)
                      /\ p.path = "sd" => ~Waits(p.start)
<1>b. \A x \in Starts : Behind(x) => Behind(x)'
  BY BehindKept
<1>p. \A p \in phone : p.start \in Starts /\ Behind(p.start) /\ Behind(p.start)' /\ Shut(p)
  BY <1>b DEF KnownInv, TypeInv, TypeOK, Photo, IncidentInv
<1>o. group'.open => SamplerOn
  BY IncidentShape
<1>1. CASE Calm
  <2>1. Tabled'
    BY <1>b, <1>o, <1>1 DEF Calm, Eases, IncidentInv
  <2>2. \A p \in phone' : Behind(p.start)' /\ Shut(p)'
    BY <1>p, <1>1 DEF Calm, Eases
  <2>3. EachPathOnce'
    BY <1>1 DEF Calm, IncidentInv, EachPathOnce
  <2> QED
    BY <2>1, <2>2, <2>3 DEF IncidentInv
<1>2. ASSUME NEW s \in Starts, HasTurn(s) PROVE IncidentInv'
  <2>1. ~Waits(s) /\ ~Grabbing(s) /\ ~Boxed(s) /\ \A p \in phone : p.start # s
    BY <1>2 DEF HasTurn, IncidentInv
  <2>2. Tabled'
    BY <1>b, <1>o, <1>2, <2>1 DEF HasTurn, Eases, IncidentInv
  <2>3. CASE phone' = phone
    <3>1. \A p \in phone' : Behind(p.start)' /\ Shut(p)'
      BY <1>p, <1>2, <2>1, <2>3 DEF HasTurn, Eases
    <3>2. EachPathOnce'
      BY <2>3 DEF IncidentInv, EachPathOnce
    <3> QED
      BY <2>2, <3>1, <3>2 DEF IncidentInv
  <2>4. CASE phone' # phone
    <3> PICK person : ToPhone(s, person, "live")
      BY <1>2, <2>4 DEF HasTurn
    <3>0. ~Waits(s)' /\ ~Grabbing(s)' /\ ~Boxed(s)' /\ Behind(s)'
      BY <1>2, <2>4 DEF HasTurn
    <3>1. \A p \in phone' :
              p \in phone \/ (p = PhotoOf(s, person, "live") /\ p.start = s /\ p.path = "live")
      BY Joining
    <3>2. \A p \in phone : p.start # s /\ Behind(p.start)' /\ Shut(p)'
      BY <1>p, <1>2, <2>1 DEF HasTurn, Eases
    <3>3. \A p \in phone' : Behind(p.start)' /\ Shut(p)'
      BY <3>0, <3>1, <3>2
    <3>4. EachPathOnce'
      BY <3>1, <3>2 DEF IncidentInv, EachPathOnce
    <3> QED
      BY <2>2, <3>3, <3>4 DEF IncidentInv
  <2> QED
    BY <2>3, <2>4
<1>3. ASSUME NEW s \in Starts, GoesToBox(s) PROVE IncidentInv'
  <2>1. Behind(s) /\ \A p \in phone : p.path = "live" => p.start # s
    BY <1>3 DEF GoesToBox, IncidentInv
  <2>2. Tabled'
    BY <1>b, <1>o, <1>3, <2>1 DEF GoesToBox, Eases, IncidentInv
  <2>3. \A p \in phone' : Behind(p.start)' /\ Shut(p)'
    BY <1>p, <1>3, <2>1 DEF GoesToBox, Eases
  <2>4. EachPathOnce'
    BY <1>3 DEF GoesToBox, IncidentInv, EachPathOnce
  <2> QED
    BY <2>2, <2>3, <2>4 DEF IncidentInv
<1>4. ASSUME NEW s \in Starts, NEW person, NEW path, ToPhone(s, person, path),
             \A t \in Starts : Eases(t), Behind(s),
             \A p \in phone : p.start = s =>
                 /\ p.path # "live"
                 /\ path \in {"sampler", "hold"} => p.path \notin {"sampler", "hold"}
                 /\ path = "sd" => p.path # "sd",
             path \in {"sampler", "hold"} => ~Grabbing(s)', path = "sd" => ~Waits(s)',
             path \in {"sampler", "hold", "sd", "outbox"}
      PROVE  IncidentInv'
  <2>1. Tabled'
    BY <1>b, <1>o, <1>4 DEF Eases, IncidentInv
  <2>2. \A p \in phone' :
            p \in phone \/ (p = PhotoOf(s, person, path) /\ p.start = s /\ p.path = path)
    BY <1>4, Joining
  <2>3. \A p \in phone : Behind(p.start)' /\ Shut(p)'
    BY <1>p, <1>4 DEF Eases
  <2>4. \A p \in phone' : Behind(p.start)' /\ Shut(p)'
    BY <1>b, <1>4, <2>2, <2>3
  <2>5. ASSUME NEW p \in phone', NEW q \in phone', p.start = q.start, p # q
        PROVE  /\ "live" \notin {p.path, q.path}
               /\ ~({p.path, q.path} \subseteq {"sampler", "hold"})
               /\ p.path = "sd" => q.path # "sd"
    <3>1. CASE p \in phone /\ q \in phone
      BY <2>5, <3>1 DEF IncidentInv, EachPathOnce
    <3>2. CASE p \in phone /\ q = PhotoOf(s, person, path) /\ q.start = s /\ q.path = path
      BY <1>4, <2>5, <3>2
    <3>3. CASE q \in phone /\ p = PhotoOf(s, person, path) /\ p.start = s /\ p.path = path
      BY <1>4, <2>5, <3>3
    <3> QED
      BY <2>2, <2>5, <3>1, <3>2, <3>3
  <2>6. EachPathOnce'
    BY <2>5 DEF EachPathOnce
  <2> QED
    BY <2>1, <2>4, <2>6 DEF IncidentInv
<1>5. ASSUME NEW s \in Starts, FromSampler(s) PROVE IncidentInv'
  <2> PICK person, path : path \in {"sampler", "hold"} /\ ToPhone(s, person, path)
    BY <1>5 DEF FromSampler
  <2> QED
    BY <1>4, <1>5, <1>p DEF FromSampler, IncidentInv
<1>6. ASSUME NEW s \in Starts, FromCard(s) PROVE IncidentInv'
  <2> PICK person : ToPhone(s, person, "sd")
    BY <1>6 DEF FromCard
  <2> QED
    BY <1>4, <1>6, <1>p DEF FromCard, IncidentInv
<1>7. ASSUME NEW s \in Starts, FromBox(s) PROVE IncidentInv'
  <2> PICK person : ToPhone(s, person, "outbox")
    BY <1>7 DEF FromBox
  <2> QED
    BY <1>4, <1>7, <1>p DEF FromBox, IncidentInv
<1> QED
  BY <1>1, <1>2, <1>3, <1>5, <1>6, <1>7, IncidentShape

\* The invariants about incidents hold throughout, in every configuration.
LEMMA IncidentHolds == Spec => [](KnownInv /\ WaterInv /\ DrainInv /\ IncidentInv)
<1>1. Init => DrainInv /\ IncidentInv
  BY DEF Init, DrainInv, IncidentInv, EachPathOnce, Waits, Grabbing, Boxed, NoGroup, NoEntry, Queued
<1>2. KnownInv /\ WaterInv /\ DrainInv /\ IncidentInv /\ [Next]_vars => DrainInv' /\ IncidentInv'
  <2> SUFFICES ASSUME KnownInv, WaterInv, DrainInv, IncidentInv, [Next]_vars
               PROVE  DrainInv' /\ IncidentInv'
    OBVIOUS
  <2>1. CASE UNCHANGED vars
    <3>1. DrainInv'
      BY <2>1 DEF DrainInv, Queued, vars
    <3>2. IncidentInv'
      BY <2>1 DEF IncidentInv, EachPathOnce, Waits, Grabbing, Boxed, Behind, vars
    <3> QED
      BY <3>1, <3>2
  <2>2. CASE Next
    BY <2>2, DrainStep, IncidentStep
  <2> QED
    BY <2>1, <2>2
<1> QED
  BY <1>1, <1>2, KnownInit, KnownStep, WaterInit, WaterStep, PTL DEF Spec

\* What the live pass has sent, no path sends again, and the sampler and the card send
\* an incident once each, whatever is refused, retried, held, or read late
\* (run_monitor's watermark, sampler.observe_event's "sent", process_pending_sd's
\* queue, resolve_outbox).
THEOREM EachPathOnceCorrect == Spec => []EachPathOnce
<1>1. IncidentInv => EachPathOnce
  BY DEF IncidentInv
<1> QED
  BY <1>1, IncidentHolds, PTL

\* Every step keeps one path at a time, unless the configuration runs the sampler beside
\* the card or the outbox.
LEMMA SingleStep ==
    ASSUME ~KeepSampling, SamplerOn => ~UseOutbox /\ ~(SdSnapshot /\ SdMotion),
           KnownInv, WaterInv, IncidentInv, DrainInv, Single, Next
    PROVE  Single'
<1> DEFINE Over(p) == ~Waits(p.start) /\ ~Grabbing(p.start) /\ ~Boxed(p.start)
<1>p. \A p \in phone : p.start \in Starts /\ Behind(p.start) /\ Over(p)
  BY DEF KnownInv, TypeInv, TypeOK, Photo, IncidentInv, Single
<1>1. CASE Calm
  <2>1. \A x \in Starts : ~(Waits(x)' /\ Grabbing(x)')
    BY <1>1 DEF Calm, Eases, Single
  <2>2. \A p \in phone' : Over(p)'
    BY <1>p, <1>1 DEF Calm, Eases
  <2>3. NothingTwice'
    BY <1>1 DEF Calm, Single, NothingTwice
  <2> QED
    BY <2>1, <2>2, <2>3 DEF Single
<1>2. ASSUME NEW s \in Starts, GoesToBox(s) PROVE Single'
  <2>1. \A p \in phone : p.start # s
    BY <1>p, <1>2 DEF GoesToBox
  <2>2. \A x \in Starts : ~(Waits(x)' /\ Grabbing(x)')
    BY <1>2 DEF GoesToBox, Single
  <2>3. \A p \in phone' : Over(p)'
    BY <1>p, <1>2, <2>1 DEF GoesToBox, Eases
  <2>4. NothingTwice'
    BY <1>2 DEF GoesToBox, Single, NothingTwice
  <2> QED
    BY <2>2, <2>3, <2>4 DEF Single
<1>3. ASSUME NEW s \in Starts, NEW person, NEW path, ToPhone(s, person, path),
             \A p \in phone : p.start # s, \A t \in Starts : t # s => Eases(t),
             ~Waits(s)' /\ ~Grabbing(s)' /\ ~Boxed(s)'
      PROVE  Single'
  <2>1. \A p \in phone' : p \in phone \/ (p = PhotoOf(s, person, path) /\ p.start = s)
    BY <1>3, Joining
  <2>2. \A x \in Starts : ~(Waits(x)' /\ Grabbing(x)')
    BY <1>3 DEF Eases, Single
  <2>3. \A p \in phone' : Over(p)'
    BY <1>p, <1>3, <2>1 DEF Eases
  <2>4. NothingTwice'
    BY <1>3, <2>1 DEF Single, NothingTwice
  <2> QED
    BY <2>2, <2>3, <2>4 DEF Single
<1>4. ASSUME NEW s \in Starts, HasTurn(s) PROVE Single'
  <2>1. \A p \in phone : p.start # s
    BY <1>p, <1>4 DEF HasTurn
  <2>2. CASE phone' = phone
    <3>1. SamplerOn => ~(Waits(s)' /\ Grabbing(s)')
      BY <1>4, <2>1, <2>2 DEF HasTurn
    <3>2. group'.open => SamplerOn
      BY IncidentShape
    <3>3. \A x \in Starts : ~(Waits(x)' /\ Grabbing(x)')
      BY <1>4, <3>1, <3>2 DEF HasTurn, Eases, Single, Grabbing
    <3>4. \A p \in phone' : Over(p)'
      BY <1>p, <1>4, <2>1, <2>2 DEF HasTurn, Eases
    <3>5. NothingTwice'
      BY <2>2 DEF Single, NothingTwice
    <3> QED
      BY <3>3, <3>4, <3>5 DEF Single
  <2>3. CASE phone' # phone
    BY <1>3, <1>4, <2>1, <2>3 DEF HasTurn
  <2> QED
    BY <2>2, <2>3
<1>5. ASSUME NEW s \in Starts, FromSampler(s) PROVE Single'
  <2>1. ~Waits(s) /\ \A p \in phone : p.start # s
    BY <1>p, <1>5 DEF FromSampler, Single
  <2>2. ~Waits(s)' /\ ~Grabbing(s)' /\ ~Boxed(s)' /\ \A t \in Starts : Eases(t)
    BY <1>5, <2>1 DEF FromSampler, Eases
  <2>3. PICK person, path : ToPhone(s, person, path)
    BY <1>5 DEF FromSampler
  <2> QED
    BY <1>3, <2>1, <2>2, <2>3
<1>6. ASSUME NEW s \in Starts, FromCard(s) PROVE Single'
  <2>1. ~Grabbing(s) /\ \A p \in phone : p.start # s
    BY <1>p, <1>6 DEF FromCard, Single
  <2>2. ~Waits(s)' /\ ~Grabbing(s)' /\ ~Boxed(s)' /\ \A t \in Starts : Eases(t)
    BY <1>6, <2>1 DEF FromCard, Eases
  <2>3. PICK person : ToPhone(s, person, "sd")
    BY <1>6 DEF FromCard
  <2> QED
    BY <1>3, <2>1, <2>2, <2>3
<1>7. ASSUME NEW s \in Starts, FromBox(s) PROVE Single'
  <2>1. ~Grabbing(s)
    BY <1>7 DEF FromBox, IncidentInv, Grabbing
  <2>2. \A p \in phone : p.start # s
    BY <1>p, <1>7 DEF FromBox
  <2>3. ~Waits(s)' /\ ~Grabbing(s)' /\ ~Boxed(s)' /\ \A t \in Starts : Eases(t)
    BY <1>7, <2>1 DEF FromBox, Eases
  <2>4. PICK person : ToPhone(s, person, "outbox")
    BY <1>7 DEF FromBox
  <2> QED
    BY <1>3, <2>2, <2>3, <2>4
<1> QED
  BY <1>1, <1>2, <1>4, <1>5, <1>6, <1>7, IncidentShape

\* An incident is on the phone once, whichever paths race for it, as long as the sampler
\* does not run beside keep_sampling_on_defer, the outbox or sd_motion, all three of
\* which are off by default: each lets the sampler work on what another path may still
\* send (process_sampler, process_pending_sd, outbox_pass, defer).
THEOREM NothingTwiceCorrect ==
    ASSUME ~KeepSampling, SamplerOn => ~UseOutbox /\ ~(SdSnapshot /\ SdMotion)
    PROVE  Spec => []NothingTwice
<1>1. Init => Single
  BY DEF Init, Single, NothingTwice, Waits, NoEntry
<1>2. KnownInv /\ WaterInv /\ DrainInv /\ IncidentInv /\ Single /\ [Next]_vars => Single'
  <2> SUFFICES ASSUME KnownInv, WaterInv, DrainInv, IncidentInv, Single, [Next]_vars
               PROVE  Single'
    OBVIOUS
  <2>1. CASE UNCHANGED vars
    BY <2>1 DEF Single, NothingTwice, Waits, Grabbing, Boxed, vars
  <2>2. CASE Next
    BY <2>2, SingleStep
  <2> QED
    BY <2>1, <2>2
<1>3. Single => NothingTwice
  BY DEF Single
<1> QED
  BY <1>1, <1>2, <1>3, IncidentHolds, PTL DEF Spec
===============================================================================
