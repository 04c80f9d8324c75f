----------------------------- MODULE Camera_proofs -----------------------------
(* Proofs about the control side of one camera, that is the pan endstop, the     *)
(* choice of the host, the control pass, the lens and the twin; and about the    *)
(* nine parts of MCCamera beside each other: whichever of them a behaviour runs,  *)
(* each keeps its invariant.                                                    *)
EXTENDS Endstop, MCCamera, Restart_proofs, Files_proofs, TLAPS

----------------------------------------------------------------------------
(* The endstop *)

(* What PermitInward says, of any state of the guard. *)
PermitSound(g) ==
  g.permit # 0 =>
    /\ g.latched
    /\ g.verified \/ g.offFails = OffFailsToUnverify
    /\ g.delta * g.permit >= 0 \/ g.seen = Home

(* A step from g to h does not by itself make the latch verified, nor a permit  *)
(* unsound; a tame one does not open the latch either.                         *)
Keeps(g, h) ==
  /\ h.latched /\ h.verified /\ ~h.early => g.latched /\ g.verified /\ ~g.early
  /\ PermitSound(g) => PermitSound(h)
Tame(g, h) == h \in Guards /\ Keeps(g, h) /\ (g.latched => h.latched)

----------------------------------------------------------------------------
(* The guard's pure steps *)

LEMMA Zeros ==
  /\ 0 \in 0..StableSamples /\ 0 \in 0..OffFailsToUnverify /\ 0 \in 0..RecoverAttempts
  BY EndstopAssumption

LEMMA Sign3 ==
  ASSUME NEW d \in {-1, 0, 1}, NEW n \in Int
  PROVE  /\ d * n >= 0 <=> (d = 1 => n >= 0) /\ (d = -1 => n <= 0)
         /\ d * n < 0 <=> (d = 1 /\ n < 0) \/ (d = -1 /\ n > 0)
<1>1. CASE d = 1 BY <1>1
<1>2. CASE d = 0 BY <1>2
<1>3. CASE d = -1 BY <1>3
<1> QED BY <1>1, <1>2, <1>3

LEMMA SuspendedTame == ASSUME NEW g \in Guards PROVE Tame(g, Suspended(g))
  BY Zeros DEF Tame, Keeps, PermitSound, Suspended, Guards, NoPose

LEMMA SuspendedLatched ==
  ASSUME NEW g \in Guards PROVE Suspended(g).latched = g.latched
  BY DEF Suspended, Guards

LEMMA TripTame == ASSUME NEW g \in Guards PROVE Tame(g, Trip(g))
  BY Zeros DEF Tame, Keeps, PermitSound, Trip, Guards

LEMMA TameTrans ==
  ASSUME NEW g \in Guards, NEW h \in Guards, NEW i, Tame(g, h), Tame(h, i)
  PROVE  Tame(g, i)
  BY DEF Tame, Keeps

LEMMA PoseLostTame == ASSUME NEW g \in Guards PROVE Tame(g, PoseLost(g))
<1> DEFINE h == [g EXCEPT !.seen = NoPose, !.healthy = FALSE, !.fresh = FALSE, !.delta = 0,
                          !.samples = 0, !.permit = 0]
<1>1. Tame(g, h)
  BY Zeros DEF Tame, Keeps, PermitSound, Guards, NoPose
<1>2. Tame(h, Trip(h))
  BY <1>1, TripTame DEF Tame
<1>3. PoseLost(g) = Trip(h)
  BY DEF PoseLost
<1>4. h \in Guards
  BY <1>1 DEF Tame
<1> HIDE DEF h
<1> QED BY <1>1, <1>2, <1>3, <1>4, TameTrans

LEMMA SteadyType ==
  ASSUME NEW g \in Guards, NEW p \in Positions PROVE Steady(g, p) \in 0..StableSamples
<1>1. g.samples \in 0..StableSamples BY DEF Guards
<1> QED BY <1>1, EndstopAssumption DEF Steady, Lesser

LEMMA MovedType ==
  ASSUME NEW g \in Guards, NEW p \in Positions PROVE Moved(g, p) \in {-1, 0, 1}
  BY DEF Moved, Sign

LEMMA ObserveTame ==
  ASSUME NEW g \in Guards, NEW p \in Positions PROVE Tame(g, Observe(g, p))
<1> DEFINE permit == IF RecoveryOutward(g, p) \/ Previous(g) = NoPose THEN 0 ELSE g.permit
           armed == \/ Safe(p) /\ ~g.latched /\ Steady(g, p) >= StableSamples
                    \/ g.armed /\ Previous(g) # NoPose
           kept == [g EXCEPT !.seen = p, !.fresh = TRUE, !.healthy = TRUE,
                             !.delta = Moved(g, p), !.samples = Steady(g, p),
                             !.permit = permit, !.armed = armed]
<1>1. permit \in {-1, 0, 1} /\ armed \in BOOLEAN
  BY DEF Guards
<1>2. /\ kept \in Guards /\ kept.latched = g.latched
      /\ kept.verified = g.verified /\ kept.early = g.early
  BY <1>1, SteadyType, MovedType DEF Guards
<1>3. PermitSound(g) => PermitSound(kept)
  <2> SUFFICES ASSUME PermitSound(g), permit # 0 PROVE PermitSound(kept)
    BY SteadyType, MovedType DEF PermitSound, Guards
  <2>1. g.permit # 0 /\ permit = g.permit /\ ~RecoveryOutward(g, p)
    OBVIOUS
  <2>2. g.permit \in {-1, 0, 1} /\ Moved(g, p) \in {-1, 0, 1}
    BY MovedType DEF Guards
  <2>3. Moved(g, p) * permit >= 0
    <3>1. ~(Moved(g, p) * g.permit < 0)
      BY <2>1 DEF RecoveryOutward
    <3>2. g.permit \in Int
      BY <2>2
    <3> QED BY <2>1, <2>2, <3>1, <3>2, Sign3
  <2>4. /\ kept.permit = permit /\ kept.delta = Moved(g, p)
        /\ kept.offFails = g.offFails
    BY DEF Guards
  <2> HIDE DEF kept, permit
  <2> QED BY <1>2, <2>1, <2>3, <2>4 DEF PermitSound
<1>4. Tame(g, kept)
  BY <1>2, <1>3 DEF Tame, Keeps
<1>5. Observe(g, p) \in {kept, Trip(kept)}
  BY DEF Observe
<1> HIDE DEF kept
<1>6. Tame(kept, Trip(kept))
  BY <1>2, TripTame
<1>7. Tame(g, Trip(kept))
  BY <1>2, <1>4, <1>6, TameTrans
<1> QED BY <1>4, <1>5, <1>7

LEMMA NotedTame == ASSUME guard \in Guards PROVE Tame(guard, Noted)
  BY SuspendedTame DEF Noted, Tame, Keeps

(* A permit is granted towards Home, unless the lens was seen to move away. *)
LEMMA PermittedTame ==
  ASSUME NEW g \in Guards, g.latched, MayRecover(g) PROVE Tame(g, Permitted(g))
<1> DEFINE h == Permitted(g)
<1>1. /\ h \in Guards /\ h.latched = g.latched
      /\ h.verified = g.verified /\ h.early = g.early
  BY DEF Permitted, Guards
<1>2. h.delta = g.delta /\ h.seen = g.seen /\ h.permit = (IF Home > g.seen THEN 1 ELSE -1)
  BY DEF Permitted, Guards
<1>3. g.delta \in {-1, 0, 1} /\ g.seen \in Int /\ Home \in Int
  BY EndstopAssumption DEF Guards, Positions, NoPose
<1>4. g.delta * (Home - g.seen) >= 0 /\ g.verified
  BY DEF MayRecover
<1>5. (g.delta = 1 => Home - g.seen >= 0) /\ (g.delta = -1 => Home - g.seen <= 0)
  BY <1>3, <1>4, Sign3
<1>6. h.delta * h.permit >= 0 \/ h.seen = Home
  <2>1. CASE Home > g.seen
    <3>1. h.permit = 1 /\ h.delta \in {0, 1}
      BY <1>2, <1>3, <1>5, <2>1
    <3> QED BY <3>1
  <2>2. CASE Home < g.seen
    <3>1. h.permit = -1 /\ h.delta \in {-1, 0}
      BY <1>2, <1>3, <1>5, <2>2
    <3> QED BY <3>1
  <2> QED BY <1>2, <1>3, <2>1, <2>2
<1> HIDE DEF h
<1>7. Tame(g, h) BY <1>1, <1>4, <1>6 DEF Tame, Keeps, PermitSound
<1> QED BY <1>7 DEF h

LEMMA PreparedTame == ASSUME guard \in Guards, Prepared PROVE Tame(guard, guard')
<1>1. Noted \in Guards /\ Tame(guard, Noted) /\ (Noted.latched <=> guard.latched)
  BY NotedTame, SuspendedLatched DEF Tame, Noted
<1>2. CASE guard.latched /\ MayRecover(Noted)
  <2>1. Tame(Noted, Permitted(Noted))
    BY <1>1, <1>2, PermittedTame
  <2> QED BY <1>1, <1>2, <2>1, TameTrans DEF Prepared
<1>3. CASE ~(guard.latched /\ MayRecover(Noted))
  BY <1>1, <1>3 DEF Prepared
<1> QED BY <1>2, <1>3

LEMMA RearmedKeeps ==
  ASSUME NEW g \in Guards, NEW h \in Guards
  PROVE  Rearmed(h) \in Guards /\ Keeps(g, Rearmed(h)) /\ ~Rearmed(h).latched
  BY DEF Keeps, PermitSound, Rearmed, Guards

LEMMA UnverifiedTame == ASSUME NEW g \in Guards PROVE Tame(g, Unverified(g))
<1> DEFINE fails == Lesser(g.offFails + 1, OffFailsToUnverify)
           h == Unverified(g)
<1>1. g.offFails \in 0..OffFailsToUnverify
  BY DEF Guards
<1>2. /\ fails \in 0..OffFailsToUnverify
      /\ ~(fails < OffFailsToUnverify) => fails = OffFailsToUnverify
      /\ g.offFails = OffFailsToUnverify => fails = OffFailsToUnverify
  BY <1>1, EndstopAssumption DEF Lesser
<1>3. /\ h \in Guards /\ h.latched = g.latched /\ h.permit = g.permit
      /\ h.delta = g.delta /\ h.seen = g.seen /\ h.offFails = fails
      /\ h.verified = (g.verified /\ fails < OffFailsToUnverify) /\ h.early = g.early
  BY <1>2 DEF Unverified, Guards
<1> HIDE DEF h, fails
<1>4. Tame(g, h)
  <2>1. PermitSound(g) => PermitSound(h)
    BY <1>2, <1>3 DEF PermitSound
  <2> QED BY <1>3, <2>1 DEF Tame, Keeps
<1> QED BY <1>4 DEF h

LEMMA VerifiedSound ==
  ASSUME NEW g \in Guards, NEW before \in BOOLEAN
  PROVE  /\ Verified(g, before) \in Guards /\ Verified(g, before).latched = g.latched
         /\ Verified(g, before).early = (before /\ g.latched)
         /\ PermitSound(g) => PermitSound(Verified(g, before))
  BY Zeros DEF Verified, PermitSound, Guards

(* A verdict from before the trip is marked as such, so it claims nothing.       *)
LEMMA EarlyTame == ASSUME NEW g \in Guards PROVE Tame(g, Verified(g, TRUE))
  BY VerifiedSound DEF Tame, Keeps
----------------------------------------------------------------------------
(* What the steps of each thread do to the guard.  Only a read-back that found  *)
(* tracking off makes it verified.                                             *)

LEMMA RecoveriesBounded ==
  ASSUME NEW g \in Guards, g.recoveries < RecoverAttempts
  PROVE  g.recoveries + 1 \in 0..RecoverAttempts
<1>1. g.recoveries \in 0..RecoverAttempts BY DEF Guards
<1> QED BY <1>1, EndstopAssumption

LEMMA ObservingGuard ==
  ASSUME guard \in Guards, Observing PROVE Tame(guard, guard')
<1>1. CASE PollStarts BY <1>1, SuspendedTame DEF PollStarts, Tame, Keeps
<1>2. CASE ReadOk BY <1>2, SuspendedTame, ObserveTame DEF ReadOk, Tame, Keeps
<1>3. CASE ReadFails BY <1>3, PoseLostTame DEF ReadFails
<1>4. CASE StopSkipped BY <1>4, SuspendedTame DEF StopSkipped, Tame, Keeps
<1>5. CASE StopSent BY <1>5 DEF StopSent, Tame, Keeps
<1>6. CASE StopDone BY <1>6 DEF StopDone, Tame, Keeps, PermitSound, Guards
<1>7. CASE StopFails BY <1>7 DEF StopFails, Tame, Keeps
<1>8. CASE OffDispatched BY <1>8 DEF OffDispatched, Tame, Keeps
<1>9. CASE HomeDispatched BY <1>9, RecoveriesBounded DEF HomeDispatched, Tame, Keeps, PermitSound, Guards
<1>10. CASE NotDispatched BY <1>10 DEF NotDispatched, Tame, Keeps
<1>11. CASE PollLeaves BY <1>11 DEF PollLeaves, Tame, Keeps
<1>12. CASE PollEnds BY <1>12 DEF PollEnds, Tame, Keeps
<1> QED BY <1>1, <1>2, <1>3, <1>4, <1>5, <1>6, <1>7, <1>8, <1>9, <1>10, <1>11, <1>12
        DEF Observing

(* The two steps that are not tame: storing that the read-back found tracking   *)
(* off in this episode, the pass that opens the latch.                          *)
FoundOff == OffStores /\ off = "good" /\ guard' = Verified(guard, FALSE)
Opens == PassStarts /\ MayRearm(Noted) /\ guard' = Rearmed(Noted)

LEMMA OffGuard ==
  ASSUME guard \in Guards, SwitchingOff
  PROVE  Tame(guard, guard') \/ FoundOff
<1>1. CASE OffTakesSession BY <1>1 DEF OffTakesSession, Tame, Keeps
<1>2. CASE OffLocks BY <1>2 DEF OffLocks, Tame, Keeps
<1>3. CASE OffSet BY <1>3 DEF OffSet, Tame, Keeps
<1>4. CASE OffRead BY <1>4 DEF OffRead, Tame, Keeps
<1>5. CASE OffCallFails BY <1>5 DEF OffCallFails, Tame, Keeps
<1>6. CASE OffStores
  <2>1. CASE off = "bad" BY <1>6, <2>1, UnverifiedTame DEF OffStores
  <2>2. CASE off = "early" BY <1>6, <2>2, EarlyTame DEF OffStores
  <2>3. CASE off = "good" BY <1>6, <2>3 DEF OffStores, FoundOff
  <2> QED BY <1>6, <2>1, <2>2, <2>3 DEF OffStores
<1> QED BY <1>1, <1>2, <1>3, <1>4, <1>5, <1>6 DEF SwitchingOff

LEMMA ClosedTame ==
  ASSUME NEW g \in Guards PROVE Tame(g, Trip([g EXCEPT !.permit = 0]))
<1> DEFINE h == [g EXCEPT !.permit = 0]
<1>1. Tame(g, h) BY DEF Tame, Keeps, PermitSound, Guards
<1> QED BY <1>1, TripTame, TameTrans DEF Tame

LEMMA PassGuard ==
  ASSUME guard \in Guards, ControlPass PROVE Tame(guard, guard') \/ Opens
<1>1. CASE PassStarts BY <1>1, NotedTame DEF PassStarts, Opens
<1>2. CASE PassAsks BY <1>2, PreparedTame DEF PassAsks
<1>3. CASE PassKeeps BY <1>3, NotedTame DEF PassKeeps
<1>4. CASE PassSends BY <1>4, NotedTame DEF PassSends
<1>5. CASE PassLands BY <1>5 DEF PassLands, Tame, Keeps
<1>6. CASE PassFails BY <1>6 DEF PassFails, Tame, Keeps
<1>7. CASE SessionRetires BY <1>7 DEF SessionRetires, Tame, Keeps
<1>8. CASE Login BY <1>8 DEF Login, Tame, Keeps
<1>9. CASE Shutdown BY <1>9, ClosedTame DEF Shutdown
<1> QED BY <1>1, <1>2, <1>3, <1>4, <1>5, <1>6, <1>7, <1>8, <1>9 DEF ControlPass

LEMMA SurroundingsGuard ==
  ASSUME guard \in Guards, Surroundings PROVE Tame(guard, guard')
<1>1. CASE AppTracks BY <1>1 DEF AppTracks, Tame, Keeps
<1>2. CASE PrivacyOn BY <1>2 DEF PrivacyOn, Tame, Keeps
<1>3. CASE PrivacyOff BY <1>3 DEF PrivacyOff, Tame, Keeps
<1>4. CASE PoseAges
  <2>1. guard' \in Guards
    BY <1>4, Zeros DEF PoseAges, Guards
  <2>2. /\ guard'.latched = guard.latched /\ guard'.verified = guard.verified
        /\ guard'.early = guard.early /\ guard'.permit = guard.permit /\ guard'.offFails = guard.offFails
        /\ guard'.delta = 0 /\ guard.permit \in {-1, 0, 1}
    BY <1>4 DEF PoseAges, Guards
  <2>3. guard'.delta * guard'.permit >= 0
    BY <2>2
  <2> QED BY <2>1, <2>2, <2>3 DEF Tame, Keeps, PermitSound
<1>5. CASE PermitEnds BY <1>5 DEF PermitEnds, Tame, Keeps, PermitSound, Guards
<1> QED BY <1>1, <1>2, <1>3, <1>4, <1>5 DEF Surroundings

LEMMA HomeGuard ==
  ASSUME guard \in Guards, HomeAsks PROVE Tame(guard, guard')
  BY PreparedTame DEF HomeAsks, Tame, Keeps

----------------------------------------------------------------------------
(* The session lock *)

(* Who holds the lock is where it says, on a session that is not retired; the   *)
(* control pass goes on only while the session lives.                          *)
Locks ==
  /\ holder = "off" <=> off \in {"set", "read"}
  /\ holder = "pass" <=> ctl = "flight"
  /\ ctl \in {"ask", "again", "assert", "flight"} => live
  /\ NothingOnRetired

LEMMA LocksInit == EndstopInit => Locks
  BY DEF EndstopInit, Locks, NothingOnRetired

(* The observing thread, the recall and the surroundings leave the lock, the    *)
(* session and the pass alone; a dispatched OFF has not asked for the lock yet. *)
Aside ==
  /\ UNCHANGED <<ctl, session, live, holder, offGen>>
  /\ off' = off \/ (off = "none" /\ off' = "begin")

LEMMA AsideSteps ==
  ASSUME Observing \/ HomeAsks \/ Surroundings PROVE Aside
<1>1. CASE Observing
  BY <1>1 DEF Observing, Aside, PollStarts, ReadOk, ReadFails, StopSkipped, StopSent,
              StopDone, StopFails, OffDispatched, HomeDispatched, NotDispatched,
              PollLeaves, PollEnds, sessionVars
<1>2. CASE HomeAsks
  BY <1>2 DEF HomeAsks, Aside, sessionVars
<1>3. CASE Surroundings
  BY <1>3 DEF Surroundings, Aside, AppTracks, PrivacyOn, PrivacyOff, PoseAges, PermitEnds,
              sessionVars
<1> QED BY <1>1, <1>2, <1>3

LEMMA LocksStep ==
  ASSUME Locks, [EndstopNext]_endstopVars PROVE Locks'
<1>1. CASE Observing \/ HomeAsks \/ Surroundings
  BY <1>1, AsideSteps DEF Aside, Locks, NothingOnRetired
<1>2. CASE SwitchingOff
  <2>1. CASE OffTakesSession
    BY <2>1 DEF OffTakesSession, Locks, NothingOnRetired, sessionVars
  <2>2. CASE OffLocks
    BY <2>2 DEF OffLocks, Locks, NothingOnRetired
  <2>3. CASE OffSet
    BY <2>3 DEF OffSet, Locks, NothingOnRetired, sessionVars
  <2>4. CASE OffRead
    BY <2>4 DEF OffRead, Locks, NothingOnRetired
  <2>5. CASE OffCallFails
    BY <2>5 DEF OffCallFails, Locks, NothingOnRetired
  <2>6. CASE OffStores
    BY <2>6 DEF OffStores, Locks, NothingOnRetired, sessionVars
  <2> QED BY <1>2, <2>1, <2>2, <2>3, <2>4, <2>5, <2>6 DEF SwitchingOff
<1>3. CASE ControlPass
  <2>1. CASE PassStarts
    BY <2>1 DEF PassStarts, Locks, NothingOnRetired, sessionVars
  <2>2. CASE PassAsks
    <3>1. ctl \in {"ask", "again"} /\ ctl' \in {"again", "assert"}
      BY <2>2 DEF PassAsks, Recall
    <3> QED BY <2>2, <3>1 DEF PassAsks, Locks, NothingOnRetired, sessionVars
  <2>3. CASE PassKeeps
    BY <2>3 DEF PassKeeps, PermitSound, Locks, NothingOnRetired, sessionVars
  <2>4. CASE PassSends
    BY <2>4 DEF PassSends, Locks, NothingOnRetired
  <2>5. CASE PassLands
    BY <2>5 DEF PassLands, Locks, NothingOnRetired
  <2>6. CASE PassFails
    BY <2>6 DEF PassFails, Locks, NothingOnRetired
  <2>7. CASE SessionRetires
    BY <2>7 DEF SessionRetires, Locks, NothingOnRetired
  <2>8. CASE Login
    BY <2>8 DEF Login, Locks, NothingOnRetired
  <2>9. CASE Shutdown
    BY <2>9 DEF Shutdown, Locks, NothingOnRetired, sessionVars
  <2> QED BY <1>3, <2>1, <2>2, <2>3, <2>4, <2>5, <2>6, <2>7, <2>8, <2>9 DEF ControlPass
<1>4. CASE UNCHANGED endstopVars
  BY <1>4 DEF endstopVars, Locks, NothingOnRetired
<1> QED BY <1>1, <1>2, <1>3, <1>4 DEF EndstopNext

(* No request is under way on a session that was retired or replaced, for any   *)
(* interleaving of the two threads (sessionguard.perform_request, retire_client *)
(* behind one lock).                                                           *)
THEOREM EndstopNothingOnRetired == EndstopSpec => []NothingOnRetired
<1>1. Locks => NothingOnRetired BY DEF Locks
<1> QED BY <1>1, LocksInit, LocksStep, PTL DEF EndstopSpec

----------------------------------------------------------------------------
(* What a verified OFF means *)

(* Tracking that the daemon is about to switch on, or has. *)
Ours == native = "ours" \/ (ctl = "flight" /\ on)

(* From a read-back inside an episode to its store the latch cannot open (an OFF *)
(* is still pending), so what was read stays true.                               *)
ReadHolds == off = "good" => guard.latched /\ ~Ours

VerifiedInv == guard \in Guards /\ Locks /\ VerifiedMeansOff /\ ReadHolds

LEMMA VerifiedInvInit == EndstopInit => VerifiedInv
<1> SUFFICES ASSUME EndstopInit PROVE VerifiedInv OBVIOUS
<1>1. guard \in Guards
  BY Zeros DEF EndstopInit, StartedGuard, Guards, NoPose
<1>2. VerifiedMeansOff
  BY DEF EndstopInit, StartedGuard, VerifiedMeansOff
<1>3. ReadHolds
  BY DEF EndstopInit, ReadHolds
<1> QED BY <1>1, <1>2, <1>3, LocksInit DEF VerifiedInv

(* Only a pass that saw the guard open starts one. *)
LEMMA OursOnly ==
  ASSUME guard \in Guards, Locks, EndstopNext, Ours' PROVE Ours \/ ~guard'.latched
<1>1. CASE Observing \/ HomeAsks \/ Surroundings
  <2>1. ctl' = ctl /\ on' = on /\ (native' = "ours" => native = "ours")
    BY <1>1 DEF Observing, PollStarts, ReadOk, ReadFails, StopSkipped, StopSent,
                StopDone, StopFails, OffDispatched, HomeDispatched, NotDispatched,
                PollLeaves, PollEnds, HomeAsks, Surroundings, AppTracks, PrivacyOn,
                PrivacyOff, PoseAges, PermitEnds, cameraVars
  <2> QED BY <2>1 DEF Ours
<1>2. CASE SwitchingOff
  BY <1>2 DEF SwitchingOff, OffTakesSession, OffLocks, OffSet, OffRead, OffCallFails, OffStores,
              Ours, cameraVars
<1>3. CASE ControlPass
  <2>1. CASE PassSends
    <3>1. on' => ~Noted.latched
      BY <2>1 DEF PassSends, Allowed
    <3> QED BY <2>1, <3>1 DEF PassSends, Ours, cameraVars
  <2>2. CASE PassStarts \/ PassAsks \/ PassKeeps
    <3>1. ctl' # "flight" /\ native' = native
      BY <2>2 DEF PassStarts, PassAsks, Recall, PassKeeps, PermitSound, cameraVars
    <3> QED BY <3>1 DEF Ours
  <2>3. CASE PassLands
    BY <2>3 DEF PassLands, Ours
  <2>4. CASE PassFails
    BY <2>4 DEF PassFails, Ours
  <2>5. CASE SessionRetires \/ Login \/ Shutdown
    BY <2>5 DEF SessionRetires, Login, Shutdown, Ours, cameraVars
  <2> QED BY <1>3, <2>1, <2>2, <2>3, <2>4, <2>5 DEF ControlPass
<1> QED BY <1>1, <1>2, <1>3 DEF EndstopNext

LEMMA GuardStep ==
  ASSUME guard \in Guards, EndstopNext
  PROVE  Tame(guard, guard') \/ FoundOff \/ Opens
  BY ObservingGuard, OffGuard, PassGuard, SurroundingsGuard, HomeGuard DEF EndstopNext

LEMMA NotedType == ASSUME guard \in Guards PROVE Noted \in Guards
  BY NotedTame DEF Tame

LEMMA GuardTyped ==
  ASSUME guard \in Guards, EndstopNext
  PROVE  /\ guard' \in Guards
         /\ PermitSound(guard) => PermitSound(guard')
         /\ Keeps(guard, guard') \/ FoundOff
<1>1. CASE Tame(guard, guard') BY <1>1 DEF Tame, Keeps
<1>2. CASE FoundOff BY <1>2, VerifiedSound DEF FoundOff
<1>3. CASE Opens BY <1>3, RearmedKeeps, NotedType DEF Opens, Keeps
<1> QED BY <1>1, <1>2, <1>3, GuardStep

(* The latch stays shut while an OFF is pending. *)
LEMMA PendingShut ==
  ASSUME guard \in Guards, EndstopNext, guard.latched, off # "none"
  PROVE  guard'.latched
<1>1. ~Opens BY DEF Opens, MayRearm
<1>2. CASE Tame(guard, guard') BY <1>2 DEF Tame
<1>3. CASE FoundOff BY <1>3, VerifiedSound DEF FoundOff
<1> QED BY <1>1, <1>2, <1>3, GuardStep

LEMMA ReadHoldsStep ==
  ASSUME guard \in Guards, Locks, ReadHolds, EndstopNext PROVE ReadHolds'
<1> SUFFICES ASSUME off' = "good" PROVE guard'.latched /\ ~Ours'
  BY DEF ReadHolds
<1>1. CASE off = "good"
  BY <1>1, PendingShut, OursOnly DEF ReadHolds
<1>2. CASE off # "good"
  <2>1. OffRead
    <3>1. CASE Observing \/ HomeAsks \/ Surroundings BY <1>2, <3>1, AsideSteps DEF Aside
    <3>2. CASE ControlPass
      BY <1>2, <3>2 DEF ControlPass, PassStarts, PassAsks, PassKeeps, PassSends, PassLands,
                        PassFails, SessionRetires, Login, Shutdown
    <3>3. CASE SwitchingOff
      BY <1>2, <3>3 DEF SwitchingOff, OffTakesSession, OffLocks, OffSet, OffCallFails, OffStores
    <3> QED BY <3>1, <3>2, <3>3 DEF EndstopNext
  <2>2. guard'.latched /\ native' = "off"
    BY <2>1 DEF OffRead, cameraVars
  <2>3. ctl # "flight" /\ ctl' = ctl
    BY <2>1 DEF OffRead, Locks
  <2> QED BY <2>2, <2>3 DEF Ours
<1> QED BY <1>1, <1>2

LEMMA VerifiedInvStep ==
  ASSUME VerifiedInv, [EndstopNext]_endstopVars PROVE VerifiedInv'
<1>1. Locks' BY LocksStep DEF VerifiedInv
<1>2. CASE EndstopNext
  <2>1. guard' \in Guards BY <1>2, GuardTyped DEF VerifiedInv
  <2>2. ASSUME guard'.latched, guard'.verified, ~guard'.early PROVE ~Ours'
    <3>1. CASE Keeps(guard, guard')
      BY <1>2, <2>2, <3>1, OursOnly DEF Keeps, PermitSound, VerifiedInv, VerifiedMeansOff, Ours
    <3>2. CASE FoundOff
      BY <1>2, <2>2, <3>2, OursOnly DEF FoundOff, VerifiedInv, ReadHolds
    <3> QED BY <1>2, <3>1, <3>2, GuardTyped DEF VerifiedInv
  <2>3. ReadHolds' BY <1>2, ReadHoldsStep DEF VerifiedInv
  <2> QED BY <1>1, <2>1, <2>2, <2>3 DEF VerifiedInv, VerifiedMeansOff, Ours
<1>3. CASE UNCHANGED endstopVars
  BY <1>1, <1>3 DEF endstopVars, VerifiedInv, VerifiedMeansOff, ReadHolds, Ours
<1> QED BY <1>2, <1>3

(* While the guard is latched and counts its OFF as verified, the daemon's own  *)
(* tracking is off and no request that would switch it on is under way          *)
(* (stopguard.tracking_allowed asked again under the session lock), unless the  *)
(* camera was read before the trip and the verdict stored after it.             *)
THEOREM EndstopVerifiedMeansOff == EndstopSpec => []VerifiedMeansOff
<1>1. VerifiedInv => VerifiedMeansOff BY DEF VerifiedInv
<1> QED BY <1>1, VerifiedInvInit, VerifiedInvStep, PTL DEF EndstopSpec

----------------------------------------------------------------------------
(* Permits and the latch *)

(* A recovery permit stands only behind a latched guard whose OFF was verified, *)
(* and never for a lens seen moving away from Home (stopguard.prepare_recovery, *)
(* the permit's checks in poll_once).                                          *)
THEOREM EndstopPermitInward == EndstopSpec => []PermitInward
<1> DEFINE Inv == guard \in Guards /\ PermitSound(guard)
<1>1. EndstopInit => Inv
  <2> SUFFICES ASSUME EndstopInit PROVE Inv OBVIOUS
  <2>1. guard \in Guards
    BY Zeros DEF EndstopInit, StartedGuard, Guards, NoPose
  <2> QED BY <2>1 DEF EndstopInit, StartedGuard, PermitSound
<1>2. Inv /\ [EndstopNext]_endstopVars => Inv'
  BY GuardTyped DEF endstopVars, PermitSound
<1>3. Inv => PermitInward
  BY DEF PermitSound, PermitInward
<1> QED BY <1>1, <1>2, <1>3, PTL DEF EndstopSpec

(* Whatever the two threads, the app and failing calls do: an OFF verified in    *)
(* its own episode stays off, Stop is suppressed only inward, no request runs   *)
(* on a retired session.                                                        *)
THEOREM EndstopHoldsCorrect == EndstopSpec => []EndstopHolds
<1>1. VerifiedMeansOff /\ PermitInward /\ NothingOnRetired => EndstopHolds
  BY DEF EndstopHolds
<1> QED
  BY <1>1, EndstopVerifiedMeansOff, EndstopPermitInward, EndstopNothingOnRetired, PTL

(* The latch opens only in a control pass, when the daemon's tracking is off (or *)
(* its verdict was read before the trip), no OFF is still being sent and the    *)
(* last pose was inside (stopguard.rearm).                                      *)
THEOREM EndstopLatchOpensSafely == EndstopSpec => LatchOpensSafely
<1> DEFINE Safely == guard.latched /\ ~guard'.latched =>
                       /\ native # "ours" \/ guard.early
                       /\ off = "none" /\ Safe(guard.seen)
<1>1. ASSUME VerifiedInv, EndstopNext, guard.latched, ~guard'.latched
      PROVE  (native # "ours" \/ guard.early) /\ off = "none" /\ Safe(guard.seen)
  <2>1. guard \in Guards /\ VerifiedMeansOff
    BY <1>1 DEF VerifiedInv
  <2>2. ~Tame(guard, guard') /\ ~FoundOff
    BY <1>1, <2>1, VerifiedSound DEF Tame, FoundOff
  <2>3. MayRearm(Noted)
    BY <1>1, <2>1, <2>2, GuardStep DEF Opens
  <2>4. Noted = guard
    <3>1. privacy => Noted.healthy = FALSE
      BY <2>1 DEF Noted, Suspended, Guards
    <3>2. Noted.healthy
      BY <2>3 DEF MayRearm, Healthy
    <3> QED BY <3>1, <3>2 DEF Noted
  <2>5. guard.verified /\ off = "none" /\ Safe(guard.seen)
    BY <1>1, <2>3, <2>4 DEF MayRearm
  <2> QED BY <1>1, <2>1, <2>5 DEF VerifiedMeansOff
<1>2. VerifiedInv /\ [EndstopNext]_endstopVars => [Safely]_endstopVars
  BY <1>1
<1> QED BY <1>2, VerifiedInvInit, VerifiedInvStep, PTL DEF EndstopSpec, LatchOpensSafely

----------------------------------------------------------------------------
(* What the endstop's variables hold *)

Tasks == {"force", "stop", "ack", "off", "home", "leave"}

(* Each login replaces a session whose retirement was a disturbance; the thread *)
(* that switches tracking off never uses a session from the future.            *)
Sessions ==
  /\ session \in Nat /\ calm \in Nat /\ offGen \in 0..session
  /\ session + calm + (IF live THEN 0 ELSE 1) <= Disturbances

EndstopShape ==
  /\ native \in {"off", "ours", "app"} /\ privacy \in BOOLEAN
  /\ poll \in {"idle", "reading", "acting", "halting", "ended"}
  /\ off \in {"none", "begin", "wait", "set", "read", "good", "early", "bad"}
  /\ home \in {"none", "ask", "again"}
  /\ ctl \in {"idle", "ask", "again", "assert", "flight", "gone"}
  /\ on \in BOOLEAN /\ live \in BOOLEAN /\ closed \in BOOLEAN
  /\ holder \in {"free", "off", "pass"}

TodoInv == reaction \in Seq(Tasks) /\ (poll = "acting" => reaction # <<>>)

EndstopInv == VerifiedInv /\ EndstopShape /\ TodoInv /\ Sessions

LEMMA EndstopInitInv == EndstopInit => EndstopInv
<1> SUFFICES ASSUME EndstopInit PROVE EndstopInv OBVIOUS
<1>1. VerifiedInv BY VerifiedInvInit
<1>2. EndstopShape BY DEF EndstopInit, EndstopShape
<1>3. TodoInv BY DEF EndstopInit, TodoInv
<1>4. Sessions BY EndstopAssumption DEF EndstopInit, Sessions
<1> QED BY <1>1, <1>2, <1>3, <1>4 DEF EndstopInv

LEMMA AllowedType == ASSUME NEW g \in Guards PROVE Healthy(g) \in BOOLEAN /\ Allowed(g) \in BOOLEAN
  BY DEF Allowed, Healthy

LEMMA ShapeStep ==
  ASSUME guard \in Guards, EndstopShape, [EndstopNext]_endstopVars PROVE EndstopShape'
<1> USE DEF EndstopShape
<1>1. CASE Observing
  <2>1. poll' \in {"idle", "reading", "acting", "halting", "ended"}
    BY <1>1 DEF Observing, PollStarts, ReadOk, ReadFails, StopSkipped, StopSent,
                StopDone, StopFails, OffDispatched, HomeDispatched, NotDispatched,
                PollLeaves, PollEnds, Continue
  <2>2. off' \in {off, "begin"} /\ home' \in {home, "ask"}
    BY <1>1 DEF Observing, PollStarts, ReadOk, ReadFails, StopSkipped, StopSent,
                StopDone, StopFails, OffDispatched, HomeDispatched, NotDispatched,
                PollLeaves, PollEnds
  <2>3. UNCHANGED <<native, privacy, ctl, on, live, closed, holder>>
    BY <1>1 DEF Observing, PollStarts, ReadOk, ReadFails, StopSkipped, StopSent,
                StopDone, StopFails, OffDispatched, HomeDispatched, NotDispatched,
                PollLeaves, PollEnds, cameraVars, sessionVars
  <2> QED BY <2>1, <2>2, <2>3
<1>2. CASE SwitchingOff
  <2>1. /\ native' \in {native, "off"}
        /\ off' \in {"none", "wait", "set", "read", "good", "early", "bad"}
        /\ holder' \in {"free", "off", holder}
        /\ UNCHANGED <<privacy, poll, home, ctl, on, live, closed>>
    BY <1>2 DEF SwitchingOff, OffTakesSession, OffLocks, OffSet, OffRead, OffCallFails,
                OffStores, cameraVars, sessionVars
  <2> QED BY <2>1
<1>3. CASE HomeAsks
  BY <1>3 DEF HomeAsks, Recall, cameraVars, sessionVars
<1>4. CASE ControlPass
  <2>1. CASE PassStarts
    <3>1. guard' \in Guards BY <2>1, NotedType, RearmedKeeps, PassGuard, GuardTyped DEF EndstopNext, ControlPass
    <3>2. on' = Allowed(guard') BY <2>1 DEF PassStarts
    <3>3. on' = (guard'.healthy /\ guard'.fresh /\ ~closed' /\ ~guard'.latched /\ guard'.armed)
      BY <2>1, <3>2 DEF PassStarts, Allowed, Healthy
    <3>4. on' \in BOOLEAN BY <3>3
    <3> QED BY <2>1, <3>4 DEF PassStarts, cameraVars, sessionVars
  <2>2. CASE PassAsks
    BY <2>2 DEF PassAsks, Recall, cameraVars, sessionVars
  <2>3. CASE PassKeeps
    BY <2>3 DEF PassKeeps, cameraVars, sessionVars
  <2>4. CASE PassSends
    BY <2>4 DEF PassSends, cameraVars
  <2>5. CASE PassLands
    BY <2>5 DEF PassLands
  <2>6. CASE PassFails
    BY <2>6 DEF PassFails
  <2>7. CASE SessionRetires \/ Login \/ Shutdown
    BY <2>7 DEF SessionRetires, Login, Shutdown, cameraVars, sessionVars
  <2> QED BY <1>4, <2>1, <2>2, <2>3, <2>4, <2>5, <2>6, <2>7 DEF ControlPass
<1>5. CASE Surroundings
  BY <1>5 DEF Surroundings, AppTracks, PrivacyOn, PrivacyOff, PoseAges, PermitEnds,
              cameraVars, sessionVars
<1>6. CASE UNCHANGED endstopVars
  BY <1>6 DEF endstopVars
<1> QED BY <1>1, <1>2, <1>3, <1>4, <1>5, <1>6 DEF EndstopNext

LEMMA SessionsStep ==
  ASSUME EndstopShape, Sessions, [EndstopNext]_endstopVars PROVE Sessions'
<1> USE DEF Sessions
<1>1. CASE Observing \/ HomeAsks \/ Surroundings
  <2>1. UNCHANGED <<session, live, offGen>>
    BY <1>1, AsideSteps DEF Aside
  <2>2. calm' = calm \/ (calm > 0 /\ calm' = calm - 1)
    BY <1>1 DEF Observing, PollStarts, ReadOk, ReadFails, StopSkipped, StopSent,
                StopDone, StopFails, OffDispatched, HomeDispatched, NotDispatched,
                PollLeaves, PollEnds, HomeAsks, Surroundings, AppTracks, PrivacyOn,
                PrivacyOff, PoseAges, PermitEnds
  <2> QED BY <2>1, <2>2, EndstopAssumption
<1>2. CASE SwitchingOff
  <2>1. UNCHANGED <<session, live>> /\ offGen' \in {offGen, session, 0}
    BY <1>2 DEF SwitchingOff, OffTakesSession, OffLocks, OffSet, OffRead, OffCallFails,
                OffStores, sessionVars
  <2>2. calm' = calm \/ (calm > 0 /\ calm' = calm - 1)
    BY <1>2 DEF SwitchingOff, OffTakesSession, OffLocks, OffSet, OffRead, OffCallFails, OffStores
  <2> QED BY <2>1, <2>2, EndstopAssumption
<1>3. CASE ControlPass
  <2>1. CASE PassStarts \/ PassAsks \/ PassKeeps \/ PassSends \/ PassLands \/ Shutdown
    <3>1. UNCHANGED <<session, live, offGen, calm>>
      BY <2>1 DEF PassStarts, PassAsks, PassKeeps, PassSends, PassLands, Shutdown,
                  sessionVars
    <3> QED BY <3>1
  <2>2. CASE PassFails
    <3>1. UNCHANGED <<session, live, offGen>> /\ calm > 0 /\ calm' = calm - 1
      BY <2>2 DEF PassFails
    <3> QED BY <3>1, EndstopAssumption
  <2>3. CASE SessionRetires
    <3>1. /\ UNCHANGED <<session, offGen>> /\ calm > 0 /\ calm' = calm - 1
          /\ live /\ ~live'
      BY <2>3 DEF SessionRetires
    <3> QED BY <3>1, EndstopAssumption
  <2>4. CASE Login
    <3>1. /\ UNCHANGED <<calm, offGen>> /\ session' = session + 1
          /\ ~live /\ live'
      BY <2>4 DEF Login
    <3> QED BY <3>1, EndstopAssumption
  <2> QED BY <1>3, <2>1, <2>2, <2>3, <2>4 DEF ControlPass
<1>4. CASE UNCHANGED endstopVars
  BY <1>4 DEF endstopVars
<1> QED BY <1>1, <1>2, <1>3, <1>4 DEF EndstopNext

LEMMA ReactionType ==
  ASSUME NEW g, NEW p, NEW early PROVE Reaction(g, p, early) \in Seq(Tasks)
<1> DEFINE forced == IF RecoveryOutward(g, p) THEN <<"force">> ELSE <<>>
           soon == IF early /\ calm < Disturbances THEN <<"off">> ELSE <<>>
           halt == IF g.latched /\ Inward(g, p) THEN <<>> ELSE <<"stop">>
           inside == IF g.latched THEN <<"ack", "off">> ELSE <<>>
           outside == soon \o halt \o <<"off", "home">>
<1>1. forced \in Seq(Tasks) /\ soon \in Seq(Tasks) /\ halt \in Seq(Tasks)
  <2>1. /\ <<>> \in Seq(Tasks) /\ <<"force">> \in Seq(Tasks)
        /\ <<"off">> \in Seq(Tasks) /\ <<"stop">> \in Seq(Tasks)
    BY DEF Tasks
  <2>2. /\ forced \in {<<"force">>, <<>>} /\ soon \in {<<"off">>, <<>>}
        /\ halt \in {<<>>, <<"stop">>}
    OBVIOUS
  <2> QED BY <2>1, <2>2
<1>2. inside \in Seq(Tasks) /\ <<"off", "home">> \in Seq(Tasks)
  <2>1. /\ <<>> \in Seq(Tasks) /\ <<"ack", "off">> \in Seq(Tasks)
        /\ <<"off", "home">> \in Seq(Tasks)
    BY DEF Tasks
  <2>2. inside \in {<<"ack", "off">>, <<>>}
    OBVIOUS
  <2> QED BY <2>1, <2>2
<1>3. Reaction(g, p, early) = forced \o (IF Safe(p) THEN inside ELSE outside)
  BY DEF Reaction
<1> HIDE DEF forced, soon, halt, inside
<1>4. outside \in Seq(Tasks)
  BY <1>1, <1>2
<1> HIDE DEF outside
<1> QED BY <1>1, <1>2, <1>3, <1>4

LEMMA ContinueInv == ASSUME NEW rest \in Seq(Tasks), Continue(rest) PROVE TodoInv'
  BY DEF Continue, TodoInv

LEMMA TodoStep ==
  ASSUME TodoInv, [EndstopNext]_endstopVars PROVE TodoInv'
<1>1. CASE Observing
  <2>1. <<>> \in Seq(Tasks) /\ <<"off">> \in Seq(Tasks) /\ <<"off", "stop">> \in Seq(Tasks)
    BY DEF Tasks
  <2>2. CASE PollStarts
    <3>1. CASE privacy
      <4>1. \/ Continue(<<"off">>) \/ Continue(<<>>)
        BY <2>2, <3>1 DEF PollStarts
      <4> QED BY <2>1, <4>1, ContinueInv
    <3>2. CASE ~privacy BY <2>2, <3>2 DEF PollStarts, TodoInv
    <3> QED BY <3>1, <3>2
  <2>3. CASE ReadOk
    BY <2>1, <2>3, ReactionType, ContinueInv DEF ReadOk
  <2>4. CASE ReadFails
    BY <2>1, <2>4, ContinueInv DEF ReadFails
  <2>5. poll = "acting" => Tail(reaction) \in Seq(Tasks)
    BY DEF TodoInv
  <2>6. CASE StopSkipped \/ OffDispatched \/ HomeDispatched \/ NotDispatched
    <3>1. poll = "acting" /\ Continue(Tail(reaction))
      BY <2>6 DEF StopSkipped, OffDispatched, HomeDispatched, NotDispatched, Doing
    <3> QED BY <2>5, <3>1, ContinueInv
  <2>7. CASE StopSent
    BY <2>5, <2>7 DEF StopSent, Doing, TodoInv
  <2>8. CASE StopDone \/ StopFails
    BY <2>8, ContinueInv DEF StopDone, StopFails, TodoInv
  <2>9. CASE PollLeaves
    BY <2>9 DEF PollLeaves, TodoInv, Tasks
  <2>10. CASE PollEnds
    BY <2>10 DEF PollEnds, TodoInv
  <2> QED BY <1>1, <2>2, <2>3, <2>4, <2>6, <2>7, <2>8, <2>9, <2>10 DEF Observing
<1>2. CASE SwitchingOff \/ HomeAsks \/ ControlPass \/ Surroundings
  <2>1. UNCHANGED <<poll, reaction>>
    BY <1>2 DEF SwitchingOff, OffTakesSession, OffLocks, OffSet, OffRead, OffCallFails,
                OffStores, HomeAsks, ControlPass, PassStarts, PassAsks, PassKeeps, PassSends,
                PassLands, PassFails, SessionRetires, Login, Shutdown, Surroundings, AppTracks,
                PrivacyOn, PrivacyOff, PoseAges, PermitEnds
  <2> QED BY <2>1 DEF TodoInv
<1>3. CASE UNCHANGED endstopVars
  BY <1>3 DEF endstopVars, TodoInv
<1> QED BY <1>1, <1>2, <1>3 DEF EndstopNext

LEMMA EndstopStep ==
  ASSUME EndstopInv, [EndstopNext]_endstopVars PROVE EndstopInv'
  BY VerifiedInvStep, ShapeStep, SessionsStep, TodoStep DEF EndstopInv, VerifiedInv

LEMMA EndstopTypes == EndstopInv => EndstopTypeOK
<1> SUFFICES ASSUME EndstopInv PROVE EndstopTypeOK OBVIOUS
<1>1. \A i \in 1..Len(reaction) : reaction[i] \in Tasks
  BY DEF EndstopInv, TodoInv
<1>2. {session, offGen} \subseteq 0..Disturbances /\ calm \in 0..Disturbances
  <2>1. session <= Disturbances /\ calm <= Disturbances /\ offGen <= session
    BY EndstopAssumption DEF EndstopInv, Sessions
  <2> QED BY <2>1, EndstopAssumption DEF EndstopInv, Sessions
<1> QED BY <1>1, <1>2 DEF EndstopInv, VerifiedInv, EndstopShape, EndstopTypeOK, Tasks

(* Every variable of the endstop stays in its type: samples, tries and failures  *)
(* inside their limits, and no session beyond those the disturbances account for *)
(* (stopguard.py, sessionguard.py).                                             *)
THEOREM EndstopTypeCorrect == EndstopSpec => []EndstopTypeOK
  BY EndstopInitInv, EndstopStep, EndstopTypes, PTL DEF EndstopSpec

----------------------------------------------------------------------------
(* The address of the camera *)

FileWritten == [active : Addresses \cup {Nowhere}, extra : Addresses \cup {Nowhere}]

LEMMA InCandidates ==
  /\ Primary \in ToSet(Candidates) /\ ToSet(Candidates) \subseteq Addresses
  /\ Primary # Nowhere /\ Primary \in Addresses
  BY LinkAssumption, AddressAssumption DEF Primary, ToSet, Addresses

LEMMA AppendedSet ==
  ASSUME NEW S, NEW s \in Seq(S), NEW x \in S
  PROVE  ToSet(Append(s, x)) = ToSet(s) \cup {x}
<1> DEFINE t == Append(s, x)
<1>1. /\ t \in Seq(S) /\ Len(t) = Len(s) + 1 /\ t[Len(s) + 1] = x
      /\ \A i \in 1 .. Len(s) : t[i] = s[i]
  BY AppendProperties
<1>2. Len(s) \in Nat /\ DOMAIN s = 1 .. Len(s) /\ DOMAIN t = 1 .. (Len(s) + 1)
  BY <1>1
<1> HIDE DEF t
<1>3. ToSet(t) = ToSet(s) \cup {x}
  BY <1>1, <1>2 DEF ToSet
<1> QED BY <1>3 DEF t

(* Who is a host: a configured address, or the discovered one. *)
LEMMA WhoIsHost ==
  ASSUME extra \in Addresses \cup {Nowhere}
  PROVE  \A h : h \in ToSet(Hosts) <=> Hosted(h, extra)
<1>1. CASE extra = Nowhere \/ extra \in ToSet(Candidates)
  BY <1>1 DEF Hosts, Hosted
<1>2. CASE ~(extra = Nowhere \/ extra \in ToSet(Candidates))
  <2>1. Candidates \in Seq(STRING \cup {extra})
    BY LinkAssumption
  <2>2. ToSet(Hosts) = ToSet(Candidates) \cup {extra}
    BY <1>2, <2>1, AppendedSet DEF Hosts
  <2> QED BY <1>2, <2>2 DEF Hosted
<1> QED BY <1>1, <1>2

-----------------------------------------------------------------------------
(* The invariant: wherever a pass stands, the address in use is a host and the  *)
(* one that a refused switch goes back to is one, too; no session is open       *)
(* while a switch has not been proved.                                          *)

Stays == stage \in {"idle", "stay"}
LinkInv ==
  /\ LinkTypeOK
  /\ link # NoLink => link.to = active
  /\ Hosted(active, extra)
  /\ Stays => active \in {vetted, hasty}
  /\ ~Stays => /\ link = NoLink /\ left \in {vetted, hasty}
               /\ Hosted(left, IF stage = "moved" THEN was ELSE extra)
  /\ stage = "back" => active = Primary

LEMMA HostedAddress ==
  ASSUME NEW h, NEW e \in Addresses \cup {Nowhere}, Hosted(h, e)
  PROVE  h \in Addresses
  BY InCandidates, AddressAssumption DEF Hosted

LEMMA NoLinkType == NoLink \in [to : Addresses \cup {Nowhere}, who : Occupants]
  BY DEF NoLink, Occupants

LEMMA SearchingType ==
  ASSUME LinkInv, NEW r, NEW n, Searching(r, n)
  PROVE  spotted' \in Addresses \cup {Nowhere} /\ search' \in Addresses \cup {Nowhere}
  BY DEF LinkInv, LinkTypeOK, Searching

LEMMA CappedType == ASSUME NEW n \in Nat PROVE Capped(n) \in 0 .. SearchAfter
  BY LinkAssumption DEF Capped

LEMMA SessionType ==
  ASSUME LinkInv
  PROVE  Session(active) \in [to : Addresses \cup {Nowhere}, who : Occupants]
         /\ Session(active).to = active
  BY DEF LinkInv, LinkTypeOK, Session

LEMMA OutcomeType ==
  ASSUME LinkInv, NEW o \in Outcomes(active)
  PROVE  o.ok \in BOOLEAN /\ o.auth \in BOOLEAN /\ o.seen \in {"none", "cam", "other"}
<1>1. CASE Tcp(active) /\ o \in [ok : {TRUE}, auth : {TRUE}, seen : {net[active], "none"}]
  BY <1>1 DEF Tcp
<1>2. CASE o = [ok |-> FALSE, auth |-> TRUE, seen |-> "none"]
  BY <1>2
<1>3. CASE o = [ok |-> TRUE, auth |-> FALSE, seen |-> "none"]
  BY <1>3
<1> QED BY <1>1, <1>2, <1>3 DEF Outcomes

LEMMA LearnedType ==
  ASSUME LinkInv, NEW o \in Outcomes(active)
  PROVE  Learned(o) \in {"none", "cam", "other"}
  BY OutcomeType DEF LinkInv, LinkTypeOK, Learned

LEMMA LinkInitInv == LinkInit => LinkInv
<1> SUFFICES ASSUME LinkInit PROVE LinkInv
  OBVIOUS
<1>1. net \in [Addresses -> Occupants]
  BY DEF LinkInit, Occupants
<1>2. /\ active \in Addresses
      /\ {extra, left, was, spotted, search, vetted, hasty} \subseteq Addresses \cup {Nowhere}
  BY InCandidates DEF LinkInit
<1>3. misses \in 0..SearchAfter /\ streak \in 0..ReturnPasses /\ quiet \in 0..Shuffles
  BY LinkAssumption DEF LinkInit
<1>4. {hasMac, up, waiting, held} \subseteq BOOLEAN
  BY DEF LinkInit
<1>5. {file, chosen} \subseteq FileWritten
  BY DEF LinkInit, FileWritten
<1>6. link \in [to : Addresses \cup {Nowhere}, who : Occupants]
  BY NoLinkType DEF LinkInit
<1>7. LinkTypeOK
  BY <1>1, <1>2, <1>3, <1>4, <1>5, <1>6 DEF LinkInit, LinkTypeOK, FileWritten
<1> QED BY <1>7, InCandidates DEF LinkInit, LinkInv, Stays, Hosted

LEMMA TakeRediscoveredInv == LinkInv /\ TakeRediscovered => LinkInv'
<1> SUFFICES ASSUME LinkInv, TakeRediscovered PROVE LinkInv'
  OBVIOUS
<1>1. CASE spotted = active \/ net[spotted] = "host"
  BY <1>1 DEF TakeRediscovered, LinkInv, LinkTypeOK, Stays, Hosted, netVars, fileVars, historyVars
<1>2. CASE ~(spotted = active \/ net[spotted] = "host")
  <2>1. /\ active' = spotted /\ left' = active /\ was' = extra /\ spotted' = Nowhere
        /\ spotted \in Addresses /\ known' = "cam" /\ link' = NoLink /\ waiting' = FALSE
        /\ up' = TRUE /\ misses' = 0 /\ stage' = "moved" /\ stage = "idle"
        /\ extra' = IF spotted \in ToSet(Candidates) THEN extra ELSE spotted
        /\ UNCHANGED <<net, hasMac, quiet, refused, skipped, held, streak, search, file, chosen,
                       vetted, hasty>>
    BY <1>2 DEF TakeRediscovered, LinkInv, LinkTypeOK, Dropped, netVars, fileVars, historyVars
  <2>t. misses' \in 0..SearchAfter
    BY <2>1, LinkAssumption
  <2>b. {hasMac, up, waiting, held}' \subseteq BOOLEAN
    BY <2>1 DEF LinkInv, LinkTypeOK
  <2>h. {extra, left, was, spotted, search, vetted, hasty}' \subseteq Addresses \cup {Nowhere}
    BY <2>1 DEF LinkInv, LinkTypeOK
  <2>2. LinkTypeOK'
    BY <2>1, <2>t, <2>b, <2>h, NoLinkType DEF LinkInv, LinkTypeOK
  <2>3. Hosted(active', extra') /\ Hosted(left', was')
    BY <2>1, AddressAssumption DEF LinkInv, Hosted
  <2> QED BY <2>1, <2>2, <2>3 DEF LinkInv, Stays
<1> QED BY <1>1, <1>2

LEMMA UnreachableInv == LinkInv /\ Unreachable => LinkInv'
<1> SUFFICES ASSUME LinkInv, Unreachable PROVE LinkInv'
  OBVIOUS
<1>1. misses' \in 0 .. SearchAfter
  BY CappedType DEF Unreachable, LinkInv, LinkTypeOK
<1>2. spotted' \in Addresses \cup {Nowhere} /\ search' \in Addresses \cup {Nowhere}
  BY SearchingType DEF Unreachable
<1>3. /\ active' = active /\ extra' = extra /\ left' = left /\ was' = was /\ stage' = stage
      /\ stage = "idle" /\ up' = FALSE /\ link' = NoLink
      /\ known' = IF hasMac THEN "cam" ELSE known
      /\ UNCHANGED <<net, hasMac, quiet, refused, skipped, waiting, held, streak, file, chosen,
                     vetted, hasty>>
  BY DEF Unreachable, Dropped, netVars, fileVars, historyVars
<1>4. {hasMac, up, waiting, held}' \subseteq BOOLEAN
  BY <1>3 DEF LinkInv, LinkTypeOK
<1>5. {extra, left, was, spotted, search, vetted, hasty}' \subseteq Addresses \cup {Nowhere}
  BY <1>2, <1>3 DEF LinkInv, LinkTypeOK
<1>6. LinkTypeOK'
  BY <1>1, <1>3, <1>4, <1>5, NoLinkType DEF LinkInv, LinkTypeOK
<1> QED BY <1>3, <1>6 DEF LinkInv, Stays, Hosted

LEMMA FailOverInv == LinkInv /\ FailOver => LinkInv'
<1> SUFFICES ASSUME LinkInv, FailOver PROVE LinkInv'
  OBVIOUS
<1>1. spotted' \in Addresses \cup {Nowhere} /\ search' \in Addresses \cup {Nowhere}
  BY SearchingType DEF FailOver, LinkInv, LinkTypeOK
<1>2. PICK n \in Alternates : active' = Hosts[n]
  BY DEF FailOver
<1>3. n \in DOMAIN Hosts
  BY <1>2 DEF Alternates, Hosts, LinkInv, LinkTypeOK
<1>4. Hosted(active', extra)
  BY <1>2, <1>3, WhoIsHost DEF ToSet, LinkInv, LinkTypeOK
<1>5. active' \in Addresses
  BY <1>4, HostedAddress DEF LinkInv, LinkTypeOK
<1> QED BY <1>1, <1>4, <1>5, NoLinkType, LinkAssumption
  DEF FailOver, LinkInv, LinkTypeOK, Stays, Hosted, Dropped, netVars, fileVars, historyVars

LEMMA ReachableInv == LinkInv /\ Reachable => LinkInv'
<1> SUFFICES ASSUME LinkInv, Reachable PROVE LinkInv'
  OBVIOUS
<1>1. spotted' \in Addresses \cup {Nowhere} /\ search' \in Addresses \cup {Nowhere}
  BY SearchingType DEF Reachable, LinkInv, LinkTypeOK
<1>2. PICK n \in IF Len(Hosts) > 1 THEN Probed ELSE {streak} :
         IF n >= ReturnPasses
         THEN /\ streak' = 0 /\ active' = Primary /\ link' = Dropped /\ left' = active
              /\ stage' = "back"
         ELSE /\ streak' = n /\ stage' = IF waiting THEN "idle" ELSE "stay"
              /\ UNCHANGED <<active, link, left>>
  BY DEF Reachable
<1>3. n \in Nat
  BY <1>2 DEF Probed, LinkInv, LinkTypeOK
<1>4. CASE n >= ReturnPasses
  BY <1>1, <1>2, <1>4, NoLinkType, LinkAssumption, InCandidates
  DEF Reachable, LinkInv, LinkTypeOK, Stays, Hosted, Dropped, netVars, fileVars, historyVars
<1>5. CASE ~(n >= ReturnPasses)
  BY <1>1, <1>2, <1>3, <1>5, LinkAssumption
  DEF Reachable, LinkInv, LinkTypeOK, Stays, Hosted, netVars, fileVars, historyVars
<1> QED BY <1>4, <1>5

LEMMA StayInv == LinkInv /\ (StayLogin \/ Reuse) => LinkInv'
<1> SUFFICES ASSUME LinkInv, StayLogin \/ Reuse PROVE LinkInv'
  OBVIOUS
<1>1. spotted' \in Addresses \cup {Nowhere} /\ search' \in Addresses \cup {Nowhere}
  BY SearchingType DEF StayLogin, Reuse
<1>2. CASE Reuse
  BY <1>1, <1>2
  DEF Reuse, PassEnds, LinkInv, LinkTypeOK, Stays, Hosted, netVars, fileVars, historyVars
<1>3. CASE StayLogin
  <2> PICK o \in Outcomes(active) : StayLogin!2!(o)
    BY <1>3 DEF StayLogin
  <2>1. known' \in {"none", "cam", "other"}
    BY LearnedType DEF LinkInv, LinkTypeOK
  <2>2. link' \in [to : Addresses \cup {Nowhere}, who : Occupants]
        /\ (link' # NoLink => link'.to = active) /\ waiting' \in BOOLEAN
    BY SessionType, NoLinkType
  <2> QED BY <1>1, <1>3, <2>1, <2>2
    DEF StayLogin, PassEnds, LinkInv, LinkTypeOK, Stays, Hosted, netVars, fileVars, historyVars
<1> QED BY <1>2, <1>3

LEMMA SavesType ==
  ASSUME LinkInv
  PROVE  /\ {file, chosen, Chosen, MoveChosen} \subseteq FileWritten
         /\ [Chosen EXCEPT !.active = Nowhere] \in FileWritten
<1>1. active \in Addresses /\ extra \in Addresses \cup {Nowhere} /\ {file, chosen} \subseteq FileWritten
  BY DEF LinkInv, LinkTypeOK, FileWritten
<1>2. Chosen \in FileWritten
  BY <1>1 DEF Chosen, FileWritten
<1>3. [Chosen EXCEPT !.active = Nowhere] \in FileWritten
  BY <1>2 DEF FileWritten
<1>4. MoveChosen \in FileWritten
  <2> DEFINE found == IF active \in ToSet(Candidates) THEN Nowhere ELSE active
  <2>1. found \in Addresses \cup {Nowhere} BY <1>1
  <2>2. MoveChosen = [Chosen EXCEPT !.extra = found] BY DEF MoveChosen
  <2> HIDE DEF found
  <2> QED BY <1>2, <2>1, <2>2 DEF FileWritten
<1> QED BY <1>1, <1>2, <1>3, <1>4

LEMMA ExtraKeptHosts ==
  ASSUME LinkInv
  PROVE  ExtraKept \in Addresses \cup {Nowhere} /\ Hosted(active, ExtraKept)
  BY InCandidates DEF ExtraKept, Hosted, LinkInv, LinkTypeOK

LEMMA KeptInv ==
  ASSUME LinkInv, NEW o \in Outcomes(active), NEW choice \in FileWritten, Kept(o, choice),
         stage # "idle", stage # "stay", UNCHANGED active
  PROVE  /\ known' \in {"none", "cam", "other"} /\ held' = TRUE /\ streak' = 0
         /\ Hosted(active', extra') /\ active' \in {vetted', hasty'}
         /\ {extra', vetted', hasty'} \subseteq Addresses \cup {Nowhere}
         /\ {file', chosen'} \subseteq FileWritten
<1>1. known' \in {"none", "cam", "other"}
  BY LearnedType DEF Kept
<1>2. Hosted(active', extra') /\ active' \in {vetted', hasty'}
  BY ExtraKeptHosts DEF Kept
<1>3. {extra', vetted', hasty'} \subseteq Addresses \cup {Nowhere}
  BY ExtraKeptHosts DEF Kept, LinkInv, LinkTypeOK
<1> QED BY <1>1, <1>2, <1>3 DEF Kept

LEMMA KeptSettles ==
  ASSUME LinkInv, NEW o \in Outcomes(active), NEW choice \in FileWritten, Kept(o, choice),
         stage \in {"over", "back", "moved"},
         stage' = "idle", left' = Nowhere, was' = Nowhere,
         link' \in [to : Addresses \cup {Nowhere}, who : Occupants],
         link' # NoLink => link'.to = active, waiting' \in BOOLEAN,
         spotted' \in Addresses \cup {Nowhere}, search' \in Addresses \cup {Nowhere},
         UNCHANGED <<net, hasMac, active, misses, up, refused, skipped, quiet>>
  PROVE  LinkInv'
<1>1. /\ known' \in {"none", "cam", "other"} /\ held' = TRUE /\ streak' = 0
      /\ Hosted(active', extra') /\ active' \in {vetted', hasty'}
      /\ {extra', vetted', hasty'} \subseteq Addresses \cup {Nowhere}
      /\ {file', chosen'} \subseteq FileWritten
  BY KeptInv
<1>2. {hasMac, up, waiting, held}' \subseteq BOOLEAN
  BY <1>1 DEF LinkInv, LinkTypeOK
<1>3. {extra, left, was, spotted, search, vetted, hasty}' \subseteq Addresses \cup {Nowhere}
  BY <1>1
<1>4. streak' \in 0 .. ReturnPasses
  BY <1>1, LinkAssumption
<1>5. LinkTypeOK'
  BY <1>1, <1>2, <1>3, <1>4 DEF LinkInv, LinkTypeOK, FileWritten
<1> QED BY <1>1, <1>5 DEF LinkInv, Stays

(* A switch that is taken back leads to a host that was settled; one that cannot *)
(* be taken back stands at a host, noted as unproved.                            *)
LEMMA BackInv ==
  ASSUME LinkInv, ~Stays, active' = left, UNCHANGED historyVars,
         \/ extra' = IF stage = "moved" THEN was ELSE extra
         \/ extra' = ExtraKept /\ MayGoBack(ExtraKept)
  PROVE  /\ active' \in Addresses /\ Hosted(active', extra') /\ active' \in {vetted', hasty'}
         /\ extra' \in Addresses \cup {Nowhere}
<1>1. extra' \in Addresses \cup {Nowhere}
  BY ExtraKeptHosts DEF LinkInv, LinkTypeOK
<1>2. Hosted(active', extra') /\ active' \in {vetted', hasty'}
  BY DEF LinkInv, historyVars, MayGoBack, Hosted
<1> QED BY <1>1, <1>2, HostedAddress

(* What the end of a pass that does not keep its switch leaves behind. *)
LEMMA UndoneInv ==
  ASSUME LinkInv, stage \in {"over", "moved"}, stage' = "idle", left' = Nowhere, was' = Nowhere,
         \/ /\ GoBack
            /\ \/ extra' = IF stage = "moved" THEN was ELSE extra
               \/ extra' = ExtraKept /\ MayGoBack(ExtraKept)
         \/ Stuck /\ extra' \in {extra, ExtraKept},
         link' = link, known' = known, {up', waiting', held'} \subseteq BOOLEAN,
         streak' \in 0 .. ReturnPasses, {file', chosen'} \subseteq FileWritten,
         spotted' \in Addresses \cup {Nowhere}, search' \in Addresses \cup {Nowhere},
         skipped' \subseteq Addresses, UNCHANGED <<net, hasMac, quiet, misses>>
  PROVE  LinkInv'
<1>1. /\ active' \in Addresses /\ Hosted(active', extra') /\ active' \in {vetted', hasty'}
      /\ extra' \in Addresses \cup {Nowhere}
      /\ {vetted', hasty'} \subseteq Addresses \cup {Nowhere} /\ refused' \subseteq Addresses
  <2>1. CASE /\ GoBack
             /\ \/ extra' = IF stage = "moved" THEN was ELSE extra
                \/ extra' = ExtraKept /\ MayGoBack(ExtraKept)
    <3>1. active' = left /\ UNCHANGED historyVars /\ ~Stays /\ refused' = refused \cup {active}
      BY <2>1 DEF GoBack, Stays
    <3>2. /\ active' \in Addresses /\ Hosted(active', extra') /\ active' \in {vetted', hasty'}
          /\ extra' \in Addresses \cup {Nowhere}
      BY <2>1, <3>1, BackInv
    <3> QED BY <3>1, <3>2 DEF LinkInv, LinkTypeOK, historyVars
  <2>2. CASE Stuck /\ extra' \in {extra, ExtraKept}
    BY <2>2, ExtraKeptHosts DEF Stuck, LinkInv, LinkTypeOK
  <2> QED BY <2>1, <2>2
<1>2. link = NoLink
  BY DEF LinkInv, Stays
<1>3. {hasMac, up, waiting, held}' \subseteq BOOLEAN
  BY DEF LinkInv, LinkTypeOK
<1>4. {extra, left, was, spotted, search, vetted, hasty}' \subseteq Addresses \cup {Nowhere}
  BY <1>1
<1>5. LinkTypeOK'
  BY <1>1, <1>2, <1>3, <1>4 DEF LinkInv, LinkTypeOK, FileWritten
<1> QED BY <1>1, <1>2, <1>5 DEF LinkInv, Stays

LEMMA FailoverLoginInv == LinkInv /\ FailoverLogin => LinkInv'
<1> SUFFICES ASSUME LinkInv, FailoverLogin PROVE LinkInv'
  OBVIOUS
<1> PICK o \in Outcomes(active) : FailoverLogin!2!(o)
  BY DEF FailoverLogin
<1>1. spotted' \in Addresses \cup {Nowhere} /\ search' \in Addresses \cup {Nowhere}
  BY SearchingType DEF LinkInv, LinkTypeOK
<1>2. /\ stage = "over" /\ stage' = "idle" /\ left' = Nowhere /\ was' = Nowhere /\ link = NoLink
      /\ UNCHANGED <<net, hasMac, quiet, misses, skipped>>
  BY DEF FailoverLogin, PassEnds, LinkInv, Stays, netVars
<1>3. skipped' \subseteq Addresses /\ {up, waiting, held} \subseteq BOOLEAN
      /\ streak \in 0 .. ReturnPasses /\ 0 \in 0 .. ReturnPasses
  BY <1>2, LinkAssumption DEF LinkInv, LinkTypeOK
<1>4. CASE o.ok /\ o.auth /\ ~Differs(o) /\ Kept(o, Chosen) /\ link' = Session(active)
           /\ UNCHANGED <<active, refused, up, waiting>>
  BY <1>1, <1>2, <1>4, KeptSettles, SessionType, SavesType DEF LinkInv, LinkTypeOK
<1>5. CASE o.ok /\ o.auth /\ Differs(o) /\ GoBack /\ up' = FALSE /\ held' = TRUE
           /\ UNCHANGED <<fileVars, link, waiting, known, streak, extra>>
  BY <1>1, <1>2, <1>3, <1>5, UndoneInv, SavesType DEF fileVars
<1>6. CASE ~o.ok /\ GoBack /\ up' = FALSE /\ waiting' = TRUE
           /\ UNCHANGED <<fileVars, link, held, known, streak, extra>>
  BY <1>1, <1>2, <1>3, <1>6, UndoneInv, SavesType DEF fileVars
<1>7. CASE o.ok /\ ~o.auth /\ Disproved /\ extra' = ExtraKept /\ UNCHANGED link
  <2>1. /\ waiting' = TRUE /\ held' = TRUE /\ streak' = 0 /\ known' = known
        /\ {file', chosen'} \subseteq FileWritten
        /\ (GoBack /\ MayGoBack(ExtraKept) /\ up' = FALSE) \/ (Stuck /\ up' = up)
    BY <1>7, SavesType DEF Disproved, Stuck
  <2> QED BY <1>1, <1>2, <1>3, <1>7, <2>1, UndoneInv
<1> QED BY <1>4, <1>5, <1>6, <1>7

LEMMA ReturnLoginInv == LinkInv /\ ReturnLogin => LinkInv'
<1> SUFFICES ASSUME LinkInv, ReturnLogin PROVE LinkInv'
  OBVIOUS
<1>1. spotted' \in Addresses \cup {Nowhere} /\ search' \in Addresses \cup {Nowhere}
  BY SearchingType DEF ReturnLogin, LinkInv, LinkTypeOK
<1> PICK o \in Outcomes(active) : ReturnLogin!2!(o)
  BY DEF ReturnLogin
<1>2. /\ stage = "back" /\ link = NoLink /\ UNCHANGED <<net, hasMac, quiet, misses, up, skipped>>
  BY DEF ReturnLogin, LinkInv, Stays, netVars
<1>3. CASE /\ o.ok /\ ~Differs(o) /\ Kept(o, Chosen)
           /\ link' = (IF o.auth THEN Session(active) ELSE NoLink)
           /\ waiting' = ~o.auth
           /\ PassEnds
           /\ UNCHANGED <<active, refused>>
  <2>1. link' \in [to : Addresses \cup {Nowhere}, who : Occupants]
        /\ (link' # NoLink => link'.to = active) /\ waiting' \in BOOLEAN
    BY <1>3, SessionType, NoLinkType, OutcomeType
  <2> QED BY <1>1, <1>2, <1>3, <2>1, KeptSettles, SavesType DEF PassEnds
<1>4. CASE /\ ~o.ok \/ Differs(o)
           /\ ReturnUndone /\ held' = TRUE
           /\ stage' = "stay" /\ left' = Nowhere
           /\ UNCHANGED <<fileVars, link, waiting, known, streak, extra, was>>
  <2>1. /\ active' \in Addresses /\ Hosted(active', extra') /\ active' \in {vetted', hasty'}
        /\ refused' \subseteq Addresses /\ UNCHANGED historyVars
    BY <1>2, <1>4, BackInv DEF ReturnUndone, LinkInv, LinkTypeOK, Stays
  <2>3. {hasMac, up, waiting, held}' \subseteq BOOLEAN
    BY <1>2, <1>4 DEF LinkInv, LinkTypeOK
  <2>4. {extra, left, was, spotted, search, vetted, hasty}' \subseteq Addresses \cup {Nowhere}
    BY <1>1, <1>2, <1>4, <2>1 DEF LinkInv, LinkTypeOK, historyVars, fileVars
  <2>5. LinkTypeOK'
    BY <1>2, <1>4, <2>1, <2>3, <2>4 DEF LinkInv, LinkTypeOK, fileVars
  <2> QED BY <1>2, <1>4, <2>1, <2>5 DEF LinkInv, Stays
<1> QED BY <1>3, <1>4

LEMMA MoveLoginInv == LinkInv /\ MoveLogin => LinkInv'
<1> SUFFICES ASSUME LinkInv, MoveLogin PROVE LinkInv'
  OBVIOUS
<1> PICK o \in Outcomes(active) : MoveLogin!2!(o)
  BY DEF MoveLogin
<1>1. /\ stage = "moved" /\ stage' = "idle" /\ left' = Nowhere /\ was' = Nowhere /\ link = NoLink
      /\ UNCHANGED <<net, hasMac, quiet, misses, search, spotted>>
  BY DEF MoveLogin, PassEnds, LinkInv, Stays, netVars
<1>2. /\ {up, waiting, held} \subseteq BOOLEAN /\ streak \in 0 .. ReturnPasses
      /\ 0 \in 0 .. ReturnPasses /\ skipped \subseteq Addresses /\ active \in Addresses
      /\ {spotted', search'} \subseteq Addresses \cup {Nowhere} /\ o.ok \in BOOLEAN
  BY <1>1, LinkAssumption, OutcomeType DEF LinkInv, LinkTypeOK
<1>3. CASE o.ok /\ o.auth /\ ~Differs(o) /\ Kept(o, MoveChosen) /\ link' = Session(active)
           /\ UNCHANGED <<active, refused, up, skipped, waiting>>
  BY <1>1, <1>2, <1>3, KeptSettles, SessionType, SavesType DEF LinkInv, LinkTypeOK
<1>4. CASE /\ o.ok => Differs(o)
           /\ IF MayGoBack(extra)
              THEN /\ GoBack /\ extra' = was /\ up' = FALSE /\ skipped' = skipped \cup {active}
                   /\ held' = (held \/ o.ok) /\ waiting' = ~o.ok
              ELSE Stuck /\ UNCHANGED <<extra, skipped, held, waiting>>
           /\ UNCHANGED <<fileVars, link, known, streak>>
  <2>1. /\ (GoBack /\ extra' = was) \/ (Stuck /\ extra' = extra)
        /\ {up', waiting', held'} \subseteq BOOLEAN /\ skipped' \subseteq Addresses
    BY <1>2, <1>4 DEF Stuck
  <2> QED BY <1>1, <1>2, <1>4, <2>1, UndoneInv, SavesType DEF fileVars
<1>5. CASE /\ o.ok /\ ~o.auth /\ Disproved
           /\ IF MayGoBack(ExtraKept)
              THEN extra' = was /\ skipped' = skipped \cup {active}
              ELSE extra' = ExtraKept /\ UNCHANGED skipped
           /\ UNCHANGED link
  <2>1. /\ waiting' = TRUE /\ held' = TRUE /\ streak' = 0 /\ known' = known
        /\ {file', chosen'} \subseteq FileWritten
    BY <1>5, SavesType DEF Disproved
  <2>2. /\ (GoBack /\ extra' = was) \/ (Stuck /\ extra' = ExtraKept)
        /\ up' \in BOOLEAN /\ skipped' \subseteq Addresses
    BY <1>2, <1>5 DEF Disproved, Stuck
  <2> QED BY <1>1, <1>2, <1>5, <2>1, <2>2, UndoneInv
<1> QED BY <1>3, <1>4, <1>5

LEMMA RestartInv == LinkInv /\ LinkRestart => LinkInv'
<1> SUFFICES ASSUME LinkInv, LinkRestart PROVE LinkInv'
  OBVIOUS
<1>1. extra' \in Addresses \cup {Nowhere}
  BY DEF LinkRestart, LinkInv, LinkTypeOK
<1>2. \A h : h \in ToSet(Hosts)' <=> Hosted(h, extra')
  <2>1. CASE extra' = Nowhere \/ extra' \in ToSet(Candidates)
    BY <2>1 DEF Hosts, Hosted
  <2>2. CASE ~(extra' = Nowhere \/ extra' \in ToSet(Candidates))
    <3>1. Candidates \in Seq(STRING \cup {extra'})
      BY LinkAssumption
    <3>2. ToSet(Hosts)' = ToSet(Candidates) \cup {extra'}
      BY <2>2, <3>1, AppendedSet DEF Hosts
    <3> QED BY <2>2, <3>2 DEF Hosted
  <2> QED BY <2>1, <2>2
<1>3. Hosted(active', extra')
  BY <1>2, InCandidates DEF LinkRestart, Hosted
<1>4. active' \in Addresses
  BY <1>1, <1>3, HostedAddress
<1>5. misses' \in 0..SearchAfter /\ streak' \in 0..ReturnPasses /\ quiet' \in 0..Shuffles
  BY LinkAssumption DEF LinkRestart, LinkInv, LinkTypeOK
<1>6. {hasMac, up, waiting, held}' \subseteq BOOLEAN
  BY DEF LinkRestart, LinkInv, LinkTypeOK
<1>7. {extra, left, was, spotted, search, vetted, hasty}' \subseteq Addresses \cup {Nowhere}
  BY <1>1, <1>4 DEF LinkRestart, LinkInv, LinkTypeOK
<1>8. LinkTypeOK'
  BY <1>1, <1>4, <1>5, <1>6, <1>7, NoLinkType DEF LinkRestart, LinkInv, LinkTypeOK
<1> QED BY <1>3, <1>8 DEF LinkRestart, LinkInv, Stays

LEMMA WorldInv ==
  LinkInv /\ (\/ SessionRefused \/ SessionClosed \/ SearchEnds \/ BackoffEnds \/ RejectionsEnd
              \/ HoldEnds \/ HealthSaved \/ NetworkShuffles)
    => LinkInv'
<1> SUFFICES ASSUME LinkInv,
                    \/ SessionRefused \/ SessionClosed \/ SearchEnds \/ BackoffEnds
                    \/ RejectionsEnd \/ HoldEnds \/ HealthSaved \/ NetworkShuffles
             PROVE  LinkInv'
  OBVIOUS
<1>1. CASE SessionRefused \/ SessionClosed
  BY <1>1, NoLinkType DEF SessionRefused, SessionClosed, LinkInv, LinkTypeOK, Stays, Hosted,
     netVars, fileVars, historyVars
<1>2. CASE SearchEnds
  BY <1>2 DEF SearchEnds, LinkInv, LinkTypeOK, Stays, Hosted, netVars, fileVars, historyVars
<1>3. CASE BackoffEnds \/ RejectionsEnd \/ HoldEnds
  BY <1>3 DEF BackoffEnds, RejectionsEnd, HoldEnds, LinkInv, LinkTypeOK, Stays, Hosted,
     netVars, fileVars, historyVars
<1>4. CASE HealthSaved
  BY <1>4 DEF HealthSaved, LinkInv, LinkTypeOK, Stays, Hosted, netVars, historyVars
<1>5. CASE NetworkShuffles
  <2>1. net' \in [Addresses -> Occupants] /\ quiet' \in 0..Shuffles
    <3>1. \A f : f \in [Addresses -> Occupants] =>
            \A h, g, w : w \in Occupants => /\ [f EXCEPT ![h] = w] \in [Addresses -> Occupants]
                                          /\ [f EXCEPT ![h] = "none", ![g] = "cam"] \in [Addresses -> Occupants]
      BY DEF Occupants
    <3>2. net \in [Addresses -> Occupants] /\ quiet' \in 0..Shuffles
      BY <1>5, LinkAssumption DEF NetworkShuffles, LinkInv, LinkTypeOK
    <3>3. PICK h \in Addresses, g \in Addresses, w \in Occupants :
            net' \in {[net EXCEPT ![h] = w], [net EXCEPT ![h] = "none", ![g] = "cam"]}
      BY <1>5 DEF NetworkShuffles
    <3>4. CASE net' = [net EXCEPT ![h] = w]
      BY <3>1, <3>2, <3>4
    <3>5. CASE net' = [net EXCEPT ![h] = "none", ![g] = "cam"]
      BY <3>1, <3>2, <3>3, <3>5
    <3> QED BY <3>2, <3>3, <3>4, <3>5
  <2> QED BY <1>5, <2>1
      DEF NetworkShuffles, LinkInv, LinkTypeOK, Stays, Hosted, fileVars, historyVars
<1> QED BY <1>1, <1>2, <1>3, <1>4, <1>5

LEMMA LinkStep == LinkInv /\ [LinkNext]_linkVars => LinkInv'
<1> SUFFICES ASSUME LinkInv, [LinkNext]_linkVars PROVE LinkInv'
  OBVIOUS
<1>1. CASE UNCHANGED linkVars
  BY <1>1 DEF linkVars, LinkInv, LinkTypeOK, Stays, Hosted
<1> QED BY <1>1, TakeRediscoveredInv, UnreachableInv, FailOverInv, ReachableInv, StayInv,
           FailoverLoginInv, ReturnLoginInv, MoveLoginInv, RestartInv, WorldInv DEF LinkNext

LEMMA LinkSettled == LinkInv => LinkTypeOK /\ HostSettled
  BY WhoIsHost DEF LinkInv, LinkTypeOK, Stays, HostSettled, SessionAtActive, SwitchSettled

(* Whatever is switched, compared, undone or lost, the one session of the camera *)
(* is open at the address in use, that address is one of its hosts, and between  *)
(* passes it is the one of the start, the last one a login proved, or one of the *)
(* two kinds of switch that the code lets stand without (daemon.connect,         *)
(* _confirm_switch, _revert_return, _settle_rediscovered).                       *)
THEOREM HostSettledCorrect == LinkSpec => []HostSettled
  BY LinkInitInv, LinkStep, LinkSettled, PTL DEF LinkSpec

-----------------------------------------------------------------------------
(* The control pass *)

LEMMA OrderIs ==
  /\ Over = 15
  /\ Order[1] = "motion" /\ Order[2] = "day_night" /\ Order[3] = "person"
  /\ Order[4] = "vehicle" /\ Order[5] = "ldc" /\ Order[6] = "tamper" /\ Order[7] = "lamp"
  /\ Order[8] = "mode" /\ Order[9] = "smarttrack" /\ Order[10] = "match"
  /\ Order[11] = "set" /\ Order[12] = "verify" /\ Order[13] = "set" /\ Order[14] = "verify"
  BY DEF Over, Order

(* What is done of the plan when the pass stands at a step, as long as nothing   *)
(* was refused, unread or changed from outside.                                  *)
DoneSoFar ==
  /\ read = Eyes \X ReadAtStart
  /\ Desired = plan
  /\ \A i \in 1 .. 8 : i < at /\ MayRepair(Order[i]) => \A c \in Eyes : <<c, Order[i]>> \notin drifted
  /\ at > 9 /\ "smarttrack" \in policy => filter = Filtered
  /\ at \in {12, 14, 15} => tracks = plan

ControlInv == ControlTypeOK /\ (at > 0 /\ ~meddled => DoneSoFar)

LEMMA ControlInitInv == ControlInit => ControlInv
<1> SUFFICES ASSUME ControlInit PROVE ControlInv
  OBVIOUS
<1>1. {night, rain, tracks, dwell, plan, permitted, meddled} \subseteq BOOLEAN
  BY DEF ControlInit
<1>2. at = 0 /\ at \in 0 .. Over /\ mischief \in 0 .. Meddling
  BY OrderIs, ControlAssumption DEF ControlInit
<1> QED BY <1>1, <1>2 DEF ControlInit, ControlInv, ControlTypeOK

LEMMA ControlStartsInv == ControlInv /\ ControlStarts => ControlInv'
<1> SUFFICES ASSUME ControlInv, ControlStarts PROVE ControlInv'
  OBVIOUS
<1>1. at' = 1 /\ UNCHANGED <<build, policy, filter, tracks, dwell, permitted, blind>>
  BY DEF ControlStarts
<1>2. PICK atNight \in BOOLEAN, inRain \in BOOLEAN :
       /\ night' = atNight /\ rain' = inRain
       /\ drifted' = drifted \cup Replanned(atNight, inRain)
       /\ plan' = (atNight /\ ~inRain /\ (build = "owned" => permitted))
  BY DEF ControlStarts
<1>3. PICK unread \in {{}} \cup (IF mischief > 0 /\ build = "dual"
                              THEN {{c} \X ReadAtStart : c \in Eyes} ELSE {}) :
       /\ read' = (Eyes \X ReadAtStart) \ unread
       /\ mischief' = IF unread = {} THEN mischief ELSE mischief - 1
       /\ meddled' = (unread # {})
       /\ personWas' = IF unread # {} THEN "unread"
                       ELSE IF (Eyes \X {"person"}) \cap drifted # {} THEN "off" ELSE "on"
  BY DEF ControlStarts
<1>4. Replanned(atNight, inRain) \subseteq Eyes \X Settings
  BY DEF Replanned, Settings
<1>5. Eyes' = Eyes
  BY <1>1 DEF Eyes
<1>6. mischief' \in 0 .. Meddling
  BY <1>3, ControlAssumption DEF ControlInv, ControlTypeOK
<1>7. drifted' \subseteq Eyes \X Settings
  BY <1>2, <1>4 DEF ControlInv, ControlTypeOK
<1>8. {night, rain, tracks, dwell, plan, permitted, meddled}' \subseteq BOOLEAN
  BY <1>1, <1>2, <1>3 DEF ControlInv, ControlTypeOK
<1>9. ControlTypeOK'
  BY <1>1, <1>3, <1>5, <1>6, <1>7, <1>8, OrderIs DEF ControlInv, ControlTypeOK
<1>10. ~meddled' => read' = (Eyes \X ReadAtStart)'
  BY <1>3, <1>5
<1>11. Desired' = plan'
  BY <1>1, <1>2 DEF Desired
<1>12. ~meddled' => DoneSoFar'
  BY <1>1, <1>10, <1>11 DEF DoneSoFar
<1> QED BY <1>9, <1>12 DEF ControlInv

LEMMA TargetsEyes ==
  ASSUME NEW setting, NEW unread
  PROVE  /\ Targets(setting, unread) \subseteq Eyes
         /\ \A c \in Eyes : <<c, setting>> \in drifted \ unread => c \in Targets(setting, unread)
  BY DEF Targets

LEMMA RepairInv == ControlInv /\ Repair => ControlInv'
<1> SUFFICES ASSUME ControlInv, Repair PROVE ControlInv'
  OBVIOUS
<1> DEFINE setting == Order[at]
           unread == IF build = "dual" /\ setting \in ReadAtStart
                     THEN (Eyes \X {setting}) \ read ELSE {}
           lenses == IF MayRepair(setting) THEN Targets(setting, unread) ELSE {}
<1>1. /\ at \in 1 .. 8 /\ at' = at + 1 /\ setting \in Settings
      /\ UNCHANGED <<build, policy, night, rain, tracks, dwell, plan, permitted, read>>
      /\ blind' = blind \cup (unread \cap (lenses \X {setting}))
  BY OrderIs DEF Repair, Settings, ControlInv, ControlTypeOK
<1>2. \/ lenses = {} /\ UNCHANGED <<drifted, filter, personWas, meddled, mischief>>
      \/ Writes(setting, lenses)
  BY DEF Repair
<1>3. lenses \subseteq Eyes /\ Eyes' = Eyes
  BY <1>1, TargetsEyes DEF Eyes
<1>4. /\ drifted' \subseteq drifted /\ filter' \in {"people", "off"} /\ meddled' \in BOOLEAN
      /\ mischief' \in 0 .. Meddling /\ personWas' \in {"unread", "on", "off", "restored"}
      /\ meddled => meddled'
  <2>1. mischief \in 0 .. Meddling /\ meddled \in BOOLEAN /\ filter \in {"people", "off"}
        /\ personWas \in {"unread", "on", "off", "restored"}
    BY DEF ControlInv, ControlTypeOK
  <2>2. CASE UNCHANGED <<drifted, filter, personWas, meddled, mischief>>
    BY <2>1, <2>2
  <2>3. CASE Writes(setting, lenses)
    <3> HIDE DEF setting, unread, lenses
    <3>1. \/ /\ drifted' \subseteq drifted /\ filter' \in {filter, "off"}
             /\ personWas' \in {personWas, "restored"} /\ UNCHANGED <<meddled, mischief>>
          \/ /\ mischief > 0 /\ mischief' = mischief - 1 /\ meddled' = TRUE
             /\ UNCHANGED <<drifted, filter, personWas>>
      BY <2>3 DEF Writes
    <3>2. mischief' \in 0 .. Meddling
      BY <2>1, <3>1, ControlAssumption
    <3> QED BY <2>1, <3>1, <3>2
  <2> QED BY <1>2, <2>2, <2>3
<1>5. ControlTypeOK'
  <2>1. blind' \subseteq Eyes \X ReadAtStart
    BY <1>1 DEF ControlInv, ControlTypeOK
  <2>2. drifted' \subseteq Eyes \X Settings
    BY <1>4 DEF ControlInv, ControlTypeOK
  <2>3. {night, rain, tracks, dwell, plan, permitted, meddled}' \subseteq BOOLEAN
    BY <1>1, <1>4 DEF ControlInv, ControlTypeOK
  <2>4. at' \in 0 .. Over
    BY <1>1, OrderIs
  <2> QED BY <1>1, <1>3, <1>4, <2>1, <2>2, <2>3, <2>4 DEF ControlInv, ControlTypeOK
<1>6. ASSUME ~meddled' PROVE DoneSoFar'
  <2>1. DoneSoFar
    BY <1>1, <1>4, <1>6 DEF ControlInv
  <2>2. unread = {}
    BY <1>1, <2>1 DEF DoneSoFar
  <2>3. MayRepair(setting) => \A c \in Eyes : <<c, setting>> \notin drifted'
    <3> HIDE DEF setting, unread, lenses
    <3>1. CASE lenses = {} /\ UNCHANGED <<drifted, filter, personWas, meddled, mischief>>
      BY <2>2, <3>1, TargetsEyes DEF lenses
    <3>2. CASE drifted' = drifted \ (lenses \X {setting})
      BY <2>2, <3>2, TargetsEyes DEF lenses
    <3> QED BY <1>2, <1>6, <3>1, <3>2 DEF Writes
  <2>4. \A s : MayRepair(s)' = MayRepair(s)
    BY <1>1 DEF MayRepair
  <2>5. ASSUME NEW i \in 1 .. 8, i < at', MayRepair(Order[i])', NEW c \in Eyes'
        PROVE  <<c, Order[i]>> \notin drifted'
    BY <1>1, <1>3, <1>4, <2>1, <2>3, <2>4, <2>5 DEF DoneSoFar
  <2>6. Desired' = plan' /\ read' = (Eyes \X ReadAtStart)'
    BY <1>1, <1>3, <2>1 DEF DoneSoFar, Desired
  <2> QED BY <1>1, <2>5, <2>6 DEF DoneSoFar
<1> QED BY <1>5, <1>6 DEF ControlInv

(* The steps that follow the settings leave them as they are. *)
LEMMA LaterInv ==
  ASSUME ControlInv, at > 8, at' > at, at' \in 0 .. Over,
         UNCHANGED <<build, policy, night, rain, drifted, plan, permitted, read, blind, personWas>>,
         filter' \in {"people", "off"}, {tracks', dwell', meddled'} \subseteq BOOLEAN,
         mischief' \in 0 .. Meddling, meddled => meddled',
         ~meddled' => /\ "smarttrack" \in policy => filter' = Filtered
                      /\ at' \in {12, 14, 15} => tracks' = plan
  PROVE  ControlInv'
<1>1. ControlTypeOK'
  <2>1. Eyes' = Eyes
    BY DEF Eyes
  <2>2. {night, rain, tracks, dwell, plan, permitted, meddled}' \subseteq BOOLEAN
    BY DEF ControlInv, ControlTypeOK
  <2> QED BY <2>1, <2>2 DEF ControlInv, ControlTypeOK
<1>2. ASSUME ~meddled' PROVE DoneSoFar'
  <2>1. DoneSoFar
    BY <1>2 DEF ControlInv, ControlTypeOK
  <2>2. at \in Nat /\ at' \in Nat
    BY OrderIs DEF ControlInv, ControlTypeOK
  <2> QED BY <1>2, <2>1, <2>2 DEF DoneSoFar, Eyes, Desired, MayRepair, Filtered
<1> QED BY <1>1, <1>2 DEF ControlInv

LEMMA SmarttrackInv == ControlInv /\ ApplySmarttrack => ControlInv'
<1> SUFFICES ASSUME ControlInv, ApplySmarttrack PROVE ControlInv'
  OBVIOUS
<1>1. at = 9 /\ at' = 10
  BY OrderIs DEF ApplySmarttrack, ControlInv, ControlTypeOK
<1>2. /\ UNCHANGED <<build, policy, night, rain, drifted, dwell, plan, permitted, read, blind, personWas>>
      /\ Filtered \in {"people", "off"}
  BY DEF ApplySmarttrack, Filtered
<1>3. /\ filter' \in {"people", "off"} /\ {tracks', dwell', meddled'} \subseteq BOOLEAN
      /\ mischief' \in 0 .. Meddling /\ (meddled => meddled')
      /\ ~meddled' => ("smarttrack" \in policy => filter' = Filtered)
  <2>1. mischief \in 0 .. Meddling /\ meddled \in BOOLEAN /\ filter \in {"people", "off"}
        /\ {tracks, dwell, meddled} \subseteq BOOLEAN
    BY DEF ControlInv, ControlTypeOK
  <2>2. \/ /\ "smarttrack" \notin policy \/ filter = Filtered
           /\ UNCHANGED <<filter, tracks, meddled, mischief>>
        \/ filter' = Filtered /\ tracks' = FALSE /\ UNCHANGED <<meddled, mischief>>
        \/ /\ mischief > 0 /\ mischief' = mischief - 1 /\ meddled' = TRUE
           /\ UNCHANGED <<filter, tracks>>
    BY DEF ApplySmarttrack
  <2>3. {tracks', dwell', meddled'} \subseteq BOOLEAN
    BY <1>2, <2>1, <2>2
  <2>4. mischief' \in 0 .. Meddling
    BY <2>1, <2>2, ControlAssumption
  <2> QED BY <1>2, <2>1, <2>2, <2>3, <2>4
<1> QED BY <1>1, <1>2, <1>3, LaterInv, OrderIs

LEMMA MatchesInv == ControlInv /\ MatchesAlready => ControlInv'
<1> SUFFICES ASSUME ControlInv, MatchesAlready PROVE ControlInv'
  OBVIOUS
<1>1. /\ at = 10 /\ at' \in {11, 15} /\ (at' = 15 => tracks = Desired)
      /\ UNCHANGED <<build, policy, night, rain, firmwareVars, plan, permitted, read, blind,
                     personWas, meddled, mischief>>
  BY OrderIs DEF MatchesAlready, ControlInv, ControlTypeOK
<1>2. ~meddled => DoneSoFar
  BY <1>1 DEF ControlInv
<1>3. /\ UNCHANGED <<build, policy, night, rain, drifted, plan, permitted, read, blind, personWas>>
      /\ filter' \in {"people", "off"} /\ {tracks', dwell', meddled'} \subseteq BOOLEAN
      /\ mischief' \in 0 .. Meddling /\ meddled' = meddled
  BY <1>1 DEF ControlInv, ControlTypeOK, firmwareVars
<1>4. ~meddled => /\ "smarttrack" \in policy => filter' = Filtered
                  /\ at' \in {12, 14, 15} => tracks' = plan
  BY <1>1, <1>2 DEF DoneSoFar, firmwareVars
<1> QED BY <1>1, <1>3, <1>4, LaterInv, OrderIs

LEMMA SetInv == ControlInv /\ SetAutotrack => ControlInv'
<1> SUFFICES ASSUME ControlInv, SetAutotrack PROVE ControlInv'
  OBVIOUS
<1>1. /\ at \in {11, 13} /\ at' \in {at + 1, 15} /\ at' \in 0 .. Over /\ at' > at
      /\ UNCHANGED <<build, policy, night, rain, drifted, filter, plan, permitted, read, blind, personWas>>
  BY OrderIs DEF SetAutotrack, ControlInv, ControlTypeOK
<1>2. ~meddled => DoneSoFar
  BY <1>1 DEF ControlInv
<1>3. Desired \in BOOLEAN
  BY DEF Desired, ControlInv, ControlTypeOK
<1>4. \/ tracks' = Desired /\ dwell' \in BOOLEAN /\ UNCHANGED <<meddled, mischief>>
      \/ /\ mischief > 0 /\ mischief' = mischief - 1 /\ meddled' = TRUE
         /\ UNCHANGED <<tracks, dwell>>
  BY DEF SetAutotrack, ControlInv, ControlTypeOK
<1>5. mischief \in 0 .. Meddling /\ {tracks, dwell, meddled} \subseteq BOOLEAN
      /\ filter \in {"people", "off"}
  BY DEF ControlInv, ControlTypeOK
<1>6. {tracks', dwell', meddled'} \subseteq BOOLEAN
  BY <1>3, <1>4, <1>5
<1>7. mischief' \in 0 .. Meddling
  BY <1>4, <1>5, ControlAssumption
<1>8. (meddled => meddled') /\ (~meddled' => tracks' = Desired /\ ~meddled)
  BY <1>4
<1>9. ~meddled' => /\ "smarttrack" \in policy => filter' = Filtered
                   /\ at' \in {12, 14, 15} => tracks' = plan
  BY <1>1, <1>2, <1>8 DEF DoneSoFar
<1> QED BY <1>1, <1>5, <1>6, <1>7, <1>8, <1>9, LaterInv

LEMMA VerifyInv == ControlInv /\ VerifyAutotrack => ControlInv'
<1> SUFFICES ASSUME ControlInv, VerifyAutotrack PROVE ControlInv'
  OBVIOUS
<1>1. /\ at \in {12, 14} /\ at' \in {at + 1, 15} /\ at' \in 0 .. Over /\ at' > at
      /\ UNCHANGED <<build, policy, night, rain, firmwareVars, plan, permitted, read, blind,
                     personWas, meddled, mischief>>
  BY OrderIs DEF VerifyAutotrack, ControlInv, ControlTypeOK
<1>2. ~meddled => DoneSoFar
  BY <1>1 DEF ControlInv
<1>3. /\ UNCHANGED <<build, policy, night, rain, drifted, plan, permitted, read, blind, personWas>>
      /\ filter' \in {"people", "off"} /\ {tracks', dwell', meddled'} \subseteq BOOLEAN
      /\ mischief' \in 0 .. Meddling /\ meddled' = meddled
  BY <1>1 DEF ControlInv, ControlTypeOK, firmwareVars
<1>4. ~meddled => /\ "smarttrack" \in policy => filter' = Filtered
                  /\ at' \in {12, 14, 15} => tracks' = plan
  BY <1>1, <1>2 DEF DoneSoFar, firmwareVars
<1> QED BY <1>1, <1>3, <1>4, LaterInv

LEMMA OutsideInv == ControlInv /\ (Meddle \/ EndstopActs \/ BlindWritesAge) => ControlInv'
<1>1. ASSUME ControlInv, Meddle PROVE ControlInv'
  <2>1. /\ mischief' \in 0 .. Meddling /\ meddled' = TRUE /\ Eyes' = Eyes
        /\ UNCHANGED <<build, policy, night, rain, dwell, plan, permitted, read, blind, at, personWas>>
    BY <1>1, ControlAssumption DEF Meddle, ControlInv, ControlTypeOK, Eyes
  <2>2. drifted' \subseteq Eyes \X Settings /\ filter' \in {"people", "off"}
    BY <1>1 DEF Meddle, ControlInv, ControlTypeOK
  <2>3. tracks' \in BOOLEAN
    BY <1>1 DEF Meddle, ControlInv, ControlTypeOK
  <2>4. {night, rain, tracks, dwell, plan, permitted, meddled}' \subseteq BOOLEAN
    BY <1>1, <2>1, <2>3 DEF ControlInv, ControlTypeOK
  <2> QED BY <1>1, <2>1, <2>2, <2>4 DEF ControlInv, ControlTypeOK
<1>2. ASSUME ControlInv, EndstopActs PROVE ControlInv'
  <2>1. /\ mischief' \in 0 .. Meddling /\ meddled' = TRUE /\ Eyes' = Eyes
        /\ UNCHANGED <<build, policy, night, rain, drifted, filter, dwell, plan, read, blind, at,
                       personWas>>
    BY <1>2, ControlAssumption DEF EndstopActs, ControlInv, ControlTypeOK, Eyes
  <2>2. tracks' \in BOOLEAN /\ permitted' \in BOOLEAN
    BY <1>2 DEF EndstopActs, ControlInv, ControlTypeOK
  <2>4. {night, rain, tracks, dwell, plan, permitted, meddled}' \subseteq BOOLEAN
    BY <1>2, <2>1, <2>2 DEF ControlInv, ControlTypeOK
  <2> QED BY <1>2, <2>1, <2>4 DEF ControlInv, ControlTypeOK
<1>3. ControlInv /\ BlindWritesAge => ControlInv'
  BY DEF BlindWritesAge, ControlInv, ControlTypeOK, DoneSoFar, firmwareVars, Eyes, Desired,
         MayRepair, Filtered
<1> QED BY <1>1, <1>2, <1>3

LEMMA ControlStep == ControlInv /\ [ControlNext]_controlVars => ControlInv'
<1>1. ControlInv /\ UNCHANGED controlVars => ControlInv'
  BY DEF controlVars, firmwareVars, ControlInv, ControlTypeOK, DoneSoFar, Eyes, Desired,
         MayRepair, Filtered
<1> QED BY <1>1, ControlStartsInv, RepairInv, SmarttrackInv, MatchesInv, SetInv, VerifyInv,
           OutsideInv DEF ControlNext

LEMMA PlanApplied == ControlInv => PassLeavesPlan
<1> SUFFICES ASSUME ControlInv, at = Over, ~meddled PROVE PassLeavesPlan
  BY DEF PassLeavesPlan
<1>1. DoneSoFar /\ at = 15
  BY OrderIs DEF ControlInv
<1>2. ASSUME NEW s \in Settings PROVE \E i \in 1 .. 8 : Order[i] = s
  BY OrderIs DEF Settings
<1> QED BY <1>1, <1>2 DEF DoneSoFar, PassLeavesPlan

(* A pass that nothing disturbed leaves the camera as planned: the last setting  *)
(* is written before the filter, the filter before auto-track, and auto-track    *)
(* is verified (daemon.apply_plan, tracking.set_autotrack).                      *)
THEOREM PassLeavesPlanCorrect == ControlSpec => []PassLeavesPlan
<1> QED BY PlanApplied, ControlInitInv, ControlStep, PTL DEF ControlSpec

-----------------------------------------------------------------------------
(* The lens *)

(* A poll, or a control pass, is not missed: its age is below the interval once *)
(* its turn of the loop is over.                                               *)
TurnsTaken ==
  /\ lensTurn = "world" => pollAge < PollEvery
  /\ lensTurn \in {"monitor", "guard", "world"} => controlAge < ControlEvery

(* How long the lens has been out, by what the last poll left in out_since. *)
StrayInv ==
  /\ outFor = Never => strayFor <= pollAge
  /\ outFor \in 0 .. (Grace - 1) => strayFor <= outFor + PollEvery
  /\ outFor # Never /\ outFor = Grace => strayFor <= Grace - 1 + PollEvery + pollAge

(* How long the recall has not come, by the hold that keeps it away. *)
RecallInv ==
  /\ heldFor = Never => recallAge <= controlAge
  /\ heldFor \in 0 .. (TrackHold - 1) => recallAge <= heldFor + ControlEvery
  /\ heldFor = TrackHold => recallAge <= TrackHold - 1 + ControlEvery + controlAge

LensInv == LensTypeOK /\ TurnsTaken /\ StrayInv /\ RecallInv

LEMMA LensTypes ==
  ASSUME LensTypeOK
  PROVE  /\ heldFor \in Int /\ heldFor >= -1 /\ heldFor <= TrackHold
         /\ outFor \in Int /\ outFor >= -1 /\ outFor <= Grace
         /\ controlAge \in Nat /\ controlAge <= ControlEvery
         /\ pollAge \in Nat /\ pollAge <= PollEvery
         /\ eventAge \in Nat /\ eventAge <= TrackHold /\ linkageAge \in Nat /\ linkageAge <= LinkageHold
         /\ backoff \in Nat /\ backoff <= RebuildCap
         /\ strayFor \in Nat /\ recallAge \in Nat
  BY LensAssumption DEF LensTypeOK, Never

LEMMA LensConstants ==
  /\ TrackHold \in Nat /\ TrackHold >= 1 /\ PollEvery \in Nat /\ PollEvery >= 1
  /\ ControlEvery \in Nat /\ ControlEvery >= 1 /\ RebuildCap \in Nat /\ RebuildCap >= 1
  /\ Grace \in Nat /\ LinkageHold \in Nat
  BY LensAssumption

LEMMA LensInitInv == LensInit => LensInv
<1> SUFFICES ASSUME LensInit PROVE LensInv
  OBVIOUS
<1>1. {stray, parked, dark, seenParked, tracking, onvif} \subseteq BOOLEAN
  BY DEF LensInit
<1>2. LensTypeOK
  BY <1>1, LensConstants DEF LensInit, LensTypeOK, Never
<1> QED BY <1>2, LensConstants DEF LensInit, LensInv, TurnsTaken, StrayInv, RecallInv, Never

LEMMA LensControlInv == LensInv /\ LensControl => LensInv'
<1> SUFFICES ASSUME LensInv, LensControl PROVE LensInv'
  OBVIOUS
<1>t. /\ lensTurn = "control" /\ lensTurn' = "monitor"
      /\ UNCHANGED <<parked, dark, eventAge, linkageAge, pollAge, outFor, backoff, onvif, strayFor>>
  BY DEF LensControl
<1>1. CASE controlAge < ControlEvery
  <2>1. UNCHANGED <<stray, seenParked, tracking, heldFor, controlAge, recallAge>>
    BY <1>1 DEF LensControl
  <2> QED BY <1>1, <1>t, <2>1 DEF LensInv, LensTypeOK, TurnsTaken, StrayInv, RecallInv
<1>2. CASE ~(controlAge < ControlEvery)
  <2> DEFINE holds == HoldDue(heldFor)
             move == Decide("schedule", seenParked', holds, dark, LinkageDue, 0)
  <2>1. /\ controlAge' = 0 /\ tracking' = dark /\ seenParked' \in {parked, seenParked}
        /\ heldFor' = IF ~holds THEN Never ELSE IF heldFor = Never THEN 0 ELSE heldFor
        /\ stray' \in BOOLEAN
        /\ recallAge' = IF move = "hold" THEN recallAge ELSE 0
    BY <1>2 DEF LensControl, LensInv, LensTypeOK
  <2>2. move = "hold" => holds
    BY DEF Decide
  <2>3. holds => heldFor = Never \/ heldFor < TrackHold
    BY DEF HoldDue
  <2> HIDE DEF move, holds
  <2>4. {stray, parked, dark, seenParked, tracking, onvif}' \subseteq BOOLEAN
    BY <1>t, <2>1 DEF LensInv, LensTypeOK
  <2>5. controlAge = ControlEvery
    BY <1>2, LensTypes, LensConstants DEF LensInv
  <2>6. LensTypeOK'
    BY <1>t, <2>1, <2>4, LensConstants DEF LensInv, LensTypeOK, Never
  <2>7. RecallInv'
    <3>1. CASE ~holds
      <4>1. heldFor' = -1 /\ recallAge' = 0 /\ controlAge' = 0
        BY <2>1, <2>2, <3>1 DEF Never
      <4> QED BY <4>1, LensConstants DEF RecallInv, Never
    <3>2. CASE holds
      <4>1. recallAge' \in {recallAge, 0} /\ recallAge \in Nat
        BY <2>1, LensTypes DEF LensInv
      <4>2. CASE heldFor = Never
        <5>1. heldFor' = 0 /\ recallAge' <= ControlEvery
          BY <2>1, <2>5, <3>2, <4>1, <4>2, LensConstants DEF LensInv, RecallInv
        <5> QED BY <5>1, LensConstants DEF RecallInv, Never
      <4>3. CASE heldFor # Never
        <5>1. heldFor' = heldFor /\ heldFor \in 0 .. (TrackHold - 1)
          BY <2>1, <2>3, <3>2, <4>3, LensTypes, LensConstants DEF LensInv, Never
        <5> QED BY <4>1, <5>1, LensConstants DEF LensInv, RecallInv, Never
      <4> QED BY <4>2, <4>3
    <3> QED BY <3>1, <3>2
  <2> QED BY <1>t, <2>1, <2>6, <2>7, LensConstants DEF LensInv, TurnsTaken, StrayInv
<1> QED BY <1>1, <1>2

LEMMA LensMonitorInv == LensInv /\ LensMonitor => LensInv'
  BY LensConstants DEF LensMonitor, LensInv, LensTypeOK, TurnsTaken, StrayInv, RecallInv

LEMMA GuardInv == LensInv /\ (GuardSkips \/ GuardWaits \/ GuardFails \/ GuardPolls) => LensInv'
<1> SUFFICES ASSUME LensInv, GuardSkips \/ GuardWaits \/ GuardFails \/ GuardPolls PROVE LensInv'
  OBVIOUS
<1>1. CASE GuardSkips
  BY <1>1 DEF GuardSkips, agesVars, LensInv, LensTypeOK, TurnsTaken, StrayInv, RecallInv
<1>2. CASE GuardWaits
  BY <1>2, LensConstants
  DEF GuardWaits, LensInv, LensTypeOK, TurnsTaken, StrayInv, RecallInv, Never
<1>3. CASE GuardFails
  <2>1. {stray, parked, dark, seenParked, tracking, onvif}' \subseteq BOOLEAN
    BY <1>3 DEF GuardFails, LensInv, LensTypeOK
  <2>2. LensTypeOK'
    BY <1>3, <2>1, LensConstants DEF GuardFails, LensInv, LensTypeOK, Never
  <2> QED BY <1>3, <2>2, LensConstants
    DEF GuardFails, LensInv, TurnsTaken, StrayInv, RecallInv, Never
<1>4. CASE GuardPolls
  <2> DEFINE out == IF outFor = Never THEN 0 ELSE outFor
             move == Decide("guard", FALSE, HoldDue(heldFor), tracking, LinkageDue, out)
  <2>1. /\ lensTurn = "guard" /\ pollAge = PollEvery /\ lensTurn' = "world" /\ pollAge' = 0
        /\ onvif' = TRUE /\ backoff' = 0
        /\ outFor' = IF stray /\ move = "hold" THEN out ELSE Never
        /\ strayFor' = IF stray /\ move = "hold" THEN strayFor ELSE 0
        /\ UNCHANGED <<parked, dark, seenParked, tracking, eventAge, heldFor, linkageAge, controlAge,
                       recallAge>>
    BY <1>4 DEF GuardPolls
  <2>2. stray' \in BOOLEAN
    BY <1>4 DEF GuardPolls
  <2>3. move = "hold" => ~(out >= Grace)
    BY DEF Decide
  <2>4. out \in 0 .. Grace
    BY LensTypes, LensConstants DEF LensInv, Never
  <2> HIDE DEF move
  <2>5. {stray, parked, dark, seenParked, tracking, onvif}' \subseteq BOOLEAN
    BY <2>1, <2>2 DEF LensInv, LensTypeOK
  <2>6. outFor' \in Never .. Grace /\ strayFor' \in Nat
    BY <2>1, <2>4, LensTypes, LensConstants DEF LensInv, Never
  <2>7. LensTypeOK'
    BY <2>1, <2>5, <2>6, LensConstants DEF LensInv, LensTypeOK
  <2>8. StrayInv'
    <3>1. CASE ~(stray /\ move = "hold")
      <4>1. outFor' = -1 /\ strayFor' = 0 /\ pollAge' = 0
        BY <2>1, <3>1 DEF Never
      <4> QED BY <4>1, LensConstants DEF StrayInv, Never
    <3>2. CASE stray /\ move = "hold"
      <4>1. outFor' = out /\ strayFor' = strayFor /\ pollAge' = 0 /\ pollAge = PollEvery
        BY <2>1, <3>2
      <4>2. out \in 0 .. (Grace - 1)
        <5>1. ~(out >= Grace)
          BY <2>3, <3>2
        <5> HIDE DEF out
        <5> QED BY <2>4, <5>1, LensConstants
      <4>3. strayFor <= out + PollEvery
        <5>1. CASE outFor = Never
          BY <4>1, <5>1, LensTypes, LensConstants DEF LensInv, StrayInv, Never
        <5>2. CASE outFor # Never
          BY <4>2, <5>2, LensTypes, LensConstants DEF LensInv, StrayInv, Never
        <5> QED BY <5>1, <5>2
      <4> HIDE DEF out
      <4> QED BY <4>1, <4>2, <4>3, LensConstants DEF StrayInv, Never
    <3> QED BY <3>1, <3>2
  <2> QED BY <2>1, <2>7, <2>8, LensConstants DEF LensInv, TurnsTaken, RecallInv
<1> QED BY <1>1, <1>2, <1>3, <1>4

LEMMA LensWorldInv == LensInv /\ LensWorld => LensInv'
<1> SUFFICES ASSUME LensInv, LensWorld PROVE LensInv'
  OBVIOUS
<1>1. /\ lensTurn = "world" /\ lensTurn' = "control"
      /\ eventAge' = Older(eventAge, TrackHold) /\ heldFor' = Older(heldFor, TrackHold)
      /\ linkageAge' = Older(linkageAge, LinkageHold)
      /\ controlAge' = Older(controlAge, ControlEvery) /\ pollAge' = Older(pollAge, PollEvery)
      /\ outFor' = Older(outFor, Grace) /\ backoff' = (IF backoff = 0 THEN 0 ELSE backoff - 1)
      /\ recallAge' = recallAge + 1
      /\ strayFor' = IF stray' THEN strayFor + 1 ELSE 0
      /\ UNCHANGED <<seenParked, tracking, onvif>>
  BY DEF LensWorld
<1>2. {stray', parked', dark'} \subseteq BOOLEAN
  BY DEF LensWorld, LensInv, LensTypeOK
<1>3. {stray, parked, dark, seenParked, tracking, onvif}' \subseteq BOOLEAN
  BY <1>1, <1>2 DEF LensInv, LensTypeOK
<1>4. /\ eventAge' \in 0..TrackHold /\ heldFor' \in Never..TrackHold
      /\ linkageAge' \in 0..LinkageHold /\ controlAge' \in 0..ControlEvery
      /\ pollAge' \in 0..PollEvery /\ outFor' \in Never..Grace /\ backoff' \in 0..RebuildCap
      /\ strayFor' \in Nat /\ recallAge' \in Nat
  BY <1>1, LensTypes, LensConstants DEF LensInv, Older, Never
<1>5. LensTypeOK'
  BY <1>1, <1>3, <1>4 DEF LensTypeOK
<1>6. controlAge < ControlEvery /\ pollAge < PollEvery
  BY <1>1 DEF LensInv, TurnsTaken
<1>7. StrayInv'
  BY <1>1, <1>6, LensTypes, LensConstants DEF LensInv, StrayInv, Older, Never
<1>8. RecallInv'
  BY <1>1, <1>6, LensTypes, LensConstants DEF LensInv, RecallInv, Older, Never
<1> QED BY <1>1, <1>5, <1>7, <1>8 DEF LensInv, TurnsTaken

LEMMA LensStep == LensInv /\ [LensNext]_lensVars => LensInv'
<1>1. LensInv /\ UNCHANGED lensVars => LensInv'
  BY DEF lensVars, agesVars, LensInv, LensTypeOK, TurnsTaken, StrayInv, RecallInv
<1> QED BY <1>1, LensControlInv, LensMonitorInv, GuardInv, LensWorldInv DEF LensNext

LEMMA LensReturns == LensInv => StrayEnds
  BY LensTypes, LensConstants
  DEF LensInv, StrayInv, RecallInv, StrayEnds, StrayBounded, RecallComesRound, Never

(* A stray lens that only a hold keeps out comes back within the grace and two   *)
(* polls, and the scheduled recall within one hold and two control passes, for   *)
(* any of these periods (panlimit's hold_grace, motion.decide,                   *)
(* cameras_holding_recall).                                                      *)
THEOREM StrayEndsCorrect == LensSpec => []StrayEnds
<1> QED BY LensReturns, LensInitInv, LensStep, PTL DEF LensSpec

----------------------------------------------------------------------------
(* The twin *)

(* What the history of an entry should say last of one path.                   *)
Now(drift, status, p) ==
  IF p = "health" THEN status ELSE IF p \in drift THEN "opened" ELSE "cleared"

Subjects == Paths \cup {"health"}
Healths == {"ok", "degraded", "down", "unknown"}
Items == [path : Subjects, to : Healths \cup {"opened", "cleared"}]

Tells(history, drift, status) ==
  \A i \in 1..Len(history) :
    (\A j \in i + 1..Len(history) : history[j].path # history[i].path) =>
      history[i].to = Now(drift, status, history[i].path)

(* Every subject of which it should now say something else has a new item.     *)
Covers(items, wasDrift, wasStatus, drift, status) ==
  \A p \in Subjects : Now(drift, status, p) # Now(wasDrift, wasStatus, p)
                      => \E k \in 1..Len(items) : items[k].path = p

(* An entry, in memory or in the file.                                         *)
EntryInv(e) ==
  /\ e.drift \subseteq Paths /\ e.alerted \subseteq Paths
  /\ e.status \in Healths \cup {"none"}
  /\ e.history \in Seq(Items) /\ Len(e.history) <= HistoryLimit
  /\ e.status = "none" => e.history = <<>>
  /\ Tells(e.history, e.drift, e.status)

TwinInv == TwinTypeOK /\ DriftIsOwed /\ EntryInv(fleet) /\ EntryInv(saved)

(* Every element of a finite set is in the sequence made of it.                *)
LEMMA SetToSeqAll ==
  ASSUME NEW S, IsFiniteSet(S)
  PROVE  /\ SetToSeq(S) \in Seq(S)
         /\ \A x \in S : \E i \in 1..Len(SetToSeq(S)) : SetToSeq(S)[i] = x
<1> DEFINE n == Cardinality(S)
           f == SetToSeq(S)
<1>1. n \in Nat /\ ExistsBijection(1..n, S)
  BY FS_CardinalityType
<1>2. PICK g \in Bijection(1..n, S) : TRUE
  BY <1>1 DEF ExistsBijection
<1>3. g \in [1..n -> S] /\ IsInjective(g)
  BY <1>2 DEF Bijection, Injection
<1>4. f \in [1..n -> S] /\ IsInjective(f)
  BY <1>3 DEF SetToSeq
<1> HIDE DEF f, n
<1>5. f \in Seq(S) /\ Len(f) = n
  BY <1>1, <1>4
<1>6. f \in Injection(1..n, S)
  BY <1>4 DEF Injection
<1>7. IsFiniteSet(1..n) /\ Cardinality(1..n) = n
  BY <1>1, FS_Interval
<1>8. f \in Surjection(1..n, S)
  BY <1>6, <1>7, FS_Injection DEF n
<1>9. \A x \in S : \E i \in 1..n : f[i] = x
  BY <1>8 DEF Surjection
<1> QED
  BY <1>5, <1>9 DEF f

LEMMA PathsFinite == ASSUME NEW D, D \subseteq Paths PROVE IsFiniteSet(D)
<1>1. IsFiniteSet({"tracking.auto"}) /\ IsFiniteSet({"detection.person"})
  BY FS_Singleton
<1>2. IsFiniteSet({"tracking.auto"} \cup {"detection.person"})
  BY <1>1, FS_Union
<1>3. Paths = {"tracking.auto"} \cup {"detection.person"}
  BY DEF Paths
<1> QED
  BY <1>2, <1>3, FS_Subset

LEMMA ItemsFinite ==
  ASSUME NEW D, D \subseteq Paths, NEW v
  PROVE  IsFiniteSet({[path |-> p, to |-> v] : p \in D})
<1> DEFINE f == [p \in D |-> [path |-> p, to |-> v]]
<1>1. IsFiniteSet(D)
  BY PathsFinite
<1>2. {f[x] : x \in D} = {[path |-> p, to |-> v] : p \in D}
  OBVIOUS
<1>3. f \in Surjection(D, {f[x] : x \in D})
  BY DEF Surjection
<1> QED
  BY <1>1, <1>2, <1>3, FS_Surjection

(* The items one probe adds say what is true now, and leave out no path whose  *)
(* word changed.                                                               *)
LEMMA TransitionsTell ==
  ASSUME NEW earlier, earlier.drift \subseteq Paths, earlier.status \in Healths,
         NEW drift, drift \subseteq Paths, NEW status \in Healths,
         NEW t, t = Transitions(earlier, drift, status)
  PROVE  /\ t \in Seq(Items)
         /\ \A k \in 1..Len(t) : t[k].to = Now(drift, status, t[k].path)
         /\ Covers(t, earlier.drift, earlier.status, drift, status)
<1> DEFINE H == IF earlier.status = status THEN <<>> ELSE <<[path |-> "health", to |-> status]>>
           opened == {[path |-> p, to |-> "opened"] : p \in drift \ earlier.drift}
           cleared == {[path |-> p, to |-> "cleared"] : p \in earlier.drift \ drift}
           O == SetToSeq(opened)
           C == SetToSeq(cleared)
           Good(it) == it.to = Now(drift, status, it.path)
<1>1. t = H \o O \o C
  BY DEF Transitions, Healths
<1>2. /\ opened \subseteq Items /\ cleared \subseteq Items
  BY DEF Items, Subjects
<1>3. /\ \A it \in opened : Good(it)
      /\ \A it \in cleared : Good(it)
  BY DEF Now, Paths
<1>4. /\ H \in Seq(Items)
      /\ \A k \in 1..Len(H) : Good(H[k])
      /\ earlier.status # status => (Len(H) = 1 /\ H[1].path = "health")
  <2>1. CASE earlier.status = status
    <3>1. H = <<>> /\ Len(H) = 0
      BY <2>1
    <3> QED
      BY <2>1, <3>1
  <2>2. CASE earlier.status # status
    <3> DEFINE it == [path |-> "health", to |-> status]
    <3>1. it \in Items /\ Good(it) /\ it.path = "health"
      BY DEF Items, Subjects, Now
    <3>2. H = <<it>>
      BY <2>2
    <3> HIDE DEF it, Good, H
    <3>3. H \in Seq(Items) /\ Len(H) = 1 /\ H[1] = it
      BY <3>1, <3>2
    <3>4. \A k \in 1..Len(H) : H[k] = it
      BY <3>3
    <3> QED
      BY <2>2, <3>1, <3>3, <3>4
  <2> QED
    BY <2>1, <2>2
<1>5. IsFiniteSet(opened) /\ IsFiniteSet(cleared)
  <2>1. drift \ earlier.drift \subseteq Paths /\ earlier.drift \ drift \subseteq Paths
    OBVIOUS
  <2> QED
    BY <2>1, ItemsFinite
<1>6. /\ O \in Seq(opened) /\ C \in Seq(cleared)
      /\ \A x \in opened : \E i \in 1..Len(O) : O[i] = x
      /\ \A x \in cleared : \E i \in 1..Len(C) : C[i] = x
  BY <1>5, SetToSeqAll
<1> HIDE DEF O, C
<1>7. /\ O \in Seq(Items) /\ C \in Seq(Items)
      /\ \A k \in 1..Len(O) : Good(O[k])
      /\ \A k \in 1..Len(C) : Good(C[k])
  <2>1. \A k \in 1..Len(O) : O[k] \in opened
    BY <1>6, ElementOfSeq
  <2>2. \A k \in 1..Len(C) : C[k] \in cleared
    BY <1>6, ElementOfSeq
  <2>3. O \in Seq(Items) /\ C \in Seq(Items)
    BY <1>2, <1>6, SeqMonotonic
  <2> QED
    BY <1>3, <2>1, <2>2, <2>3
<1> HIDE DEF Good, H, opened, cleared
<1>8. /\ H \o O \in Seq(Items) /\ Len(H \o O) = Len(H) + Len(O)
      /\ \A i \in 1..Len(H) + Len(O) :
           (H \o O)[i] = IF i <= Len(H) THEN H[i] ELSE O[i - Len(H)]
  BY <1>4, <1>7, ConcatProperties
<1>9. /\ t \in Seq(Items) /\ Len(t) = Len(H \o O) + Len(C)
      /\ \A i \in 1..Len(H \o O) + Len(C) :
           t[i] = IF i <= Len(H \o O) THEN (H \o O)[i] ELSE C[i - Len(H \o O)]
  BY <1>1, <1>7, <1>8, ConcatProperties
<1>10. Len(H) \in Nat /\ Len(O) \in Nat /\ Len(C) \in Nat
  BY <1>4, <1>7, LenProperties
<1>11. Len(t) = Len(H) + Len(O) + Len(C)
  BY <1>8, <1>9
<1>12. /\ \A i \in 1..Len(H) : t[i] = H[i]
       /\ \A i \in 1..Len(O) : t[i + Len(H)] = O[i]
       /\ \A i \in 1..Len(C) : t[i + Len(H) + Len(O)] = C[i]
  BY <1>8, <1>9, <1>10
<1>13. \A k \in 1..Len(t) : Good(t[k])
  <2> SUFFICES ASSUME NEW k \in 1..Len(t) PROVE Good(t[k])
    OBVIOUS
  <2>1. CASE k <= Len(H)
    BY <2>1, <1>4, <1>10, <1>11, <1>12
  <2>2. CASE k > Len(H) /\ k <= Len(H) + Len(O)
    <3>0. k - Len(H) \in 1..Len(O) /\ k = (k - Len(H)) + Len(H)
      BY <2>2, <1>10, <1>11
    <3>1. k - Len(H) \in 1..Len(O) /\ t[k] = O[k - Len(H)]
      BY <3>0, <1>12
    <3> QED
      BY <3>1, <1>7
  <2>3. CASE k > Len(H) + Len(O)
    <3>0. /\ k - Len(H) - Len(O) \in 1..Len(C)
          /\ k = (k - Len(H) - Len(O)) + Len(H) + Len(O)
      BY <2>3, <1>10, <1>11
    <3>1. k - Len(H) - Len(O) \in 1..Len(C) /\ t[k] = C[k - Len(H) - Len(O)]
      BY <3>0, <1>12
    <3> QED
      BY <3>1, <1>7
  <2> QED
    BY <2>1, <2>2, <2>3, <1>10, <1>11
<1>14. ASSUME NEW p \in Subjects, Now(drift, status, p) # Now(earlier.drift, earlier.status, p)
       PROVE  \E k \in 1..Len(t) : t[k].path = p
  <2>1. CASE p = "health"
    <3>1. earlier.status # status
      BY <2>1, <1>14 DEF Now
    <3>4. Len(H) = 1
      BY <3>1, <1>4
    <3>2. 1 \in 1..Len(H) /\ 1 \in 1..Len(t)
      BY <3>4, <1>10, <1>11
    <3>3. t[1] = H[1]
      BY <3>2, <1>12
    <3> QED
      BY <2>1, <3>1, <3>2, <3>3, <1>4
  <2>2. CASE p \in drift \ earlier.drift
    <3>1. [path |-> p, to |-> "opened"] \in opened
      BY <2>2 DEF opened
    <3>2. PICK i \in 1..Len(O) : O[i] = [path |-> p, to |-> "opened"]
      BY <3>1, <1>6
    <3>3. t[i + Len(H)].path = p /\ i + Len(H) \in 1..Len(t)
      BY <3>2, <1>10, <1>11, <1>12
    <3> QED
      BY <3>3
  <2>3. CASE p \in earlier.drift \ drift
    <3>1. [path |-> p, to |-> "cleared"] \in cleared
      BY <2>3 DEF cleared
    <3>2. PICK i \in 1..Len(C) : C[i] = [path |-> p, to |-> "cleared"]
      BY <3>1, <1>6
    <3>3. t[i + Len(H) + Len(O)].path = p /\ i + Len(H) + Len(O) \in 1..Len(t)
      BY <3>2, <1>10, <1>11, <1>12
    <3> QED
      BY <3>3
  <2> QED
    BY <2>1, <2>2, <2>3, <1>14 DEF Now
<1> QED
  BY <1>9, <1>13, <1>14 DEF Good, Covers

(* A history that is told of every change still tells what is true now.        *)
LEMMA AppendTells ==
  ASSUME NEW h \in Seq(Items), NEW t \in Seq(Items), NEW wasDrift, NEW wasStatus,
         NEW drift, NEW status,
         Tells(h, wasDrift, wasStatus),
         \A k \in 1..Len(t) : t[k].to = Now(drift, status, t[k].path),
         Covers(t, wasDrift, wasStatus, drift, status)
  PROVE  h \o t \in Seq(Items) /\ Tells(h \o t, drift, status)
<1> DEFINE c == h \o t
<1>1. /\ c \in Seq(Items) /\ Len(c) = Len(h) + Len(t)
      /\ \A i \in 1..Len(h) + Len(t) : c[i] = IF i <= Len(h) THEN h[i] ELSE t[i - Len(h)]
  BY ConcatProperties
<1> HIDE DEF c
<1>2. Len(h) \in Nat /\ Len(t) \in Nat
  BY LenProperties
<1>3. /\ \A i \in 1..Len(h) : i \in 1..Len(c) /\ c[i] = h[i]
      /\ \A i \in 1..Len(t) : i + Len(h) \in 1..Len(c) /\ c[i + Len(h)] = t[i]
  <2>1. ASSUME NEW i \in 1..Len(h) PROVE i \in 1..Len(c) /\ c[i] = h[i]
    <3>1. i \in 1..Len(h) + Len(t) /\ i <= Len(h)
      BY <1>2
    <3> QED
      BY <3>1, <1>1
  <2>2. ASSUME NEW i \in 1..Len(t) PROVE i + Len(h) \in 1..Len(c) /\ c[i + Len(h)] = t[i]
    <3>1. /\ i + Len(h) \in 1..Len(h) + Len(t) /\ ~(i + Len(h) <= Len(h))
          /\ i + Len(h) - Len(h) = i
      BY <1>2
    <3> QED
      BY <3>1, <1>1
  <2> QED
    BY <2>1, <2>2
<1>4. SUFFICES ASSUME NEW i \in 1..Len(c),
                      \A j \in i + 1..Len(c) : c[j].path # c[i].path
               PROVE  c[i].to = Now(drift, status, c[i].path)
  BY <1>1 DEF Tells, c
<1>5. CASE i <= Len(h)
  <2>1. i \in 1..Len(h) /\ c[i] = h[i]
    BY <1>5, <1>1, <1>2, <1>3
  <2>2. \A j \in i + 1..Len(h) : j \in i + 1..Len(c) /\ c[j] = h[j]
    <3> SUFFICES ASSUME NEW j \in i + 1..Len(h) PROVE j \in i + 1..Len(c) /\ c[j] = h[j]
      OBVIOUS
    <3>1. j \in 1..Len(h) /\ j \in i + 1..Len(c)
      BY <1>1, <1>2, <2>1
    <3> QED
      BY <3>1, <1>3
  <2>3. h[i].to = Now(wasDrift, wasStatus, h[i].path)
    BY <1>4, <2>1, <2>2 DEF Tells
  <2>4. \A k \in 1..Len(t) : t[k].path # h[i].path
    <3> SUFFICES ASSUME NEW k \in 1..Len(t) PROVE t[k].path # h[i].path
      OBVIOUS
    <3>1. k + Len(h) \in i + 1..Len(c) /\ c[k + Len(h)] = t[k]
      BY <2>1, <1>1, <1>2, <1>3
    <3> QED
      BY <3>1, <1>4, <2>1
  <2>5. h[i].path \in Subjects
    <3>1. h[i] \in Items
      BY <2>1, ElementOfSeq
    <3> QED
      BY <3>1 DEF Items
  <2> QED
    BY <2>1, <2>3, <2>4, <2>5 DEF Covers
<1>6. CASE i > Len(h)
  <2>1. i - Len(h) \in 1..Len(t) /\ i = (i - Len(h)) + Len(h)
    BY <1>6, <1>1, <1>2
  <2>2. c[i] = t[i - Len(h)]
    BY <2>1, <1>3
  <2> QED
    BY <2>1, <2>2
<1> QED
  BY <1>5, <1>6, <1>1, <1>2

(* The newest entries of a history tell what the whole history told.           *)
LEMMA BoundedTells ==
  ASSUME NEW h \in Seq(Items), NEW drift, NEW status, Tells(h, drift, status)
  PROVE  /\ Bounded(h) \in Seq(Items) /\ Len(Bounded(h)) <= HistoryLimit
         /\ Tells(Bounded(h), drift, status)
<1>0. HistoryLimit \in Nat /\ HistoryLimit > 0 /\ Len(h) \in Nat
  BY TwinAssumption, LenProperties
<1>1. CASE Len(h) <= HistoryLimit
  BY <1>1 DEF Bounded
<1>2. CASE Len(h) > HistoryLimit
  <2> DEFINE n == Len(h)
             d == n - HistoryLimit
             b == SubSeq(h, d + 1, n)
  <2>1. Bounded(h) = b
    BY <1>0, <1>2 DEF Bounded
  <2>2. d \in Nat /\ n \in Nat /\ d + 1 \in Int /\ n \in Int /\ n = d + HistoryLimit
    BY <1>0, <1>2
  <2>3. \A i \in d + 1..n : h[i] \in Items
    BY <2>2, ElementOfSeq
  <2> HIDE DEF d
  <2>4. /\ b \in Seq(Items) /\ Len(b) = IF d + 1 <= n THEN n - (d + 1) + 1 ELSE 0
        /\ \A i \in 1..n - (d + 1) + 1 : b[i] = h[d + 1 + i - 1]
    BY <2>2, <2>3, SubSeqProperties
  <2> HIDE DEF b, n
  <2>5. b \in Seq(Items) /\ Len(b) = HistoryLimit
    BY <1>0, <2>2, <2>4
  <2>6. \A i \in 1..HistoryLimit : b[i] = h[d + i] /\ d + i \in 1..n
    <3> SUFFICES ASSUME NEW i \in 1..HistoryLimit PROVE b[i] = h[d + i] /\ d + i \in 1..n
      OBVIOUS
    <3>1. i \in 1..n - (d + 1) + 1 /\ d + 1 + i - 1 = d + i /\ d + i \in 1..n
      BY <1>0, <2>2
    <3> QED
      BY <3>1, <2>4
  <2>7. Tells(b, drift, status)
    <3> SUFFICES ASSUME NEW i \in 1..Len(b), \A j \in i + 1..Len(b) : b[j].path # b[i].path
                 PROVE  b[i].to = Now(drift, status, b[i].path)
      BY DEF Tells
    <3>1. i \in 1..HistoryLimit /\ b[i] = h[d + i] /\ d + i \in 1..n
      BY <2>5, <2>6
    <3>2. \A j \in (d + i) + 1..n : h[j].path # h[d + i].path
      <4> SUFFICES ASSUME NEW j \in (d + i) + 1..n PROVE h[j].path # h[d + i].path
        OBVIOUS
      <4>1. j - d \in i + 1..HistoryLimit /\ j - d \in 1..HistoryLimit /\ d + (j - d) = j
        BY <1>0, <2>2, <3>1
      <4>2. b[j - d] = h[j]
        BY <4>1, <2>6
      <4> QED
        BY <4>1, <4>2, <3>1, <2>5
    <3> QED
      BY <3>1, <3>2 DEF Tells, n
  <2> QED
    BY <1>0, <2>1, <2>5, <2>7
<1> QED
  BY <1>0, <1>1, <1>2

LEMMA HistoryGrows ==
  ASSUME NEW earlier, earlier.drift \subseteq Paths, earlier.status \in Healths,
         earlier.history \in Seq(Items), Tells(earlier.history, earlier.drift, earlier.status),
         NEW drift, drift \subseteq Paths, NEW status \in Healths
  PROVE  /\ earlier.history \o Transitions(earlier, drift, status) \in Seq(Items)
         /\ Tells(earlier.history \o Transitions(earlier, drift, status), drift, status)
<1> DEFINE t == Transitions(earlier, drift, status)
<1>1. t = Transitions(earlier, drift, status)
  OBVIOUS
<1> HIDE DEF t
<1>2. /\ t \in Seq(Items)
      /\ \A k \in 1..Len(t) : t[k].to = Now(drift, status, t[k].path)
      /\ Covers(t, earlier.drift, earlier.status, drift, status)
  BY <1>1, TransitionsTell
<1>3. earlier.history \o t \in Seq(Items) /\ Tells(earlier.history \o t, drift, status)
  BY <1>2, AppendTells, <1>1
<1> QED
  BY <1>1, <1>3

LEMMA HealthNow ==
  ASSUME \A l \in Layers : layerIs[l] \in LayerStates[l]
  PROVE  Aggregate(layerIs) \in Healths
  BY DEF Aggregate, Healths

(* What a probe makes of the entry it found.                                   *)
LEMMA ProbeEntry ==
  ASSUME TwinInv, Probe
  PROVE  EntryInv(fleet')
<1> DEFINE status == Aggregate(layerIs)
           t == Transitions(fleet, Drifting, status)
           h == fleet.history
<1>1. /\ fleet'.drift = Drifting /\ fleet'.status = status
      /\ fleet'.history = Bounded(h \o t) /\ fleet'.alerted = alerted'
  BY DEF Probe
<1>2. status \in Healths
  BY HealthNow DEF TwinInv, TwinTypeOK
<1>3. Drifting \subseteq Paths
  BY DEF Drifting
<1>4. alerted' \subseteq Paths
  <2>1. alerted' \subseteq alerted \cup Drifting
    BY DEF Probe
  <2> QED
    BY <2>1, <1>3 DEF TwinInv, TwinTypeOK
<1>5. h \o t \in Seq(Items) /\ Tells(h \o t, Drifting, status)
  <2>1. CASE fleet.status = "none"
    <3>1. h = <<>> /\ t = <<>>
      BY <2>1 DEF Transitions, TwinInv, EntryInv
    <3>2. h \o t = <<>> /\ Len(h \o t) = 0
      BY <3>1
    <3> QED
      BY <3>2 DEF Tells
  <2>2. CASE fleet.status # "none"
    <3>1. /\ fleet.drift \subseteq Paths /\ fleet.status \in Healths
          /\ h \in Seq(Items) /\ Tells(h, fleet.drift, fleet.status)
      BY <2>2 DEF TwinInv, EntryInv
    <3> QED
      BY <3>1, <1>2, <1>3, HistoryGrows
  <2> QED
    BY <2>1, <2>2
<1> HIDE DEF t, h, status
<1>6. /\ Bounded(h \o t) \in Seq(Items) /\ Len(Bounded(h \o t)) <= HistoryLimit
      /\ Tells(Bounded(h \o t), Drifting, status)
  BY <1>5, BoundedTells
<1> QED
  BY <1>1, <1>2, <1>3, <1>4, <1>6 DEF EntryInv, Healths

LEMMA TwinInitInv == TwinInit => TwinInv
<1> SUFFICES ASSUME TwinInit PROVE TwinInv
  OBVIOUS
<1>0. HistoryLimit \in Nat /\ Flaps \in Nat
  BY TwinAssumption
<1>1. EntryInv(NoEntry)
  <2>1. NoEntry.history = <<>> /\ Len(NoEntry.history) = 0 /\ NoEntry.history \in Seq(Items)
    BY DEF NoEntry
  <2> QED
    BY <1>0, <2>1 DEF EntryInv, NoEntry, Tells
<1>2. TwinTypeOK
  <2>1. \A l \in Layers : layerIs[l] \in LayerStates[l]
    BY DEF TwinInit, Layers, LayerStates
  <2>2. Len(fleet.history) <= HistoryLimit /\ Len(saved.history) <= HistoryLimit
    BY <1>1 DEF TwinInit, EntryInv
  <2>3. /\ pathIs \in [Paths -> {"match", "drift", "unread"}]
        /\ inhibited \in BOOLEAN /\ flaps \in 0..Flaps
    <3>1. pathIs = [p \in Paths |-> "match"] /\ inhibited = FALSE /\ flaps = Flaps
      BY DEF TwinInit
    <3>2. flaps \in 0..Flaps
      BY <1>0, <3>1
    <3>3. pathIs \in [Paths -> {"match", "drift", "unread"}]
      BY <3>1
    <3> QED
      BY <3>1, <3>2, <3>3
  <2>4. alerted \subseteq Paths /\ toldDrift \subseteq Paths /\ forgotten \subseteq Paths
    BY DEF TwinInit
  <2> QED
    BY <2>1, <2>2, <2>3, <2>4 DEF TwinTypeOK
<1> QED
  BY <1>1, <1>2 DEF TwinInv, TwinInit, DriftIsOwed

LEMMA TwinStep == TwinInv /\ [TwinNext]_twinVars => TwinInv'
<1> SUFFICES ASSUME TwinInv, [TwinNext]_twinVars PROVE TwinInv'
  OBVIOUS
<1> USE DEF TwinInv
<1>0. Flaps \in Nat
  BY TwinAssumption
<1>1. CASE Probe
  <2>1. EntryInv(fleet')
    BY <1>1, ProbeEntry
  <2>2. EntryInv(saved')
    <3>1. saved' = fleet' \/ saved' = saved
      BY <1>1 DEF Probe
    <3> QED
      BY <2>1, <3>1
  <2>3. Drifting \subseteq Paths /\ Inhibited \subseteq Paths
    BY DEF Drifting, Inhibited
  <2>4. alerted' \subseteq Paths /\ toldDrift' \subseteq Paths /\ forgotten' \subseteq Paths
    <3>1. /\ alerted' \subseteq alerted \cup Drifting /\ toldDrift' \subseteq toldDrift \cup Drifting
          /\ forgotten' \subseteq forgotten
      BY <1>1 DEF Probe
    <3> QED
      BY <3>1, <2>3 DEF TwinTypeOK
  <2>5. DriftIsOwed'
    <3>1. PICK sent \in SUBSET Drifting, recovered \in SUBSET (Paths \cup Drifting), told \in BOOLEAN :
            /\ alerted' = (alerted \cup sent) \ (Inhibited \cup Settled(recovered, told))
            /\ toldDrift' = (toldDrift \cup sent)
                            \ (Inhibited \cup (IF told THEN recovered ELSE {}))
            /\ forgotten' = forgotten \ (toldDrift' \ toldDrift)
      <4> DEFINE Sent(a) == IF a THEN (Drifting \ Inhibited) \ alerted ELSE {}
                 Back(a) == (alerted \cup Sent(a)) \ (Drifting \cup Inhibited)
      <4>1. PICK a \in BOOLEAN, r \in BOOLEAN :
              /\ alerted' = (alerted \cup Sent(a)) \ (Inhibited \cup Settled(Back(a), r))
              /\ toldDrift' = (toldDrift \cup Sent(a))
                              \ (Inhibited \cup (IF r THEN Back(a) ELSE {}))
              /\ forgotten' = forgotten \ (toldDrift' \ toldDrift)
        BY <1>1 DEF Probe
      <4>2. Sent(a) \in SUBSET Drifting /\ Back(a) \in SUBSET (Paths \cup Drifting)
        BY DEF TwinTypeOK
      <4> QED
        BY <4>1, <4>2
    <3> QED
      BY <3>1 DEF DriftIsOwed, Settled
  <2>6. flaps' \in 0..Flaps
    <3>1. flaps' = flaps \/ (flaps = 0 /\ flaps' = 0) \/ (flaps # 0 /\ flaps' = flaps - 1)
      BY <1>1 DEF Probe
    <3> QED
      BY <1>0, <3>1 DEF TwinTypeOK
  <2>7. UNCHANGED <<pathIs, layerIs, inhibited>>
    BY <1>1 DEF Probe
  <2> QED
    BY <2>1, <2>2, <2>4, <2>5, <2>6, <2>7 DEF TwinTypeOK, EntryInv
<1>2. CASE WorldFlaps
  <2>1. UNCHANGED <<alerted, fleet, saved, toldDrift, forgotten>>
    BY <1>2 DEF WorldFlaps
  <2>2. flaps' \in 0..Flaps
    BY <1>0, <1>2 DEF WorldFlaps, TwinTypeOK
  <2>3. /\ pathIs' \in [Paths -> {"match", "drift", "unread"}]
        /\ \A l \in Layers : layerIs'[l] \in LayerStates[l]
        /\ inhibited' \in BOOLEAN
    <3>1. CASE WorldFlaps!2!1
      BY <3>1 DEF TwinTypeOK
    <3>2. CASE WorldFlaps!2!2
      BY <3>2 DEF TwinTypeOK, LayerStates, Layers
    <3>3. CASE WorldFlaps!2!3
      BY <3>3 DEF TwinTypeOK
    <3> QED
      BY <1>2, <3>1, <3>2, <3>3 DEF WorldFlaps
  <2> QED
    BY <2>1, <2>2, <2>3 DEF TwinTypeOK, DriftIsOwed
<1>3. CASE TwinCrash
  <2>1. /\ fleet' = saved /\ alerted' = saved.alerted
        /\ forgotten' = forgotten \cup (toldDrift \ saved.alerted)
        /\ UNCHANGED <<pathIs, layerIs, inhibited, saved, toldDrift>>
        /\ flaps > 0 /\ flaps' = flaps - 1
    BY <1>3 DEF TwinCrash
  <2>2. flaps' \in 0..Flaps
    BY <1>0, <2>1 DEF TwinTypeOK
  <2>3. forgotten' \subseteq Paths /\ alerted' \subseteq Paths
    BY <2>1 DEF TwinTypeOK, EntryInv
  <2>4. DriftIsOwed'
    BY <2>1 DEF DriftIsOwed
  <2> QED
    BY <2>1, <2>2, <2>3, <2>4 DEF TwinTypeOK
<1>4. CASE UNCHANGED twinVars
  BY <1>4 DEF twinVars, TwinTypeOK, DriftIsOwed
<1> QED
  BY <1>1, <1>2, <1>3, <1>4 DEF TwinNext

LEMMA TwinTells == TwinInv => TwinTypeOK /\ DriftTold
<1> SUFFICES ASSUME TwinInv PROVE HistoryTellsNow
  BY DEF TwinInv, DriftTold
<1> DEFINE h == fleet.history
<1>1. h \in Seq(Items) /\ Tells(h, fleet.drift, fleet.status)
  BY DEF TwinInv, EntryInv
<1>2. DOMAIN h = 1..Len(h)
  BY <1>1, LenProperties
<1> SUFFICES ASSUME NEW i \in DOMAIN h, \A j \in i + 1..Len(h) : h[j].path # h[i].path
             PROVE  h[i].to = (CASE h[i].path = "health" -> fleet.status
                     [] h[i].path # "health" /\ h[i].path \in fleet.drift -> "opened"
                     [] OTHER -> "cleared")
  BY DEF HistoryTellsNow
<1>3. h[i].to = Now(fleet.drift, fleet.status, h[i].path)
  BY <1>1, <1>2 DEF Tells
<1> QED
  BY <1>3 DEF Now

(* What was told of a camera's drift is remembered until its end is told, across *)
(* refused sends and restarts, and the bounded history ends, for each path, with *)
(* what holds now (daemon.process_digital_twin, twin.transitions).               *)
THEOREM DriftToldCorrect == TwinSpec => []DriftTold
<1> QED
  BY TwinInitInv, TwinStep, TwinTells, PTL DEF TwinSpec

----------------------------------------------------------------------------
(* The parts beside each other *)

CameraInv ==
  /\ LinkInv /\ ControlInv /\ LensInv /\ TwinInv
  /\ HubInv /\ ClipsInv /\ ArchiveInv /\ DigestInv /\ EvidenceInv
  /\ which \in Parts

LEMMA CameraInitInv == CameraInit => CameraInv
  BY LinkInitInv, ControlInitInv, LensInitInv, TwinInitInv, HubInitInv, ClipsInitInv,
     ArchiveInitInv, DigestInitInv, EvidenceInitInv DEF CameraInit, CameraInv

(* What a step of the whole is for each part. *)
LEMMA CameraSteps ==
  ASSUME [CameraNext]_CameraVars
  PROVE  /\ [LinkNext]_linkVars /\ [ControlNext]_controlVars
         /\ [LensNext]_lensVars /\ [TwinNext]_twinVars /\ [HubNext]_hubVars
         /\ [ClipsNext]_clipsVars /\ [ArchiveNext]_archiveVars /\ [DigestNext]_digestVars
         /\ [EvidenceNext]_evidenceVars
         /\ which' = which
<1>1. CASE CameraNext
  BY <1>1 DEF CameraNext
<1>2. CASE UNCHANGED CameraVars
  BY <1>2 DEF CameraVars
<1> QED
  BY <1>1, <1>2

LEMMA CameraStep == CameraInv /\ [CameraNext]_CameraVars => CameraInv'
<1> SUFFICES ASSUME CameraInv, [CameraNext]_CameraVars PROVE CameraInv'
  OBVIOUS
<1>1. LinkInv' /\ ControlInv' /\ LensInv' /\ TwinInv'
  BY CameraSteps, LinkStep, ControlStep, LensStep, TwinStep DEF CameraInv
<1>2. HubInv' /\ ClipsInv' /\ ArchiveInv' /\ DigestInv' /\ EvidenceInv'
  BY CameraSteps, HubStep, ClipsStep, ArchiveStep, DigestStep, EvidenceStep DEF CameraInv
<1>3. (which \in Parts)'
  BY CameraSteps DEF CameraInv, Parts
<1> QED
  BY <1>1, <1>2, <1>3 DEF CameraInv

-----------------------------------------------------------------------------
(* Every variable of the nine parts stays in its type: ages and counters inside  *)
(* their limits, addresses among the known ones, and no poll or retry beyond   *)
(* those the disturbances account for.                                         *)
THEOREM CameraTypeCorrect == CameraSpec => []CameraTypeOK
<1>1. CameraInv => CameraTypeOK
  <2> SUFFICES ASSUME CameraInv PROVE CameraTypeOK
    OBVIOUS
  <2>1. /\ LinkTypeOK /\ ControlTypeOK /\ LensTypeOK /\ TwinTypeOK
        /\ HubTypeOK /\ ClipsTypeOK /\ ArchiveTypeOK /\ DigestTypeOK /\ EvidenceTypeOK
    BY LinkSettled, TwinTells, HubHandled, ClipsKept, ArchiveYoung, DigestTrue, EvidenceKept
       DEF CameraInv, ControlInv, LensInv
  <2>2. which \in Parts
    BY DEF CameraInv
  <2> QED
    BY <2>1, <2>2 DEF CameraTypeOK, Parts
<1> QED
  BY <1>1, CameraInitInv, CameraStep, PTL DEF CameraSpec

(* The daemon's files beside each other: a queued clip that counts as submitted  *)
(* is held by exactly one of its threads, a young photo is kept, and the         *)
(* recorder's footage of an outage is archived or each of its tries failed       *)
(* (alertclip.py, archive.py, evidence.py).                                     *)
THEOREM FilesKeptCorrect == CameraSpec => []FilesKept
<1>1. CameraInv => FilesKept
  BY ClipsKept, ArchiveYoung, EvidenceKept DEF CameraInv, FilesKept
<1> QED
  BY <1>1, CameraInitInv, CameraStep, PTL DEF CameraSpec

(* What the run of the whole camera checks of each part holds of every camera:   *)
(* the address settled, the plan applied, stray lenses brought back, drift told,  *)
(* hub clips handled and a true digest.                                          *)
THEOREM CameraPartsCorrect ==
  CameraSpec =>
    [](/\ HostSettled /\ PassLeavesPlan /\ StrayEnds /\ DriftTold
       /\ ClipsHandled /\ DigestIsTrue)
<1> DEFINE Promised ==
      /\ HostSettled /\ PassLeavesPlan /\ StrayEnds /\ DriftTold
      /\ ClipsHandled /\ DigestIsTrue
<1>1. CameraInv => Promised
  BY LinkSettled, PlanApplied, LensReturns, TwinTells, HubHandled, DigestTrue
     DEF CameraInv
<1> QED
  BY <1>1, CameraInitInv, CameraStep, PTL DEF CameraSpec
=============================================================================
