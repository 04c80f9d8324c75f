--------------------------------- MODULE Link ---------------------------------
(* The address of one camera: the connect function of a control pass          *)
(* (daemon.py), with the failover between configured addresses, the return to *)
(* the first of them, the search for the camera's MAC on a worker thread      *)
(* (rediscover.py), and what of it survives a restart (health.py).            *)
(*                                                                            *)
(* Time-outs that only run down (login backoff, rejections, the hold-down     *)
(* after a switch) are flags that an action of their own clears.              *)
EXTENDS Naturals, Sequences, SequencesExt

CONSTANTS
  Candidates,    \* the configured addresses, the primary first
  Elsewhere,     \* addresses DHCP may hand to the camera
  FailoverAfter, \* FAILOVER_AFTER_FAILS
  SearchAfter,   \* rediscover.SEARCH_AFTER_FAILS
  ReturnPasses,  \* camera.PRIMARY_RETURN_PASSES
  Shuffles       \* bound: changes of who answers where, and restarts

ASSUME LinkAssumption ==
  /\ Candidates \in Seq(STRING) /\ Len(Candidates) >= 1 /\ IsInjective(Candidates)
  /\ {FailoverAfter, SearchAfter, ReturnPasses} \subseteq Nat \ {0}
  /\ Shuffles \in Nat

Nowhere == ""
Primary == Candidates[1]
Addresses == ToSet(Candidates) \cup Elsewhere

ASSUME AddressAssumption == Nowhere \notin Addresses

Occupants == {"cam", "other", "host", "none"}
NoLink == [to |-> Nowhere, who |-> "none"]

VARIABLES
  net,       \* who answers at each address; "host" is the daemon's own machine
  hasMac,   \* the camera is configured with its mac
  active,   \* active_host
  extra,    \* discovered_host
  misses,   \* network_fails
  up,       \* network_reachable
  refused,  \* failover_rejected, not yet expired
  skipped,  \* addresses the search leaves out for a while
  waiting,  \* the login backoff runs
  held,     \* less than PRIMARY_RETURN_MIN_SECONDS since the last switch
  streak,   \* primary_ok
  known,    \* host_identity
  link,     \* the cached session: where it was opened, and with whom
  search,   \* the worker thread: idle, or the address it was started for
  spotted,  \* its result, not yet taken
  stage,    \* where the pass stands
  left,     \* the address a switch of this pass left
  was,      \* discovered_host before a rediscovered move
  file,     \* active_hosts and discovered_hosts in the health file
  chosen,   \* the same two in memory
  vetted,   \* history: the address of the start, or of the last switch that a login proved
  hasty,    \* history: the address a switch was left at without such a login
  quiet     \* changes left

netVars == <<net, hasMac, quiet>>
historyVars == <<vetted, hasty>>
fileVars == <<file, chosen>>
linkVars == <<net, hasMac, active, extra, misses, up, refused, skipped, waiting, held,
              streak, known, link, search, spotted, stage, left, was, file, chosen, vetted, hasty,
              quiet>>

(* candidate_hosts: the discovered address comes last. *)
Hosts == IF extra = Nowhere \/ extra \in ToSet(Candidates) THEN Candidates
         ELSE Append(Candidates, extra)
Hosted(h, found) == h \in ToSet(Candidates) \/ (h = found /\ found # Nowhere)
Tcp(h) == net[h] \in {"cam", "other"}

(* What find_alternate_host may take, as positions in Hosts; this machine's own *)
(* addresses are none of them.                                                 *)
Alternates == {n \in 1..Len(Hosts) : /\ Hosts[n] # active /\ Hosts[n] \notin refused
                                     /\ Tcp(Hosts[n])}

(* _camera_answers: with a mac, the neighbour table may show another device. *)
Answers(known_mac) == Tcp(active) /\ ~(hasMac /\ known_mac /\ net[active] = "other")

Capped(n) == IF n < SearchAfter THEN n ELSE SearchAfter

----------------------------------------------------------------------------
(* The pass up to the login *)

\* Mutant: the session of the address that is left stays open.
StillOpen == link

(* close_client before the address changes: one native session at a time. *)
Dropped == NoLink

(* _take_rediscovered: a result is handed over once. *)
TakeRediscovered ==
  /\ stage = "idle" /\ hasMac /\ spotted # Nowhere
  /\ spotted' = Nowhere /\ known' = "cam"
  /\ IF spotted = active \/ net[spotted] = "host"
     THEN UNCHANGED <<active, extra, link, waiting, up, misses, stage, left, was>>
     ELSE /\ active' = spotted /\ left' = active /\ was' = extra
          /\ extra' = IF spotted \in ToSet(Candidates) THEN extra ELSE spotted
          /\ link' = Dropped /\ waiting' = FALSE
          /\ up' = TRUE /\ misses' = 0
          /\ stage' = "moved"
  /\ UNCHANGED <<netVars, refused, skipped, held, streak, search, fileVars, historyVars>>

(* After a pass without a move: an answer ends the search, silence starts one. *)
Searching(reachable, fails) ==
  IF ~hasMac THEN UNCHANGED <<search, spotted>>
  ELSE IF reachable THEN spotted' = Nowhere /\ UNCHANGED search
  ELSE /\ search' \in {search} \cup
            (IF fails >= SearchAfter /\ search = Nowhere THEN {active} ELSE {})
       /\ UNCHANGED spotted

Unreachable ==
  /\ stage = "idle" /\ spotted = Nowhere
  /\ \E seen \in BOOLEAN : ~Answers(seen)
  /\ misses + 1 >= FailoverAfter => Alternates = {} \/ Len(Hosts) = 1
  /\ up' = FALSE /\ misses' = Capped(misses + 1)
  /\ link' = Dropped
  /\ known' = IF hasMac THEN "cam" ELSE known
  /\ Searching(FALSE, misses')
  /\ UNCHANGED <<netVars, active, extra, refused, skipped, waiting, held, streak, stage,
                 left, was, fileVars, historyVars>>

(* A login backoff ends the pass here, the address already switched. *)
FailOver ==
  /\ stage = "idle" /\ spotted = Nowhere /\ Len(Hosts) > 1
  /\ \E seen \in BOOLEAN : ~Answers(seen)
  /\ misses + 1 >= FailoverAfter
  /\ \E n \in Alternates : (\A m \in Alternates : n <= m) /\ active' = Hosts[n]
  /\ left' = IF waiting THEN Nowhere ELSE active
  /\ link' = Dropped
  /\ up' = TRUE /\ misses' = 0
  /\ known' = IF hasMac THEN "cam" ELSE known
  /\ stage' = IF waiting THEN "idle" ELSE "over"
  /\ hasty' = IF waiting THEN active' ELSE hasty
  /\ IF waiting THEN Searching(TRUE, 0) ELSE UNCHANGED <<search, spotted>>
  /\ UNCHANGED <<netVars, extra, refused, skipped, waiting, held, streak, was, fileVars,
                 vetted>>

MayReturn ==
  /\ active # Primary /\ ~waiting
  /\ net[Primary] # "host" /\ Primary \notin refused /\ ~held

(* One probe of the primary, at most once per interval. *)
Probed == IF MayReturn THEN {streak, IF Tcp(Primary) THEN streak + 1 ELSE 0}
          ELSE {IF active = Primary THEN 0 ELSE streak}

Reachable ==
  /\ stage = "idle" /\ spotted = Nowhere
  /\ \E seen \in BOOLEAN : Answers(seen)
  /\ up' = TRUE /\ misses' = 0
  /\ known' = IF hasMac THEN "cam" ELSE known
  /\ \E n \in IF Len(Hosts) > 1 THEN Probed ELSE {streak} :
       IF n >= ReturnPasses
       THEN /\ streak' = 0 /\ active' = Primary /\ link' = Dropped /\ left' = active
            /\ stage' = "back"
       ELSE /\ streak' = n /\ stage' = IF waiting THEN "idle" ELSE "stay"
            /\ UNCHANGED <<active, link, left>>
  /\ IF stage' = "idle" THEN Searching(TRUE, 0) ELSE UNCHANGED <<search, spotted>>
  /\ UNCHANGED <<netVars, extra, refused, skipped, waiting, held, was, fileVars,
                 historyVars>>

----------------------------------------------------------------------------
(* The login, the comparison of identities, and what is undone *)

(* What a login may come to: no session, one that authenticates and shows its *)
(* MAC or not, one whose identity request is refused.                         *)
Outcomes(h) ==
  {[ok |-> FALSE, auth |-> TRUE, seen |-> "none"]} \cup
  (IF Tcp(h) THEN [ok : {TRUE}, auth : {TRUE}, seen : {net[h], "none"}] \cup
                  {[ok |-> TRUE, auth |-> FALSE, seen |-> "none"]}
   ELSE {})

Differs(o) == known # "none" /\ o.seen # "none" /\ known # o.seen
Session(h) == [to |-> h, who |-> net[h]]
PassEnds == stage' = "idle" /\ left' = Nowhere /\ was' = Nowhere
Learned(o) == IF known = "none" THEN o.seen ELSE known

(* _confirm_switch, when the switch is kept: saved, and at the primary the     *)
(* rediscovered address is dropped.                                           *)
ExtraKept == IF active = Primary THEN Nowhere ELSE extra
Chosen == [active |-> IF active = Primary THEN Nowhere ELSE active,
           extra  |-> IF active = Primary /\ extra # Nowhere THEN Nowhere ELSE chosen.extra]

Kept(o, choice) ==
  /\ known' = Learned(o) /\ held' = TRUE /\ streak' = 0
  /\ extra' = ExtraKept
  /\ chosen' = choice /\ file' = choice
  /\ IF o.auth THEN vetted' = active /\ hasty' = Nowhere ELSE hasty' = active /\ UNCHANGED vetted

(* The plain login: the first after a start or a loss, a reuse, or the second *)
(* login of a refused return.                                                 *)
StayLogin ==
  /\ stage = "stay"
  /\ \E o \in Outcomes(active) :
       IF o.ok /\ o.auth
       THEN /\ link' = Session(active) /\ waiting' = FALSE
            /\ known' = IF Len(Hosts) > 1 THEN Learned(o) ELSE known
       ELSE link' = NoLink /\ waiting' = TRUE /\ UNCHANGED known
  /\ Searching(TRUE, 0)
  /\ PassEnds
  /\ UNCHANGED <<netVars, active, extra, misses, up, refused, skipped, held, streak,
                 fileVars, historyVars>>

(* A retained session of a stop-mode camera is used again. *)
Reuse ==
  /\ stage = "stay" /\ link.to = active
  /\ Searching(TRUE, 0)
  /\ PassEnds
  /\ UNCHANGED <<netVars, active, extra, misses, up, refused, skipped, waiting, held,
                 streak, known, link, fileVars, historyVars>>

(* set_active_host raises for an address that is no candidate any more.        *)
MayGoBack(found) == Hosted(left, found)
GoBack == active' = left /\ refused' = refused \cup {active} /\ UNCHANGED historyVars
(* The exception leaves connect, and with it the tick: the address tried stays. *)
Stuck == hasty' = active /\ UNCHANGED <<active, refused, up, vetted>>

(* An identity request that is refused: _confirm_switch has kept the switch as *)
(* unverified, saved it and, at the primary, dropped the rediscovered address; *)
(* then the switch is undone in memory, which may raise.                       *)
Disproved ==
  /\ waiting' = TRUE /\ held' = TRUE /\ streak' = 0 /\ file' = Chosen
  /\ IF MayGoBack(ExtraKept)
     THEN GoBack /\ up' = FALSE /\ chosen' = [Chosen EXCEPT !.active = Nowhere]
     ELSE Stuck /\ chosen' = Chosen
  /\ UNCHANGED known

FailoverLogin ==
  /\ stage = "over"
  /\ \E o \in Outcomes(active) :
       \/ /\ o.ok /\ o.auth /\ ~Differs(o) /\ Kept(o, Chosen)
          /\ link' = Session(active)
          /\ UNCHANGED <<active, refused, up, waiting>> /\ Searching(TRUE, 0)
       \/ /\ o.ok /\ o.auth /\ Differs(o) /\ GoBack
          /\ up' = FALSE /\ held' = TRUE /\ Searching(FALSE, 0)
          /\ UNCHANGED <<fileVars, link, waiting, known, streak, extra>>
       \/ /\ ~o.ok /\ GoBack
          /\ up' = FALSE /\ waiting' = TRUE /\ Searching(FALSE, 0)
          /\ UNCHANGED <<fileVars, link, held, known, streak, extra>>
       \/ /\ o.ok /\ ~o.auth /\ Disproved /\ extra' = ExtraKept
          /\ IF MayGoBack(ExtraKept) THEN Searching(FALSE, 0) ELSE UNCHANGED <<search, spotted>>
          /\ UNCHANGED link
  /\ PassEnds
  /\ UNCHANGED <<netVars, misses, skipped>>

\* Mutant: a return that its login refuses is not undone.
StayThere == UNCHANGED <<active, refused, historyVars>>

(* _revert_return: a refused return is no outage of the address that was left. *)
ReturnUndone ==
  active' = left /\ refused' = refused \cup {active} /\ UNCHANGED historyVars

(* A refused return is undone and the working address logs in again.  An      *)
(* identity request that the primary refuses counts as "no MAC to compare".   *)
ReturnLogin ==
  /\ stage = "back"
  /\ \E o \in Outcomes(active) :
       \/ /\ o.ok /\ ~Differs(o) /\ Kept(o, Chosen)
          /\ link' = IF o.auth THEN Session(active) ELSE NoLink
          /\ waiting' = ~o.auth
          /\ PassEnds
          /\ UNCHANGED <<active, refused>>
       \/ /\ ~o.ok \/ Differs(o)
          /\ ReturnUndone /\ held' = TRUE
          /\ stage' = "stay" /\ left' = Nowhere
          /\ UNCHANGED <<fileVars, link, waiting, known, streak, extra, was>>
  /\ IF stage' = "idle" THEN Searching(TRUE, 0) ELSE UNCHANGED <<search, spotted>>
  /\ UNCHANGED <<netVars, misses, up, skipped>>

(* A rediscovered move: _settle_rediscovered keeps it and saves it, or undoes  *)
(* it and has the search skip that address, unless the undo before it raises.  *)
MoveChosen == [Chosen EXCEPT !.extra = IF active \in ToSet(Candidates) THEN Nowhere ELSE active]

MoveLogin ==
  /\ stage = "moved"
  /\ \E o \in Outcomes(active) :
       \/ /\ o.ok /\ o.auth /\ ~Differs(o) /\ Kept(o, MoveChosen)
          /\ link' = Session(active)
          /\ UNCHANGED <<active, refused, up, skipped, waiting>>
       \/ /\ o.ok => Differs(o)
          /\ IF MayGoBack(extra)
             THEN /\ GoBack /\ extra' = was /\ up' = FALSE /\ skipped' = skipped \cup {active}
                  /\ held' = (held \/ o.ok) /\ waiting' = ~o.ok
             ELSE Stuck /\ UNCHANGED <<extra, skipped, held, waiting>>
          /\ UNCHANGED <<fileVars, link, known, streak>>
       \/ /\ o.ok /\ ~o.auth /\ Disproved
          /\ IF MayGoBack(ExtraKept)
             THEN extra' = was /\ skipped' = skipped \cup {active}
             ELSE extra' = ExtraKept /\ UNCHANGED skipped
          /\ UNCHANGED link
  /\ PassEnds
  /\ UNCHANGED <<netVars, misses, search, spotted>>

----------------------------------------------------------------------------
(* The rest of the program and the world *)

(* observe_client's auth_failure: a request of the session was refused. *)
SessionRefused ==
  /\ stage = "idle" /\ link # NoLink
  /\ link' = NoLink /\ waiting' = TRUE
  /\ UNCHANGED <<netVars, active, extra, misses, up, refused, skipped, held, streak, known,
                 search, spotted, stage, left, was, fileVars, historyVars>>

(* Non-retained sessions are closed as a control pass begins. *)
SessionClosed ==
  /\ stage = "idle" /\ link # NoLink
  /\ link' = NoLink
  /\ UNCHANGED <<netVars, active, extra, misses, up, refused, skipped, waiting, held, streak,
                 known, search, spotted, stage, left, was, fileVars, historyVars>>

(* _search on the worker thread: the address that held the MAC, or nothing.    *)
SearchEnds ==
  /\ search # Nowhere
  /\ search' = Nowhere
  /\ \/ \E h \in Addresses \ (skipped \cup {search}) : net[h] = "cam" /\ spotted' = h
     \/ UNCHANGED spotted
  /\ UNCHANGED <<netVars, active, extra, misses, up, refused, skipped, waiting, held, streak,
                 known, link, stage, left, was, fileVars, historyVars>>

BackoffEnds ==
  /\ waiting /\ waiting' = FALSE /\ stage = "idle"
  /\ UNCHANGED <<netVars, active, extra, misses, up, refused, skipped, held, streak, known,
                 link, search, spotted, stage, left, was, fileVars, historyVars>>

RejectionsEnd ==
  /\ stage = "idle" /\ refused \cup skipped # {}
  /\ refused' = {} /\ skipped' = {}
  /\ UNCHANGED <<netVars, active, extra, misses, up, waiting, held, streak, known, link,
                 search, spotted, stage, left, was, fileVars, historyVars>>

HoldEnds ==
  /\ held /\ held' = FALSE /\ stage = "idle"
  /\ UNCHANGED <<netVars, active, extra, misses, up, refused, skipped, waiting, streak, known,
                 link, search, spotted, stage, left, was, fileVars, historyVars>>

(* One address changes hands, or the camera gets another lease.               *)
NetworkShuffles ==
  /\ quiet > 0 /\ quiet' = quiet - 1
  /\ \E h, g \in Addresses, w \in Occupants :
       net' \in {[net EXCEPT ![h] = w], [net EXCEPT ![h] = "none", ![g] = "cam"]}
  /\ UNCHANGED <<hasMac, active, extra, misses, up, refused, skipped, waiting, held, streak,
                 known, link, search, spotted, stage, left, was, fileVars, historyVars>>

(* Any other transition of the health state saves it whole. *)
HealthSaved ==
  /\ stage = "idle"
  /\ file' = chosen /\ file' # file
  /\ UNCHANGED <<netVars, active, extra, misses, up, refused, skipped, waiting, held, streak,
                 known, link, search, spotted, stage, left, was, chosen, historyVars>>

(* A restart at any point: apply_active_hosts. *)
LinkRestart ==
  /\ quiet > 0 /\ quiet' = quiet - 1
  /\ extra' = IF hasMac THEN file.extra ELSE Nowhere
  /\ active' = IF file.active \in ToSet(Hosts)' THEN file.active ELSE Primary
  /\ held' = (active' = file.active)
  /\ misses' = 0 /\ up' = FALSE /\ refused' = {} /\ skipped' = {} /\ waiting' = FALSE
  /\ streak' = 0 /\ known' = "none" /\ link' = NoLink
  /\ search' = Nowhere /\ spotted' = Nowhere
  /\ stage' = "idle" /\ left' = Nowhere /\ was' = Nowhere
  /\ chosen' = [file EXCEPT !.extra = extra'] /\ vetted' = active' /\ hasty' = Nowhere
  /\ UNCHANGED <<net, hasMac, file>>

LinkInit ==
  /\ hasMac \in BOOLEAN
  /\ net = [h \in Addresses |-> IF h = Primary THEN "cam" ELSE "none"]
  /\ active = Primary /\ extra = Nowhere
  /\ misses = 0 /\ up = FALSE /\ refused = {} /\ skipped = {}
  /\ waiting = FALSE /\ held = FALSE /\ streak = 0 /\ known = "none"
  /\ link = NoLink /\ search = Nowhere /\ spotted = Nowhere
  /\ stage = "idle" /\ left = Nowhere /\ was = Nowhere
  /\ file = [active |-> Nowhere, extra |-> Nowhere] /\ chosen = file
  /\ vetted = Primary /\ hasty = Nowhere /\ quiet = Shuffles

LinkNext ==
  \/ TakeRediscovered \/ Unreachable \/ FailOver \/ Reachable
  \/ StayLogin \/ Reuse \/ FailoverLogin \/ ReturnLogin \/ MoveLogin
  \/ SessionRefused \/ SessionClosed \/ SearchEnds
  \/ BackoffEnds \/ RejectionsEnd \/ HoldEnds \/ HealthSaved
  \/ NetworkShuffles \/ LinkRestart

LinkSpec == LinkInit /\ [][LinkNext]_linkVars

----------------------------------------------------------------------------
(* Properties *)

LinkTypeOK ==
  /\ net \in [Addresses -> Occupants]
  /\ active \in Addresses
  /\ {extra, left, was, spotted, search, vetted, hasty} \subseteq Addresses \cup {Nowhere}
  /\ misses \in 0..SearchAfter /\ streak \in 0..ReturnPasses
  /\ refused \subseteq Addresses /\ skipped \subseteq Addresses
  /\ known \in {"none", "cam", "other"}
  /\ link \in [to : Addresses \cup {Nowhere}, who : Occupants]
  /\ stage \in {"idle", "stay", "over", "back", "moved"}
  /\ {file, chosen} \subseteq [active : Addresses \cup {Nowhere}, extra : Addresses \cup {Nowhere}]
  /\ {hasMac, up, waiting, held} \subseteq BOOLEAN
  /\ quiet \in 0..Shuffles

(* Whatever was switched, undone or lost, the one session the daemon holds was *)
(* opened at the address every other component uses, and that address is a     *)
(* candidate.                                                                  *)
SessionAtActive ==
  /\ link # NoLink => link.to = active
  /\ stage = "idle" => active \in ToSet(Hosts)

(* Between passes, the active address is the one of the start or the last one  *)
(* a login proved: a switch is compared or undone.  Three kinds are not, and    *)
(* stand without proof: one made while the login backs off, a return whose      *)
(* identity request is refused, and one that cannot be undone because the       *)
(* address it left is a rediscovered one that was dropped or replaced.          *)
SwitchSettled == stage = "idle" => active \in {vetted, hasty}

(* A switch of the camera's address is undone or kept whole, but for the three   *)
(* kinds above, and the session in use is one at the address the daemon believes *)
(* in.                                                                           *)
HostSettled == SessionAtActive /\ SwitchSettled
=============================================================================
