--------------------------------- MODULE Twin ---------------------------------
(* The digital twin of one camera: the probe, the comparison of what was read  *)
(* with what is wanted, the layered health, the drift notices and the twin     *)
(* kept (daemon.process_digital_twin, twin.py, drift.py, capabilities.py,      *)
(* reliability.recorder_health).                                              *)
(*                                                                            *)
(* A path is one compared value.  A value that was not read, or that the       *)
(* hardware does not have, is neither a match nor a drift.                     *)
EXTENDS Integers, Sequences, SequencesExt

CONSTANTS
  HistoryLimit, \* HISTORY_LIMIT
  Flaps         \* bound: changes of what a probe reads, refused sends, crashes

ASSUME TwinAssumption == HistoryLimit \in Nat \ {0} /\ Flaps \in Nat

Paths == {"tracking.auto", "detection.person"}
Layers == {"network", "api", "events", "rtsp", "storage"}

VARIABLES
  pathIs,     \* what a probe would read of each path: "match", "drift" or "unread"
  layerIs,    \* what would be observed of each layer
  inhibited,  \* the endstop owns the tracking switch, which it turned off
  alerted,    \* twin_alerted
  fleet,      \* twin_fleet: the current entry, NoEntry before the first probe
  saved,       \* the twin file
  toldDrift,  \* history: paths whose last delivered word is "drift"
  forgotten,  \* history: paths a crash made the daemon forget to take back
  flaps       \* changes left

twinVars == <<pathIs, layerIs, inhibited, alerted, fleet, saved, toldDrift, forgotten, flaps>>

----------------------------------------------------------------------------
(* Layered health *)

(* aggregate_health: a dead network first, then control and media both dead,   *)
(* then any other trouble, then what was never observed.                       *)
Aggregate(layers) ==
  CASE layers["network"] = "down" -> "down"
    [] layers["network"] # "down" /\ layers["api"] = "down" /\ layers["rtsp"] = "down" -> "down"
    [] OTHER -> IF \E l \in Layers : layers[l] \in {"down", "degraded"} THEN "degraded"
                ELSE IF \E l \in Layers : layers[l] = "unknown" THEN "unknown" ELSE "ok"

(* derive_health: a failed ping or RTSP is down, failed events are degraded;   *)
(* the API answers when any probe does; a bad card or a recorder that stopped  *)
(* degrades the storage.                                                      *)
LayerStates ==
  [network |-> {"ok", "down", "unknown"}, api |-> {"ok", "degraded", "unknown"},
   events |-> {"ok", "degraded", "unknown"}, rtsp |-> {"ok", "down", "unknown"},
   storage |-> {"ok", "degraded", "unknown"}]

----------------------------------------------------------------------------
(* The comparison *)

Drifting == {p \in Paths : pathIs[p] = "drift"}
(* An auto-track the endstop turned off is not the camera's fault. *)
Inhibited == IF inhibited THEN {"tracking.auto"} \cap Drifting ELSE {}

NoEntry == [drift |-> {}, status |-> "none", history |-> <<>>, alerted |-> {}]

\* Mutant: a full history keeps its oldest entries.
BoundedOldest(history) ==
  SubSeq(history, 1, IF Len(history) < HistoryLimit THEN Len(history) ELSE HistoryLimit)

\* Mutant: the history is never shortened.
BoundedNever(history) == history

Bounded(history) ==
  IF Len(history) <= HistoryLimit THEN history
  ELSE SubSeq(history, Len(history) - HistoryLimit + 1, Len(history))

(* transitions: the health, then the paths that opened, then those that        *)
(* cleared; a first entry has nothing to differ from.                          *)
Transitions(was, drift, status) ==
  IF was.status = "none" THEN <<>>
  ELSE (IF was.status = status THEN <<>> ELSE <<[path |-> "health", to |-> status]>>)
       \o SetToSeq({[path |-> p, to |-> "opened"] : p \in drift \ was.drift})
       \o SetToSeq({[path |-> p, to |-> "cleared"] : p \in was.drift \ drift})

----------------------------------------------------------------------------
(* The probe *)

\* Mutant: a recovery is forgotten whether or not its notice was delivered.
SettledAnyway(recovered, taken) == recovered

(* The alerted paths that a recovery notice takes back. *)
Settled(recovered, taken) == IF taken THEN recovered ELSE {}

Probe ==
  \E alertTaken \in BOOLEAN, recoveryTaken \in BOOLEAN :
    LET new == (Drifting \ Inhibited) \ alerted
        sent == IF alertTaken THEN new ELSE {}
        recovered == (alerted \cup sent) \ (Drifting \cup Inhibited)
        back == Settled(recovered, recoveryTaken)
        status == Aggregate(layerIs)
    IN /\ alertTaken = FALSE => new # {} /\ flaps > 0
       /\ recoveryTaken = FALSE => recovered # {} /\ flaps > 0
       /\ alerted' = (alerted \cup sent) \ (Inhibited \cup back)
       /\ fleet' = [drift |-> Drifting, status |-> status,
                    history |-> Bounded(fleet.history \o Transitions(fleet, Drifting, status)),
                    alerted |-> alerted']
       /\ saved' \in {fleet', saved} /\ (saved' # fleet' => flaps > 0)
       /\ toldDrift' = (toldDrift \cup sent)
                       \ (Inhibited \cup (IF recoveryTaken THEN recovered ELSE {}))
       /\ forgotten' = forgotten \ (toldDrift' \ toldDrift)
       /\ flaps' = IF alertTaken /\ recoveryTaken /\ saved' = fleet' THEN flaps
                   ELSE IF flaps = 0 THEN 0 ELSE flaps - 1
  /\ UNCHANGED <<pathIs, layerIs, inhibited>>

WorldFlaps ==
  /\ flaps > 0 /\ flaps' = flaps - 1
  /\ \/ \E p \in Paths, seen \in {"match", "drift", "unread"} :
          pathIs' = [pathIs EXCEPT ![p] = seen]
        /\ UNCHANGED <<layerIs, inhibited>>
     \/ \E l \in Layers : \E seen \in LayerStates[l] : layerIs' = [layerIs EXCEPT ![l] = seen]
        /\ UNCHANGED <<pathIs, inhibited>>
     \/ inhibited' = ~inhibited /\ UNCHANGED <<pathIs, layerIs>>
  /\ UNCHANGED <<alerted, fleet, saved, toldDrift, forgotten>>

(* main reads the twin file back, and the alerted paths from its entries. *)
TwinCrash ==
  /\ flaps > 0 /\ flaps' = flaps - 1
  /\ fleet' = saved /\ alerted' = saved.alerted
  /\ forgotten' = forgotten \cup (toldDrift \ saved.alerted)
  /\ UNCHANGED <<pathIs, layerIs, inhibited, saved, toldDrift>>

TwinInit ==
  /\ pathIs = [p \in Paths |-> "match"]
  /\ layerIs = [l \in Layers |-> "ok"] /\ inhibited = FALSE
  /\ alerted = {} /\ fleet = NoEntry /\ saved = NoEntry
  /\ toldDrift = {} /\ forgotten = {} /\ flaps = Flaps

TwinNext == Probe \/ WorldFlaps \/ TwinCrash

TwinSpec == TwinInit /\ [][TwinNext]_twinVars

----------------------------------------------------------------------------
(* Properties *)

TwinTypeOK ==
  /\ pathIs \in [Paths -> {"match", "drift", "unread"}]
  /\ \A l \in Layers : layerIs[l] \in LayerStates[l]
  /\ inhibited \in BOOLEAN
  /\ alerted \subseteq Paths /\ toldDrift \subseteq Paths /\ forgotten \subseteq Paths
  /\ Len(fleet.history) <= HistoryLimit /\ Len(saved.history) <= HistoryLimit
  /\ flaps \in 0..Flaps

(* The operator's last word and the daemon's memory agree across refused       *)
(* sends, restarts and the endstop's ownership: a path told as drifted is      *)
(* still known as alerted, so its end will be told too.                        *)
DriftIsOwed == toldDrift \ forgotten \subseteq alerted

(* What the bounded history says last of a path, or of the health, is what the *)
(* entry says now, also across a restart that read an older file.              *)
HistoryTellsNow ==
  \A i \in DOMAIN fleet.history :
    LET item == fleet.history[i] IN
      (\A j \in i + 1..Len(fleet.history) : fleet.history[j].path # item.path) =>
        item.to = (CASE item.path = "health" -> fleet.status
                     [] item.path # "health" /\ item.path \in fleet.drift -> "opened"
                     [] OTHER -> "cleared")

(* What was told of a camera's drift is remembered until its end is told, and    *)
(* the bounded history ends, for each of its paths, with what holds now.         *)
DriftTold == DriftIsOwed /\ HistoryTellsNow
===============================================================================
