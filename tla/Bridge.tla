-------------------------------- MODULE Bridge --------------------------------
(* The MQTT bridge (mqtt.py): the hooks of the daemon's loop write a cache and  *)
(* a bounded queue under a lock; a worker thread owns the connection, publishes *)
(* the whole cache on every new session and then what is queued, and turns a    *)
(* sensor off when its pulse is over.  What a message says is one of a few      *)
(* values; availability and the last will are left out.                        *)
EXTENDS Integers, Sequences

CONSTANTS
  BridgeQueue,   \* queue_size
  Levels,        \* values of a sensor that follows a reading
  HookCalls,     \* bound: alerts and readings
  BrokerCuts     \* bound: connections ended by broker or network, daemon restarts

ASSUME BridgeAssumption ==
  BridgeQueue \in Nat \ {0} /\ HookCalls \in Nat /\ BrokerCuts \in Nat

Topics == {"person", "health"}
Payloads == {"none", "ON", "OFF"} \cup Levels
NoTopics == [t \in Topics |-> "none"]

VARIABLES
  cache,      \* _cache: topic -> payload
  posts,      \* _queue
  offAt,      \* _off_at of the person sensor: "no", "pending" or "due"
  hookAt,     \* the loop thread inside _pulse: "out" or "armed"
  sessionAt,  \* _socket_open, _ready: "closed", "open" or "ready"
  renewed,    \* _fresh_session
  cut,        \* the connection is gone and the worker has not noticed
  postAt,     \* the worker's next step
  expiring,   \* pulses it has taken to turn off
  outgoing,   \* messages it has in hand
  retained,   \* topic -> what the broker keeps
  missed,     \* history: topics with a message dropped since the last resync
  hooksLeft, cutsLeft

hookVars == <<cache, posts, missed>>
linkStateVars == <<sessionAt, renewed, cut>>
bridgeVars ==
  <<hookVars, offAt, hookAt, linkStateVars, postAt, expiring, outgoing, retained, hooksLeft,
    cutsLeft>>

----------------------------------------------------------------------------
(* The cache and the queue, under the lock *)

(* A changed payload goes to the cache and to the queue; a full queue drops its *)
(* oldest message.                                                             *)
SetTopic(t, value) ==
  IF cache[t] = value THEN UNCHANGED hookVars
  ELSE /\ cache' = [cache EXCEPT ![t] = value]
       /\ IF Len(posts) < BridgeQueue
          THEN posts' = Append(posts, [topic |-> t, value |-> value]) /\ UNCHANGED missed
          ELSE /\ posts' = Append(Tail(posts), [topic |-> t, value |-> value])
               /\ missed' = missed \cup {Head(posts).topic}

(* _pulse: first the time the sensor turns off, then the sensor. *)
PulseArmed ==
  /\ hookAt = "out" /\ hooksLeft > 0
  /\ hooksLeft' = hooksLeft - 1 /\ offAt' = "pending" /\ hookAt' = "armed"
  /\ UNCHANGED <<hookVars, linkStateVars, postAt, expiring, outgoing, retained, cutsLeft>>

PulseShown ==
  /\ hookAt = "armed" /\ hookAt' = "out"
  /\ SetTopic("person", "ON")
  /\ UNCHANGED <<offAt, linkStateVars, postAt, expiring, outgoing, retained, hooksLeft, cutsLeft>>

Observed ==
  /\ hookAt = "out" /\ hooksLeft > 0 /\ hooksLeft' = hooksLeft - 1
  /\ \E value \in Levels : SetTopic("health", value)
  /\ UNCHANGED <<offAt, hookAt, linkStateVars, postAt, expiring, outgoing, retained, cutsLeft>>

(* A hook's two steps are closer together than any motion_off_after. *)
PulseDue ==
  /\ offAt = "pending" /\ hookAt = "out" /\ offAt' = "due"
  /\ UNCHANGED <<hookVars, hookAt, linkStateVars, postAt, expiring, outgoing, retained,
                 hooksLeft, cutsLeft>>

----------------------------------------------------------------------------
(* The worker *)

PulsesTaken ==
  /\ postAt = "top" /\ postAt' = "expire"
  /\ expiring' = (offAt = "due")
  /\ offAt' = IF offAt = "due" THEN "no" ELSE offAt
  /\ UNCHANGED <<hookVars, hookAt, linkStateVars, outgoing, retained, hooksLeft, cutsLeft>>

PulsesEnded ==
  /\ postAt = "expire" /\ postAt' = "link" /\ expiring' = FALSE
  /\ IF expiring THEN SetTopic("person", "OFF") ELSE UNCHANGED hookVars
  /\ UNCHANGED <<offAt, hookAt, linkStateVars, outgoing, retained, hooksLeft, cutsLeft>>

SessionFailed ==
  /\ sessionAt' = "closed" /\ cut' = FALSE /\ UNCHANGED renewed
  /\ postAt' = "top" /\ outgoing' = <<>>

(* _connect, or one turn of the client's network loop, in which the broker's    *)
(* answer to the connect arrives.                                              *)
LinkTurn ==
  /\ postAt = "link"
  /\ \/ /\ sessionAt = "closed" /\ sessionAt' \in {"closed", "open"}
        /\ postAt' = "top" /\ UNCHANGED <<renewed, cut, outgoing>>
     \/ sessionAt # "closed" /\ cut /\ SessionFailed
     \/ /\ sessionAt = "open" /\ ~cut
        /\ \/ postAt' = "top" /\ UNCHANGED <<linkStateVars, outgoing>>
           \/ SessionFailed
           \/ /\ sessionAt' = "ready" /\ renewed' = TRUE /\ postAt' = "resync"
              /\ UNCHANGED <<cut, outgoing>>
     \/ /\ sessionAt = "ready" /\ ~cut
        /\ postAt' = IF renewed THEN "resync" ELSE "drain"
        /\ UNCHANGED <<linkStateVars, outgoing>>
  /\ UNCHANGED <<hookVars, offAt, hookAt, expiring, retained, hooksLeft, cutsLeft>>

Shown(t) == IF cache[t] = "none" THEN <<>> ELSE <<[topic |-> t, value |-> cache[t]]>>
AllTopics == Shown("person") \o Shown("health")

\* Mutant: a new session publishes only what changes from now on.
ResyncBlind ==
  /\ posts' = <<>> /\ missed' = {} /\ outgoing' = <<>>

(* A new session starts from the cache: what was queued before is older. *)
Resynced ==
  /\ posts' = <<>> /\ missed' = {} /\ outgoing' = AllTopics

Resync ==
  /\ postAt = "resync" /\ postAt' = "publish" /\ renewed' = FALSE
  /\ Resynced
  /\ UNCHANGED <<cache, offAt, hookAt, sessionAt, cut, expiring, retained, hooksLeft, cutsLeft>>

DrainTurn ==
  /\ postAt = "drain"
  /\ IF posts = <<>> THEN postAt' = "top" /\ UNCHANGED <<posts, outgoing>>
     ELSE postAt' = "publish" /\ outgoing' = <<Head(posts)>> /\ posts' = Tail(posts)
  /\ UNCHANGED <<cache, missed, offAt, hookAt, linkStateVars, expiring, retained, hooksLeft,
                 cutsLeft>>

(* The client takes the message, has no room for it, or reports the session     *)
(* broken; on a connection that is gone it may still take it.                  *)
Publish ==
  /\ postAt = "publish"
  /\ IF outgoing = <<>>
     THEN postAt' = "drain" /\ UNCHANGED <<linkStateVars, outgoing, retained, missed>>
     ELSE \/ /\ outgoing' = Tail(outgoing)
             /\ retained' = IF cut THEN retained
                            ELSE [retained EXCEPT ![Head(outgoing).topic] = Head(outgoing).value]
             /\ UNCHANGED <<linkStateVars, postAt, missed>>
          \/ /\ outgoing' = Tail(outgoing) /\ missed' = missed \cup {Head(outgoing).topic}
             /\ UNCHANGED <<linkStateVars, postAt, retained>>
          \/ cut /\ SessionFailed /\ UNCHANGED <<retained, missed>>
  /\ UNCHANGED <<cache, posts, offAt, hookAt, expiring, hooksLeft, cutsLeft>>

(* The network, or a broker that keeps its retained messages or loses them. *)
BrokerCut ==
  /\ sessionAt # "closed" /\ ~cut /\ cutsLeft > 0
  /\ cut' = TRUE /\ cutsLeft' = cutsLeft - 1
  /\ retained' \in {retained, NoTopics}
  /\ UNCHANGED <<hookVars, offAt, hookAt, sessionAt, renewed, postAt, expiring, outgoing,
                hooksLeft>>

(* A new daemon's Bridge starts with an empty cache; the broker keeps what the  *)
(* run before said last.                                                       *)
BridgeRestart ==
  /\ cutsLeft > 0 /\ cutsLeft' = cutsLeft - 1
  /\ cache' = NoTopics /\ posts' = <<>> /\ missed' = {}
  /\ offAt' = "no" /\ hookAt' = "out"
  /\ sessionAt' = "closed" /\ renewed' = FALSE /\ cut' = FALSE
  /\ postAt' = "top" /\ expiring' = FALSE /\ outgoing' = <<>>
  /\ UNCHANGED <<retained, hooksLeft>>

BridgeInit ==
  /\ cache = NoTopics /\ posts = <<>> /\ missed = {}
  /\ offAt = "no" /\ hookAt = "out"
  /\ sessionAt = "closed" /\ renewed = FALSE /\ cut = FALSE
  /\ postAt = "top" /\ expiring = FALSE /\ outgoing = <<>>
  /\ retained \in [Topics -> Payloads]
  /\ retained["person"] \notin Levels /\ retained["health"] \notin {"ON", "OFF"}
  /\ hooksLeft = HookCalls /\ cutsLeft = BrokerCuts

BridgeNext ==
  \/ PulseArmed \/ PulseShown \/ Observed \/ PulseDue
  \/ PulsesTaken \/ PulsesEnded \/ LinkTurn \/ Resync \/ DrainTurn \/ Publish \/ BrokerCut
  \/ BridgeRestart

BridgeSpec == BridgeInit /\ [][BridgeNext]_bridgeVars

----------------------------------------------------------------------------
(* Properties *)

BridgeTypeOK ==
  /\ cache \in [Topics -> Payloads] /\ retained \in [Topics -> Payloads]
  /\ Len(posts) <= BridgeQueue /\ Len(outgoing) <= 2
  /\ missed \subseteq Topics

(* Whenever the worker has nothing left to say on a live session, the broker    *)
(* keeps of each topic shown since the start what the cache holds, whatever was *)
(* lost, queued or changed while it connected and republished; only a message   *)
(* dropped since is missing.  Of a topic not shown since the start the broker   *)
(* may keep what an earlier run said, an ON included.                          *)
BridgeHeals ==
  sessionAt = "ready" /\ ~renewed /\ ~cut /\ postAt \in {"top", "expire", "link"} /\ posts = <<>>
    => \A t \in Topics \ missed : cache[t] # "none" => retained[t] = cache[t]

(* No sensor stays on for ever: one that is on has a time it turns off at, or   *)
(* the worker is about to turn it off.                                         *)
PulseEnds == cache["person"] = "ON" => offAt # "no" \/ expiring
=============================================================================
