------------------------------- MODULE Control --------------------------------
(* One control pass over one camera: the plan of the hour, the settings it     *)
(* re-asserts, the SmartTrack filter and, last of all, the auto-track switch   *)
(* (daemon.plan_camera, run_once and apply_plan, tracking.py).                 *)
(*                                                                            *)
(* The firmware couples what the calls keep apart: writing a setting may reset *)
(* the filter, and writing the filter turns auto-track off.  A single-lens     *)
(* camera is written blindly, one the endstop owns is read first, a dual-lens  *)
(* one is read and written lens by lens.                                       *)
EXTENDS Integers, Sequences

CONSTANTS Meddling  \* bound: refused or unanswered calls, and changes from outside

ASSUME ControlAssumption == Meddling \in Nat

VARIABLES
  build,     \* "single", "owned" (by the endstop) or "dual"
  policy,    \* the repairs the reliability policy allows
  night,     \* effective_night
  rain,      \* it rains, and the camera parks in rain
  drifted,   \* firmware: the <<lens, setting>> pairs that are not as planned
  filter,    \* firmware: smart_track_info, "people" or "off"
  tracks,    \* firmware: the auto-track switch
  dwell,     \* firmware: back_time is the configured one
  plan,      \* plan_camera: auto-track wanted
  permitted, \* the endstop's controller.allowed()
  read,      \* lenses of each kind that read_lenses got, and whether they were right
  blind,     \* <<lens, setting>> written unread within UNREAD_REPAIR_SECONDS
  at,        \* the next step of the pass, 0 between passes
  personWas, \* detection_seen: "unread", "on", "off" or "restored"
  meddled,   \* history: something refused, went unread or changed during the pass
  mischief   \* refusals and changes left

firmwareVars == <<drifted, filter, tracks, dwell>>
controlVars == <<build, policy, night, rain, firmwareVars, plan, permitted, read, blind, at,
                 personWas, meddled, mischief>>

Settings == {"motion", "day_night", "person", "vehicle", "ldc", "tamper", "lamp", "mode"}

\* Mutant: the filter is applied before the last of the settings.
OrderFilterEarly ==
  <<"motion", "day_night", "person", "vehicle", "ldc", "tamper", "smarttrack", "lamp",
    "mode", "match", "set", "verify", "set", "verify">>

(* apply_plan, in the order of its calls. *)
Order == <<"motion", "day_night", "person", "vehicle", "ldc", "tamper", "lamp", "mode",
           "smarttrack", "match", "set", "verify", "set", "verify">>
ReadAtStart == {"motion", "person", "vehicle"}
OwnedReads == {"motion", "day_night", "person", "vehicle", "lamp", "mode"}
Over == Len(Order) + 1

Eyes == IF build = "dual" THEN {"wide", "pt"} ELSE {"wide"}

\* motion sensitivity, day/night and night vision mode are no bounded repairs.
MayRepair(setting) == setting \in {"motion", "day_night", "mode"} \/ setting \in policy

----------------------------------------------------------------------------
(* The plan *)

(* decide_tracking of a tracking camera; with the endstop, control_plan. *)
PlansTrack == night /\ ~rain /\ (build = "owned" => permitted)

(* What the hour and the weather make of the settings: the sensitivity, the    *)
(* day/night switch and the night-vision mode.                                 *)
Replanned(atNight, inRain) ==
  Eyes \X ((IF atNight # night THEN {"day_night", "mode"} ELSE {})
           \cup (IF inRain # rain THEN {"motion"} ELSE {}))

ControlStarts ==
  /\ at \in {0, Over} /\ at' = 1
  /\ \E atNight \in BOOLEAN, inRain \in BOOLEAN :
       /\ night' = atNight /\ rain' = inRain
       /\ drifted' = drifted \cup Replanned(atNight, inRain)
       /\ plan' = (atNight /\ ~inRain /\ (build = "owned" => permitted))
  /\ \E unread \in {{}} \cup (IF mischief > 0 /\ build = "dual"
                              THEN {{c} \X ReadAtStart : c \in Eyes} ELSE {}) :
       /\ read' = (Eyes \X ReadAtStart) \ unread
       /\ mischief' = IF unread = {} THEN mischief ELSE mischief - 1
       /\ meddled' = (unread # {})
       /\ personWas' = IF unread # {} THEN "unread"
                       ELSE IF (Eyes \X {"person"}) \cap drifted # {} THEN "off" ELSE "on"
  /\ UNCHANGED <<build, policy, filter, tracks, dwell, permitted, blind>>

----------------------------------------------------------------------------
(* The settings *)

(* The lenses a repair writes to: all of a camera that is not read, else the   *)
(* drifted ones and, once in ten minutes, the unread ones.                     *)
Targets(setting, unread) ==
  CASE build = "single" /\ setting # "mode" -> Eyes
    [] build = "owned" /\ setting \notin OwnedReads -> Eyes
    [] build = "dual" /\ setting = "ldc" -> Eyes
    [] OTHER -> {c \in Eyes : \/ <<c, setting>> \in drifted \ unread
                              \/ <<c, setting>> \in unread \ blind}

(* A write that lands repairs the lenses; one of them resets the filter. *)
Writes(setting, lenses) ==
  \/ /\ drifted' = drifted \ (lenses \X {setting})
     /\ filter' \in {filter, "off"}
     /\ personWas' = IF setting = "person" /\ personWas = "off" THEN "restored" ELSE personWas
     /\ UNCHANGED <<meddled, mischief>>
  \/ /\ mischief > 0 /\ mischief' = mischief - 1 /\ meddled' = TRUE
     /\ UNCHANGED <<drifted, filter, personWas>>

Repair ==
  /\ at > 0 /\ at < Over /\ Order[at] \in Settings
  /\ at' = at + 1
  /\ LET setting == Order[at]
         unread == IF build = "dual" /\ setting \in ReadAtStart
                   THEN (Eyes \X {setting}) \ read ELSE {}
         lenses == IF MayRepair(setting) THEN Targets(setting, unread) ELSE {}
     IN /\ blind' = blind \cup (unread \cap (lenses \X {setting}))
        /\ IF lenses = {} THEN UNCHANGED <<drifted, filter, personWas, meddled, mischief>>
           ELSE Writes(setting, lenses)
  /\ UNCHANGED <<build, policy, night, rain, tracks, dwell, plan, permitted, read>>

----------------------------------------------------------------------------
(* The filter, then auto-track *)

Filtered == IF plan THEN "people" ELSE "off"

(* setSmartTrackConfig clears the master switch; the endstop's camera is read  *)
(* first and left alone when it matches.                                      *)
ApplySmarttrack ==
  /\ at > 0 /\ at < Over /\ Order[at] = "smarttrack" /\ at' = at + 1
  /\ \/ /\ "smarttrack" \notin policy \/ (build = "owned" /\ filter = Filtered)
        /\ UNCHANGED <<filter, tracks, meddled, mischief>>
     \/ /\ "smarttrack" \in policy /\ ~(build = "owned" /\ filter = Filtered)
        /\ filter' = Filtered /\ tracks' = FALSE
        /\ UNCHANGED <<meddled, mischief>>
     \/ /\ "smarttrack" \in policy /\ ~(build = "owned" /\ filter = Filtered)
        /\ mischief > 0 /\ mischief' = mischief - 1 /\ meddled' = TRUE
        /\ UNCHANGED <<filter, tracks>>
  /\ UNCHANGED <<build, policy, night, rain, drifted, dwell, plan, permitted, read, blind,
                 personWas>>

Desired == plan /\ (build = "owned" => permitted)

MatchesAlready ==
  /\ at > 0 /\ at < Over /\ Order[at] = "match"
  /\ at' = IF build = "owned" /\ tracks = Desired /\ (plan => dwell) THEN Over ELSE at + 1
  /\ UNCHANGED <<build, policy, night, rain, firmwareVars, plan, permitted, read, blind,
                 personWas, meddled, mischief>>

(* set_autotrack: the combined call, or the plain switch without the dwell, or *)
(* none of the shapes; only the first attempt's failure ends the pass.         *)
SetAutotrack ==
  /\ at > 0 /\ at < Over /\ Order[at] = "set"
  /\ \/ tracks' = Desired /\ at' = at + 1
        /\ dwell' \in (IF Desired THEN BOOLEAN ELSE {dwell})
        /\ UNCHANGED <<meddled, mischief>>
     \/ /\ mischief > 0 /\ mischief' = mischief - 1 /\ meddled' = TRUE
        /\ at' = IF Order[at - 1] = "match" THEN Over ELSE at + 1
        /\ UNCHANGED <<tracks, dwell>>
  /\ UNCHANGED <<build, policy, night, rain, drifted, filter, plan, permitted, read, blind,
                 personWas>>

VerifyAutotrack ==
  /\ at > 0 /\ at < Over /\ Order[at] = "verify"
  /\ at' = IF tracks = Desired THEN Over ELSE at + 1
  /\ UNCHANGED <<build, policy, night, rain, firmwareVars, plan, permitted, read, blind,
                 personWas, meddled, mischief>>

----------------------------------------------------------------------------
(* Outside the pass *)

(* The app, or the firmware on its own, changes something. *)
Meddle ==
  /\ mischief > 0 /\ mischief' = mischief - 1 /\ meddled' = TRUE
  /\ \/ \E pair \in Eyes \X Settings : drifted' = drifted \cup {pair}
        /\ UNCHANGED <<filter, tracks>>
     \/ filter' \in {"people", "off"} \ {filter} /\ UNCHANGED <<drifted, tracks>>
     \/ tracks' = ~tracks /\ UNCHANGED <<drifted, filter>>
  /\ UNCHANGED <<build, policy, night, rain, dwell, plan, permitted, read, blind, at,
                 personWas>>

(* The endstop's thread withdraws its permission, turns tracking off, and      *)
(* gives the permission back.                                                 *)
EndstopActs ==
  /\ build = "owned"
  /\ \/ /\ permitted /\ mischief > 0 /\ mischief' = mischief - 1
        /\ permitted' = FALSE /\ UNCHANGED tracks
     \/ ~permitted /\ tracks /\ tracks' = FALSE /\ UNCHANGED <<permitted, mischief>>
     \/ ~permitted /\ ~tracks /\ permitted' = TRUE /\ UNCHANGED <<tracks, mischief>>
  /\ meddled' = TRUE
  /\ UNCHANGED <<build, policy, night, rain, drifted, filter, dwell, plan, read, blind, at,
                 personWas>>

BlindWritesAge ==
  /\ blind # {} /\ blind' = {}
  /\ UNCHANGED <<build, policy, night, rain, firmwareVars, plan, permitted, read, at,
                 personWas, meddled, mischief>>

ControlInit ==
  /\ build \in {"single", "owned", "dual"} /\ policy \in {Settings \cup {"smarttrack"}, {}}
  /\ night = FALSE /\ rain = FALSE
  /\ drifted = {} /\ filter = "off" /\ tracks = FALSE /\ dwell = FALSE
  /\ plan = FALSE /\ permitted = TRUE /\ read = {} /\ blind = {} /\ at = 0
  /\ personWas = "unread" /\ meddled = FALSE /\ mischief = Meddling

ControlNext ==
  \/ ControlStarts \/ Repair \/ ApplySmarttrack \/ MatchesAlready \/ SetAutotrack
  \/ VerifyAutotrack \/ Meddle \/ EndstopActs \/ BlindWritesAge

ControlSpec == ControlInit /\ [][ControlNext]_controlVars

----------------------------------------------------------------------------
(* Properties *)

ControlTypeOK ==
  /\ build \in {"single", "owned", "dual"}
  /\ policy \subseteq Settings \cup {"smarttrack"}
  /\ {night, rain, tracks, dwell, plan, permitted, meddled} \subseteq BOOLEAN
  /\ drifted \subseteq Eyes \X Settings /\ filter \in {"people", "off"}
  /\ read \subseteq Eyes \X ReadAtStart /\ blind \subseteq Eyes \X ReadAtStart
  /\ at \in 0..Over /\ personWas \in {"unread", "on", "off", "restored"}
  /\ mischief \in 0..Meddling

(* A pass whose calls were all taken, and which nothing disturbed, leaves the  *)
(* camera exactly as planned: the settings it may repair, the people filter    *)
(* and auto-track, whatever the firmware resets on the way.                    *)
PassLeavesPlan ==
  at = Over /\ ~meddled =>
    /\ \A c \in Eyes, s \in Settings : MayRepair(s) => <<c, s>> \notin drifted
    /\ tracks = plan
    /\ "smarttrack" \in policy => filter = Filtered
=============================================================================
