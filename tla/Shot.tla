-------------------------------- MODULE Shot --------------------------------
(* One live photo from the grab to the phone (daemon.py, snapshot.py,          *)
(* notify.py): the frame of the camera's stream and, on a dual-lens camera,    *)
(* of its second lens, the native original each may carry, the pick between    *)
(* them, the zoom cut for the phone and the copy kept for the sent log.  The   *)
(* files all this leaves on the disk are the state.                            *)
EXTENDS Integers, Sequences, FiniteSets

CONSTANTS
  Confidence,  \* confidences of the scorer
  SendFrom     \* cfg.scorer.threshold

ASSUME ShotAssumption == Confidence \subseteq Nat /\ SendFrom \in Nat

VARIABLES
  shotAt,                 \* the step the photo waits for
  onTmp,                  \* temp files on the disk
  firstShot, secondShot,  \* the two grabs
  shotKept,               \* the frame kept
  score,                  \* its confidence, Unscored when the scorer failed
  zoom,                   \* what stands for the frame in the message
  arrived,                \* pictures the phone got, one set per message
  logKept,                \* pictures the sent log keeps
  outcome                 \* what the daemon believes

shotVars == <<shotAt, onTmp, firstShot, secondShot, shotKept, score, zoom, arrived, logKept,
              outcome>>
frameVars == <<firstShot, secondShot, shotKept, score>>
toldVars == <<arrived, logKept, outcome>>

Unscored == -1
None == "none"
NoShot == [path |-> None, native |-> FALSE, beside |-> None, besideNative |-> FALSE]
Frame(path, native) == [path |-> path, native |-> native, beside |-> None, besideNative |-> FALSE]
NoZoom == [crop |-> FALSE, small |-> FALSE, archive |-> FALSE]

NativeOf(path) == <<path, "native">>
FileOf(path) == <<path, "delivery">>

\* Mutant: a dropped frame leaves its native twin behind.
FilesWithoutTwin(f) == {FileOf(f.path)} \cup (IF f.beside = None THEN {} ELSE {FileOf(f.beside)})

(* safe_unlink(): a frame goes with its native twin and its companion. *)
Files(f) ==
  IF f.path = None THEN {}
  ELSE {FileOf(f.path)} \cup (IF f.native THEN {NativeOf(f.path)} ELSE {})
         \cup (IF f.beside = None THEN {} ELSE {FileOf(f.beside)})
         \cup (IF f.besideNative THEN {NativeOf(f.beside)} ELSE {})

ZoomFiles(z) ==
  {FileOf(n) : n \in {"crop", "small", "archive"} \cap
     ((IF z.crop THEN {"crop"} ELSE {}) \cup (IF z.small THEN {"small"} ELSE {})
        \cup (IF z.archive THEN {"archive"} ELSE {}))}

ShotEnds(what) ==
  /\ shotAt' = "done" /\ outcome' = what
  /\ onTmp' = onTmp \ Files(shotKept)

----------------------------------------------------------------------------
(* The grab *)

(* A failed capture removes what it wrote; the recorder's frame has no twin. *)
Grabbed(name) ==
  {NoShot, Frame(name, FALSE), Frame(name, TRUE)}

GrabFirst(f) ==
  /\ shotAt = "first"
  /\ firstShot' = f /\ onTmp' = Files(f)
  /\ \/ shotAt' = "second" /\ shotKept' = NoShot
     \/ shotAt' = "judge" /\ shotKept' = f
  /\ UNCHANGED <<secondShot, score, zoom, toldVars>>

(* An event on the pan and tilt lens grabs that lens too. *)
GrabSecond(f) ==
  /\ shotAt = "second"
  /\ secondShot' = f /\ onTmp' = onTmp \cup Files(f)
  /\ IF firstShot.path = None \/ f.path = None
     THEN shotAt' = "judge" /\ shotKept' = (IF firstShot.path = None THEN f ELSE firstShot)
     ELSE shotAt' = "pick" /\ shotKept' = NoShot
  /\ UNCHANGED <<firstShot, score, zoom, toldVars>>

(* pick_lens_frame(): the scorer failed on one of them, so the first stays. *)
PickUnscored ==
  /\ shotAt = "pick"
  /\ shotKept' = firstShot /\ onTmp' = onTmp \ Files(secondShot)
  /\ shotAt' = "judge"
  /\ UNCHANGED <<firstShot, secondShot, score, zoom, toldVars>>

Beside(f, other) ==
  [path |-> f.path, native |-> f.native, beside |-> other.path, besideNative |-> other.native]

(* Both scored: of two confirmed frames the larger subject may win, else the   *)
(* better score; an album keeps the other one with it.                         *)
PickScored(s1, s2, largest, album) ==
  /\ shotAt = "pick"
  /\ LET both == s1 >= SendFrom /\ s2 >= SendFrom
         one == IF both /\ largest # None THEN largest = "first" ELSE s1 >= s2
         image == IF one THEN firstShot ELSE secondShot
         other == IF one THEN secondShot ELSE firstShot
     IN /\ score' = IF one THEN s1 ELSE s2
        /\ IF both /\ album
           THEN shotKept' = Beside(image, other) /\ UNCHANGED onTmp
           ELSE shotKept' = image /\ onTmp' = onTmp \ Files(other)
  /\ shotAt' = "judge"
  /\ UNCHANGED <<firstShot, secondShot, zoom, toldVars>>

----------------------------------------------------------------------------
(* The verdict.  The pick's score is not asked for again. *)

NothingToSend ==
  /\ shotAt = "judge" /\ shotKept.path = None
  /\ ShotEnds("nothing")
  /\ UNCHANGED <<frameVars, zoom, arrived, logKept>>

Judged(s) ==
  /\ shotAt = "judge" /\ shotKept.path # None
  /\ LET verdict == IF score = Unscored THEN s ELSE score
     IN /\ score' = verdict
        /\ IF verdict # Unscored /\ verdict < SendFrom
           THEN ShotEnds("dropped")
           ELSE shotAt' = "deliver" /\ UNCHANGED <<onTmp, outcome>>
  /\ UNCHANGED <<firstShot, secondShot, shotKept, zoom, arrived, logKept>>

----------------------------------------------------------------------------
(* _deliver_alert_photo() *)

(* A camera that only collects data, or one silenced in the app. *)
RecordedOnly ==
  /\ shotAt = "deliver"
  /\ logKept' = Append(logKept, {FileOf(shotKept.path)})
  /\ ShotEnds("sent")
  /\ UNCHANGED <<frameVars, zoom, arrived>>

(* A post: it arrives and is confirmed, it is refused, or its answer is lost,  *)
(* which counts as delivered whether it arrived or not.                        *)
Posts == {[arrived |-> TRUE, ok |-> TRUE], [arrived |-> FALSE, ok |-> TRUE],
          [arrived |-> FALSE, ok |-> FALSE]}

Message(post, kind, pictures) ==
  IF post.arrived THEN <<[kind |-> kind, pictures |-> pictures]>> ELSE <<>>

\* Mutant: an album that was delivered is followed by the single photo.
AlbumThenSingle(post) == TRUE

AlbumRefused(post) == ~post.ok

(* The album first: refused, it archives nothing and the single photo goes.    *)
SendAlbum(post) ==
  /\ shotAt = "deliver" /\ shotKept.beside # None
  /\ arrived' = arrived \o Message(post, "alert", {FileOf(shotKept.path), FileOf(shotKept.beside)})
  /\ IF AlbumRefused(post)
     THEN shotAt' = "crop" /\ UNCHANGED <<onTmp, logKept, outcome>>
     ELSE /\ logKept' = logKept \o <<{FileOf(shotKept.path)}, {FileOf(shotKept.beside)}>>
          /\ ShotEnds("sent")
  /\ UNCHANGED <<frameVars, zoom>>

(* crop_for_subject(): only a scored frame is zoomed, the zoom may fail.  Cut  *)
(* from a delivery-width frame and too narrow it is removed again.             *)
Crop(z, tooSmall) ==
  /\ shotAt = "crop" \/ (shotAt = "deliver" /\ shotKept.beside = None)
  /\ z.crop => score # Unscored
  /\ z.small => z.crop
  /\ z.archive => z.crop /\ shotKept.native
  /\ tooSmall => z.crop /\ shotKept.native /\ ~z.small /\ ~z.archive
  /\ zoom' = z /\ onTmp' = onTmp \cup ZoomFiles(z)
  /\ shotAt' = IF tooSmall THEN "send beside" ELSE "send"
  /\ UNCHANGED <<frameVars, toldVars>>

(* The whole frame is the alert and the zoom too small to judge rides along. *)
SendBeside(post, zoomPost) ==
  /\ shotAt = "send beside"
  /\ arrived' = arrived \o Message(post, "alert", {FileOf(shotKept.path)})
                   \o (IF post.ok THEN Message(zoomPost, "zoom", {FileOf("crop")}) ELSE <<>>)
  /\ logKept' = Append(logKept, {FileOf(shotKept.path)})
  /\ shotAt' = "done" /\ outcome' = IF post.ok THEN "sent" ELSE "refused"
  /\ onTmp' = onTmp \ (ZoomFiles(zoom) \cup Files(shotKept))
  /\ UNCHANGED <<frameVars, zoom>>

(* What goes to the phone. *)
Sendable == FileOf(IF zoom.small THEN "small" ELSE IF zoom.crop THEN "crop" ELSE shotKept.path)

(* The log keeps the scene: the native frame's copy, or the frame itself. *)
KeepsScene == FileOf(IF zoom.archive THEN "archive" ELSE shotKept.path)

SendPhoto(post) ==
  /\ shotAt = "send"
  /\ arrived' = arrived \o Message(post, "alert", {Sendable})
  /\ logKept' = Append(logKept, {KeepsScene})
  /\ shotAt' = "done" /\ outcome' = IF post.ok THEN "sent" ELSE "refused"
  /\ onTmp' = onTmp \ (ZoomFiles(zoom) \cup Files(shotKept))
  /\ UNCHANGED <<frameVars, zoom>>

ShotInit ==
  /\ shotAt = "first" /\ onTmp = {}
  /\ firstShot = NoShot /\ secondShot = NoShot /\ shotKept = NoShot
  /\ score = Unscored /\ zoom = NoZoom /\ arrived = <<>> /\ logKept = <<>> /\ outcome = None

ShotNext ==
  \/ \E f \in Grabbed("first") : GrabFirst(f)
  \/ \E f \in Grabbed("second") : GrabSecond(f)
  \/ PickUnscored
  \/ \E s1, s2 \in Confidence, largest \in {None, "first", "second"}, album \in BOOLEAN :
       PickScored(s1, s2, largest, album)
  \/ NothingToSend
  \/ \E s \in Confidence \cup {Unscored} : Judged(s)
  \/ RecordedOnly
  \/ \E post \in Posts : SendAlbum(post)
  \/ \E z \in [{"crop", "small", "archive"} -> BOOLEAN], tooSmall \in BOOLEAN :
       Crop(z, tooSmall)
  \/ \E post, zoomPost \in Posts : SendBeside(post, zoomPost)
  \/ \E post \in Posts : SendPhoto(post)

ShotSpec == ShotInit /\ [][ShotNext]_shotVars

----------------------------------------------------------------------------
(* Properties *)

(* Whatever fails on the way: while a frame is to be sent its files are there, *)
(* at the end none is left; the scene reaches the phone at most once, as an    *)
(* album or alone; and the sent log holds a whole scene of the frame, never    *)
(* the zoom.                                                                   *)
ShotLeavesNothing ==
  /\ shotAt \notin {"first", "second", "pick", "done"} => Files(shotKept) \subseteq onTmp
  /\ shotAt = "done" => onTmp = {}
  /\ Cardinality({n \in DOMAIN arrived : arrived[n].kind = "alert"}) <= 1
  /\ outcome \in {"sent", "refused"} =>
       /\ logKept # <<>>
       /\ \A n \in DOMAIN logKept : logKept[n] \cap {FileOf("crop"), FileOf("small")} = {}
       /\ \E n \in DOMAIN logKept : logKept[n] \cap {FileOf(shotKept.path), FileOf("archive")} # {}

=============================================================================
