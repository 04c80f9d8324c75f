------------------------------ MODULE MCCamera -------------------------------
(* One camera's control side and the daemon's files, for TLC: the connection,   *)
(* the control pass, the lens, the twin, the hub's clips, the alert clips, the  *)
(* photo archive, the digest and the footage of outages share no state that the *)
(* models keep, so each behaviour of the run is one of a single part; the       *)
(* others stand still.                                                          *)
EXTENDS Link, Control, Lens, Twin, Hub, Clips, Archive, Digest, Evidence

VARIABLE which

CandidatesV == <<"a", "b">>

Parts == {"link", "control", "lens", "twin", "hub", "clips", "archive", "digest", "evidence"}

CameraVars == <<which, linkVars, controlVars, lensVars, twinVars, hubVars, clipsVars, archiveVars,
                digestVars, evidenceVars>>

\* A part's own initial choices are open only while that part runs.
CameraInit ==
  /\ which \in Parts
  /\ LensInit /\ TwinInit /\ ArchiveInit /\ DigestInit
  /\ EvidenceInit
  /\ LinkInit    /\ (which # "link" => hasMac)
  /\ ControlInit /\ (which # "control" => build = "single" /\ policy = {})
  /\ HubInit     /\ (which # "hub" => inline)
  /\ ClipsInit   /\ (which # "clips" => samePid)

CameraNext ==
  /\ UNCHANGED which
  /\ IF which = "link" THEN TRUE ELSE UNCHANGED linkVars
  /\ IF which = "control" THEN TRUE ELSE UNCHANGED controlVars
  /\ IF which = "lens" THEN TRUE ELSE UNCHANGED lensVars
  /\ IF which = "twin" THEN TRUE ELSE UNCHANGED twinVars
  /\ IF which = "hub" THEN TRUE ELSE UNCHANGED hubVars
  /\ IF which = "clips" THEN TRUE ELSE UNCHANGED clipsVars
  /\ IF which = "archive" THEN TRUE ELSE UNCHANGED archiveVars
  /\ IF which = "digest" THEN TRUE ELSE UNCHANGED digestVars
  /\ IF which = "evidence" THEN TRUE ELSE UNCHANGED evidenceVars
  /\ \/ which = "link" /\ LinkNext
     \/ which = "control" /\ ControlNext
     \/ which = "lens" /\ LensNext
     \/ which = "twin" /\ TwinNext
     \/ which = "hub" /\ HubNext
     \/ which = "clips" /\ ClipsNext
     \/ which = "archive" /\ ArchiveNext
     \/ which = "digest" /\ DigestNext
     \/ which = "evidence" /\ EvidenceNext

CameraSpec == CameraInit /\ [][CameraNext]_CameraVars
-----------------------------------------------------------------------------
(* Every variable of the parts stays in its type, all steps taken together:     *)
(* counters inside their limits, ages at most the bound that reads them,        *)
(* addresses among the known ones.                                              *)
CameraTypeOK ==
  CASE which = "link" -> LinkTypeOK
    [] which = "control" -> ControlTypeOK
    [] which = "lens" -> LensTypeOK
    [] which = "twin" -> TwinTypeOK
    [] which = "hub" -> HubTypeOK
    [] which = "clips" -> ClipsTypeOK
    [] which = "archive" -> ArchiveTypeOK
    [] which = "digest" -> DigestTypeOK
    [] which = "evidence" -> EvidenceTypeOK

(* An entry whose clip another thread is sending, and a photo young enough to be *)
(* kept, are not lost to a clean-up, a stop or a retry that runs meanwhile; the  *)
(* recorder's footage of an outage is archived, or each of its tries failed.     *)
FilesKept ==
  ClipsHeld /\ ArchiveKeepsYoung /\ GivenUpAfterTrying /\ OutageIsPreserved

===============================================================================
