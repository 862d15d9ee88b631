------------------------------ MODULE RunStates ------------------------------
(***************************************************************************)
(* The states of a run, the transitions the event log accepts, and the     *)
(* state that a manifest's status and phase stand for.                     *)
(***************************************************************************)
RunState == {"CREATED", "DIAGNOSING", "PLANNED", "PREFLIGHT_PASSED", "READY",
             "BUILDING", "VERIFYING", "EVIDENCE_READY", "APPROVED", "DISTRIBUTED",
             "WAITING_APPROVAL", "RETRYING", "FAILED", "CANCELLED", "TIMED_OUT", "REVOKED"}

Ended == {"FAILED", "CANCELLED"}

(* A repeated state is always accepted: phases change within it. *)
Successors(s) == {s} \cup
    CASE s = "CREATED"          -> {"DIAGNOSING", "PLANNED", "PREFLIGHT_PASSED", "READY",
                                    "BUILDING", "VERIFYING"} \cup Ended
      [] s = "DIAGNOSING"       -> {"PLANNED"} \cup Ended
      [] s = "PLANNED"          -> {"PREFLIGHT_PASSED", "READY"} \cup Ended
      [] s = "PREFLIGHT_PASSED" -> {"READY", "BUILDING"} \cup Ended
      [] s = "READY"            -> {"BUILDING", "WAITING_APPROVAL"} \cup Ended
      [] s = "WAITING_APPROVAL" -> {"READY", "BUILDING", "CANCELLED"}
      [] s = "RETRYING"         -> {"DIAGNOSING", "PLANNED", "PREFLIGHT_PASSED", "BUILDING",
                                    "VERIFYING", "FAILED"}
      [] s = "BUILDING"         -> {"VERIFYING", "EVIDENCE_READY", "APPROVED", "TIMED_OUT"} \cup Ended
      [] s = "VERIFYING"        -> {"EVIDENCE_READY", "APPROVED", "TIMED_OUT"} \cup Ended
      [] s = "EVIDENCE_READY"   -> {"APPROVED", "DISTRIBUTED"} \cup Ended
      [] s = "APPROVED"         -> {"DISTRIBUTED", "REVOKED"}
      [] s = "DISTRIBUTED"      -> {"REVOKED"}
      [] s \in {"FAILED", "TIMED_OUT", "CANCELLED"} -> {"RETRYING"}
      [] OTHER                  -> {}

Phase == {"launch-retry", "launch-doctor", "launch-plan", "launch-preflight", "launch-ready",
          "launch-build", "packer-build", "build-gate", "probe-setup", "probe-cleanup",
          "clean-boot-gate", "release-complete", "lease-expired"}
Status == {"none", "active", "failed", "ready", "completed"}

(* Of a run that is neither over nor ready: the state its phase stands for. *)
PhaseState(phase) ==
    CASE phase = "launch-retry"       -> "RETRYING"
      [] phase = "launch-doctor"      -> "DIAGNOSING"
      [] phase = "launch-plan"        -> "PLANNED"
      [] phase = "launch-preflight"   -> "PREFLIGHT_PASSED"
      [] phase \in {"probe-setup", "probe-cleanup"}    -> "VERIFYING"
      [] phase \in {"launch-build", "packer-build"}    -> "BUILDING"
      [] OTHER                        -> "CREATED"

StateOf(status, phase) ==
    CASE status = "failed"            -> "FAILED"
      [] status = "ready"             -> "READY"
      [] status = "completed"         -> IF phase = "release-complete" THEN "APPROVED" ELSE "EVIDENCE_READY"
      [] OTHER                        -> PhaseState(phase)
=============================================================================
