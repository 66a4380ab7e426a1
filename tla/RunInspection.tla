----------------------------- MODULE RunInspection -----------------------------
(***************************************************************************)
(* How runs.py judges the artifacts of one run directory.  A manifest is a *)
(* record [status, verdict, candidates, recorded], a comparison a record   *)
(* [status, verdict, candidates, version]; "candidates" is how far the     *)
(* candidates, evaluations, decision and provenance of the artifact got,   *)
(* and a version stands for the sha256 of a written artifact.              *)
(***************************************************************************)

NoFile     == [status |-> "NO_FILE"]   \* the artifact does not exist
Unrecorded == 0                         \* the manifest names no artifact hash

\* _validate_manifest_comparison: the two artifacts must tell the same run.
Agree(manifest, comparison) ==
    /\ manifest.status = comparison.status
    /\ manifest.verdict = comparison.verdict
    /\ manifest.candidates = comparison.candidates

\* _load_run and the artifact_status of list_runs
Inspect(manifest, comparison) ==
    IF manifest = NoFile THEN "CORRUPT"
    ELSE IF comparison = NoFile THEN "INCOMPLETE"
    ELSE IF Agree(manifest, comparison) THEN "COMPLETE" ELSE "CORRUPT"

\* verify_run, once _load_run accepted the run: the recorded hashes against the
\* versions of the two files found on disk.
VerifyHashes(manifest, comparisonVersion, reportVersion) ==
    IF manifest.recorded = Unrecorded THEN "UNVERIFIABLE"
    ELSE IF /\ comparisonVersion = manifest.recorded
            /\ reportVersion = manifest.recorded
    THEN "VALID" ELSE "CORRUPT"
=============================================================================
