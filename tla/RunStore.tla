------------------------------- MODULE RunStore -------------------------------
(***************************************************************************)
(* A run and an inspector of its directory: verify_run, in another process,*)
(* reads the manifest, then the comparison, then the bytes of the two      *)
(* artifacts it hashes, while RunOrchestrator goes on writing.             *)
(***************************************************************************)
EXTENDS RunOrchestrator

VARIABLE inspector  \* where verify_run is, what it read, what it replied

storeVars == <<vars, inspector>>

NotRead == [at |-> "idle", manifest |-> NoFile, comparison |-> NoFile,
            version |-> 0, reply |-> "NONE"]

StoreInit == Init /\ inspector = NotRead

\* _load_run: the manifest, without which the run is corrupt ...
ReadManifest ==
    /\ inspector.at = "idle"
    /\ inspector' =
          IF manifest = NoFile THEN [NotRead EXCEPT !.reply = "CORRUPT"]
          ELSE [NotRead EXCEPT !.at = "comparison", !.manifest = manifest]
    /\ UNCHANGED vars

\* ... then the comparison, checked against the manifest read before
ReadComparison ==
    /\ inspector.at = "comparison"
    /\ LET verdict == Inspect(inspector.manifest, comparison)
       IN  inspector' =
              IF verdict = "COMPLETE"
              THEN [inspector EXCEPT !.at = "comparisonHash",
                                     !.comparison = comparison]
              ELSE [inspector EXCEPT !.at = "idle", !.reply = verdict]
    /\ UNCHANGED vars

\* verify_run: read_bytes of comparison.json ...
HashComparison ==
    /\ inspector.at = "comparisonHash"
    /\ inspector' = [inspector EXCEPT !.at = "reportHash",
                                      !.version = comparison.version]
    /\ UNCHANGED vars

\* ... and of report.html
HashReport ==
    /\ inspector.at = "reportHash"
    /\ inspector' =
          [inspector EXCEPT
              !.at = "idle",
              !.reply = VerifyHashes(inspector.manifest, inspector.version, report)]
    /\ UNCHANGED vars

Inspector == ReadManifest \/ ReadComparison \/ HashComparison \/ HashReport

StoreNext == (Next /\ UNCHANGED inspector) \/ Inspector

StoreSpec == StoreInit /\ [][StoreNext]_storeVars /\ Fairness

-----------------------------------------------------------------------------
(* Properties *)

\* The inspector's state keeps its type.
StoreTypeOK ==
    /\ TypeOK
    /\ inspector \in
          [at : {"idle", "comparison", "comparisonHash", "reportHash"},
           manifest : Manifests \cup {NoFile},
           comparison : Comparisons \cup {NoFile},
           version : Nat,
           reply : {"NONE", "VALID", "CORRUPT", "INCOMPLETE", "UNVERIFIABLE"}]

\* VALID is a verdict on the whole run, however its reads interleave with the
\* writer: the status and verdict read are the last ones, the artifacts on disk
\* are the ones verified, and no later step of the run writes any of them.
ValidIsFinal ==
    [][inspector.reply = "VALID" /\ UNCHANGED inspector =>
          /\ Inspect(inspector.manifest, comparison) = "COMPLETE"
          /\ UNCHANGED <<manifest, comparison, report>>]_storeVars

=============================================================================
