------------------------------ MODULE MCStorage ------------------------------
(***************************************************************************)
(* What xraft keeps in files: the log, the metadata and the snapshots, one *)
(* of the three in each behaviour.                                         *)
(***************************************************************************)
EXTENDS FileLog, Metadata, RaftSnapshot

VARIABLE part

storageVars == <<part, logVars, metaVars, snapVars>>

Init == /\ part \in {"log", "metadata", "snapshot"}
        /\ LogInit /\ MetaInit /\ SnapInit

Next ==
  \/ part = "log" /\ LogNext /\ UNCHANGED <<part, metaVars, snapVars>>
  \/ part = "metadata" /\ MetaNext /\ UNCHANGED <<part, logVars, snapVars>>
  \/ part = "snapshot" /\ SnapNext /\ UNCHANGED <<part, logVars, metaVars>>

Spec == Init /\ [][Next]_storageVars /\ (part = "snapshot" => SnapFairness)

=============================================================================
