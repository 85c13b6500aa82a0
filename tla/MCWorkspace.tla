----------------------------- MODULE MCWorkspace -----------------------------
(***************************************************************************)
(* Workspace alone, with the files of the detected format in place.  A     *)
(* version of a file is written once, as its times tell them apart.        *)
(***************************************************************************)
EXTENDS Workspace

MCHolds == [v \in {1, 2} |-> {"a"}]

MCInit == WorkspaceInit /\ Exists(newFormat) /\ configured = Missing

MCNext == /\ WorkspaceNext
          /\ \A p \in Place : /\ disk'[p].connections >= disk[p].connections
                               /\ disk'[p].credentials >= disk[p].credentials

MCSpec == MCInit /\ [][MCNext]_workspaceVars

=============================================================================
