--------------------------- MODULE MCSyncService ---------------------------
(* Instances of SyncService for TLC. *)
EXTENDS SyncService

OneLabel  == {1}
TwoLabels == {1, 2}
=============================================================================
