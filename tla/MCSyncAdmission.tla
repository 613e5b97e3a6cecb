-------------------------- MODULE MCSyncAdmission ---------------------------
(* Instances of SyncAdmission for TLC.                                     *)
EXTENDS SyncAdmission
=============================================================================
