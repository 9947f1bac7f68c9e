--------------------------- MODULE MCDropboxSteps ---------------------------
(* Instances of DropboxSteps for TLC. *)
EXTENDS MCDropbox, KillClaims
=============================================================================
