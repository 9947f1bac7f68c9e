--------------------------- MODULE MCDropboxDrive ---------------------------
(* Instances of DropboxDrive for TLC. *)
EXTENDS MCDropbox, DropboxDrive

\* Two files of one owner, one of them below a name that may be a directory
\* or a file; a file of another; and a received file.
DrivePaths ==
  {<<"alice", "d">>, <<"alice", "d", "f">>, <<"bob", "f">>, <<"bob", "Shared_with_me", "f">>}
=============================================================================
