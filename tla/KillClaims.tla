----------------------------- MODULE KillClaims -----------------------------
(***************************************************************************)
(* Sentences of the repository that a server which was killed in the       *)
(* middle of a handler does not live up to, each stated of KillSpec.       *)
(* README:35 expects of a crash only that "all users will need to get a    *)
(* new session".                                                           *)
(***************************************************************************)
EXTENDS DropboxSteps

(* README:21: "Each user is give their own 'file system' to work with".    *)
(* The account is entered before its directories are made, and a user who  *)
(* has an account cannot sign up again.                                    *)
UsersHaveHomes ==
  todo = <<>> => \A u \in Cookiemap : {Root(u), SharedDir(u)} \subseteq vol.dirs

(* README:33: "symbolic links are creating to the files in filestore".  A  *)
(* row that outlives its store file makes the next upload of the content   *)
(* link to nothing.                                                        *)
UploadsAreStored == todo = <<>> => LinksKeepContent

(* lib/support/client/client.go:22-24: "Remove removes the file or         *)
(* directory identified by path".  A share that lost its link but not its  *)
(* row makes every later removal by the owner stop at the missing link.    *)
OwnersCanRemove ==
  [][\A u \in User, p \in OwnedPaths(vol) :
       removeSteps(u, p) => p \notin DOMAIN LastStage(vol', todo').link]_stepVars
=============================================================================
