---------------------------- MODULE ClientClaims ----------------------------
(***************************************************************************)
(* Sentences of the repository about what a user sees at the command line  *)
(* that the program does not live up to.                                   *)
(***************************************************************************)
EXTENDS Clients

(* lib/support/client/test.go:197-202, "list using absolute path": after   *)
(* cd /foo, List("/foo") lists /foo.  The client appends every path to     *)
(* currdir, so that ls with an absolute path answers from currdir.         *)
AbsoluteFromHome ==
  [][\A c \in Client, r \in Typed :
       /\ r.abs /\ r.ups = 0
       /\ ls(c, r) /\ at'[c] = "pwd"
       /\ Root(user[c]) \o r.names \in vol.dirs
       => reply' = "ok"]_allVars

(* lib/support/client/test.go:220-224, "make sure that /.. is /": a        *)
(* listing of enough ".." is a listing of the user's root.  checkpath      *)
(* refuses it.                                                             *)
ParentOfRootIsRoot ==
  [][\A c \in Client, r \in Typed :
       /\ ls(c, r) /\ at'[c] = "pwd"
       /\ r.names = <<>> /\ currdir[c] \in vol.dirs
       => reply' = "ok"]_allVars

(* lib/support/client/client.go:36: "CD changes the current working        *)
(* directory."  cdHandler looks for any name, not for a directory, and a   *)
(* client that did cd to a file is in none.                                *)
CDToDirectory ==
  [][\A c \in Client, r \in Typed :
       cd(c, r) /\ currdir'[c] # currdir[c] => currdir'[c] \in vol.dirs]_allVars
=============================================================================
