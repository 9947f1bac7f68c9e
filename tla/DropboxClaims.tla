--------------------------- MODULE DropboxClaims ---------------------------
(***************************************************************************)
(* Sentences of the repository about the server that the server does not   *)
(* live up to, each stated as a property of module Dropbox.                *)
(***************************************************************************)
EXTENDS DropboxSafety

(* server.go:1242: the filecount file "keeps track of the number of        *)
(* deduplicated files ever created so each of them can have a unique name".*)
(* finalizer alone writes it, so that after a kill the count of the start  *)
(* before is used again, and names with it.                                *)
UniqueNames ==
  \A r, s \in vol.filedata : r.filename = s.filename => r = s

(* README:33: "each user is sandboxed within a directory subtree".  A      *)
(* request would make and remove names in the requester's own tree only,   *)
(* and the links by which the requester's own files are shared.  checkpath *)
(* compares strings (server.go:136), and alice passes for alice2 too.      *)
Sandboxed ==
  [][\A p \in SymDiff(Taken(vol), Taken(vol')) :
       \A u \in User \ Namers(vol.sharedata \cup vol'.sharedata, p) : ~Request(u)]_vars

(* README:25, of content that is already stored: "it will appear to each   *)
(* user as nothing different happened".  An upload that links the content  *)
(* at the path asked for must then answer as the first upload of the       *)
(* content does; the code falls through to "End of uploadHelper", which    *)
(* client.go:247-253 reports as an error.                                  *)
DedupInvisible ==
  [][\A u \in User, p \in InputPath, b \in Body :
       /\ p \notin DOMAIN vol.link
       /\ uploadHandler(u, p, b)
       /\ ContentAt(vol', p) = {b}
       => reply' = "ok"]_vars

(* README:23: users "are not allowed to use the Shared_with_me directory   *)
(* for any other purpose other than managing shared files".  uploadHelper  *)
(* and shareHandler refuse paths in it; mkdirHandler does not.             *)
NoDirsInShared ==
  \A d \in vol.dirs, u \in User : Parent(d) # SharedDir(u)

(* client.go:131: signup fails if "your username is not between 5 and 16   *)
(* characters".  signupHandler joins the two bounds by &&, and no length   *)
(* fails both.                                                             *)
UserNamesBounded == \A u \in userdata : NameLength[u] \in 5 .. 16
=============================================================================
