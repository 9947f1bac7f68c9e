---------------------------- MODULE DropboxDrive ----------------------------
(***************************************************************************)
(* The server implements Drive: what deduplication does with store files,  *)
(* rows and counts cannot be told from a drive on which every file has     *)
(* content of its own.                                                     *)
(***************************************************************************)
EXTENDS DropboxSafety

(* A drive's file is a link of an owner and the content found behind it. *)
FileContents(v) ==
  [p \in {q \in OwnedPaths(v) : v.link[q] \in DOMAIN v.store} |-> v.store[v.link[p]]]

Abstract == INSTANCE Drive WITH
  dirs <- vol.dirs,
  file <- FileContents(vol),
  shares <- vol.sharedata,
  users <- userdata,
  sessions <- Cookiemap

(* README:25: deduplication "will appear to each user as nothing different *)
(* happened"; README:23: what a sharee writes will "be reflected by all    *)
(* people that the file is shared with".  Every step of the server is a    *)
(* step of a drive without deduplication, in which a received file is the  *)
(* sharer's file; as long as the names that signed up are apart.           *)
ImplementsDrive ==
  Abstract!Init /\ [][Apart' => [Abstract!Next]_(Abstract!vars)]_vars
=============================================================================
