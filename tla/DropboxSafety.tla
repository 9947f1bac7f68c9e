--------------------------- MODULE DropboxSafety ---------------------------
(***************************************************************************)
(* What the server must keep true between requests: the properties of      *)
(* module Dropbox.  Invariants of the volume are stated on a volume v, so  *)
(* that lemmas about the helpers of module Volume can speak of them.       *)
(***************************************************************************)
EXTENDS Dropbox, FiniteSets

VolumeType(v) ==
  /\ v \in [dirs : SUBSET Path,
            link : [DOMAIN v.link -> Nat],
            store : [DOMAIN v.store -> Body],
            filedata : SUBSET FileRow,
            sharedata : SUBSET ShareRow,
            filecount : Nat]
  /\ DOMAIN v.link \subseteq Path
  /\ DOMAIN v.store \subseteq Nat

(* Every variable has the shape the code gives it; in particular no row of *)
(* filedata is ever left with numowners = 0 (server.go:1028).              *)
TypeOK ==
  /\ VolumeType(vol)
  /\ userdata \subseteq User
  /\ Cookiemap \subseteq User
  /\ countfile \in Nat
  /\ up \in BOOLEAN
  /\ reply \in Reply

-----------------------------------------------------------------------------
(* The paths at which a user's own files are linked, and those among them  *)
(* that link to store file k.                                              *)
OwnedPaths(v) == DOMAIN v.link \ ShareePaths(v.sharedata)
LinksTo(v, k) == {p \in OwnedPaths(v) : v.link[p] = k}
FilesIn(rows) == {r.filename : r \in rows}

(* No two rows of filedata describe the same store file or the same        *)
(* content, whatever is uploaded, overwritten, shared and removed.         *)
OneRowPerFile(v) ==
  \A r, s \in v.filedata :
    r.filename = s.filename \/ r.filehash = s.filehash => r = s

(* filestore and filedata agree: every row's file is there and holds the   *)
(* content the row's hash was taken of; the only file without a row is one *)
(* whose link could not be made, and the next upload overwrites it.        *)
StoreMatchesTable(v) ==
  /\ FilesIn(v.filedata) \subseteq DOMAIN v.store
  /\ \A r \in v.filedata : v.store[r.filename] = r.filehash
  /\ DOMAIN v.store \subseteq FilesIn(v.filedata) \cup {v.filecount}

(* No link dangles: each leads to a store file that filedata knows.        *)
LinksLive(v) == \A p \in DOMAIN v.link : v.link[p] \in FilesIn(v.filedata)

(* numowners counts the links the owners of a content have to it.  Links   *)
(* of sharees are not counted: share, unshare, a sharee's removal and the  *)
(* unlinking and relinking of sharerUpload all leave the count alone.      *)
OwnersCounted(v) ==
  \A r \in v.filedata : r.numowners = Cardinality(LinksTo(v, r.filename))

(* A row of sharedata joins the sharer's own file and a link in the        *)
(* sharee's Shared_with_me, and both lead to the same store file.          *)
ShareLinked(v, r) ==
  /\ r.sharer # r.sharee
  /\ r.origpath \in OwnedPaths(v)
  /\ checkpath(r.origpath, r.sharer)
  /\ r.shareepath \in DOMAIN v.link
  /\ Parent(r.shareepath) = SharedDir(r.sharee)
  /\ v.link[r.shareepath] = v.link[r.origpath]

SharesLinked(v) ==
  /\ \A r \in v.sharedata : ShareLinked(v, r)
  /\ \A r, s \in v.sharedata :
       \/ r.shareepath = s.shareepath
       \/ /\ r.sharer = s.sharer /\ r.sharee = s.sharee
          /\ r.origpath = s.origpath
       => r = s

(* The files below the Shared_with_me of a user of us are those the rows   *)
(* of sharedata put there: nobody uploads there, and no share outlives its *)
(* row.                                                                    *)
SharedDirManaged(v, us) ==
  \A p \in OwnedPaths(v), u \in us :
    Len(p) > 2 => SubSeq(p, 1, 2) # SharedDir(u)

(* The tree is a tree: a path is a directory or a link and not both,       *)
(* everything lies in a directory, and each of the users us keeps a home   *)
(* and a Shared_with_me.                                                   *)
TreeSound(v, us) ==
  /\ v.dirs \cap DOMAIN v.link = {}
  /\ \A p \in Taken(v) : Parent(p) \in v.dirs \cup {<<>>}
  /\ \A u \in us : {Root(u), SharedDir(u)} \subseteq v.dirs

(* The next store file gets a number no row uses, also after the server is *)
(* shut down and started again from filecount.txt.                         *)
NumberFresh ==
  \A k \in FilesIn(vol.filedata) :
    k < vol.filecount /\ (~up => k < countfile)

-----------------------------------------------------------------------------
(* What concerns the store is so for any names that sign up.  What concerns *)
(* links, shares and the tree is so as long as the names are apart; module *)
(* DropboxClaims shows what becomes of it when they are not.               *)
Apart == NamesApart(userdata)

Dedup == OneRowPerFile(vol)
StoreAgrees == StoreMatchesTable(vol)
NoDanglingLink == Apart => LinksLive(vol)
OwnersRight == Apart => OwnersCounted(vol)
SharesSound == Apart => SharesLinked(vol)
SharedDirClean == Apart => SharedDirManaged(vol, userdata)
TreeOK == Apart => TreeSound(vol, userdata)

-----------------------------------------------------------------------------
(* Action properties. *)

SymDiff(S, T) == (S \ T) \cup (T \ S)
ContentAt(v, p) == IF p \in DOMAIN v.link THEN {v.store[v.link[p]]} ELSE {}

Writers(v, p) ==
  {p[1]} \cup {r.sharee : r \in {s \in v.sharedata : s.origpath = p /\ s.perm = 1}}

Namers(rows, p) == {p[1]} \cup {r.sharer : r \in {s \in rows : s.shareepath = p}}

(* What is stored at a path in the home of a user who signed up changes or *)
(* goes away only at the request of that user or of a sharee holding "rw"  *)
(* at that moment: deduplication never lets one user's uploads and         *)
(* removals show through another user's files.                             *)
OnlyWritersChange ==
  [][Apart' =>
       \A p \in OwnedPaths(vol) :
         p[1] \in userdata /\ ContentAt(vol', p) # ContentAt(vol, p) =>
           \A u \in User \ Writers(vol, p) : ~Request(u)]_vars

(* Names in the home of a user who signed up come and go only at the       *)
(* request of that user, or of somebody sharing a file by that name:       *)
(* wherever else the prefix test of checkpath lets a user go, there are no *)
(* homes.                                                                  *)
HomesKept ==
  [][Apart' =>
       \A p \in SymDiff(Taken(vol), Taken(vol')) :
         p[1] \in userdata =>
           \A u \in User \ Namers(vol.sharedata \cup vol'.sharedata, p) : ~Request(u)]_vars

(* A store file is written once: as long as a row names it, its content    *)
(* does not change.                                                        *)
StoreImmutable ==
  [][\A k \in FilesIn(vol.filedata) \cap FilesIn(vol'.filedata) :
       vol'.store[k] = vol.store[k]]_vars
=============================================================================
