------------------------------- MODULE Volume ------------------------------
(***************************************************************************)
(* What the server keeps on disk, and the helpers of server.go that change *)
(* it.  A volume v is a record:                                            *)
(*   dirs       the directories below userfs                               *)
(*   link       symbolic links below userfs: path -> number of store file  *)
(*   store      filestore: number k -> content of ./filestore/filek        *)
(*   filedata   table filedata: filename, filehash, numowners              *)
(*   sharedata  table sharedata: sharer, sharee, origpath, shareepath, perm*)
(*   filecount  the number the next new store file is given                *)
(* SHA-1 is taken to be injective: a file's hash is its content.           *)
(* Each helper maps the volume it finds to the volume it leaves and to     *)
(* what the client makes of the string it returns: "ok" for "", "error"    *)
(* for anything else.                                                      *)
(***************************************************************************)
EXTENDS Paths, Functions

CONSTANT Body     \* contents of files

FileRow == [filename : Nat, filehash : Body, numowners : Nat \ {0}]
ShareRow == [sharer : User, sharee : User, origpath : Path,
             shareepath : Path, perm : {0, 1}]

Result(v, r) == [vol |-> v, reply |-> r]

Without(f, S) == Restrict(f, DOMAIN f \ S)
With(f, x, y) == [z \in DOMAIN f \cup {x} |-> IF z = x THEN y ELSE f[z]]

-----------------------------------------------------------------------------
(* The file system, as the server's calls of package os see it. *)

Taken(v) == v.dirs \cup DOMAIN v.link

\* Mkdir and Symlink fail on an existing name and without a parent directory.
CanCreate(v, p) == p \notin Taken(v) /\ Parent(p) \in v.dirs \cup {<<>>}

\* Stat follows a link: it finds nothing behind a dangling one.
Stat(v, p) == p \in v.dirs \/ (p \in DOMAIN v.link /\ v.link[p] \in DOMAIN v.store)

\* Behind a file there is nothing, but the error Stat gives is ENOTDIR, which
\* os.IsNotExist does not take for "does not exist".
BelowFile(v, p) ==
  \E i \in 1 .. Len(p) - 1 :
    LET q == SubSeq(p, 1, i) IN q \notin v.dirs /\ Stat(v, q)
IsNotExist(v, p) == ~Stat(v, p) /\ ~BelowFile(v, p)

IsEmptyDir(v, p) == p \in v.dirs /\ \A q \in Taken(v) : Parent(q) # p

\* os.Remove takes links and empty directories.
CanRemove(v, p) == p \in DOMAIN v.link \/ IsEmptyDir(v, p)
Removed(v, S) == [v EXCEPT !.link = Without(@, S), !.dirs = @ \ S]

-----------------------------------------------------------------------------
(* The tables. *)

SharesOf(v, sharer, orig) ==
  {r \in v.sharedata : r.sharer = sharer /\ r.origpath = orig}
SharesWith(v, sharer, sharee, orig) ==
  {r \in SharesOf(v, sharer, orig) : r.sharee = sharee}
ShareePaths(rows) == {r.shareepath : r \in rows}

isSharedFile(v, p) ==
  IF \E r \in v.sharedata : r.origpath = p THEN "sharer"
  ELSE IF p \in ShareePaths(v.sharedata) THEN "sharee"
  ELSE ""

\* numowners of store file k; 0 when the query finds no row.
Owners(v, k) ==
  LET rows == {r \in v.filedata : r.filename = k}
  IN  IF rows = {} THEN 0 ELSE (CHOOSE r \in rows : TRUE).numowners

\* The rows a loop of os.Remove gets through: all of them, or those that come
\* before one at whose path there is nothing it can remove.
AllRemovable(v, rows) == \A r \in rows : CanRemove(v, r.shareepath)
Unlinkable(v, rows) ==
  {done \in SUBSET rows :
     AllRemovable(v, done) /\ (done = rows \/ ~AllRemovable(v, rows \ done))}

-----------------------------------------------------------------------------
(* remove: takes a link away, and its store file with the last owner; or   *)
(* removes an empty directory.                                             *)

\* Slip: off by one at the last owner.
HasOwnersAtZero(left) == left >= 0
HasOwners(left) == left > 0

\* Slip: the row goes, the store file stays.
ForgetRow(v, k) == [v EXCEPT !.filedata = {r \in @ : r.filename # k}]
Forget(v, k) == [v EXCEPT !.store = Without(@, {k}),
                          !.filedata = {r \in @ : r.filename # k}]

RemoveLink(v, p) ==
  LET k == v.link[p]
      left == Owners(v, k) - 1
      w == [v EXCEPT !.link = Without(@, {p})]
  IN  IF HasOwners(left)
      THEN Result([w EXCEPT !.filedata =
                     {IF r.filename = k THEN [r EXCEPT !.numowners = left] ELSE r
                        : r \in @}], "ok")
      ELSE IF k \notin DOMAIN v.store THEN Result(w, "error")
      ELSE Result(Forget(w, k), "ok")

\* The user's own Shared_with_me stays.
\* Slip: os.RemoveAll in place of os.Remove.
RemovableTree(v, p, u) == p \in v.dirs /\ p # SharedDir(u)
Removable(v, p, u) == IsEmptyDir(v, p) /\ p # SharedDir(u)

remove(v, p, u) ==
  IF ~checkpath(p, u) THEN Result(v, "error")
  ELSE IF p \in DOMAIN v.link THEN RemoveLink(v, p)
  ELSE IF Removable(v, p, u)
       THEN Result([v EXCEPT !.dirs = @ \ {p}], "ok")
       ELSE Result(v, "error")

-----------------------------------------------------------------------------
(* uploadHelper: a link to a new store file, or to the one that already    *)
(* holds this content.                                                     *)

\* Slip: filecount is not incremented.
StoreNewSameNumber(v, p, b) ==
  LET k == v.filecount
  IN  IF ~CanCreate(v, p) THEN Result(v, "error")
      ELSE Result([v EXCEPT
             !.store = With(@, k, b),
             !.link = With(@, p, k),
             !.filedata = @ \cup {[filename |-> k, filehash |-> b, numowners |-> 1]}],
             "ok")

\* No row has this hash.  The store file is written before the link is tried.
StoreNew(v, p, b) ==
  LET k == v.filecount
      w == [v EXCEPT !.store = With(@, k, b)]
  IN  IF ~CanCreate(v, p) THEN Result(w, "error")
      ELSE Result([w EXCEPT
             !.link = With(@, p, k),
             !.filedata = @ \cup {[filename |-> k, filehash |-> b, numowners |-> 1]},
             !.filecount = @ + 1], "ok")

\* Slip: stored again although a row has this hash.
LinkNewCopy(v, p, b) == StoreNew(v, p, b)

\* Slip: the row's owners are not counted up.
LinkUncounted(v, p, b) ==
  LET row == CHOOSE r \in v.filedata : r.filehash = b
  IN  IF ~CanCreate(v, p) THEN Result(v, "error")
      ELSE Result([v EXCEPT !.link = With(@, p, row.filename)], "error")

\* A row has this hash.  The function falls through to its last line, which
\* returns "End of uploadHelper".
LinkExisting(v, p, b) ==
  LET row == CHOOSE r \in v.filedata : r.filehash = b
  IN  IF ~CanCreate(v, p) THEN Result(v, "error")
      ELSE Result([v EXCEPT
             !.link = With(@, p, row.filename),
             !.filedata = {IF r.filehash = b
                           THEN [r EXCEPT !.numowners = row.numowners + 1]
                           ELSE r : r \in @}], "error")

uploadHelper(v, p, u, b) ==
  IF InShared(p, u) THEN Result(v, "error")
  ELSE LET w == IF Stat(v, p) THEN remove(v, p, u).vol ELSE v
       IN  IF \E r \in w.filedata : r.filehash = b
           THEN LinkExisting(w, p, b)
           ELSE StoreNew(w, p, b)

-----------------------------------------------------------------------------
(* sharerUpload: unlink every sharee, upload for the sharer, link every    *)
(* sharee to the new store file.  done is in Unlinkable.                   *)

\* Slip: the sharees' links are not made again.
RelinkNobody(v, orig, rows) == v
Relink(v, orig, rows) ==
  LET made == {q \in ShareePaths(rows) : CanCreate(v, q)}
  IN  [v EXCEPT !.link = [q \in DOMAIN @ \cup made |->
                            IF q \in made THEN @[orig] ELSE @[q]]]

sharerUpload(v, sharer, orig, b, done) ==
  LET rows == SharesOf(v, sharer, orig)
      unlinked == Removed(v, ShareePaths(done))
      w == uploadHelper(unlinked, orig, sharer, b).vol
  IN  IF done # rows THEN Result(unlinked, "error")
      ELSE IF orig \notin DOMAIN w.link THEN Result(w, "error")
      ELSE Result(Relink(w, orig, rows), "ok")
=============================================================================
