----------------------------- MODULE DriveProofs ----------------------------
(***************************************************************************)
(* The server implements Drive, for any users, paths, contents and bounds: *)
(* the initial state maps to a drive's, and every step of the server is a  *)
(* step of the drive or leaves it as it is.  The drive's files are read    *)
(* off the volume by FileContents, so each lemma says which of the drive's *)
(* operations a handler is, and which of its outcomes.                     *)
(***************************************************************************)
EXTENDS SharingProofs, DropboxDrive

-----------------------------------------------------------------------------
(* The drive's view of the volume. *)

LEMMA SamePaths ==
  ASSUME NEW p, NEW u
  PROVE  /\ Abstract!checkpath(p, u) <=> checkpath(p, u)
         /\ Abstract!InShared(p, u) <=> InShared(p, u)
         /\ Abstract!Parent(p) = Parent(p)
         /\ Abstract!Root(u) = Root(u) /\ Abstract!SharedDir(u) = SharedDir(u)
  BY DEF Abstract!checkpath, Abstract!InShared, Abstract!HasPrefix, Abstract!Parent,
         Abstract!Root, Abstract!SharedDir, checkpath, InShared, HasPrefix, Parent,
         Root, SharedDir

LEMMA SameReceivedAs ==
  ASSUME NEW sharee, NEW p, NEW i
  PROVE  Append(Abstract!SharedDir(sharee), Abstract!Candidate(i, Abstract!Base(p)))
           = ReceivedAs(sharee, p, i)
  BY DEF Abstract!SharedDir, Abstract!Candidate, Abstract!Base, ReceivedAs, SharedDir,
         Candidate, Base

LEMMA SameRows ==
  ASSUME NEW u, NEW sharee, NEW p
  PROVE  /\ Abstract!Shared(u, p) = SharesOf(vol, u, p)
         /\ Abstract!SharedTo(u, sharee, p) = SharesWith(vol, u, sharee, p)
         /\ Abstract!Received = ShareePaths(vol.sharedata)
  BY DEF Abstract!Shared, Abstract!SharedTo, Abstract!Received, SharesOf, SharesWith,
         ShareePaths

(* What the drive relies on beyond the server's invariant: a sharee has    *)
(* signed up, and the file shared is not itself below Shared_with_me.      *)
RowsKnown ==
  \A r \in vol.sharedata : r.sharee \in userdata /\ ~InShared(r.origpath, r.sharer)

DriveInv == ServerInv /\ RowsKnown

(* Every link of an owner leads to a stored file, so the drive has a file  *)
(* at each of them.                                                        *)
LEMMA FilesOf ==
  ASSUME NEW v, NEW us, VolumeInv(v, us)
  PROVE  /\ DOMAIN FileContents(v) = OwnedPaths(v)
         /\ \A p \in OwnedPaths(v) : FileContents(v)[p] = v.store[v.link[p]]
         /\ \A p \in DOMAIN v.link : v.link[p] \in FilesIn(v.filedata)
         /\ \A p \in DOMAIN v.link : v.link[p] \in DOMAIN v.store
<1>1. /\ \A p \in DOMAIN v.link : v.link[p] \in FilesIn(v.filedata)
      /\ FilesIn(v.filedata) \subseteq DOMAIN v.store
  BY DEF VolumeInv, LinkInv, LinksLive, StoreInv, StoreMatchesTable
<1>2. {q \in OwnedPaths(v) : v.link[q] \in DOMAIN v.store} = OwnedPaths(v)
  BY <1>1 DEF OwnedPaths
<1> QED
  BY <1>1, <1>2 DEF FileContents

(* A drive's names are the volume's. *)
LEMMA SameNames ==
  ASSUME ServerInv
  PROVE  /\ Abstract!Names = Taken(vol)
         /\ DOMAIN FileContents(vol) = OwnedPaths(vol)
         /\ DOMAIN vol.link = OwnedPaths(vol) \cup ShareePaths(vol.sharedata)
         /\ \A p : Abstract!EmptyDir(p) <=> IsEmptyDir(vol, p)
         /\ \A p : Stat(vol, p) <=> p \in Taken(vol)
<1>1. /\ DOMAIN FileContents(vol) = OwnedPaths(vol)
      /\ \A p \in DOMAIN vol.link : vol.link[p] \in DOMAIN vol.store
  BY Standing, FilesOf
<1>2. DOMAIN vol.link = OwnedPaths(vol) \cup ShareePaths(vol.sharedata)
  BY Standing DEF OwnedPaths, ShareePaths, ShareLinked
<1>3. Abstract!Names = Taken(vol)
  BY <1>1, <1>2, SameRows DEF Abstract!Names, Taken
<1>4. \A p : Abstract!EmptyDir(p) <=> IsEmptyDir(vol, p)
  BY <1>3, SamePaths DEF Abstract!EmptyDir, IsEmptyDir
<1>5. \A p : Stat(vol, p) <=> p \in Taken(vol)
  BY <1>1 DEF Stat, Taken
<1> QED
  BY <1>1, <1>2, <1>3, <1>4, <1>5

LEMMA SameExists ==
  ASSUME ServerInv, NEW p
  PROVE  p \in Abstract!Names \/ Abstract!UnderFile(p) <=> ~IsNotExist(vol, p)
<1>1. /\ Abstract!Names = Taken(vol)
      /\ \A q : Stat(vol, q) <=> q \in Taken(vol)
  BY SameNames
<1> QED
  BY <1>1 DEF IsNotExist, BelowFile, Abstract!UnderFile

(* Where a name may be made. *)
LEMMA SameFree ==
  ASSUME ServerInv, NEW p
  PROVE  Abstract!Free(p) <=> CanCreate(vol, p)
  BY SameNames, SamePaths DEF Abstract!Free, CanCreate

(* What lies in a Shared_with_me is below it, for its user's requests. *)
LEMMA ReceivedInside ==
  ASSUME ServerInv, NEW r \in vol.sharedata
  PROVE  InShared(r.shareepath, r.sharee) /\ r.shareepath[1] = r.sharee
<1>1. /\ r.sharee \in User /\ r.shareepath \in Path /\ Len(r.shareepath) = 3
      /\ r.shareepath[1] = r.sharee /\ r.shareepath[2] = SharedName
  BY Standing, SharedDirOf
<1> QED
  BY <1>1, InSharedDir

-----------------------------------------------------------------------------
(* Contents that stay. *)

LEMMA SameContent ==
  ASSUME ServerInv, Apart', [Next]_vars, NEW p \in OwnedPaths(vol), p \in OwnedPaths(vol'),
         vol'.link[p] = vol.link[p]
  PROVE  FileContents(vol')[p] = FileContents(vol)[p]
<1>1. VolumeInv(vol, userdata) /\ VolumeInv(vol', userdata')
  BY ServerStep DEF ServerInv
<1>2. /\ vol.link[p] \in FilesIn(vol.filedata) /\ vol'.link[p] \in FilesIn(vol'.filedata)
      /\ FileContents(vol)[p] = vol.store[vol.link[p]]
      /\ FileContents(vol')[p] = vol'.store[vol'.link[p]]
  BY <1>1, FilesOf DEF OwnedPaths
<1>3. vol'.store[vol.link[p]] = vol.store[vol.link[p]]
  BY <1>2, FileKept DEF ServerInv
<1> QED
  BY <1>2, <1>3

LEMMA SameFiles ==
  ASSUME ServerInv, Apart', [Next]_vars, OwnedPaths(vol') = OwnedPaths(vol),
         \A p \in OwnedPaths(vol) : vol'.link[p] = vol.link[p]
  PROVE  FileContents(vol') = FileContents(vol)
<1>1. /\ DOMAIN FileContents(vol) = OwnedPaths(vol)
      /\ DOMAIN FileContents(vol') = OwnedPaths(vol')
  BY ServerStep, FilesOf DEF ServerInv
<1>2. \A p \in OwnedPaths(vol) : FileContents(vol')[p] = FileContents(vol)[p]
  BY SameContent
<1>3. \A v : FileContents(v) = [p \in DOMAIN FileContents(v) |-> FileContents(v)[p]]
  BY DEF FileContents
<1> QED
  BY <1>1, <1>2, <1>3

-----------------------------------------------------------------------------
(* What an upload leaves at its path. *)

(* An upload to p succeeds: there is a link to replace, an empty directory *)
(* to remove, or nothing and a directory around it.                        *)
Placeable(v, p) == p \in DOMAIN v.link \/ IsEmptyDir(v, p) \/ CanCreate(v, p)

PutAt(v, x, p, b) ==
  /\ x.dirs = v.dirs \ {p}
  /\ DOMAIN x.link = DOMAIN v.link \cup {p}
  /\ \A q \in DOMAIN v.link \ {p} : x.link[q] = v.link[q]
  /\ x.store[x.link[p]] = b

(* A new link leads to the content uploaded, stored before or now. *)
LEMMA NewLinkContent ==
  ASSUME NEW w, StoreInv(w), NEW p, NEW b, CanCreate(w, p)
  PROVE  LET x == IF \E r \in w.filedata : r.filehash = b
                  THEN LinkExisting(w, p, b).vol ELSE StoreNew(w, p, b).vol
         IN  x.store[x.link[p]] = b
<1>0. VolumeType(w) /\ StoreMatchesTable(w)
  BY DEF StoreInv
<1>1. CASE \E r \in w.filedata : r.filehash = b
  <2> DEFINE row == CHOOSE r \in w.filedata : r.filehash = b
             x == LinkExisting(w, p, b).vol
  <2>1. row \in w.filedata /\ row.filehash = b
    BY <1>1
  <2>2. x.store = w.store /\ x.link = With(w.link, p, row.filename)
    BY <1>0 DEF LinkExisting, Result, VolumeType
  <2> HIDE DEF row, x
  <2>3. x.link[p] = row.filename /\ w.store[row.filename] = b
    BY <1>0, <2>1, <2>2 DEF With, StoreMatchesTable
  <2> QED
    BY <1>1, <2>2, <2>3 DEF x
<1>2. CASE ~\E r \in w.filedata : r.filehash = b
  <2> DEFINE x == StoreNew(w, p, b).vol
  <2>1. /\ x.store = With(w.store, w.filecount, b)
        /\ x.link = With(w.link, p, w.filecount)
    BY <1>0 DEF StoreNew, Result, VolumeType
  <2> HIDE DEF x
  <2>2. x.store[x.link[p]] = b
    BY <2>1 DEF With
  <2> QED
    BY <1>2, <2>2 DEF x
<1> QED
  BY <1>1, <1>2

(* What is left of v when there is room for the link. *)
LEMMA Cleared ==
  ASSUME NEW v, NEW us, TreeSound(v, us), VolumeType(v), NEW u, NEW p,
         checkpath(p, u), p # SharedDir(u), Stat(v, p) <=> p \in Taken(v)
  PROVE  LET w == IF Stat(v, p) THEN remove(v, p, u).vol ELSE v
         IN  /\ CanCreate(w, p) <=> Placeable(v, p)
             /\ IF Placeable(v, p)
                THEN /\ w.dirs = v.dirs \ {p}
                     /\ DOMAIN w.link = DOMAIN v.link \ {p}
                     /\ \A q \in DOMAIN w.link : w.link[q] = v.link[q]
                ELSE SameShape(v, w)
<1> DEFINE w == IF Stat(v, p) THEN remove(v, p, u).vol ELSE v
<1>0. /\ v.dirs \cap DOMAIN v.link = {}
      /\ p \in Taken(v) => Parent(p) \in v.dirs \cup {<<>>}
  BY DEF TreeSound
<1>1. CASE p \in DOMAIN v.link
  <2>1. Stat(v, p) /\ remove(v, p, u) = RemoveLink(v, p)
    BY <1>1 DEF remove, Taken
  <2>2. w.link = Without(v.link, {p}) /\ w.dirs = v.dirs
    BY <1>1, <2>1, RemoveLinkShape
  <2> HIDE DEF w
  <2>3. /\ DOMAIN w.link = DOMAIN v.link \ {p}
        /\ \A q \in DOMAIN w.link : w.link[q] = v.link[q]
    BY <2>2 DEF Without, Restrict
  <2>4. Placeable(v, p) /\ p \notin v.dirs /\ Parent(p) \in v.dirs \cup {<<>>}
    BY <1>0, <1>1 DEF Placeable, Taken
  <2>5. CanCreate(w, p)
    BY <2>2, <2>3, <2>4 DEF CanCreate, Taken
  <2>6. w.dirs = v.dirs \ {p}
    BY <2>2, <2>4
  <2> QED
    BY <2>3, <2>4, <2>5, <2>6 DEF w
<1>2. CASE IsEmptyDir(v, p)
  <2>1. /\ p \in v.dirs /\ p \notin DOMAIN v.link /\ Parent(p) # p
        /\ Parent(p) \in v.dirs \cup {<<>>} /\ Stat(v, p)
    BY <1>0, <1>2 DEF IsEmptyDir, Taken
  <2>2. w = [v EXCEPT !.dirs = @ \ {p}]
    BY <1>2, <2>1 DEF remove, Removable, Result
  <2>3. w.dirs = v.dirs \ {p} /\ w.link = v.link
    BY <2>2 DEF VolumeType
  <2> HIDE DEF w
  <2>4. Placeable(v, p) /\ CanCreate(w, p)
    BY <1>2, <2>1, <2>3 DEF Placeable, CanCreate, Taken
  <2>5. DOMAIN w.link = DOMAIN v.link \ {p} /\ \A q \in DOMAIN w.link : w.link[q] = v.link[q]
    BY <2>1, <2>3
  <2> QED
    BY <2>3, <2>4, <2>5 DEF w
<1>3. CASE p \notin DOMAIN v.link /\ ~IsEmptyDir(v, p)
  <2>1. w = v
    BY <1>3 DEF remove, Removable, Result
  <2>2. CanCreate(v, p) <=> Placeable(v, p)
    BY <1>3 DEF Placeable
  <2>3. CanCreate(v, p) => p \notin v.dirs /\ p \notin DOMAIN v.link
    BY DEF CanCreate, Taken
  <2> HIDE DEF w
  <2>4. SameShape(v, w)
    BY <2>1 DEF SameShape
  <2>5. CASE CanCreate(v, p)
    <3>1. v.dirs = v.dirs \ {p} /\ DOMAIN v.link = DOMAIN v.link \ {p}
      BY <2>3, <2>5
    <3> QED
      BY <2>1, <2>2, <2>5, <3>1 DEF w
  <2>6. CASE ~CanCreate(v, p)
    BY <2>1, <2>2, <2>4, <2>6 DEF w
  <2> QED
    BY <2>5, <2>6
<1> QED
  BY <1>1, <1>2, <1>3

LEMMA UploadPlaces ==
  ASSUME NEW v, NEW us, NEW open, LinkInv(v, open), TreeSound(v, us), NEW u \in User,
         NEW p \in Path, checkpath(p, u), ~InShared(p, u), NEW b \in Body
  PROVE  LET x == uploadHelper(v, p, u, b).vol
         IN  IF Placeable(v, p) THEN PutAt(v, x, p, b) ELSE SameShape(v, x)
<1> DEFINE w == IF Stat(v, p) THEN remove(v, p, u).vol ELSE v
           x == uploadHelper(v, p, u, b).vol
<1>0. StoreInv(v) /\ VolumeType(v)
  BY DEF LinkInv, StoreInv
<1>1. Stat(v, p) <=> p \in Taken(v)
  BY <1>0 DEF LinkInv, LinksLive, StoreInv, StoreMatchesTable, Stat, Taken
<1>2. p # SharedDir(u)
  BY SharedDirShape, InSharedDir
<1>3. /\ CanCreate(w, p) <=> Placeable(v, p)
      /\ IF Placeable(v, p)
         THEN /\ w.dirs = v.dirs \ {p}
              /\ DOMAIN w.link = DOMAIN v.link \ {p}
              /\ \A q \in DOMAIN w.link : w.link[q] = v.link[q]
         ELSE SameShape(v, w)
  BY <1>0, <1>1, <1>2, Cleared
<1>4. IF CanCreate(w, p) THEN LinkMade(w, x, p) ELSE SameShape(w, x)
  BY <1>0, UploadHelperShape
<1>5. StoreInv(w)
  BY <1>0, RemoveStore
<1>6. x = IF \E r \in w.filedata : r.filehash = b
          THEN LinkExisting(w, p, b).vol ELSE StoreNew(w, p, b).vol
  BY DEF uploadHelper
<1> HIDE DEF w
<1>7. CanCreate(w, p) => x.store[x.link[p]] = b
  BY <1>5, <1>6, NewLinkContent
<1> HIDE DEF x
<1>8. CASE Placeable(v, p)
  <2>1. LinkMade(w, x, p) /\ x.store[x.link[p]] = b /\ p \notin DOMAIN w.link
    BY <1>3, <1>4, <1>7, <1>8 DEF CanCreate, Taken
  <2>2. PICK k : w.dirs = x.dirs /\ x.link = With(w.link, p, k)
    BY <2>1 DEF LinkMade
  <2>3. DOMAIN x.link = DOMAIN w.link \cup {p} /\ \A q \in DOMAIN w.link : x.link[q] = w.link[q]
    BY <2>1, <2>2 DEF With
  <2>4. PutAt(v, x, p, b)
    BY <1>3, <1>8, <2>1, <2>2, <2>3 DEF PutAt
  <2> QED
    BY <1>8, <2>4 DEF x
<1>9. CASE ~Placeable(v, p)
  <2>1. SameShape(v, x)
    BY <1>3, <1>4, <1>9 DEF SameShape
  <2> QED
    BY <1>9, <2>1 DEF x
<1> QED
  BY <1>8, <1>9

(* After sharerUpload the sharer's file, and so everybody's, is the one    *)
(* uploaded.                                                               *)
LEMMA SharerUploadContent ==
  ASSUME NEW v, NEW us, VolumeInv(v, us), NEW row \in v.sharedata,
         ~InShared(row.origpath, row.sharer), NEW b \in Body,
         NEW done \in Unlinkable(v, SharesOf(v, row.sharer, row.origpath))
  PROVE  LET x == sharerUpload(v, row.sharer, row.origpath, b, done).vol
         IN  x.store[x.link[row.origpath]] = b
<1> DEFINE sharer == row.sharer
           orig == row.origpath
           rows == SharesOf(v, sharer, orig)
           unlinked == Removed(v, ShareePaths(done))
           w == uploadHelper(unlinked, orig, sharer, b).vol
           x == sharerUpload(v, sharer, orig, b, done).vol
<1>0. /\ LinkInv(v, {}) /\ VolumeType(v) /\ RowsApart(v) /\ TreeSound(v, us)
      /\ orig \in Path /\ sharer \in User
      /\ \A r \in v.sharedata : ShareLinked(v, r)
  BY DEF VolumeInv, LinkInv, StoreInv, VolumeType, ShareRow
<1>1. rows \in SUBSET v.sharedata
  BY DEF SharesOf
<1>2. done = rows
  BY <1>0, <1>1, RowsRemovable
<1>3. /\ LinkInv(unlinked, rows)
      /\ unlinked.dirs = v.dirs
      /\ DOMAIN unlinked.link = DOMAIN v.link \ ShareePaths(rows)
  <2> DEFINE y == Removed(v, ShareePaths(rows))
  <2> HIDE DEF rows
  <2>1. /\ LinkInv(y, rows) /\ y.dirs = v.dirs
        /\ DOMAIN y.link = DOMAIN v.link \ ShareePaths(rows)
    BY <1>0, <1>1, UnlinkInv DEF TreeSound
  <2>2. unlinked = y
    BY <1>2
  <2> HIDE DEF unlinked, y
  <2> QED
    BY <2>1, <2>2
<1>4. /\ orig \in DOMAIN unlinked.link /\ checkpath(orig, sharer)
      /\ orig \notin ShareePaths(rows)
  <2>1. orig \in OwnedPaths(v) /\ checkpath(orig, sharer)
    BY <1>0 DEF ShareLinked
  <2> QED
    BY <1>1, <1>3, <2>1 DEF OwnedPaths, ShareePaths
<1>5. sharerUpload(v, sharer, orig, b, done).vol =
        IF orig \notin DOMAIN w.link THEN w ELSE Relink(w, orig, rows)
  BY <1>2 DEF sharerUpload, Result
<1> HIDE DEF unlinked, rows
<1>6. TreeSound(unlinked, us)
  BY <1>0, <1>3 DEF TreeSound, Taken
<1>7. PutAt(unlinked, w, orig, b)
  BY <1>0, <1>3, <1>4, <1>6, UploadPlaces DEF Placeable
<1>8. VolumeType(w)
  BY <1>0, <1>3, UploadHelperType DEF LinkInv, StoreInv
<1> HIDE DEF w
<1>9. x = Relink(w, orig, rows)
  BY <1>4, <1>5, <1>7 DEF PutAt
<1>10. x.store = w.store /\ x.link[orig] = w.link[orig]
  BY <1>4, <1>7, <1>8, <1>9 DEF Relink, PutAt, VolumeType
<1> QED
  BY <1>7, <1>10 DEF PutAt

-----------------------------------------------------------------------------
(* What becomes of the drive's files. *)

LEMMA PutMaps ==
  ASSUME ServerInv, Apart', [Next]_vars, NEW p, NEW b,
         OwnedPaths(vol') = OwnedPaths(vol) \cup {p},
         \A q \in OwnedPaths(vol) \ {p} : vol'.link[q] = vol.link[q],
         vol'.store[vol'.link[p]] = b,
         vol'.dirs = vol.dirs \ {p}, vol'.sharedata = vol.sharedata,
         reply' \in {"ok", "error"}, UNCHANGED <<userdata, Cookiemap, up>>
  PROVE  Abstract!Put(p, b)
<1> DEFINE old == FileContents(vol)
           new == FileContents(vol')
<1>1. /\ DOMAIN old = OwnedPaths(vol)
      /\ DOMAIN new = OwnedPaths(vol')
      /\ \A q \in OwnedPaths(vol') : new[q] = vol'.store[vol'.link[q]]
  BY ServerStep, FilesOf DEF ServerInv
<1>2. \A q \in OwnedPaths(vol) \ {p} : new[q] = old[q]
  BY SameContent
<1>3. new = [q \in DOMAIN new |-> new[q]]
  BY DEF FileContents
<1>4. new[p] = b
  BY <1>1
<1> HIDE DEF new, old
<1>5. new = [q \in DOMAIN old \cup {p} |-> IF q = p THEN b ELSE old[q]]
  BY <1>1, <1>2, <1>3, <1>4
<1> QED
  BY <1>5 DEF Abstract!Put, Abstract!Done, Abstract!Say, new, old

LEMMA GoneMaps ==
  ASSUME ServerInv, Apart', [Next]_vars, NEW p,
         OwnedPaths(vol') = OwnedPaths(vol) \ {p},
         \A q \in OwnedPaths(vol') : vol'.link[q] = vol.link[q]
  PROVE  FileContents(vol')
           = Abstract!Restrict(FileContents(vol), DOMAIN FileContents(vol) \ {p})
<1> DEFINE old == FileContents(vol)
           new == FileContents(vol')
<1>1. DOMAIN old = OwnedPaths(vol) /\ DOMAIN new = OwnedPaths(vol')
  BY ServerStep, FilesOf DEF ServerInv
<1>2. \A q \in OwnedPaths(vol') : new[q] = old[q]
  BY SameContent
<1>3. new = [q \in DOMAIN new |-> new[q]]
  BY DEF FileContents
<1> HIDE DEF new, old
<1>4. new = Abstract!Restrict(old, DOMAIN old \ {p})
  BY <1>1, <1>2, <1>3 DEF Abstract!Restrict
<1> QED
  BY <1>4 DEF new, old

-----------------------------------------------------------------------------
(* Each handler is an operation of the drive.  A refused request is one    *)
(* that the drive refuses.                                                 *)

LEMMA RefuseMaps ==
  ASSUME Refuse("error")
  PROVE  Abstract!Refuse
  BY DEF Refuse, Abstract!Refuse, Abstract!Say, Abstract!tree

LEMMA SameActive ==
  ASSUME NEW u, up, checkCookie(u)
  PROVE  Abstract!Active(u) /\ u \in userdata
  BY DEF checkCookie, Abstract!Active

LEMMA SignupMaps ==
  ASSUME DriveInv, NEW u \in User, NEW ok, signupHandler(u, ok)
  PROVE  Abstract!Signup(u)
<1>1. CASE SignupRefused(u, ok)
  BY <1>1, RefuseMaps DEF signupHandler, Abstract!Signup
<1>2. CASE ~SignupRefused(u, ok)
  <2>1. /\ up /\ u \notin userdata /\ userdata' = userdata \cup {u}
        /\ vol' = [vol EXCEPT !.dirs = @ \cup {Root(u), SharedDir(u)}]
        /\ reply' = "ok" /\ UNCHANGED <<Cookiemap, up>>
    BY <1>2 DEF signupHandler, SignupRefused
  <2>2. /\ vol'.dirs = vol.dirs \cup {Root(u), SharedDir(u)}
        /\ vol'.link = vol.link /\ vol'.store = vol.store /\ vol'.sharedata = vol.sharedata
    BY <2>1, Standing DEF VolumeType, DriveInv
  <2>3. FileContents(vol') = FileContents(vol)
    BY <2>2 DEF FileContents, OwnedPaths
  <2> QED
    BY <2>1, <2>2, <2>3, SamePaths DEF Abstract!Signup
<1> QED
  BY <1>1, <1>2

LEMMA LoginMaps ==
  ASSUME NEW u \in User, NEW ok, authenticateHandler(u, ok)
  PROVE  Abstract!Login(u)
<1>1. CASE Refuse("error")
  BY <1>1, RefuseMaps DEF authenticateHandler, Abstract!Login
<1>2. CASE u \in userdata /\ ok
  BY <1>2 DEF authenticateHandler, Abstract!Login
<1> QED
  BY <1>1, <1>2 DEF authenticateHandler

(* The requests that change nothing on the volume. *)
LEMMA PwdMaps ==
  ASSUME NEW u, pwdHandler(u)
  PROVE  Abstract!PWD(u)
  BY SameActive DEF pwdHandler, Refuse, Abstract!PWD, Abstract!Say, Abstract!tree

LEMMA ListMaps ==
  ASSUME NEW u, NEW p, listHandler(u, p)
  PROVE  Abstract!List(u, p)
  BY SameActive, SamePaths
  DEF listHandler, Refuse, Abstract!List, Abstract!Say, Abstract!tree

LEMMA CdMaps ==
  ASSUME DriveInv, NEW u, NEW p, cdHandler(u, p)
  PROVE  Abstract!CD(u, p)
  BY SameActive, SamePaths, SameExists
  DEF DriveInv, cdHandler, Refuse, Abstract!CD, Abstract!Say, Abstract!tree

(* The content read at a path is that of the owner's file, read at its own *)
(* name or at the name a sharee has for it.                                *)
LEMMA SameOrigin ==
  ASSUME ServerInv, NEW p
  PROVE  /\ Abstract!Origin(p) # {} <=> p \in DOMAIN vol.link
         /\ \A q \in Abstract!Origin(p) : FileContents(vol)[q] = vol.store[vol.link[p]]
<1>1. /\ DOMAIN FileContents(vol) = OwnedPaths(vol)
      /\ DOMAIN vol.link = OwnedPaths(vol) \cup ShareePaths(vol.sharedata)
      /\ \A q \in OwnedPaths(vol) : FileContents(vol)[q] = vol.store[vol.link[q]]
  BY SameNames, Standing, FilesOf
<1>2. ASSUME NEW q \in Abstract!Origin(p)
      PROVE  p \in DOMAIN vol.link /\ FileContents(vol)[q] = vol.store[vol.link[p]]
  <2>1. CASE q = p
    BY <1>1, <1>2, <2>1 DEF Abstract!Origin
  <2>2. CASE q # p
    <3>1. PICK r \in vol.sharedata : r.shareepath = p /\ r.origpath = q
      BY <1>2, <2>2 DEF Abstract!Origin
    <3>2. ShareLinked(vol, r)
      BY Standing
    <3> QED
      BY <1>1, <3>1, <3>2 DEF ShareLinked
  <2> QED
    BY <2>1, <2>2
<1>3. ASSUME p \in DOMAIN vol.link PROVE Abstract!Origin(p) # {}
  <2>1. CASE p \in OwnedPaths(vol)
    BY <1>1, <2>1 DEF Abstract!Origin
  <2>2. CASE p \in ShareePaths(vol.sharedata)
    <3>1. PICK r \in vol.sharedata : r.shareepath = p
      BY <2>2 DEF ShareePaths
    <3>2. r.origpath \in OwnedPaths(vol)
      BY Standing DEF ShareLinked
    <3>3. r.origpath \in Abstract!Origin(p)
      BY <1>1, <3>1, <3>2 DEF Abstract!Origin
    <3> QED
      BY <3>3
  <2> QED
    BY <1>1, <1>3, <2>1, <2>2
<1> QED
  BY <1>2, <1>3

LEMMA DownloadMaps ==
  ASSUME DriveInv, NEW u, NEW p, downloadHandler(u, p)
  PROVE  Abstract!Download(u, p)
<1>1. /\ Abstract!Origin(p) # {} <=> p \in DOMAIN vol.link
      /\ \A q \in Abstract!Origin(p) : FileContents(vol)[q] = vol.store[vol.link[p]]
  BY SameOrigin DEF DriveInv
<1>2. Abstract!Active(u) /\ (Abstract!checkpath(p, u) <=> checkpath(p, u))
  BY SameActive, SamePaths DEF downloadHandler
<1>3. CASE ~(checkpath(p, u) /\ p \in DOMAIN vol.link)
  <2>1. Refuse("error")
    BY <1>3 DEF downloadHandler
  <2> QED
    BY <1>1, <1>2, <1>3, <2>1, RefuseMaps DEF Abstract!Download
<1>4. CASE checkpath(p, u) /\ p \in DOMAIN vol.link
  <2>1. vol.link[p] \in DOMAIN vol.store
    BY <1>4, Standing, FilesOf DEF DriveInv
  <2>2. Refuse(vol.store[vol.link[p]])
    BY <1>4, <2>1 DEF downloadHandler
  <2>3. PICK q : q \in Abstract!Origin(p)
    BY <1>1, <1>4
  <2>4. Abstract!Say(FileContents(vol)[q]) /\ UNCHANGED Abstract!tree
    BY <1>1, <2>2, <2>3 DEF Refuse, Abstract!Say, Abstract!tree
  <2> QED
    BY <1>1, <1>2, <1>4, <2>3, <2>4 DEF Abstract!Download
<1> QED
  BY <1>3, <1>4

LEMMA MkdirMaps ==
  ASSUME DriveInv, NEW u \in User, NEW p \in InputPath, mkdirHandler(u, p)
  PROVE  Abstract!Mkdir(u, p)
<1>1. Abstract!Active(u) /\ u \in userdata /\ (Abstract!checkpath(p, u) <=> checkpath(p, u))
  BY SameActive, SamePaths DEF mkdirHandler
<1>2. Abstract!Free(p) <=> CanCreate(vol, p)
  BY SameFree DEF DriveInv
<1>3. CASE Refuse("error") /\ ~(checkpath(p, u) /\ CanCreate(vol, p))
  BY <1>1, <1>2, <1>3, RefuseMaps DEF Abstract!Mkdir
<1>4. CASE /\ checkpath(p, u) /\ CanCreate(vol, p)
           /\ Answer(Result([vol EXCEPT !.dirs = @ \cup {p}], "ok"))
  <2>1. /\ vol' = [vol EXCEPT !.dirs = @ \cup {p}]
        /\ reply' = "ok" /\ UNCHANGED <<userdata, Cookiemap, up>>
    BY <1>4 DEF Answer, Result
  <2>2. /\ vol'.dirs = vol.dirs \cup {p}
        /\ vol'.link = vol.link /\ vol'.store = vol.store /\ vol'.sharedata = vol.sharedata
    BY <2>1, Standing DEF VolumeType, DriveInv
  <2>3. FileContents(vol') = FileContents(vol)
    BY <2>2 DEF FileContents, OwnedPaths
  <2> QED
    BY <1>1, <1>2, <1>4, <2>1, <2>2, <2>3 DEF Abstract!Mkdir, Abstract!Say
<1> QED
  BY <1>3, <1>4 DEF mkdirHandler

-----------------------------------------------------------------------------
(* Uploads. *)

(* A file is stored for its owner where the server can place it.           *)
LEMMA SameStorable ==
  ASSUME DriveInv, NEW u, NEW p, checkpath(p, u),
         p \notin ShareePaths(vol.sharedata)
  PROVE  Abstract!Storable(u, p) <=> ~InShared(p, u) /\ Placeable(vol, p)
<1>1. /\ DOMAIN FileContents(vol) = OwnedPaths(vol)
      /\ Abstract!EmptyDir(p) <=> IsEmptyDir(vol, p)
      /\ Abstract!Free(p) <=> CanCreate(vol, p)
  BY SameNames, SameFree DEF DriveInv
<1>2. p \in OwnedPaths(vol) <=> p \in DOMAIN vol.link
  BY DEF OwnedPaths
<1> QED
  BY <1>1, <1>2, SamePaths DEF Abstract!Storable, Placeable

(* At a sharee's path nothing is stored for the sharee itself.             *)
LEMMA ReceivedNotStorable ==
  ASSUME DriveInv, NEW u \in userdata, NEW p \in Path, checkpath(p, u),
         p \in ShareePaths(vol.sharedata)
  PROVE  InShared(p, u) /\ ~Abstract!Storable(u, p)
<1>1. PICK r \in vol.sharedata : r.shareepath = p
  BY DEF ShareePaths
<1>2. InShared(p, u)
  BY <1>1, ReceivedInside, ShareeOf DEF DriveInv
<1> QED
  BY <1>2, SamePaths DEF Abstract!Storable

LEMMA NotWritable ==
  ASSUME NEW u, NEW p, \A r \in vol.sharedata : r.shareepath = p /\ r.sharee = u => r.perm = 0
  PROVE  Abstract!Writable(u, p) = {}
  BY DEF Abstract!Writable, Abstract!ReceivedBy

LEMMA UploadPlainMaps ==
  ASSUME DriveInv, Apart', [Next]_vars, NEW u \in User, NEW p \in InputPath, NEW b \in Body,
         up, checkCookie(u), checkpath(p, u), UploadPlain(u, p, b)
  PROVE  Abstract!Upload(u, p, b)
<1> DEFINE res == uploadHelper(vol, p, u, b)
<1>0. /\ VolumeInv(vol, userdata) /\ VolumeType(vol) /\ TreeSound(vol, userdata)
      /\ LinkInv(vol, {})
  BY Standing DEF DriveInv, VolumeInv
<1>1. Abstract!Active(u) /\ u \in userdata
  BY SameActive
<1>2. /\ p \in Path /\ p \notin ShareePaths(vol.sharedata)
      /\ \A r \in vol.sharedata : r.shareepath # p
  BY Standing DEF DriveInv, UploadPlain, isSharedFile, ShareePaths
<1>3. Abstract!Storable(u, p) <=> ~InShared(p, u) /\ Placeable(vol, p)
  BY <1>1, <1>2, SameStorable
<1>4. Abstract!Writable(u, p) = {}
  BY <1>2, NotWritable
<1>5. /\ vol' = res.vol /\ reply' = res.reply
      /\ UNCHANGED <<userdata, Cookiemap, up>>
  BY DEF UploadPlain, Stored, Answer
<1>6. CASE InShared(p, u)
  <2>1. res = Result(vol, "error")
    BY <1>6 DEF uploadHelper
  <2>2. Abstract!Refuse
    BY <1>5, <2>1 DEF Result, Abstract!Refuse, Abstract!Say, Abstract!tree
  <2> QED
    BY <1>1, <1>3, <1>4, <1>6, <2>2 DEF Abstract!Upload
<1>7. CASE ~InShared(p, u)
  <2>1. IF Placeable(vol, p) THEN PutAt(vol, res.vol, p, b) ELSE SameShape(vol, res.vol)
    BY <1>0, <1>2, <1>7, UploadPlaces
  <2>2. res.vol.sharedata = vol.sharedata
    BY <1>0, <1>7, UploadHelperShape
  <2>3. res.reply \in {"ok", "error"}
    BY <1>0, <1>2, UploadHelperType DEF Answers
  <2>4. CASE Placeable(vol, p)
    <3>1. PutAt(vol, vol', p, b) /\ vol'.sharedata = vol.sharedata
      BY <1>5, <2>1, <2>2, <2>4
    <3>2. /\ OwnedPaths(vol') = OwnedPaths(vol) \cup {p}
          /\ \A q \in OwnedPaths(vol) \ {p} : vol'.link[q] = vol.link[q]
      BY <1>2, <3>1 DEF PutAt, OwnedPaths
    <3>3. Abstract!Put(p, b)
      BY <1>5, <2>3, <3>1, <3>2, PutMaps DEF PutAt, DriveInv
    <3> QED
      BY <1>1, <1>3, <1>7, <2>4, <3>3 DEF Abstract!Upload
  <2>5. CASE ~Placeable(vol, p)
    <3>1. vol'.dirs = vol.dirs /\ vol'.link = vol.link /\ vol'.sharedata = vol.sharedata
      BY <1>5, <2>1, <2>2, <2>5 DEF SameShape
    <3>2. FileContents(vol') = FileContents(vol)
      BY <3>1, SameFiles DEF OwnedPaths, DriveInv
    <3>3. reply' = "error"
      <4>1. ~CanCreate(IF Stat(vol, p) THEN remove(vol, p, u).vol ELSE vol, p)
        <5>1. p # SharedDir(u)
          BY <1>7, SharedDirShape, InSharedDir
        <5> QED
          BY <1>0, <2>5, <5>1, Cleared, SameNames DEF DriveInv
      <4> QED
        BY <1>5, <1>7, <4>1 DEF uploadHelper, LinkExisting, StoreNew, Result
    <3>4. Abstract!Refuse
      BY <1>5, <3>1, <3>2, <3>3 DEF Abstract!Refuse, Abstract!Say, Abstract!tree
    <3> QED
      BY <1>1, <1>3, <1>4, <2>5, <3>4 DEF Abstract!Upload
  <2> QED
    BY <2>4, <2>5
<1> QED
  BY <1>6, <1>7

(* Through sharerUpload, for the sharer or for a sharee.                   *)
LEMMA SharerUploadMaps ==
  ASSUME DriveInv, Apart', [Next]_vars, NEW row \in vol.sharedata, NEW b \in Body,
         NEW done \in Unlinkable(vol, SharesOf(vol, row.sharer, row.origpath)),
         vol' = sharerUpload(vol, row.sharer, row.origpath, b, done).vol,
         reply' \in {"ok", "error"}, UNCHANGED <<userdata, Cookiemap, up>>
  PROVE  Abstract!Put(row.origpath, b)
<1> DEFINE p == row.origpath
           rows == SharesOf(vol, row.sharer, p)
<1>1. /\ VolumeInv(vol, userdata) /\ TreeSound(vol, userdata)
      /\ p \in OwnedPaths(vol) /\ ~InShared(p, row.sharer)
  BY Standing DEF DriveInv, RowsKnown, VolumeInv, ShareLinked
<1>2. OthersKept(vol, vol', {p} \cup ShareePaths(rows))
  BY <1>1, SharerUploadInv
<1>3. vol'.store[vol'.link[p]] = b
  BY <1>1, SharerUploadContent
<1>4. ShareePaths(rows) \subseteq ShareePaths(vol.sharedata)
  BY DEF ShareePaths, SharesOf
<1>5. /\ OwnedPaths(vol') = OwnedPaths(vol)
      /\ \A q \in OwnedPaths(vol) \ {p} : vol'.link[q] = vol.link[q]
  BY <1>2, <1>4 DEF OthersKept, OwnedPaths
<1>6. OwnedPaths(vol') = OwnedPaths(vol) \cup {p}
  BY <1>1, <1>5
<1>7. vol'.dirs = vol.dirs \ {p}
  BY <1>1, <1>2 DEF OthersKept, TreeSound, OwnedPaths
<1>8. vol'.sharedata = vol.sharedata
  BY <1>2 DEF OthersKept
<1> QED
  BY <1>3, <1>5, <1>6, <1>7, <1>8, PutMaps DEF DriveInv

LEMMA UploadMaps ==
  ASSUME DriveInv, Apart', [Next]_vars, NEW u \in User, NEW p \in InputPath, NEW b \in Body,
         uploadHandler(u, p, b)
  PROVE  Abstract!Upload(u, p, b)
<1>0. \A r \in vol.sharedata : ShareLinked(vol, r) /\ r \in ShareRow
  BY Standing DEF DriveInv
<1>1. Abstract!Active(u) /\ u \in userdata /\ up /\ checkCookie(u)
  BY SameActive DEF uploadHandler
<1>2. CASE ~checkpath(p, u)
  <2>1. ~Abstract!Storable(u, p) /\ Abstract!Writable(u, p) = {}
    BY <1>2, SamePaths DEF Abstract!Storable, Abstract!Writable
  <2> QED
    BY <1>1, <1>2, <2>1, RefuseMaps DEF uploadHandler, Abstract!Upload
<1>p. p \in Path /\ RowsApart(vol)
  BY Standing DEF DriveInv
<1>3. CASE /\ checkpath(p, u) /\ isSharedFile(vol, p) = "sharee"
           /\ 0 \in getPerms(u, p) /\ Refuse("error")
  <2>1. ~Abstract!Storable(u, p)
    BY <1>p, <1>1, <1>3, ReceivedNotStorable DEF isSharedFile
  <2>2. PICK r \in vol.sharedata : r.shareepath = p /\ r.perm = 0
    BY <1>3 DEF getPerms
  <2>3. Abstract!Writable(u, p) = {}
    BY <1>p, <2>2, NotWritable DEF RowsApart
  <2> QED
    BY <1>1, <1>3, <2>1, <2>3, RefuseMaps DEF Abstract!Upload
<1>4. CASE checkpath(p, u) /\ UploadPlain(u, p, b)
  BY <1>1, <1>4, UploadPlainMaps
<1>5. CASE checkpath(p, u) /\ UploadAsSharer(u, p, b)
  <2>1. PICK r \in vol.sharedata : r.origpath = p
    BY <1>5 DEF UploadAsSharer, isSharedFile
  <2>2. r.sharer = u /\ p \in OwnedPaths(vol)
    BY <1>p, <1>0, <1>1, <1>5, <2>1, SharerOf DEF ShareLinked, DriveInv
  <2>3. PICK done \in Unlinkable(vol, SharesOf(vol, u, p)) :
          Stored(sharerUpload(vol, u, p, b, done))
    BY <1>5 DEF UploadAsSharer
  <2>4. /\ vol' = sharerUpload(vol, u, p, b, done).vol
        /\ reply' = sharerUpload(vol, u, p, b, done).reply
        /\ UNCHANGED <<userdata, Cookiemap, up>>
    BY <2>3 DEF Stored, Answer
  <2>5. reply' \in {"ok", "error"}
    BY <2>2, <2>4, SharerUploadType, Standing DEF Answers, DriveInv
  <2>6. Abstract!Put(p, b)
    BY <2>1, <2>2, <2>4, <2>5, SharerUploadMaps
  <2>7. Abstract!Storable(u, p)
    <3>1. ~InShared(p, u)
      BY <2>1, <2>2 DEF DriveInv, RowsKnown
    <3>2. p \notin ShareePaths(vol.sharedata) /\ Placeable(vol, p)
      BY <2>2 DEF OwnedPaths, Placeable
    <3> QED
      BY <1>1, <1>5, <2>2, <3>1, <3>2, SameStorable
  <2> QED
    BY <1>1, <2>6, <2>7 DEF Abstract!Upload
<1>6. CASE /\ checkpath(p, u) /\ UploadAsSharee(u, p, b)
           /\ ~(0 \in getPerms(u, p) /\ Refuse("error"))
  <2>1. PICK r \in vol.sharedata : r.shareepath = p /\ r.sharee = u /\ r.perm = 1
    BY <1>6 DEF UploadAsSharee, getPerms
  <2>2. PICK t \in vol.sharedata :
          /\ t.shareepath = p
          /\ \E done \in Unlinkable(vol, SharesOf(vol, t.sharer, t.origpath)) :
               Stored(Result(sharerUpload(vol, t.sharer, t.origpath, b, done).vol, "error"))
    BY <1>6 DEF UploadAsSharee
  <2>3. t = r
    BY <2>1, <2>2, Standing DEF RowsApart, DriveInv
  <2>4. PICK done \in Unlinkable(vol, SharesOf(vol, r.sharer, r.origpath)) :
          Stored(Result(sharerUpload(vol, r.sharer, r.origpath, b, done).vol, "error"))
    BY <2>2, <2>3
  <2>5. /\ vol' = sharerUpload(vol, r.sharer, r.origpath, b, done).vol
        /\ reply' = "error"
        /\ UNCHANGED <<userdata, Cookiemap, up>>
    BY <2>4 DEF Stored, Answer, Result
  <2>6. Abstract!Put(r.origpath, b)
    BY <2>5, SharerUploadMaps
  <2>8. r.origpath \in Abstract!Writable(u, p)
    BY <1>6, <2>1, SamePaths DEF Abstract!Writable, Abstract!ReceivedBy
  <2> QED
    BY <1>1, <2>6, <2>8 DEF Abstract!Upload
<1> QED
  BY <1>2, <1>3, <1>4, <1>5, <1>6 DEF uploadHandler, UploadAsSharee

-----------------------------------------------------------------------------
(* Removals. *)

(* A live link is removed with the answer "ok". *)
LEMMA RemoveLinkAnswers ==
  ASSUME NEW v, NEW p \in DOMAIN v.link, v.link[p] \in DOMAIN v.store
  PROVE  RemoveLink(v, p).reply = "ok"
  BY DEF RemoveLink, Result

LEMMA RemovePlainMaps ==
  ASSUME DriveInv, Apart', [Next]_vars, NEW u \in User, NEW p \in InputPath,
         up, checkCookie(u), checkpath(p, u), RemovePlain(u, p)
  PROVE  Abstract!Remove(u, p)
<1> DEFINE res == remove(vol, p, u)
<1>0. VolumeInv(vol, userdata) /\ VolumeType(vol)
  BY Standing DEF DriveInv
<1>1. Abstract!Active(u) /\ (Abstract!checkpath(p, u) <=> checkpath(p, u))
  BY SameActive, SamePaths
<1>2. /\ p \notin ShareePaths(vol.sharedata)
      /\ \A r \in vol.sharedata : r.origpath # p
  BY DEF RemovePlain, isSharedFile
<1>3. /\ DOMAIN FileContents(vol) = OwnedPaths(vol)
      /\ Abstract!EmptyDir(p) <=> IsEmptyDir(vol, p)
      /\ p \notin Abstract!Received
      /\ Abstract!SharedDir(u) = SharedDir(u)
      /\ Abstract!Shared(u, p) = {}
  BY <1>2, SameNames, SameRows, SamePaths DEF DriveInv, SharesOf
<1>4. /\ vol' = res.vol /\ reply' = res.reply /\ UNCHANGED <<userdata, Cookiemap, up>>
  BY DEF RemovePlain, Answer
<1>5. CASE p \in DOMAIN vol.link
  <2>1. res = RemoveLink(vol, p)
    BY <1>5 DEF remove
  <2>2. /\ vol'.link = Without(vol.link, {p}) /\ vol'.dirs = vol.dirs
        /\ vol'.sharedata = vol.sharedata
    BY <1>0, <1>4, <1>5, <2>1, RemoveLinkShape
  <2>3. /\ OwnedPaths(vol') = OwnedPaths(vol) \ {p}
        /\ \A q \in OwnedPaths(vol') : vol'.link[q] = vol.link[q]
    BY <2>2 DEF OwnedPaths, Without, Restrict
  <2>4. reply' = "ok"
    BY <1>0, <1>4, <1>5, <2>1, RemoveLinkAnswers, FilesOf
  <2>5. FileContents(vol')
          = Abstract!Restrict(FileContents(vol), DOMAIN FileContents(vol) \ {p})
    BY <2>3, GoneMaps DEF DriveInv
  <2>6. p \in DOMAIN FileContents(vol)
    BY <1>2, <1>3, <1>5 DEF OwnedPaths
  <2>7. vol'.sharedata = vol.sharedata \ Abstract!Shared(u, p)
    BY <1>3, <2>2
  <2> QED
    BY <1>1, <1>4, <2>2, <2>4, <2>5, <2>6, <2>7 DEF Abstract!Remove, Abstract!Say
<1>6. CASE p \notin DOMAIN vol.link /\ Removable(vol, p, u)
  <2>1. res = Result([vol EXCEPT !.dirs = @ \ {p}], "ok")
    BY <1>6 DEF remove
  <2>2. /\ vol'.dirs = vol.dirs \ {p} /\ vol'.link = vol.link /\ vol'.store = vol.store
        /\ vol'.sharedata = vol.sharedata /\ reply' = "ok"
    BY <1>0, <1>4, <2>1 DEF Result, VolumeType
  <2>3. FileContents(vol') = FileContents(vol)
    BY <2>2 DEF FileContents, OwnedPaths
  <2> QED
    BY <1>1, <1>3, <1>4, <1>6, <2>2, <2>3 DEF Abstract!Remove, Abstract!Say, Removable
<1>7. CASE p \notin DOMAIN vol.link /\ ~Removable(vol, p, u)
  <2>1. res = Result(vol, "error")
    BY <1>7 DEF remove
  <2>2. Abstract!Refuse
    BY <1>4, <2>1 DEF Result, Abstract!Refuse, Abstract!Say, Abstract!tree
  <2>3. p \notin DOMAIN FileContents(vol) \cup Abstract!Received
    BY <1>3, <1>7 DEF OwnedPaths
  <2>4. ~Abstract!EmptyDir(p) \/ p = Abstract!SharedDir(u)
    BY <1>3, <1>7 DEF Removable
  <2> QED
    BY <1>1, <2>2, <2>3, <2>4 DEF Abstract!Remove
<1> QED
  BY <1>5, <1>6, <1>7

LEMMA RemoveReceivedMaps ==
  ASSUME DriveInv, Apart', [Next]_vars, NEW u \in User, NEW p \in InputPath,
         up, checkCookie(u), checkpath(p, u), RemoveAsSharee(u, p)
  PROVE  Abstract!Remove(u, p)
<1> DEFINE rows == {r \in vol.sharedata : r.sharee = u /\ r.shareepath = p}
<1>0. VolumeInv(vol, userdata) /\ VolumeType(vol)
  BY Standing DEF DriveInv
<1>1. Abstract!Active(u) /\ (Abstract!checkpath(p, u) <=> checkpath(p, u))
  BY SameActive, SamePaths
<1>2. p \in ShareePaths(vol.sharedata)
  BY DEF RemoveAsSharee, isSharedFile
<1>L. p \in Path /\ u \in userdata /\ p \in DOMAIN vol.link /\ p \notin vol.dirs
  <2>1. p \in DOMAIN vol.link /\ vol.dirs \cap DOMAIN vol.link = {}
    BY <1>0, <1>2, SameNames DEF DriveInv, VolumeInv, TreeSound
  <2> QED
    BY <2>1, Standing, SameActive DEF DriveInv
<1>3. /\ vol' = RemoveReceived(vol, u, p) /\ reply' = "ok"
      /\ UNCHANGED <<userdata, Cookiemap, up>>
  BY <1>L DEF RemoveAsSharee, CanRemove, Answer, Result
<1>4. /\ vol'.link = Without(vol.link, {p}) /\ vol'.dirs = vol.dirs
      /\ vol'.sharedata = vol.sharedata \ rows
  <2>1. vol.dirs \ {p} = vol.dirs
    BY <1>L
  <2> QED
    BY <1>0, <1>3, <2>1 DEF RemoveReceived, Removed, VolumeType
<1>5. ShareePaths(vol.sharedata) = ShareePaths(vol'.sharedata) \cup {p}
  <2>1. PICK r \in vol.sharedata : r.shareepath = p
    BY <1>2 DEF ShareePaths
  <2>2. r.sharee = u
    BY <1>L, <2>1, ShareeOf DEF DriveInv
  <2>3. \A t \in vol.sharedata : t \in rows \/ t \in vol'.sharedata
    BY <1>4
  <2>4. \A t \in rows : t.shareepath = p
    OBVIOUS
  <2> HIDE DEF rows
  <2> QED
    BY <1>4, <2>1, <2>3, <2>4 DEF ShareePaths
<1>6. p \notin ShareePaths(vol'.sharedata)
  <2>1. ASSUME NEW t \in vol'.sharedata, t.shareepath = p PROVE FALSE
    <3>1. t \in vol.sharedata /\ t \notin rows
      BY <1>4
    <3>2. t.sharee = u
      BY <1>L, <2>1, <3>1, ShareeOf DEF DriveInv
    <3> QED
      BY <2>1, <3>1, <3>2
  <2> QED
    BY <2>1 DEF ShareePaths
<1>7. /\ DOMAIN vol'.link = DOMAIN vol.link \ {p}
      /\ \A q \in DOMAIN vol'.link : vol'.link[q] = vol.link[q]
  BY <1>4 DEF Without, Restrict
<1>8. OwnedPaths(vol') = OwnedPaths(vol)
  BY <1>5, <1>7 DEF OwnedPaths
<1>9. FileContents(vol') = FileContents(vol)
  <2>1. \A q \in OwnedPaths(vol) : vol'.link[q] = vol.link[q]
    BY <1>7, <1>8 DEF OwnedPaths
  <2> QED
    BY <1>8, <2>1, SameFiles DEF DriveInv
<1>10. Abstract!ReceivedBy(u, p) = rows /\ p \in Abstract!Received
  BY <1>2, SameRows DEF Abstract!ReceivedBy
<1> HIDE DEF rows
<1> QED
  BY <1>1, <1>3, <1>4, <1>9, <1>10 DEF Abstract!Remove, Abstract!Say

LEMMA RemoveSharedMaps ==
  ASSUME DriveInv, Apart', [Next]_vars, NEW u \in User, NEW p \in InputPath,
         up, checkCookie(u), checkpath(p, u), RemoveAsSharer(u, p)
  PROVE  Abstract!Remove(u, p)
<1> DEFINE rows == SharesOf(vol, u, p)
           w == DropRows(vol, rows)
           res == remove(w, p, u)
<1>0. /\ VolumeInv(vol, userdata) /\ \A r \in vol.sharedata : ShareLinked(vol, r)
  BY Standing DEF DriveInv
<1>1. Abstract!Active(u) /\ (Abstract!checkpath(p, u) <=> checkpath(p, u))
  BY SameActive, SamePaths
<1>2. rows \in SUBSET vol.sharedata
  BY DEF SharesOf
<1>3. p \in OwnedPaths(vol)
  BY <1>0 DEF RemoveAsSharer, isSharedFile, ShareLinked
<1>4. vol' = res.vol /\ reply' = res.reply /\ UNCHANGED <<userdata, Cookiemap, up>>
  <2>1. PICK done \in Unlinkable(vol, rows) : Answer(RemoveShared(vol, u, p, done))
    BY DEF RemoveAsSharer
  <2>2. done = rows
    BY <1>0, <1>2, <2>1, RowsRemovable DEF VolumeInv
  <2> QED
    BY <2>1, <2>2 DEF RemoveShared, DropRows, Answer
<1>5. /\ Abstract!Shared(u, p) = rows
      /\ DOMAIN FileContents(vol) = OwnedPaths(vol)
  BY SameRows, SameNames DEF DriveInv
<1> HIDE DEF rows
<1>6. /\ VolumeInv(w, userdata)
      /\ w.dirs = vol.dirs /\ w.sharedata = vol.sharedata \ rows
      /\ DOMAIN w.link = DOMAIN vol.link \ ShareePaths(rows)
      /\ \A q \in DOMAIN w.link : w.link[q] = vol.link[q]
      /\ OwnedPaths(w) = OwnedPaths(vol)
  BY <1>0, <1>2, DropRowsVolume
<1> HIDE DEF w
<1>7. p \in DOMAIN w.link /\ VolumeType(w) /\ w.link[p] \in DOMAIN w.store
  BY <1>3, <1>6, FilesOf DEF OwnedPaths, VolumeInv, LinkInv, StoreInv
<1>8. res = RemoveLink(w, p)
  BY <1>7 DEF remove
<1>9. /\ vol'.link = Without(w.link, {p}) /\ vol'.dirs = vol.dirs
      /\ vol'.sharedata = vol.sharedata \ rows /\ reply' = "ok"
  BY <1>4, <1>6, <1>7, <1>8, RemoveLinkShape, RemoveLinkAnswers
<1>10. /\ DOMAIN vol'.link = DOMAIN w.link \ {p}
       /\ \A q \in DOMAIN vol'.link : vol'.link[q] = w.link[q]
  BY <1>9 DEF Without, Restrict
<1>11. /\ OwnedPaths(vol') = OwnedPaths(vol) \ {p}
       /\ \A q \in OwnedPaths(vol') : vol'.link[q] = vol.link[q]
  <2>1. OwnedPaths(vol') = OwnedPaths(w) \ {p}
    BY <1>6, <1>9, <1>10 DEF OwnedPaths
  <2> QED
    BY <1>6, <1>10, <2>1 DEF OwnedPaths
<1>12. FileContents(vol')
         = Abstract!Restrict(FileContents(vol), DOMAIN FileContents(vol) \ {p})
  BY <1>11, GoneMaps DEF DriveInv
<1> HIDE DEF res
<1> QED
  BY <1>1, <1>3, <1>4, <1>5, <1>9, <1>12 DEF Abstract!Remove, Abstract!Say

LEMMA RemoveMaps ==
  ASSUME DriveInv, Apart', [Next]_vars, NEW u \in User, NEW p \in InputPath, removeHandler(u, p)
  PROVE  Abstract!Remove(u, p)
<1>1. Abstract!Active(u) /\ (Abstract!checkpath(p, u) <=> checkpath(p, u))
  BY SameActive, SamePaths DEF removeHandler
<1>2. CASE ~checkpath(p, u)
  BY <1>1, <1>2, RefuseMaps DEF removeHandler, Abstract!Remove
<1>3. CASE checkpath(p, u) /\ IsNotExist(vol, p)
  <2>1. p \notin Abstract!Names
    BY <1>3, SameExists DEF DriveInv
  <2>2. p \notin DOMAIN FileContents(vol) \cup Abstract!Received /\ ~Abstract!EmptyDir(p)
    BY <2>1 DEF Abstract!Names, Abstract!EmptyDir
  <2> QED
    BY <1>1, <1>3, <2>2, RefuseMaps DEF removeHandler, Abstract!Remove
<1>4. CASE checkpath(p, u) /\ ~IsNotExist(vol, p)
  BY <1>4, RemovePlainMaps, RemoveReceivedMaps, RemoveSharedMaps DEF removeHandler
<1> QED
  BY <1>2, <1>3, <1>4

-----------------------------------------------------------------------------
(* Sharing. *)

LEMMA ShareMaps ==
  ASSUME DriveInv, Apart', [Next]_vars, NEW u \in User, NEW sharee \in User, NEW p \in InputPath,
         NEW perm \in {0, 1}, shareHandler(u, sharee, p, perm)
  PROVE  Abstract!Share(u, sharee, p, perm)
<1>0. VolumeInv(vol, userdata) /\ VolumeType(vol)
  BY Standing DEF DriveInv
<1>1. Abstract!Active(u)
  BY SameActive DEF shareHandler
<1>2. /\ DOMAIN FileContents(vol) = OwnedPaths(vol) /\ Abstract!Names = Taken(vol)
      /\ \A q : Stat(vol, q) <=> q \in Taken(vol)
  BY SameNames DEF DriveInv
<1>3. Abstract!MayShare(u, sharee, p) <=> MayShare(u, sharee, p) /\ p \in DOMAIN vol.link
  <2>1. checkpath(p, u) /\ ~InShared(p, u) => p \notin ShareePaths(vol.sharedata)
    BY Standing, SameActive, NotReceived DEF DriveInv, shareHandler
  <2>2. p \in DOMAIN vol.link => ~IsNotExist(vol, p)
    BY <1>2 DEF IsNotExist, Taken
  <2> QED
    BY <1>2, <2>1, <2>2, SamePaths, SameRows
    DEF Abstract!MayShare, MayShare, OwnedPaths
<1>4. CASE ~MayShare(u, sharee, p)
  BY <1>1, <1>3, <1>4, RefuseMaps DEF shareHandler, Abstract!Share
<1>5. ASSUME NEW i \in 0 .. MaxNumber, MayShare(u, sharee, p), p \notin DOMAIN vol.link,
             Refuse("error")
      PROVE  Abstract!Share(u, sharee, p, perm)
  BY <1>1, <1>3, <1>5, RefuseMaps DEF Abstract!Share
<1>6. ASSUME NEW i \in 0 .. MaxNumber, MayShare(u, sharee, p), p \in DOMAIN vol.link,
             FirstFree(vol, sharee, p, i)
      PROVE  CanCreate(vol, ReceivedAs(sharee, p, i)) /\ Abstract!Free(ReceivedAs(sharee, p, i))
  <2> DEFINE at == ReceivedAs(sharee, p, i)
  <2>1. Parent(at) = SharedDir(sharee)
    BY ReceivedAsShape
  <2>2. SharedDir(sharee) \in vol.dirs
    BY <1>0, <1>6 DEF MayShare, VolumeInv, TreeSound
  <2>3. at \notin Taken(vol)
    BY <1>2, <1>6 DEF FirstFree, IsNotExist
  <2> QED
    BY <1>2, <2>1, <2>2, <2>3, SamePaths DEF CanCreate, Abstract!Free
<1>7. ASSUME NEW i \in 0 .. MaxNumber, MayShare(u, sharee, p), p \in DOMAIN vol.link,
             FirstFree(vol, sharee, p, i),
             Answer(Result(Share(vol, u, sharee, p, perm, ReceivedAs(sharee, p, i)), "ok"))
      PROVE  Abstract!Share(u, sharee, p, perm)
  <2> DEFINE at == ReceivedAs(sharee, p, i)
             row == [sharer |-> u, sharee |-> sharee, origpath |-> p,
                     shareepath |-> at, perm |-> perm]
  <2>1. /\ vol' = Share(vol, u, sharee, p, perm, at) /\ reply' = "ok"
        /\ UNCHANGED <<userdata, Cookiemap, up>>
    BY <1>7 DEF Answer, Result
  <2>2. /\ vol'.link = With(vol.link, at, vol.link[p]) /\ vol'.dirs = vol.dirs
        /\ vol'.sharedata = vol.sharedata \cup {row}
    BY <1>0, <2>1 DEF Share, VolumeType
  <2>3. CanCreate(vol, at) /\ Abstract!Free(at)
    BY <1>6, <1>7
  <2>4. row.shareepath = at
    OBVIOUS
  <2>5. Append(Abstract!SharedDir(sharee), Abstract!Candidate(i, Abstract!Base(p))) = at
    BY SameReceivedAs
  <2>6. /\ OwnedPaths(vol') = OwnedPaths(vol)
        /\ \A q \in OwnedPaths(vol) : vol'.link[q] = vol.link[q]
    <3> HIDE DEF at, row
    <3>1. ShareePaths(vol'.sharedata) = ShareePaths(vol.sharedata) \cup {at}
      BY <2>2, <2>4 DEF ShareePaths
    <3>2. at \notin DOMAIN vol.link
      BY <2>3 DEF CanCreate, Taken
    <3>3. /\ DOMAIN vol'.link = DOMAIN vol.link \cup {at}
          /\ \A q \in DOMAIN vol.link : vol'.link[q] = vol.link[q]
      BY <2>2, <3>2 DEF With
    <3> QED
      BY <3>1, <3>2, <3>3 DEF OwnedPaths
  <2>7. FileContents(vol') = FileContents(vol)
    BY <2>6, SameFiles DEF DriveInv
  <2>8. Abstract!MayShare(u, sharee, p)
    BY <1>3, <1>7
  <2> HIDE DEF at
  <2> QED
    BY <1>1, <2>1, <2>2, <2>3, <2>5, <2>7, <2>8 DEF Abstract!Share, Abstract!Say
<1> QED
  BY <1>4, <1>5, <1>6, <1>7 DEF shareHandler

LEMMA UnshareMaps ==
  ASSUME DriveInv, Apart', [Next]_vars, NEW u \in User, NEW sharee \in User, NEW p \in InputPath,
         unshareHandler(u, sharee, p)
  PROVE  Abstract!Unshare(u, sharee, p)
<1> DEFINE rows == SharesWith(vol, u, sharee, p)
<1>0. /\ VolumeInv(vol, userdata) /\ \A r \in vol.sharedata : ShareLinked(vol, r)
  BY Standing DEF DriveInv
<1>1. /\ Abstract!Active(u) /\ (Abstract!checkpath(p, u) <=> checkpath(p, u))
      /\ Abstract!SharedTo(u, sharee, p) = rows
  BY SameActive, SamePaths, SameRows DEF unshareHandler
<1>2. rows \in SUBSET vol.sharedata /\ AllRemovable(vol, rows)
  <2>1. rows \in SUBSET vol.sharedata
    BY DEF SharesWith, SharesOf
  <2> QED
    BY <1>0, <2>1, RowsRemovable DEF VolumeInv
<1>3. rows # {} => u # sharee /\ sharee \in userdata
  BY <1>0 DEF SharesWith, SharesOf, ShareLinked, DriveInv, RowsKnown
<1>4. CASE Refuse("error") /\ ~(checkpath(p, u) /\ rows # {})
  BY <1>1, <1>4, RefuseMaps DEF Abstract!Unshare
<1>5. CASE /\ checkpath(p, u) /\ rows # {}
           /\ Answer(Result(DropRows(vol, rows), "ok"))
  <2>1. /\ vol' = DropRows(vol, rows) /\ reply' = "ok"
        /\ UNCHANGED <<userdata, Cookiemap, up>>
    BY <1>5 DEF Answer, Result
  <2> HIDE DEF rows
  <2>2. /\ vol'.dirs = vol.dirs /\ vol'.sharedata = vol.sharedata \ rows
        /\ OwnedPaths(vol') = OwnedPaths(vol)
        /\ \A q \in DOMAIN vol'.link : vol'.link[q] = vol.link[q]
    BY <1>0, <1>2, <2>1, DropRowsVolume
  <2>3. FileContents(vol') = FileContents(vol)
    <3>1. \A q \in OwnedPaths(vol) : vol'.link[q] = vol.link[q]
      BY <2>2 DEF OwnedPaths
    <3> QED
      BY <2>2, <3>1, SameFiles DEF DriveInv
  <2> QED
    BY <1>1, <1>5, <2>1, <2>2, <2>3 DEF Abstract!Unshare, Abstract!Say
<1> QED
  BY <1>2, <1>3, <1>4, <1>5 DEF unshareHandler, DropRows

LEMMA ChpermMaps ==
  ASSUME DriveInv, Apart', [Next]_vars, NEW u \in User, NEW sharee \in User, NEW p \in InputPath,
         NEW perm \in {0, 1}, chpermHandler(u, sharee, p, perm)
  PROVE  Abstract!Chperm(u, sharee, p, perm)
<1> DEFINE rows == SharesWith(vol, u, sharee, p)
           marked == {IF r \in rows THEN [r EXCEPT !.perm = perm] ELSE r : r \in vol.sharedata}
<1>0. /\ VolumeType(vol) /\ \A r \in vol.sharedata : ShareLinked(vol, r) /\ r \in ShareRow
  BY Standing DEF DriveInv
<1>1. /\ Abstract!Active(u) /\ (Abstract!checkpath(p, u) <=> checkpath(p, u))
      /\ Abstract!SharedTo(u, sharee, p) = rows
  BY SameActive, SamePaths, SameRows DEF chpermHandler
<1>2. rows \subseteq vol.sharedata
  BY DEF SharesWith, SharesOf
<1>3. rows # {} => ~InShared(p, u) /\ ~IsNotExist(vol, p)
  <2> SUFFICES ASSUME NEW r \in rows PROVE ~InShared(p, u) /\ ~IsNotExist(vol, p)
    OBVIOUS
  <2>1. r \in vol.sharedata /\ r.sharer = u /\ r.origpath = p
    BY DEF SharesWith, SharesOf
  <2>2. p \in Taken(vol)
    BY <1>0, <2>1 DEF ShareLinked, OwnedPaths, Taken
  <2>3. ~IsNotExist(vol, p)
    BY <2>2, SameNames DEF IsNotExist, DriveInv
  <2> QED
    BY <2>1, <2>3 DEF DriveInv, RowsKnown
<1>4. CASE Refuse("error") /\ ~(checkpath(p, u) /\ rows # {})
  BY <1>1, <1>4, RefuseMaps DEF Abstract!Chperm
<1>5. CASE /\ checkpath(p, u) /\ rows # {}
           /\ Answer(Result([vol EXCEPT !.sharedata =
                {IF r \in rows THEN [r EXCEPT !.perm = perm] ELSE r : r \in @}], "error"))
  <2>1. /\ vol' = [vol EXCEPT !.sharedata = marked]
        /\ reply' = "error" /\ UNCHANGED <<userdata, Cookiemap, up>>
    BY <1>5 DEF Answer, Result
  <2>2. /\ vol'.dirs = vol.dirs /\ vol'.link = vol.link /\ vol'.store = vol.store
        /\ vol'.sharedata = marked
    BY <1>0, <2>1 DEF VolumeType
  <2>3. ShareePaths(marked) = ShareePaths(vol.sharedata)
    <3>1. \A r \in vol.sharedata : [r EXCEPT !.perm = perm].shareepath = r.shareepath
      BY <1>0 DEF ShareRow
    <3> HIDE DEF rows
    <3> QED
      BY <3>1 DEF ShareePaths
  <2>4. marked = (vol.sharedata \ rows) \cup {[r EXCEPT !.perm = perm] : r \in rows}
    <3> HIDE DEF rows
    <3> QED
      BY <1>2
  <2> HIDE DEF marked, rows
  <2>5. FileContents(vol') = FileContents(vol)
    BY <2>2, <2>3 DEF FileContents, OwnedPaths
  <2> QED
    BY <1>1, <1>5, <2>1, <2>2, <2>4, <2>5 DEF Abstract!Chperm, Abstract!Done, Abstract!Say
<1> QED
  BY <1>3, <1>4, <1>5 DEF chpermHandler

-----------------------------------------------------------------------------
(* Every step. *)

LEMMA RequestMaps ==
  ASSUME DriveInv, Apart', [Next]_vars, NEW u \in User, Request(u)
  PROVE  Abstract!Operation(u)
<1>1. ASSUME NEW ok, signupHandler(u, ok) \/ authenticateHandler(u, ok)
      PROVE  Abstract!Operation(u)
  BY <1>1, SignupMaps, LoginMaps DEF Abstract!Operation
<1>2. CASE pwdHandler(u)
  BY <1>2, PwdMaps DEF Abstract!Operation
<1>3. ASSUME NEW p \in InputPath,
             \/ \E b \in Body : uploadHandler(u, p, b)
             \/ downloadHandler(u, p) \/ listHandler(u, p) \/ cdHandler(u, p)
             \/ mkdirHandler(u, p) \/ removeHandler(u, p)
      PROVE  Abstract!Operation(u)
  BY <1>3, UploadMaps, DownloadMaps, ListMaps, CdMaps, MkdirMaps, RemoveMaps
  DEF Abstract!Operation
<1>4. ASSUME NEW p \in InputPath, NEW sharee \in User, NEW perm \in {0, 1},
             \/ shareHandler(u, sharee, p, perm) \/ chpermHandler(u, sharee, p, perm)
      PROVE  Abstract!Operation(u)
  BY <1>4, ShareMaps, ChpermMaps DEF Abstract!Operation
<1>5. ASSUME NEW p \in InputPath, NEW sharee \in User, unshareHandler(u, sharee, p)
      PROVE  Abstract!Operation(u)
  BY <1>5, UnshareMaps DEF Abstract!Operation
<1> QED
  BY <1>1, <1>2, <1>3, <1>4, <1>5 DEF Request

(* A step of the server is a step of the drive. *)
LEMMA StepMaps ==
  ASSUME DriveInv, Apart', [Next]_vars
  PROVE  [Abstract!Next]_Abstract!vars
<1>1. ASSUME NEW u \in User, Request(u) PROVE Abstract!Next
  BY <1>1, RequestMaps DEF Abstract!Next
<1>2. ASSUME NEW u \in User, Expire(u) PROVE Abstract!Next
  BY <1>2 DEF Expire, Abstract!Expire, Abstract!Operation, Abstract!Next
<1>3. CASE Reauth
  BY <1>3 DEF Reauth, Refuse, Abstract!Reauth, Abstract!Say, Abstract!tree, Abstract!Next
<1>4. CASE Start
  <2>1. vol' = [vol EXCEPT !.filecount = vol.filecount]
    BY <1>4 DEF Start, DriveInv, ServerInv, DedupInv
  <2>2. vol' = vol
    BY <2>1, Standing DEF VolumeType, DriveInv
  <2> QED
    BY <1>4, <2>2 DEF Start, Abstract!Start, Abstract!Next
<1>5. CASE Shutdown
  BY <1>5 DEF Shutdown, Abstract!Stop, Abstract!Next
<1>6. CASE UNCHANGED vars
  BY <1>6 DEF vars, Abstract!vars
<1> QED
  BY <1>1, <1>2, <1>3, <1>4, <1>5, <1>6 DEF Next

(* The drive itself lets a row of shares be made only to one who has       *)
(* signed up, and for a file outside Shared_with_me.                       *)
LEMMA RowsStayKnown ==
  ASSUME DriveInv, [Abstract!Next]_Abstract!vars
  PROVE  RowsKnown'
<1>0. \A r \in vol.sharedata : r \in ShareRow /\ r.sharee \in userdata
                               /\ ~InShared(r.origpath, r.sharer)
  BY Standing DEF DriveInv, RowsKnown
<1>1. CASE vol'.sharedata \subseteq vol.sharedata /\ userdata \subseteq userdata'
  BY <1>0, <1>1 DEF RowsKnown
<1>2. ASSUME NEW u \in User, NEW sharee \in User, NEW p \in InputPath, NEW perm,
             Abstract!Share(u, sharee, p, perm)
      PROVE  RowsKnown'
  <2>1. CASE Abstract!Refuse
    BY <1>1, <2>1 DEF Abstract!Refuse, Abstract!Say, Abstract!tree
  <2>2. CASE ~Abstract!Refuse
    <3>1. PICK at : /\ Abstract!MayShare(u, sharee, p)
                    /\ vol'.sharedata = vol.sharedata \cup
                         {[sharer |-> u, sharee |-> sharee, origpath |-> p,
                           shareepath |-> at, perm |-> perm]}
                    /\ userdata' = userdata
      BY <1>2, <2>2 DEF Abstract!Share, Abstract!Say
    <3>2. sharee \in userdata /\ ~InShared(p, u)
      BY <3>1, SamePaths DEF Abstract!MayShare
    <3> QED
      BY <1>0, <3>1, <3>2 DEF RowsKnown
  <2> QED
    BY <2>1, <2>2
<1>3. ASSUME NEW u \in User, NEW sharee \in User, NEW p \in InputPath, NEW perm,
             Abstract!Chperm(u, sharee, p, perm)
      PROVE  RowsKnown'
  <2> DEFINE rows == Abstract!SharedTo(u, sharee, p)
  <2>1. CASE Abstract!Refuse
    BY <1>1, <2>1 DEF Abstract!Refuse, Abstract!Say, Abstract!tree
  <2>2. CASE ~Abstract!Refuse
    <3>1. /\ vol'.sharedata = (vol.sharedata \ rows) \cup {[r EXCEPT !.perm = perm] : r \in rows}
          /\ userdata' = userdata
      BY <1>3, <2>2 DEF Abstract!Chperm, Abstract!Done, Abstract!Say
    <3>2. rows \subseteq vol.sharedata
      BY DEF Abstract!SharedTo, Abstract!Shared
    <3>3. ASSUME NEW t \in vol'.sharedata
          PROVE  t.sharee \in userdata /\ ~InShared(t.origpath, t.sharer)
      <4>1. CASE t \in vol.sharedata
        BY <1>0, <4>1
      <4>2. CASE t \notin vol.sharedata
        <5> HIDE DEF rows
        <5>1. PICK r \in rows : t = [r EXCEPT !.perm = perm]
          BY <3>1, <4>2
        <5>2. r \in vol.sharedata /\ r \in ShareRow
          BY <1>0, <3>2
        <5>3. t.sharee = r.sharee /\ t.sharer = r.sharer /\ t.origpath = r.origpath
          BY <5>1, <5>2 DEF ShareRow
        <5> QED
          BY <1>0, <5>2, <5>3
      <4> QED
        BY <4>1, <4>2
    <3> QED
      BY <3>1, <3>3 DEF RowsKnown
  <2> QED
    BY <2>1, <2>2
<1>4. ASSUME NEW u \in User,
             \/ Abstract!Signup(u) \/ Abstract!Login(u) \/ Abstract!Expire(u) \/ Abstract!PWD(u)
             \/ \E p \in InputPath :
                  \/ \E b \in Body : Abstract!Upload(u, p, b)
                  \/ Abstract!Download(u, p) \/ Abstract!List(u, p) \/ Abstract!CD(u, p)
                  \/ Abstract!Mkdir(u, p) \/ Abstract!Remove(u, p)
                  \/ \E sharee \in User : Abstract!Unshare(u, sharee, p)
      PROVE  vol'.sharedata \subseteq vol.sharedata /\ userdata \subseteq userdata'
  <2> USE DEF Abstract!Refuse, Abstract!Say, Abstract!Done, Abstract!tree
  <2>1. CASE Abstract!Signup(u) \/ Abstract!Login(u) \/ Abstract!Expire(u) \/ Abstract!PWD(u)
    BY <2>1 DEF Abstract!Signup, Abstract!Login, Abstract!Expire, Abstract!PWD
  <2>2. ASSUME NEW p \in InputPath, NEW b \in Body, Abstract!Upload(u, p, b)
        PROVE  vol'.sharedata \subseteq vol.sharedata /\ userdata \subseteq userdata'
    BY <2>2 DEF Abstract!Upload, Abstract!Put
  <2>3. ASSUME NEW p \in InputPath,
               Abstract!Download(u, p) \/ Abstract!List(u, p) \/ Abstract!CD(u, p)
        PROVE  vol'.sharedata \subseteq vol.sharedata /\ userdata \subseteq userdata'
    BY <2>3 DEF Abstract!Download, Abstract!List, Abstract!CD
  <2>4. ASSUME NEW p \in InputPath, Abstract!Mkdir(u, p)
        PROVE  vol'.sharedata \subseteq vol.sharedata /\ userdata \subseteq userdata'
    BY <2>4 DEF Abstract!Mkdir
  <2>5. ASSUME NEW p \in InputPath, Abstract!Remove(u, p)
        PROVE  vol'.sharedata \subseteq vol.sharedata /\ userdata \subseteq userdata'
    BY <2>5 DEF Abstract!Remove
  <2>6. ASSUME NEW p \in InputPath, NEW sharee \in User, Abstract!Unshare(u, sharee, p)
        PROVE  vol'.sharedata \subseteq vol.sharedata /\ userdata \subseteq userdata'
    BY <2>6 DEF Abstract!Unshare
  <2> QED
    BY <1>4, <2>1, <2>2, <2>3, <2>4, <2>5, <2>6
<1>5. CASE Abstract!Reauth \/ Abstract!Start \/ Abstract!Stop \/ UNCHANGED Abstract!vars
  BY <1>1, <1>5
  DEF Abstract!Reauth, Abstract!Start, Abstract!Stop, Abstract!Say, Abstract!tree, Abstract!vars
<1> QED
  BY <1>1, <1>2, <1>3, <1>4, <1>5 DEF Abstract!Next, Abstract!Operation

(* An empty volume is a drive without files. *)
LEMMA InitMaps == Init => DriveInv /\ Abstract!Init
<1> SUFFICES ASSUME Init PROVE DriveInv /\ Abstract!Init
  OBVIOUS
<1>1. ServerInv
  BY InitServer
<1>2. DOMAIN <<>> = {} /\ <<>> \in [{} -> Nat]
  OBVIOUS
<1>3. vol.dirs = {} /\ vol.link = <<>> /\ vol.sharedata = {}
  BY DEF Init, EmptyVolume
<1>4. RowsKnown
  BY <1>3 DEF RowsKnown
<1>5. FileContents(vol) = <<>>
  <2>1. {q \in OwnedPaths(vol) : vol.link[q] \in DOMAIN vol.store} = {}
    BY <1>2, <1>3 DEF OwnedPaths
  <2>2. FileContents(vol) \in [{} -> Nat]
    BY <2>1 DEF FileContents
  <2> QED
    BY <1>2, <2>2
<1>6. Abstract!Init
  BY <1>3, <1>5 DEF Init, Abstract!Init
<1> QED
  BY <1>1, <1>4, <1>6 DEF DriveInv

(* As for SafeInv, while the names that signed up are apart.               *)
DriveSafe == SafeInv /\ (Apart => RowsKnown)

(* README:25: that files are stored once and linked "will appear to each   *)
(* user as nothing different happened".  For any users whose names are     *)
(* apart, and any paths, contents and names tried, whatever the server     *)
(* does and answers is what a drive would do on which every file has       *)
(* content of its own and a received file is the sharer's file.            *)
THEOREM DriveImplemented == Spec => ImplementsDrive
<1>1. DriveSafe /\ [Next]_vars =>
        DriveSafe' /\ [Apart' => [Abstract!Next]_(Abstract!vars)]_vars
  <2> SUFFICES ASSUME DriveSafe, [Next]_vars
               PROVE  DriveSafe' /\ (Apart' => [Abstract!Next]_(Abstract!vars))
    OBVIOUS
  <2>1. SafeInv'
    BY SafeStep DEF DriveSafe
  <2>2. ASSUME Apart' PROVE RowsKnown' /\ [Abstract!Next]_(Abstract!vars)
    <3>1. DriveInv
      BY <2>2, UsersStay DEF DriveSafe, SafeInv, DriveInv
    <3>2. [Abstract!Next]_(Abstract!vars)
      BY <2>2, <3>1, StepMaps
    <3> QED
      BY <3>1, <3>2, RowsStayKnown
  <2> QED
    BY <2>1, <2>2 DEF DriveSafe
<1>2. Init => DriveSafe /\ Abstract!Init
  BY InitMaps DEF DriveSafe, DriveInv, SafeInv, ServerInv
<1> QED
  BY <1>1, <1>2, PTL DEF Spec, ImplementsDrive
=============================================================================
