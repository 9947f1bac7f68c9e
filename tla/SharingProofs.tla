---------------------------- MODULE SharingProofs ---------------------------
(***************************************************************************)
(* Proofs about what users see of each other: every handler keeps links,   *)
(* counts, shares and tree right, and acts on the requester's own files.   *)
(***************************************************************************)
EXTENDS LinkProofs, SequenceTheorems

(* A beginning of a path. *)
LEMMA PrefixShape ==
  ASSUME NEW p \in Seq(Name), NEW n \in 0 .. Len(p)
  PROVE  /\ SubSeq(p, 1, n) \in Seq(Name)
         /\ Len(SubSeq(p, 1, n)) = n
         /\ \A i \in 1 .. n : SubSeq(p, 1, n)[i] = p[i]
<1>1. Len(p) \in Nat /\ n \in Nat /\ \A i \in 1 .. n : p[i] \in Name
  OBVIOUS
<1>2. /\ SubSeq(p, 1, n) \in Seq(Name)
      /\ Len(SubSeq(p, 1, n)) = IF 1 <= n THEN n - 1 + 1 ELSE 0
      /\ \A i \in 1 .. n - 1 + 1 : SubSeq(p, 1, n)[i] = p[1 + i - 1]
  BY <1>1, SubSeqProperties
<1> QED
  BY <1>1, <1>2

LEMMA ParentShape ==
  ASSUME NEW p \in Path
  PROVE  /\ Len(p) \in Nat \ {0} /\ p \in Seq(Name)
         /\ Parent(p) \in Seq(Name)
         /\ Len(Parent(p)) = Len(p) - 1
         /\ \A i \in 1 .. Len(p) - 1 : Parent(p)[i] = p[i]
<1>1. p \in Seq(Name) /\ Len(p) \in Nat \ {0}
  BY EmptySeq DEF Path
<1>2. Len(p) - 1 \in 0 .. Len(p)
  BY <1>1
<1> QED
  BY <1>1, <1>2, PrefixShape DEF Parent

LEMMA SharedDirShape ==
  ASSUME NEW x \in User
  PROVE  /\ Parent(SharedDir(x)) = Root(x) /\ Parent(Root(x)) = <<>>
         /\ Root(x) \in Path /\ SharedDir(x) \in Path
         /\ Root(x)[1] = x /\ SharedDir(x)[1] = x /\ SharedDir(x)[2] = SharedName
         /\ Len(Root(x)) = 1 /\ Len(SharedDir(x)) = 2
<1>1. Root(x) \in Path /\ SharedDir(x) \in Path
  BY RootType
<1>2. /\ Root(x)[1] = x /\ SharedDir(x)[1] = x /\ SharedDir(x)[2] = SharedName
      /\ Len(Root(x)) = 1 /\ Len(SharedDir(x)) = 2
  BY DEF Root, SharedDir
<1>3. Root(x) \in Seq(Name)
  BY <1>1 DEF Path
<1>4. Parent(SharedDir(x)) = Root(x)
  <2> DEFINE d == SharedDir(x)
  <2>1. /\ Parent(d) \in Seq(Name) /\ Len(Parent(d)) = Len(d) - 1
        /\ \A i \in 1 .. Len(d) - 1 : Parent(d)[i] = d[i]
    BY <1>1, ParentShape
  <2>2. d[1] = x /\ Len(d) = 2
    BY <1>2
  <2> HIDE DEF d
  <2>3. Parent(d)[1] = x /\ Len(Parent(d)) = 1
    BY <2>1, <2>2
  <2>4. Parent(d) = Root(x)
    BY <1>2, <1>3, <2>1, <2>3, SeqEqual
  <2> QED
    BY <2>4 DEF d
<1>5. Parent(Root(x)) = <<>>
  <2>1. Parent(Root(x)) \in Seq(Name) /\ Len(Parent(Root(x))) = 0
    BY <1>1, <1>2, ParentShape
  <2> QED
    BY <2>1, EmptySeq
<1> QED
  BY <1>1, <1>2, <1>4, <1>5

(* A user's own home passes checkpath. *)
LEMMA HomeChecks ==
  ASSUME NEW u \in User, NEW p \in Path, p[1] = u
  PROVE  checkpath(p, u)
<1>1. StartsWith(u, u)
  BY NameAssumption
<1>2. Len(p) \in Nat /\ Len(p) >= 1
  BY ParentShape
<1>3. Root(u)[1] = u /\ Len(Root(u)) = 1
  BY DEF Root
<1> QED
  BY <1>1, <1>2, <1>3 DEF checkpath, HasPrefix

(* Among users whose names are apart nobody's path lies in another's home. *)
LEMMA OwnHome ==
  ASSUME NEW us \in SUBSET User, NamesApart(us), NEW p \in Path,
         NEW u \in us, checkpath(p, u), p[1] \in us
  PROVE  p[1] = u
<1>1. checkpath(p, p[1])
  BY HomeChecks
<1> QED
  BY <1>1, OneReaches

(* What lies directly in a Shared_with_me. *)
LEMMA Received ==
  ASSUME NEW x \in User, NEW p \in Path, Parent(p) = SharedDir(x)
  PROVE  Len(p) = 3 /\ p[1] = x /\ p[2] = SharedName
<1>1. SharedDir(x)[1] = x /\ SharedDir(x)[2] = SharedName /\ Len(SharedDir(x)) = 2
  BY SharedDirShape
<1>2. /\ Len(p) \in Nat \ {0} /\ Len(Parent(p)) = Len(p) - 1
      /\ \A i \in 1 .. Len(p) - 1 : Parent(p)[i] = p[i]
  BY ParentShape
<1>3. Len(p) = 3
  <2>1. Len(Parent(p)) = 2
    BY <1>1
  <2> DEFINE n == Len(p)
  <2>2. n \in Nat /\ n - 1 = 2
    BY <1>2, <2>1
  <2> HIDE DEF n
  <2>3. n = 3
    BY <2>2
  <2> QED
    BY <2>3 DEF n
<1>4. Parent(p)[1] = p[1] /\ Parent(p)[2] = p[2]
  BY <1>2, <1>3
<1> QED
  BY <1>1, <1>3, <1>4

LEMMA InSharedDir ==
  ASSUME NEW x \in User, NEW p \in Path, Len(p) >= 2, p[1] = x, p[2] = SharedName
  PROVE  InShared(p, x)
<1>1. SharedDir(x)[1] = x /\ SharedDir(x)[2] = SharedName /\ Len(SharedDir(x)) = 2
  BY DEF SharedDir
<1>2. StartsWith(SharedName, SharedName)
  BY NameAssumption
<1>3. \A i \in 1 .. 2 - 1 : p[i] = SharedDir(x)[i]
  BY <1>1
<1> QED
  BY <1>1, <1>2, <1>3 DEF InShared, HasPrefix

LEMMA NotInSharedDir ==
  ASSUME NEW us \in SUBSET User, NamesApart(us), NEW u \in us, NEW p \in Path,
         checkpath(p, u), ~InShared(p, u), NEW x \in us, Len(p) > 2
  PROVE  SubSeq(p, 1, 2) # SharedDir(x)
<1> SUFFICES ASSUME SubSeq(p, 1, 2) = SharedDir(x) PROVE FALSE
  OBVIOUS
<1>1. p \in Seq(Name) /\ 2 \in 0 .. Len(p)
  BY ParentShape
<1>2. SubSeq(p, 1, 2)[1] = p[1] /\ SubSeq(p, 1, 2)[2] = p[2]
  BY <1>1, PrefixShape
<1>3. p[1] = x /\ p[2] = SharedName
  BY <1>2, SharedDirShape
<1>4. x = u
  BY <1>3, OwnHome
<1> QED
  BY <1>1, <1>3, <1>4, InSharedDir

LEMMA CandidateType ==
  ASSUME NEW p \in InputPath, NEW i \in 0 .. MaxNumber
  PROVE  Candidate(i, Base(p)) \in Name
<1>1. p \in Seq(Name) /\ Len(p) \in Nat \ {0}
  BY ParentShape, InputAssumption
<1>2. Base(p) \in Name
  BY <1>1 DEF Base
<1> QED
  BY <1>2, InputAssumption DEF Candidate

LEMMA ReceivedAsShape ==
  ASSUME NEW sharee \in User, NEW p \in InputPath, NEW i \in 0 .. MaxNumber
  PROVE  LET at == ReceivedAs(sharee, p, i)
         IN  at \in Path /\ Parent(at) = SharedDir(sharee)
<1> DEFINE n == Candidate(i, Base(p))
           d == SharedDir(sharee)
           at == ReceivedAs(sharee, p, i)
<1>1. at \in Path /\ at = Append(d, n)
  BY ReceivedAsType DEF ReceivedAs
<1>2. d \in Seq(Name) /\ Len(d) = 2 /\ n \in Name
  BY SharedDirShape, CandidateType DEF Path
<1> HIDE DEF n, d, at
<1>3. Len(at) = 3 /\ at[1] = d[1] /\ at[2] = d[2]
  <2>1. /\ Len(Append(d, n)) = Len(d) + 1
        /\ \A j \in 1 .. Len(d) : Append(d, n)[j] = d[j]
    <3>1. d \in Seq(Name) /\ n \in Name
      BY <1>2
    <3> QED
      BY <3>1, AppendProperties
  <2> QED
    BY <1>1, <1>2, <2>1
<1>4. /\ Parent(at) \in Seq(Name) /\ Len(Parent(at)) = 2
      /\ Parent(at)[1] = at[1] /\ Parent(at)[2] = at[2]
  <2>1. /\ Parent(at) \in Seq(Name) /\ Len(Parent(at)) = Len(at) - 1
        /\ \A j \in 1 .. Len(at) - 1 : Parent(at)[j] = at[j]
    BY <1>1, ParentShape
  <2> QED
    BY <1>3, <2>1
<1>5. Parent(at) = d
  BY <1>2, <1>3, <1>4, SeqEqual
<1> QED
  BY <1>1, <1>5 DEF at, d

-----------------------------------------------------------------------------
(* remove and uploadHelper for a file that nobody shares. *)

\* At most the link or directory p differs between v and w.
OnlyAt(v, w, p) ==
  /\ w.sharedata = v.sharedata
  /\ Taken(w) \ {p} = Taken(v) \ {p}
  /\ \A q \in DOMAIN v.link \ {p} : q \in DOMAIN w.link /\ w.link[q] = v.link[q]

LEMMA OnlyAtTransitive ==
  ASSUME NEW v, NEW w, NEW x, NEW p, OnlyAt(v, w, p), OnlyAt(w, x, p)
  PROVE  OnlyAt(v, x, p)
  BY DEF OnlyAt

LEMMA LinkGoneTree ==
  ASSUME NEW v, NEW w, NEW us, TreeSound(v, us), NEW p, LinkGone(v, w, p)
  PROVE  TreeSound(w, us) /\ DOMAIN w.link = DOMAIN v.link \ {p}
         /\ \A q \in DOMAIN w.link : w.link[q] = v.link[q]
<1>1. /\ DOMAIN w.link = DOMAIN v.link \ {p} /\ w.dirs = v.dirs
      /\ \A q \in DOMAIN w.link : w.link[q] = v.link[q]
  BY DEF LinkGone, Without, Restrict
<1> QED
  BY <1>1 DEF TreeSound, Taken

LEMMA LinkMadeTree ==
  ASSUME NEW v, NEW w, NEW us, TreeSound(v, us), NEW p, LinkMade(v, w, p)
  PROVE  TreeSound(w, us) /\ DOMAIN w.link = DOMAIN v.link \cup {p}
         /\ \A q \in DOMAIN v.link : w.link[q] = v.link[q]
<1>1. PICK k : w.link = With(v.link, p, k)
  BY DEF LinkMade
<1>2. p \notin v.dirs /\ p \notin DOMAIN v.link /\ Parent(p) \in v.dirs \cup {<<>>}
  BY DEF LinkMade, CanCreate, Taken
<1>3. /\ DOMAIN w.link = DOMAIN v.link \cup {p} /\ w.dirs = v.dirs
      /\ \A q \in DOMAIN v.link : w.link[q] = v.link[q]
  BY <1>1, <1>2 DEF LinkMade, With
<1> QED
  BY <1>2, <1>3 DEF TreeSound, Taken

(* A user's home and Shared_with_me cannot be removed. *)
LEMMA DirGoneTree ==
  ASSUME NEW v, NEW w, NEW us \in SUBSET User, NamesApart(us), TreeSound(v, us),
         NEW u \in us, NEW p \in Path, checkpath(p, u), DirGone(v, w, p, u)
  PROVE  TreeSound(w, us)
<1>1. /\ p \in v.dirs /\ p # SharedDir(u) /\ \A q \in Taken(v) : Parent(q) # p
      /\ w.link = v.link /\ w.dirs = v.dirs \ {p}
  BY DEF DirGone, Removable, IsEmptyDir
<1>2. ASSUME NEW x \in us PROVE {Root(x), SharedDir(x)} \subseteq w.dirs
  <2>1. Root(x) \in v.dirs /\ SharedDir(x) \in v.dirs
    BY DEF TreeSound
  <2>2. Root(x) # p
    BY <1>1, <2>1, SharedDirShape DEF Taken
  <2>3. SharedDir(x) # p
    <3>1. SharedDir(x)[1] = x
      BY SharedDirShape
    <3>2. p[1] = x => x = u
      BY OwnHome
    <3> QED
      BY <1>1, <3>1, <3>2
  <2> QED
    BY <1>1, <2>1, <2>2, <2>3
<1>3. ASSUME NEW q \in Taken(w) PROVE Parent(q) \in w.dirs \cup {<<>>}
  BY <1>1 DEF TreeSound, Taken
<1>4. w.dirs \cap DOMAIN w.link = {}
  BY <1>1 DEF TreeSound
<1> QED
  BY <1>2, <1>3, <1>4 DEF TreeSound

LEMMA RemoveTree ==
  ASSUME NEW v, VolumeType(v), NEW us \in SUBSET User, NamesApart(us), TreeSound(v, us),
         NEW u \in us, NEW p \in Path, checkpath(p, u)
  PROVE  LET w == remove(v, p, u).vol
         IN  /\ TreeSound(w, us) /\ OnlyAt(v, w, p)
             /\ DOMAIN w.link \subseteq DOMAIN v.link
<1> DEFINE w == remove(v, p, u).vol
<1>1. /\ w.sharedata = v.sharedata
      /\ SameShape(v, w) \/ LinkGone(v, w, p) \/ DirGone(v, w, p, u)
  BY RemoveShape
<1> HIDE DEF w
<1>2. TreeSound(w, us) /\ OnlyAt(v, w, p) /\ DOMAIN w.link \subseteq DOMAIN v.link
  <2>1. CASE SameShape(v, w)
    BY <1>1, <2>1 DEF SameShape, TreeSound, OnlyAt, Taken
  <2>2. CASE LinkGone(v, w, p)
    <3>1. TreeSound(w, us) /\ DOMAIN w.link = DOMAIN v.link \ {p}
          /\ \A q \in DOMAIN w.link : w.link[q] = v.link[q]
      BY <2>2, LinkGoneTree
    <3>2. w.dirs = v.dirs
      BY <2>2 DEF LinkGone
    <3> QED
      BY <1>1, <3>1, <3>2 DEF OnlyAt, Taken
  <2>3. CASE DirGone(v, w, p, u)
    <3>1. TreeSound(w, us)
      BY <2>3, DirGoneTree
    <3>2. w.link = v.link /\ w.dirs = v.dirs \ {p}
      BY <2>3 DEF DirGone
    <3> QED
      BY <1>1, <3>1, <3>2 DEF OnlyAt, Taken
  <2> QED
    BY <1>1, <2>1, <2>2, <2>3
<1> QED
  BY <1>2 DEF w

(* Names come and go where a user of us may go. *)
LEMMA OnlyAtPlaced ==
  ASSUME NEW v, NEW w, NEW us, Placed(v, us), NEW u \in us, NEW p, checkpath(p, u),
         OnlyAt(v, w, p)
  PROVE  Placed(w, us)
<1>1. \A q \in Taken(w) : q = p \/ q \in Taken(v)
  BY DEF OnlyAt
<1> QED
  BY <1>1 DEF Placed, OnlyAt

LEMMA RemoveVolume ==
  ASSUME NEW v, NEW us, VolumeInv(v, us), NEW u \in us, NEW p \in Path, checkpath(p, u),
         p \notin ShareePaths(v.sharedata), \A r \in v.sharedata : r.origpath # p
  PROVE  VolumeInv(remove(v, p, u).vol, us) /\ OnlyAt(v, remove(v, p, u).vol, p)
<1> DEFINE w == remove(v, p, u).vol
<1>0. /\ LinkInv(v, {}) /\ VolumeType(v) /\ TreeSound(v, us) /\ Placed(v, us)
      /\ us \in SUBSET User /\ NamesApart(us)
  BY DEF VolumeInv, LinkInv, StoreInv, Placed
<1>1. LinkInv(w, {})
  BY <1>0, RemoveInv
<1>2. /\ TreeSound(w, us) /\ OnlyAt(v, w, p)
      /\ DOMAIN w.link \subseteq DOMAIN v.link
  BY <1>0, RemoveTree
<1> HIDE DEF w
<1>3. OwnedPaths(w) \subseteq OwnedPaths(v)
  BY <1>2 DEF OwnedPaths, OnlyAt
<1>4. RowsApart(w) /\ SharedDirManaged(w, us) /\ Placed(w, us)
  BY <1>0, <1>2, <1>3, OnlyAtPlaced DEF VolumeInv, RowsApart, SharedDirManaged, OnlyAt
<1>5. VolumeInv(w, us) /\ OnlyAt(v, w, p)
  BY <1>1, <1>2, <1>4 DEF VolumeInv
<1> QED
  BY <1>5 DEF w

LEMMA UploadHelperVolume ==
  ASSUME NEW v, NEW us, VolumeInv(v, us), NEW u \in us,
         NEW p \in Path, checkpath(p, u), NEW b \in Body,
         p \notin ShareePaths(v.sharedata), \A r \in v.sharedata : r.origpath # p
  PROVE  VolumeInv(uploadHelper(v, p, u, b).vol, us) /\ OnlyAt(v, uploadHelper(v, p, u, b).vol, p)
<1> DEFINE w == IF Stat(v, p) THEN remove(v, p, u).vol ELSE v
           x == uploadHelper(v, p, u, b).vol
<1>0. /\ LinkInv(v, {}) /\ VolumeType(v)
      /\ us \in SUBSET User /\ NamesApart(us)
  BY DEF VolumeInv, LinkInv, StoreInv, Placed
<1>1. CASE InShared(p, u)
  BY <1>1 DEF uploadHelper, Result, OnlyAt
<1>2. CASE ~InShared(p, u)
  <2>1. VolumeInv(w, us) /\ OnlyAt(v, w, p)
    <3>1. VolumeInv(remove(v, p, u).vol, us) /\ OnlyAt(v, remove(v, p, u).vol, p)
      BY RemoveVolume
    <3>2. OnlyAt(v, v, p)
      BY DEF OnlyAt
    <3> QED
      BY <3>1, <3>2
  <2>2. LinkInv(x, {})
    BY <1>0, UploadHelperInv
  <2>3. x.sharedata = v.sharedata /\ (LinkMade(w, x, p) \/ SameShape(w, x))
    BY <1>0, <1>2, UploadHelperShape
  <2> HIDE DEF w, x
  <2>4. TreeSound(w, us) /\ Placed(w, us) /\ w.sharedata = v.sharedata
    BY <2>1 DEF VolumeInv, OnlyAt
  <2>5. CASE LinkMade(w, x, p)
    <3>1. TreeSound(x, us) /\ DOMAIN x.link = DOMAIN w.link \cup {p}
          /\ \A q \in DOMAIN w.link : x.link[q] = w.link[q]
      BY <2>4, <2>5, LinkMadeTree
    <3>2. x.dirs = w.dirs
      BY <2>5 DEF LinkMade
    <3>3. OnlyAt(w, x, p)
      BY <2>3, <2>4, <3>1, <3>2 DEF OnlyAt, Taken
    <3>4. OwnedPaths(x) \subseteq OwnedPaths(w) \cup {p}
      BY <2>3, <2>4, <3>1 DEF OwnedPaths
    <3>5. SharedDirManaged(x, us)
      BY <1>0, <1>2, <2>1, <3>4, NotInSharedDir DEF VolumeInv, SharedDirManaged
    <3>6. RowsApart(x) /\ Placed(x, us)
      BY <2>3, <2>4, <3>3, OnlyAtPlaced DEF VolumeInv, RowsApart
    <3> QED
      BY <2>1, <2>2, <3>1, <3>3, <3>5, <3>6, OnlyAtTransitive DEF VolumeInv, x
  <2>6. CASE SameShape(w, x)
    <3>1. OthersKept(w, x, {})
      BY <2>3, <2>4, <2>6 DEF SameShape, OthersKept
    <3>2. VolumeInv(x, us)
      BY <2>1, <2>2, <3>1, OthersKeptInv
    <3>3. OnlyAt(w, x, p)
      BY <2>3, <2>4, <2>6 DEF SameShape, OnlyAt, Taken
    <3> QED
      BY <2>1, <3>2, <3>3, OnlyAtTransitive DEF x
  <2> QED
    BY <2>3, <2>5, <2>6
<1> QED
  BY <1>1, <1>2


-----------------------------------------------------------------------------
(* Shares are taken away, made and changed. *)

LEMMA SharedDirOf ==
  ASSUME NEW v, NEW us, VolumeInv(v, us), NEW r \in v.sharedata
  PROVE  /\ r.sharee \in us /\ r.sharee \in User /\ r.shareepath \in Path
         /\ Len(r.shareepath) = 3 /\ r.shareepath[1] = r.sharee
         /\ r.shareepath[2] = SharedName
<1>1. r.sharee \in us /\ r.sharee \in User /\ r.shareepath \in Path
  BY DEF VolumeInv, LinkInv, StoreInv, VolumeType, ShareRow, Placed
<1>2. Parent(r.shareepath) = SharedDir(r.sharee)
  BY DEF VolumeInv, LinkInv, ShareLinked
<1> QED
  BY <1>1, <1>2, Received

\* v without the rows of sharedata in rows, and without their links.
DropRows(v, rows) ==
  [Removed(v, ShareePaths(rows)) EXCEPT !.sharedata = @ \ rows]

LEMMA DropRowsVolume ==
  ASSUME NEW v, NEW us, VolumeInv(v, us), NEW rows \in SUBSET v.sharedata
  PROVE  LET w == DropRows(v, rows)
         IN  /\ VolumeInv(w, us)
             /\ w.dirs = v.dirs /\ w.sharedata = v.sharedata \ rows
             /\ DOMAIN w.link = DOMAIN v.link \ ShareePaths(rows)
             /\ \A q \in DOMAIN w.link : w.link[q] = v.link[q]
             /\ OwnedPaths(w) = OwnedPaths(v)
<1> DEFINE w == DropRows(v, rows)
<1>0. /\ LinkInv(v, {}) /\ StoreInv(v) /\ VolumeType(v)
      /\ v.dirs \ ShareePaths(rows) = v.dirs
  BY RowsRemovable DEF VolumeInv, LinkInv, StoreInv, TreeSound
<1>1. /\ w.dirs = v.dirs /\ w.sharedata = v.sharedata \ rows
      /\ w.filedata = v.filedata /\ w.store = v.store /\ w.filecount = v.filecount
      /\ w.link = Without(v.link, ShareePaths(rows))
  BY <1>0 DEF DropRows, Removed, VolumeType
<1>2. /\ DOMAIN w.link = DOMAIN v.link \ ShareePaths(rows)
      /\ \A q \in DOMAIN w.link : w.link[q] = v.link[q]
  BY <1>1 DEF Without, Restrict
<1>3. VolumeType(w)
  <2>1. v.sharedata \ rows \in SUBSET v.sharedata
    OBVIOUS
  <2> QED
    BY <1>0, <2>1, RemovedType, UnshareVolumeType DEF DropRows
<1> HIDE DEF w
<1>4. StoreInv(w)
  BY <1>0, <1>1, <1>3, SameStore
<1>5. OwnedPaths(w) = OwnedPaths(v)
  <2>1. ShareePaths(v.sharedata) = ShareePaths(rows) \cup ShareePaths(w.sharedata)
    BY <1>1 DEF ShareePaths
  <2> QED
    BY <1>2, <2>1 DEF OwnedPaths
<1>6. \A k : LinksTo(w, k) = LinksTo(v, k)
  BY <1>2, <1>5 DEF LinksTo, OwnedPaths
<1>7. OwnersCounted(w) /\ LinksLive(w)
  BY <1>0, <1>1, <1>2, <1>6 DEF LinkInv, OwnersCounted, LinksLive
<1>8. IsFiniteSet(DOMAIN w.link)
  BY <1>0, <1>2, FS_Subset DEF LinkInv
<1>9. ASSUME NEW r \in w.sharedata PROVE ShareLinked(w, r)
  <2>1. ShareLinked(v, r) /\ r \in v.sharedata /\ r \notin rows
    BY <1>0, <1>1 DEF LinkInv
  <2>2. r.shareepath \notin ShareePaths(rows)
    BY <2>1 DEF VolumeInv, RowsApart, ShareePaths
  <2>3. r.shareepath \in DOMAIN w.link /\ r.origpath \in DOMAIN w.link
    BY <1>2, <1>5, <2>1, <2>2 DEF ShareLinked, OwnedPaths
  <2> QED
    BY <1>2, <1>5, <2>1, <2>3 DEF ShareLinked
<1>10. LinkInv(w, {})
  BY <1>4, <1>7, <1>8, <1>9 DEF LinkInv
<1>11. RowsApart(w) /\ SharedDirManaged(w, us)
  BY <1>1, <1>5 DEF VolumeInv, RowsApart, SharedDirManaged
<1>12. TreeSound(w, us) /\ Placed(w, us)
  BY <1>1, <1>2 DEF VolumeInv, TreeSound, Placed, Taken
<1>13. VolumeInv(w, us)
  BY <1>10, <1>11, <1>12 DEF VolumeInv
<1> QED
  BY <1>1, <1>2, <1>5, <1>13 DEF w

LEMMA ShareVolume ==
  ASSUME NEW v, NEW us, VolumeInv(v, us), NEW u \in us, NEW sharee \in us, u # sharee,
         NEW p \in Path, p \in OwnedPaths(v), checkpath(p, u), NEW perm \in {0, 1},
         NEW at \in Path, Parent(at) = SharedDir(sharee), CanCreate(v, at),
         SharesWith(v, u, sharee, p) = {}
  PROVE  LET w == Share(v, u, sharee, p, perm, at)
         IN  /\ VolumeInv(w, us)
             /\ Taken(w) = Taken(v) \cup {at}
             /\ \E r \in w.sharedata : r.shareepath = at /\ r.sharer = u
             /\ \A q \in DOMAIN v.link : q \in DOMAIN w.link /\ w.link[q] = v.link[q]
<1> DEFINE w == Share(v, u, sharee, p, perm, at)
           row == [sharer |-> u, sharee |-> sharee, origpath |-> p,
                   shareepath |-> at, perm |-> perm]
<1>0. /\ LinkInv(v, {}) /\ StoreInv(v) /\ VolumeType(v) /\ TreeSound(v, us)
      /\ p \in DOMAIN v.link /\ \A r \in v.sharedata : ShareLinked(v, r)
      /\ Placed(v, us) /\ u \in User /\ sharee \in User
  BY DEF VolumeInv, LinkInv, StoreInv, OwnedPaths, Placed
<1>1. /\ w.dirs = v.dirs /\ w.sharedata = v.sharedata \cup {row}
      /\ w.filedata = v.filedata /\ w.store = v.store /\ w.filecount = v.filecount
      /\ w.link = With(v.link, at, v.link[p])
  BY <1>0 DEF Share, VolumeType
<1>2. VolumeType(w)
  BY <1>0, ShareVolumeType
<1>3. /\ row.sharer = u /\ row.sharee = sharee /\ row.origpath = p /\ row.shareepath = at
  OBVIOUS
<1> HIDE DEF w, row
<1>4. LinkMade(v, w, at)
  BY <1>1 DEF LinkMade
<1>5. TreeSound(w, us) /\ DOMAIN w.link = DOMAIN v.link \cup {at}
      /\ \A q \in DOMAIN v.link : w.link[q] = v.link[q]
  BY <1>0, <1>4, LinkMadeTree
<1>6. w.link[at] = v.link[p] /\ at \notin DOMAIN v.link
  BY <1>1 DEF With, CanCreate, Taken
<1>7. StoreInv(w)
  BY <1>0, <1>1, <1>2, SameStore
<1>8. OwnedPaths(w) = OwnedPaths(v)
  <2>1. ShareePaths(w.sharedata) = ShareePaths(v.sharedata) \cup {at}
    BY <1>1, <1>3 DEF ShareePaths
  <2> QED
    BY <1>5, <1>6, <2>1 DEF OwnedPaths
<1>9. \A k : LinksTo(w, k) = LinksTo(v, k)
  BY <1>5, <1>8 DEF LinksTo, OwnedPaths
<1>10. OwnersCounted(w) /\ LinksLive(w)
  BY <1>0, <1>1, <1>5, <1>6, <1>9 DEF LinkInv, OwnersCounted, LinksLive
<1>11. IsFiniteSet(DOMAIN w.link)
  BY <1>0, <1>5, FS_AddElement DEF LinkInv
<1>12. ShareLinked(w, row)
  BY <1>0, <1>3, <1>5, <1>6, <1>8 DEF ShareLinked
<1>13. ASSUME NEW r \in v.sharedata PROVE ShareLinked(w, r) /\ r.shareepath \in DOMAIN v.link
  <2>1. ShareLinked(v, r)
    BY <1>0
  <2>2. r.shareepath \in DOMAIN v.link /\ r.origpath \in DOMAIN v.link
    BY <2>1 DEF ShareLinked, OwnedPaths
  <2> QED
    BY <1>5, <1>8, <2>1, <2>2 DEF ShareLinked
<1>14. LinkInv(w, {})
  BY <1>1, <1>7, <1>10, <1>11, <1>12, <1>13 DEF LinkInv
<1>15. RowsApart(w)
  <2>1. ASSUME NEW r \in v.sharedata
        PROVE  /\ r.shareepath # at
               /\ ~(r.sharer = u /\ r.sharee = sharee /\ r.origpath = p)
    BY <1>6, <1>13 DEF SharesWith, SharesOf
  <2>2. \A r, t \in v.sharedata :
          \/ r.shareepath = t.shareepath
          \/ r.sharer = t.sharer /\ r.sharee = t.sharee /\ r.origpath = t.origpath
          => r = t
    BY DEF VolumeInv, RowsApart
  <2> QED
    BY <1>1, <1>3, <2>1, <2>2 DEF RowsApart
<1>16. SharedDirManaged(w, us)
  BY <1>8 DEF VolumeInv, SharedDirManaged
<1>17. Taken(w) = Taken(v) \cup {at}
  BY <1>1, <1>5 DEF Taken
<1>18. Placed(w, us)
  <2>1. checkpath(at, sharee)
    BY <1>0, Received, HomeChecks
  <2> QED
    BY <1>0, <1>1, <1>3, <1>17, <2>1 DEF Placed
<1>19. VolumeInv(w, us)
  BY <1>5, <1>14, <1>15, <1>16, <1>18 DEF VolumeInv
<1>20. \E r \in w.sharedata : r.shareepath = at /\ r.sharer = u
  BY <1>1, <1>3
<1> QED
  BY <1>5, <1>17, <1>19, <1>20 DEF w

(* g gives each row a new permission. *)
LEMMA PermVolume ==
  ASSUME NEW v, NEW us, VolumeInv(v, us), NEW g,
         \A r \in v.sharedata : /\ g[r].sharer = r.sharer /\ g[r].sharee = r.sharee
                                /\ g[r].origpath = r.origpath
                                /\ g[r].shareepath = r.shareepath,
         NEW w, VolumeType(w), w.sharedata = {g[r] : r \in v.sharedata},
         w.dirs = v.dirs, w.link = v.link, w.store = v.store, w.filedata = v.filedata,
         w.filecount = v.filecount
  PROVE  VolumeInv(w, us)
<1>0. LinkInv(v, {}) /\ StoreInv(v) /\ \A r \in v.sharedata : ShareLinked(v, r)
  BY DEF VolumeInv, LinkInv
<1>1. StoreInv(w)
  BY <1>0, SameStore
<1>2. ShareePaths(w.sharedata) = ShareePaths(v.sharedata)
  BY DEF ShareePaths
<1>3. OwnedPaths(w) = OwnedPaths(v)
  BY <1>2 DEF OwnedPaths
<1>4. \A k : LinksTo(w, k) = LinksTo(v, k)
  BY <1>3 DEF LinksTo
<1>5. OwnersCounted(w) /\ LinksLive(w)
  BY <1>0, <1>4 DEF LinkInv, OwnersCounted, LinksLive
<1>6. ASSUME NEW t \in w.sharedata PROVE ShareLinked(w, t)
  <2>1. PICK r \in v.sharedata : t = g[r]
    OBVIOUS
  <2>2. ShareLinked(v, r)
    BY <1>0
  <2> QED
    BY <1>3, <2>1, <2>2 DEF ShareLinked
<1>7. LinkInv(w, {})
  BY <1>0, <1>1, <1>5, <1>6 DEF LinkInv
<1>8. RowsApart(w)
  BY DEF VolumeInv, RowsApart
<1>9. SharedDirManaged(w, us)
  BY <1>3 DEF VolumeInv, SharedDirManaged
<1>10. TreeSound(w, us) /\ Placed(w, us)
  BY DEF VolumeInv, TreeSound, Placed, Taken
<1> QED
  BY <1>7, <1>8, <1>9, <1>10 DEF VolumeInv

(* New directories, each in one that is there or that is new as well. *)
AddDirs(v, D) == [v EXCEPT !.dirs = @ \cup D]

LEMMA DirsVolume ==
  ASSUME NEW v, NEW us, VolumeInv(v, us), NEW D \in SUBSET Path,
         D \cap DOMAIN v.link = {},
         \A d \in D : Parent(d) \in v.dirs \cup D \cup {<<>>},
         NEW ws \in SUBSET User, us \subseteq ws, NamesApart(ws),
         \A d \in D : \E x \in ws : checkpath(d, x),
         \A u \in ws \ us : {Root(u), SharedDir(u)} \subseteq v.dirs \cup D
  PROVE  VolumeInv(AddDirs(v, D), ws)
<1> DEFINE w == AddDirs(v, D)
<1>0. LinkInv(v, {}) /\ StoreInv(v) /\ VolumeType(v)
  BY DEF VolumeInv, LinkInv, StoreInv
<1>1. /\ w.dirs = v.dirs \cup D /\ w.sharedata = v.sharedata /\ w.link = v.link
      /\ w.filedata = v.filedata /\ w.store = v.store /\ w.filecount = v.filecount
  BY <1>0 DEF AddDirs, VolumeType
<1>2. VolumeType(w)
  BY <1>0 DEF AddDirs, VolumeType
<1> HIDE DEF w
<1>3. LinkInv(w, {})
  BY <1>0, <1>1, <1>2, SameStore, SameLinks
<1>4. RowsApart(w) /\ OwnedPaths(w) = OwnedPaths(v)
  BY <1>1 DEF VolumeInv, RowsApart, OwnedPaths
<1>5. TreeSound(w, ws)
  <2>1. w.dirs \cap DOMAIN w.link = {}
    BY <1>1 DEF VolumeInv, TreeSound
  <2>2. \A q \in Taken(w) : Parent(q) \in w.dirs \cup {<<>>}
    BY <1>1 DEF VolumeInv, TreeSound, Taken
  <2>3. \A u \in ws : {Root(u), SharedDir(u)} \subseteq w.dirs
    BY <1>1 DEF VolumeInv, TreeSound
  <2> QED
    BY <2>1, <2>2, <2>3 DEF TreeSound
<1>6. Placed(w, ws)
  BY <1>1 DEF VolumeInv, Placed, Taken
<1>7. ASSUME NEW p \in OwnedPaths(w), NEW u \in ws, Len(p) > 2
      PROVE  SubSeq(p, 1, 2) # SharedDir(u)
  <2>1. CASE u \in us
    BY <1>4, <1>7, <2>1 DEF VolumeInv, SharedDirManaged
  <2>2. CASE u \notin us
    <3>1. p \in Path /\ p \in Taken(v)
      BY <1>0, <1>4 DEF OwnedPaths, Taken, VolumeType
    <3>2. PICK x \in us : checkpath(p, x)
      BY <3>1 DEF VolumeInv, Placed
    <3>3. p[1] # u
      BY <2>2, <3>1, <3>2, OwnHome
    <3>4. p \in Seq(Name) /\ 2 \in 0 .. Len(p)
      BY <1>7, <3>1, ParentShape
    <3>5. SubSeq(p, 1, 2)[1] = p[1]
      BY <3>4, PrefixShape
    <3> QED
      BY <3>3, <3>5, SharedDirShape
  <2> QED
    BY <2>1, <2>2
<1>8. VolumeInv(w, ws)
  BY <1>3, <1>4, <1>5, <1>6, <1>7 DEF VolumeInv, SharedDirManaged
<1> QED
  BY <1>8 DEF w

-----------------------------------------------------------------------------
(* The invariant of the server as long as names are apart. *)
ServerInv == DedupInv /\ VolumeInv(vol, userdata)

(* What a request of user u may do to names and to owners' links. *)
NamesOwn(u) ==
  \A p \in SymDiff(Taken(vol), Taken(vol')) :
    p[1] \in userdata => u \in Namers(vol.sharedata \cup vol'.sharedata, p)

LinksOwn(u) ==
  \A p \in OwnedPaths(vol) :
    p[1] \in userdata /\ u \notin Writers(vol, p) =>
      p \in DOMAIN vol'.link /\ vol'.link[p] = vol.link[p]

Lawful(u) == VolumeInv(vol', userdata') /\ NamesOwn(u) /\ LinksOwn(u)

LEMMA IdleLawful ==
  ASSUME ServerInv, NEW u, vol' = vol, userdata' = userdata
  PROVE  Lawful(u)
<1>1. VolumeInv(vol', userdata')
  BY DEF ServerInv
<1>2. NamesOwn(u)
  BY DEF NamesOwn, SymDiff
<1>3. LinksOwn(u)
  BY DEF LinksOwn, OwnedPaths
<1> QED
  BY <1>1, <1>2, <1>3 DEF Lawful

LEMMA OnlyAtLawful ==
  ASSUME ServerInv, NEW u \in userdata, NEW p \in Path, checkpath(p, u),
         VolumeInv(vol', userdata'), OnlyAt(vol, vol', p)
  PROVE  Lawful(u)
<1>0. p[1] \in userdata => p[1] = u
  BY OwnHome DEF ServerInv, VolumeInv, Placed
<1>1. ASSUME NEW q \in SymDiff(Taken(vol), Taken(vol')) PROVE q = p
  BY DEF SymDiff, OnlyAt
<1>2. NamesOwn(u)
  BY <1>0, <1>1 DEF NamesOwn, Namers
<1>3. LinksOwn(u)
  BY <1>0 DEF LinksOwn, OwnedPaths, Writers, OnlyAt
<1> QED
  BY <1>2, <1>3 DEF Lawful

LEMMA OthersKeptLawful ==
  ASSUME NEW u, NEW S, VolumeInv(vol', userdata'), OthersKept(vol, vol', S),
         \A q \in S : q \in OwnedPaths(vol) /\ q[1] \in userdata => u \in Writers(vol, q)
  PROVE  Lawful(u)
<1>1. Taken(vol') = Taken(vol)
  BY DEF OthersKept, Taken
<1>2. NamesOwn(u)
  BY <1>1 DEF NamesOwn, SymDiff
<1>3. LinksOwn(u)
  BY DEF LinksOwn, OwnedPaths, OthersKept
<1> QED
  BY <1>2, <1>3 DEF Lawful

(* Facts of the volume that the handlers rely on. *)
LEMMA Standing ==
  ASSUME ServerInv
  PROVE  /\ VolumeInv(vol, userdata) /\ userdata \in SUBSET User /\ NamesApart(userdata)
         /\ VolumeType(vol) /\ RowsApart(vol) /\ InputPath \subseteq Path
         /\ \A r \in vol.sharedata : /\ ShareLinked(vol, r) /\ r \in ShareRow
                                      /\ r.sharer \in userdata /\ r.sharee \in userdata
  BY InputAssumption DEF ServerInv, DedupInv, TypeOK, VolumeInv, Placed, LinkInv, VolumeType

(* Whose file it is that a path leads to, and who receives there. *)
LEMMA SharerOf ==
  ASSUME ServerInv, NEW u \in userdata, NEW p \in Path, checkpath(p, u),
         NEW r \in vol.sharedata, r.origpath = p
  PROVE  r.sharer = u
  BY Standing, OneReaches DEF ShareLinked

LEMMA ShareeOf ==
  ASSUME ServerInv, NEW u \in userdata, NEW p \in Path, checkpath(p, u),
         NEW r \in vol.sharedata, r.shareepath = p
  PROVE  r.sharee = u /\ p[1] = u
<1>1. r.sharee \in userdata /\ p[1] = r.sharee
  BY Standing, SharedDirOf
<1> QED
  BY <1>1, Standing, OwnHome

LEMMA UploadLawful ==
  ASSUME ServerInv, NEW u \in User, NEW p \in InputPath, NEW b \in Body, uploadHandler(u, p, b)
  PROVE  Lawful(u)
<1>0. /\ VolumeInv(vol, userdata) /\ userdata \in SUBSET User /\ RowsApart(vol)
      /\ \A r \in vol.sharedata : ShareLinked(vol, r) /\ r \in ShareRow
  BY Standing
<1> p \in Path /\ u \in userdata
  BY Standing DEF uploadHandler, checkCookie
<1>1. CASE Refuse("error")
  BY <1>1, IdleLawful DEF Refuse
<1>2. CASE checkpath(p, u) /\ UploadPlain(u, p, b)
  <2>1. p \notin ShareePaths(vol.sharedata) /\ \A r \in vol.sharedata : r.origpath # p
    BY <1>2 DEF UploadPlain, isSharedFile
  <2>2. vol' = uploadHelper(vol, p, u, b).vol /\ userdata' = userdata
    BY <1>2 DEF UploadPlain, Stored, Answer
  <2>3. VolumeInv(vol', userdata') /\ OnlyAt(vol, vol', p)
    BY <1>0, <1>2, <2>1, <2>2, UploadHelperVolume
  <2> QED
    BY <1>2, <2>3, OnlyAtLawful
<1>3. CASE checkpath(p, u) /\ UploadAsSharer(u, p, b)
  <2>1. PICK r \in vol.sharedata : r.origpath = p
    BY <1>3 DEF UploadAsSharer, isSharedFile
  <2>2. r.sharer = u /\ (p[1] \in userdata => p[1] = u)
    BY <1>0, <1>3, <2>1, SharerOf, Standing, OwnHome
  <2>3. PICK done \in Unlinkable(vol, SharesOf(vol, u, p)) :
          /\ vol' = sharerUpload(vol, u, p, b, done).vol
          /\ userdata' = userdata
    BY <1>3 DEF UploadAsSharer, Stored, Answer
  <2> DEFINE S == {p} \cup ShareePaths(SharesOf(vol, u, p))
  <2>4. VolumeInv(vol', userdata') /\ OthersKept(vol, vol', S)
    BY <1>0, <2>1, <2>2, <2>3, SharerUploadInv
  <2>5. \A q \in S : q \in OwnedPaths(vol) => q = p
    BY DEF OwnedPaths, ShareePaths, SharesOf
  <2>6. p[1] \in userdata => u \in Writers(vol, p)
    BY <2>2 DEF Writers
  <2> HIDE DEF S
  <2> QED
    BY <2>4, <2>5, <2>6, OthersKeptLawful
<1>4. CASE UploadAsSharee(u, p, b) /\ ~Refuse("error")
  <2>1. PICK r \in vol.sharedata : r.shareepath = p /\ r.sharee = u /\ r.perm = 1
    BY <1>4 DEF UploadAsSharee, getPerms
  <2>2. PICK t \in vol.sharedata :
          /\ t.shareepath = p
          /\ \E done \in Unlinkable(vol, SharesOf(vol, t.sharer, t.origpath)) :
               /\ vol' = sharerUpload(vol, t.sharer, t.origpath, b, done).vol
               /\ userdata' = userdata
    BY <1>4 DEF UploadAsSharee, Stored, Answer, Result
  <2>3. t = r
    BY <1>0, <2>1, <2>2 DEF RowsApart
  <2>4. PICK done \in Unlinkable(vol, SharesOf(vol, r.sharer, r.origpath)) :
          /\ vol' = sharerUpload(vol, r.sharer, r.origpath, b, done).vol
          /\ userdata' = userdata
    BY <2>2, <2>3
  <2> DEFINE S == {r.origpath} \cup ShareePaths(SharesOf(vol, r.sharer, r.origpath))
  <2>5. VolumeInv(vol', userdata') /\ OthersKept(vol, vol', S)
    BY <1>0, <2>4, SharerUploadInv
  <2>6. \A q \in S : q \in OwnedPaths(vol) => q = r.origpath
    BY DEF OwnedPaths, ShareePaths, SharesOf
  <2>7. u \in Writers(vol, r.origpath)
    BY <2>1 DEF Writers
  <2> HIDE DEF S
  <2> QED
    BY <2>5, <2>6, <2>7, OthersKeptLawful
<1> QED
  BY <1>1, <1>2, <1>3, <1>4 DEF uploadHandler

(* A row and its link go: a name of the sharer's giving. *)
LEMMA DropRowsLawful ==
  ASSUME ServerInv, NEW u, NEW rows \in SUBSET vol.sharedata,
         \A r \in rows : r.sharer = u \/ r.shareepath[1] = u,
         vol' = DropRows(vol, rows),
         userdata' = userdata
  PROVE  Lawful(u)
<1>1. VolumeInv(vol, userdata)
  BY Standing
<1>2. /\ VolumeInv(vol', userdata')
      /\ vol'.dirs = vol.dirs
      /\ DOMAIN vol'.link = DOMAIN vol.link \ ShareePaths(rows)
      /\ \A q \in DOMAIN vol'.link : vol'.link[q] = vol.link[q]
      /\ OwnedPaths(vol') = OwnedPaths(vol)
  BY <1>1, DropRowsVolume
<1>3. ASSUME NEW q \in SymDiff(Taken(vol), Taken(vol'))
      PROVE  u \in Namers(vol.sharedata \cup vol'.sharedata, q)
  <2>1. q \in ShareePaths(rows)
    BY <1>2 DEF SymDiff, Taken
  <2>2. PICK r \in rows : r.shareepath = q
    BY <2>1 DEF ShareePaths
  <2> QED
    BY <2>2 DEF Namers
<1>4. NamesOwn(u)
  BY <1>3 DEF NamesOwn
<1>5. LinksOwn(u)
  BY <1>2 DEF LinksOwn, OwnedPaths
<1> QED
  BY <1>2, <1>4, <1>5 DEF Lawful

LEMMA RemoveReceivedLawful ==
  ASSUME ServerInv, NEW u \in userdata, NEW p \in Path, checkpath(p, u), RemoveAsSharee(u, p)
  PROVE  Lawful(u)
<1> DEFINE rows == {r \in vol.sharedata : r.sharee = u /\ r.shareepath = p}
<1>1. PICK r \in vol.sharedata : r.shareepath = p
  BY DEF RemoveAsSharee, isSharedFile, ShareePaths
<1>3. r.sharee = u /\ p[1] = u
  BY <1>1, ShareeOf
<1>4. ShareePaths(rows) = {p}
  BY <1>1, <1>3 DEF ShareePaths
<1>5. vol' = DropRows(vol, rows) /\ userdata' = userdata
  <2>1. vol.sharedata \ rows = {t \in vol.sharedata : ~(t.sharee = u /\ t.shareepath = p)}
    OBVIOUS
  <2>2. RemoveReceived(vol, u, p) =
          [Removed(vol, ShareePaths(rows)) EXCEPT !.sharedata = vol.sharedata \ rows]
    BY <1>4, <2>1, Standing, RemovedType DEF RemoveReceived
  <2>3. CanRemove(vol, p)
    BY <1>1, Standing DEF CanRemove, ShareLinked
  <2> QED
    BY <2>2, <2>3, Standing, RemovedType DEF RemoveAsSharee, Answer, Result, DropRows
<1>6. \A t \in rows : t.sharer = u \/ t.shareepath[1] = u
  BY <1>3
<1>7. rows \in SUBSET vol.sharedata
  OBVIOUS
<1> HIDE DEF rows
<1> QED
  BY <1>5, <1>6, <1>7, DropRowsLawful

LEMMA RemoveSharedLawful ==
  ASSUME ServerInv, NEW u \in userdata, NEW p \in Path, checkpath(p, u), RemoveAsSharer(u, p)
  PROVE  Lawful(u)
<1> DEFINE rows == SharesOf(vol, u, p)
           w == DropRows(vol, rows)
           x == remove(w, p, u).vol
<1>0. /\ VolumeInv(vol, userdata) /\ userdata \in SUBSET User
      /\ \A r \in vol.sharedata : ShareLinked(vol, r)
  BY Standing
<1>1. p[1] \in userdata => p[1] = u
  BY Standing, OwnHome
<1>2. rows \in SUBSET vol.sharedata
  BY DEF SharesOf
<1>3. \A r \in vol.sharedata : r.origpath = p => r \in rows
  BY SharerOf DEF SharesOf
<1>4. p \in OwnedPaths(vol) /\ p \notin ShareePaths(vol.sharedata)
  <2>1. PICK r \in vol.sharedata : r.origpath = p
    BY DEF RemoveAsSharer, isSharedFile
  <2> QED
    BY <1>0, <2>1 DEF ShareLinked, OwnedPaths
<1>5. vol' = x /\ userdata' = userdata
  <2>1. PICK done \in Unlinkable(vol, rows) :
          vol' = RemoveShared(vol, u, p, done).vol /\ userdata' = userdata
    BY DEF RemoveAsSharer, Answer
  <2>2. done = rows
    BY <1>0, <1>2, <2>1, RowsRemovable DEF VolumeInv
  <2> QED
    BY <2>1, <2>2 DEF RemoveShared, DropRows
<1> HIDE DEF rows
<1>6. /\ VolumeInv(w, userdata)
      /\ w.dirs = vol.dirs /\ w.sharedata = vol.sharedata \ rows
      /\ DOMAIN w.link = DOMAIN vol.link \ ShareePaths(rows)
      /\ \A q \in DOMAIN w.link : w.link[q] = vol.link[q]
      /\ OwnedPaths(w) = OwnedPaths(vol)
  BY <1>0, <1>2, DropRowsVolume
<1> HIDE DEF w
<1>7. VolumeInv(x, userdata) /\ OnlyAt(w, x, p)
  <2>1. p \notin ShareePaths(w.sharedata) /\ \A r \in w.sharedata : r.origpath # p
    BY <1>3, <1>4, <1>6 DEF ShareePaths
  <2> QED
    BY <1>0, <1>6, <2>1, RemoveVolume
<1> HIDE DEF x
<1>8. ASSUME NEW q \in SymDiff(Taken(vol), Taken(x)), q[1] \in userdata
      PROVE  u \in Namers(vol.sharedata \cup vol'.sharedata, q)
  <2>1. q = p \/ q \in ShareePaths(rows)
    BY <1>6, <1>7 DEF SymDiff, Taken, OnlyAt
  <2>2. CASE q = p
    BY <1>1, <1>8, <2>2 DEF Namers
  <2>3. CASE q \in ShareePaths(rows)
    <3>1. PICK r \in rows : r.shareepath = q
      BY <2>3 DEF ShareePaths
    <3>2. r \in vol.sharedata /\ r.sharer = u
      BY DEF rows, SharesOf
    <3> QED
      BY <3>1, <3>2 DEF Namers
  <2> QED
    BY <2>1, <2>2, <2>3
<1>9. ASSUME NEW q \in OwnedPaths(vol), q[1] \in userdata, u \notin Writers(vol, q)
      PROVE  q \in DOMAIN x.link /\ x.link[q] = vol.link[q]
  <2>1. q # p
    BY <1>1, <1>9 DEF Writers
  <2>2. q \in DOMAIN w.link
    BY <1>6 DEF OwnedPaths
  <2> QED
    BY <1>6, <1>7, <2>1, <2>2 DEF OnlyAt
<1> QED
  BY <1>5, <1>7, <1>8, <1>9 DEF Lawful, NamesOwn, LinksOwn

LEMMA RemoveLawful ==
  ASSUME ServerInv, NEW u \in User, NEW p \in InputPath, removeHandler(u, p)
  PROVE  Lawful(u)
<1>1. CASE Refuse("error")
  BY <1>1, IdleLawful DEF Refuse
<1> p \in Path /\ u \in userdata
  BY Standing DEF removeHandler, checkCookie
<1>2. CASE checkpath(p, u) /\ RemovePlain(u, p)
  <2>1. p \notin ShareePaths(vol.sharedata) /\ \A r \in vol.sharedata : r.origpath # p
    BY <1>2 DEF RemovePlain, isSharedFile
  <2>2. vol' = remove(vol, p, u).vol /\ userdata' = userdata
    BY <1>2 DEF RemovePlain, Answer
  <2>3. VolumeInv(vol', userdata') /\ OnlyAt(vol, vol', p)
    BY <1>2, <2>1, <2>2, Standing, RemoveVolume
  <2> QED
    BY <1>2, <2>3, OnlyAtLawful
<1> QED
  BY <1>1, <1>2, RemoveReceivedLawful, RemoveSharedLawful DEF removeHandler

-----------------------------------------------------------------------------
(* Sharing. *)

(* A file outside the requester's Shared_with_me is nobody's received one. *)
LEMMA NotReceived ==
  ASSUME ServerInv, NEW u \in userdata, NEW p \in Path, checkpath(p, u), ~InShared(p, u)
  PROVE  p \notin ShareePaths(vol.sharedata)
<1> SUFFICES ASSUME NEW r \in vol.sharedata, r.shareepath = p PROVE FALSE
  BY DEF ShareePaths
<1>1. Len(p) = 3 /\ p[2] = SharedName /\ p[1] = u /\ u \in User
  BY Standing, SharedDirOf, ShareeOf
<1> QED
  BY <1>1, InSharedDir

LEMMA ShareLawful ==
  ASSUME ServerInv, NEW u \in User, NEW sharee \in User, NEW p \in InputPath,
         NEW perm \in {0, 1}, shareHandler(u, sharee, p, perm)
  PROVE  Lawful(u)
<1>1. CASE Refuse("error")
  BY <1>1, IdleLawful DEF Refuse
<1>2. ASSUME NEW i \in 0 .. MaxNumber, MayShare(u, sharee, p),
             p \in DOMAIN vol.link, CanCreate(vol, ReceivedAs(sharee, p, i)),
             Answer(Result(Share(vol, u, sharee, p, perm, ReceivedAs(sharee, p, i)), "ok"))
      PROVE  Lawful(u)
  <2> DEFINE at == ReceivedAs(sharee, p, i)
             w == Share(vol, u, sharee, p, perm, at)
  <2>1. vol' = w /\ userdata' = userdata
    BY <1>2 DEF Answer, Result
  <2>2. p \in Path /\ checkpath(p, u) /\ ~InShared(p, u) /\ u # sharee
        /\ SharesWith(vol, u, sharee, p) = {} /\ u \in userdata /\ sharee \in userdata
    BY <1>2, Standing DEF MayShare, shareHandler, checkCookie
  <2>3. p \in OwnedPaths(vol)
    BY <1>2, <2>2, NotReceived DEF OwnedPaths
  <2>4. at \in Path /\ Parent(at) = SharedDir(sharee) /\ CanCreate(vol, at)
    BY <1>2, ReceivedAsShape
  <2> HIDE DEF at
  <2>5. /\ VolumeInv(w, userdata)
        /\ Taken(w) = Taken(vol) \cup {at}
        /\ \E r \in w.sharedata : r.shareepath = at /\ r.sharer = u
        /\ \A q \in DOMAIN vol.link : q \in DOMAIN w.link /\ w.link[q] = vol.link[q]
    BY <2>2, <2>3, <2>4, Standing, ShareVolume
  <2> HIDE DEF w
  <2>6. NamesOwn(u)
    BY <2>1, <2>5 DEF NamesOwn, Namers, SymDiff
  <2>7. LinksOwn(u)
    BY <2>1, <2>5 DEF LinksOwn, OwnedPaths
  <2> QED
    BY <2>1, <2>5, <2>6, <2>7 DEF Lawful
<1> QED
  BY <1>1, <1>2 DEF shareHandler

LEMMA UnshareLawful ==
  ASSUME ServerInv, NEW u \in User, NEW sharee \in User, NEW p \in InputPath,
         unshareHandler(u, sharee, p)
  PROVE  Lawful(u)
<1> DEFINE rows == SharesWith(vol, u, sharee, p)
<1>1. CASE Refuse("error")
  BY <1>1, IdleLawful DEF Refuse
<1>2. CASE vol' = DropRows(vol, rows) /\ userdata' = userdata
  <2>1. rows \in SUBSET vol.sharedata /\ \A r \in rows : r.sharer = u
    BY DEF SharesWith, SharesOf
  <2> HIDE DEF rows
  <2> QED
    BY <1>2, <2>1, DropRowsLawful
<1> QED
  BY <1>1, <1>2 DEF unshareHandler, Answer, Result, DropRows

LEMMA ChpermLawful ==
  ASSUME ServerInv, NEW u \in User, NEW sharee \in User, NEW p \in InputPath,
         NEW perm \in {0, 1}, chpermHandler(u, sharee, p, perm)
  PROVE  Lawful(u)
<1> DEFINE rows == SharesWith(vol, u, sharee, p)
           g == [r \in vol.sharedata |-> IF r \in rows THEN [r EXCEPT !.perm = perm] ELSE r]
           w == [vol EXCEPT !.sharedata =
                   {IF r \in rows THEN [r EXCEPT !.perm = perm] ELSE r : r \in @}]
<1>0. /\ VolumeInv(vol, userdata) /\ VolumeType(vol) /\ TypeOK
      /\ \A r \in vol.sharedata : r \in ShareRow
  BY Standing DEF ServerInv, DedupInv
<1>1. CASE Refuse("error")
  BY <1>1, IdleLawful DEF Refuse
<1>2. CASE Answer(Result(w, "error"))
  <2>1. vol' = w /\ userdata' = userdata
    BY <1>2 DEF Answer, Result
  <2>2. VolumeType(vol')
    BY <1>0, SharingType DEF TypeOK
  <2>3. /\ w.sharedata = {g[r] : r \in vol.sharedata}
        /\ w.dirs = vol.dirs /\ w.link = vol.link /\ w.store = vol.store
        /\ w.filedata = vol.filedata /\ w.filecount = vol.filecount
    BY <1>0 DEF VolumeType
  <2>4. \A r \in vol.sharedata : /\ g[r].sharer = r.sharer /\ g[r].sharee = r.sharee
                                 /\ g[r].origpath = r.origpath
                                 /\ g[r].shareepath = r.shareepath
    BY <1>0 DEF ShareRow
  <2> HIDE DEF w, g, rows
  <2>5. VolumeInv(vol', userdata')
    BY <1>0, <2>1, <2>2, <2>3, <2>4, PermVolume
  <2>6. NamesOwn(u) /\ LinksOwn(u)
    BY <2>1, <2>3 DEF NamesOwn, SymDiff, Taken, LinksOwn, OwnedPaths
  <2> QED
    BY <2>5, <2>6 DEF Lawful
<1> QED
  BY <1>1, <1>2 DEF chpermHandler

-----------------------------------------------------------------------------
(* Directories. *)

LEMMA MkdirLawful ==
  ASSUME ServerInv, NEW u \in User, NEW p \in InputPath, mkdirHandler(u, p)
  PROVE  Lawful(u)
<1> DEFINE w == AddDirs(vol, {p})
<1>1. CASE Refuse("error")
  BY <1>1, IdleLawful DEF Refuse
<1>2. CASE checkpath(p, u) /\ CanCreate(vol, p) /\ Answer(Result(w, "ok"))
  <2>1. vol' = w /\ userdata' = userdata
    BY <1>2 DEF Answer, Result
  <2>2. p \in Path /\ u \in userdata /\ p \notin DOMAIN vol.link
        /\ Parent(p) \in vol.dirs \cup {<<>>}
    BY <1>2, Standing DEF mkdirHandler, checkCookie, CanCreate, Taken
  <2>3. VolumeInv(w, userdata)
    BY <1>2, <2>2, Standing, DirsVolume
  <2>4. w.dirs = vol.dirs \cup {p} /\ w.link = vol.link /\ w.sharedata = vol.sharedata
    BY Standing DEF AddDirs, VolumeType
  <2> HIDE DEF w
  <2>5. OnlyAt(vol, vol', p)
    BY <2>1, <2>4 DEF OnlyAt, Taken
  <2> QED
    BY <1>2, <2>1, <2>2, <2>3, <2>5, OnlyAtLawful
<1> QED
  BY <1>1, <1>2 DEF mkdirHandler, AddDirs

(* A new user's home, and the Shared_with_me in it, are free. *)
LEMMA SignupLawful ==
  ASSUME ServerInv, Apart', NEW u \in User, NEW ok \in BOOLEAN, signupHandler(u, ok)
  PROVE  Lawful(u)
<1> DEFINE D == {Root(u), SharedDir(u)}
           w == AddDirs(vol, D)
<1>0. VolumeInv(vol, userdata) /\ VolumeType(vol) /\ TreeSound(vol, userdata)
  BY Standing DEF VolumeInv
<1>1. CASE Refuse("error")
  BY <1>1, IdleLawful DEF Refuse
<1>2. CASE CanCreate(vol, Root(u)) /\ userdata' = userdata \cup {u} /\ vol' = w
  <2>1. /\ Root(u) \in Path /\ SharedDir(u) \in Path
        /\ Parent(SharedDir(u)) = Root(u) /\ Parent(Root(u)) = <<>>
        /\ Root(u)[1] = u /\ SharedDir(u)[1] = u /\ Root(u) # <<>>
    BY SharedDirShape DEF Root
  <2>2. Root(u) \notin DOMAIN vol.link /\ Root(u) \notin vol.dirs
    BY <1>2 DEF CanCreate, Taken
  <2>3. SharedDir(u) \notin DOMAIN vol.link
    BY <1>0, <2>1, <2>2 DEF TreeSound, Taken
  <2> HIDE DEF w
  <2>4. VolumeInv(w, userdata')
    <3>1. D \in SUBSET Path /\ D \cap DOMAIN vol.link = {}
      BY <2>1, <2>2, <2>3
    <3>2. \A d \in D : Parent(d) \in vol.dirs \cup D \cup {<<>>}
      BY <2>1
    <3>3. \A x \in userdata' \ userdata : {Root(x), SharedDir(x)} \subseteq vol.dirs \cup D
      BY <1>2
    <3>4. /\ userdata' \in SUBSET User /\ userdata \subseteq userdata'
          /\ NamesApart(userdata') /\ u \in userdata'
      BY <1>2, Standing DEF Apart
    <3>5. \A d \in D : checkpath(d, u)
      BY <2>1, HomeChecks
    <3> HIDE DEF D
    <3> QED
      BY <1>0, <3>1, <3>2, <3>3, <3>4, <3>5, DirsVolume DEF w
  <2>5. w.dirs = vol.dirs \cup D /\ w.link = vol.link
    BY <1>0 DEF AddDirs, VolumeType, w
  <2>6. NamesOwn(u)
    BY <1>2, <2>1, <2>5 DEF NamesOwn, Namers, SymDiff, Taken
  <2>7. LinksOwn(u)
    BY <1>2, <2>5 DEF LinksOwn, OwnedPaths
  <2> QED
    BY <1>2, <2>4, <2>6, <2>7 DEF Lawful
<1> QED
  BY <1>1, <1>2 DEF signupHandler, AddDirs

-----------------------------------------------------------------------------
(* Every step. *)

LEMMA RequestLawful ==
  ASSUME ServerInv, Apart', NEW u \in User, Request(u)
  PROVE  Lawful(u)
<1>1. ASSUME NEW ok \in BOOLEAN, authenticateHandler(u, ok) PROVE Lawful(u)
  BY <1>1, IdleLawful DEF authenticateHandler, Refuse
<1>2. CASE pwdHandler(u)
  BY <1>2, IdleLawful DEF pwdHandler, Refuse
<1>3. ASSUME NEW p \in InputPath,
             downloadHandler(u, p) \/ listHandler(u, p) \/ cdHandler(u, p)
      PROVE  Lawful(u)
  BY <1>3, IdleLawful DEF downloadHandler, listHandler, cdHandler, Refuse
<1> QED
  BY <1>1, <1>2, <1>3, SignupLawful, UploadLawful, MkdirLawful, RemoveLawful, ShareLawful,
     ChpermLawful, UnshareLawful DEF Request

LEMMA ServerStep ==
  ASSUME ServerInv, Apart', [Next]_vars
  PROVE  ServerInv'
<1>1. DedupInv'
  BY StepUpholds DEF ServerInv
<1>2. ASSUME NEW u \in User, Request(u) PROVE VolumeInv(vol', userdata')
  BY <1>2, RequestLawful DEF Lawful
<1>3. CASE Start
  <2>1. vol' = [vol EXCEPT !.filecount = vol.filecount] /\ userdata' = userdata
    BY <1>3 DEF Start, ServerInv, DedupInv
  <2>2. VolumeType(vol)
    BY Standing
  <2>3. vol' = vol
    BY <2>1, <2>2 DEF VolumeType
  <2> QED
    BY <1>1, <2>1, <2>3 DEF ServerInv
<1>4. CASE (\E u \in User : Expire(u)) \/ Reauth \/ Shutdown \/ UNCHANGED vars
  <2>1. vol' = vol /\ userdata' = userdata
    BY <1>4 DEF Expire, Reauth, Refuse, Shutdown, vars
  <2> QED
    BY <1>1, <2>1 DEF ServerInv
<1> QED
  BY <1>1, <1>2, <1>3, <1>4 DEF ServerInv, Next

LEMMA InitServer == Init => ServerInv
<1> SUFFICES ASSUME Init PROVE ServerInv
  OBVIOUS
<1>1. DedupInv /\ StoreInv(vol)
  BY InitUpholds DEF DedupInv
<1>2. DOMAIN <<>> = {}
  OBVIOUS
<1>3. /\ vol.dirs = {} /\ DOMAIN vol.link = {} /\ vol.filedata = {}
      /\ vol.sharedata = {} /\ userdata = {}
  BY <1>2 DEF Init, EmptyVolume
<1>4. LinkInv(vol, {})
  BY <1>1, <1>3, FS_EmptySet DEF LinkInv, LinksLive, OwnersCounted
<1>5. RowsApart(vol) /\ SharedDirManaged(vol, userdata) /\ TreeSound(vol, userdata)
  BY <1>3 DEF RowsApart, SharedDirManaged, OwnedPaths, TreeSound, Taken
<1>6. Placed(vol, userdata)
  BY <1>3 DEF Placed, NamesApart, Taken
<1> QED
  BY <1>1, <1>4, <1>5, <1>6 DEF ServerInv, VolumeInv

(* Users sign up and stay: names that are apart were so before. *)
LEMMA UsersStay ==
  ASSUME [Next]_vars
  PROVE  userdata \subseteq userdata' /\ (Apart' => Apart)
<1> USE DEF Answer, Refuse
<1>1. ASSUME NEW u, NEW ok, signupHandler(u, ok) \/ authenticateHandler(u, ok) \/ pwdHandler(u)
      PROVE  userdata \subseteq userdata'
  BY <1>1 DEF signupHandler, authenticateHandler, pwdHandler
<1>2. ASSUME NEW u, NEW p, downloadHandler(u, p) \/ listHandler(u, p) \/ cdHandler(u, p)
      PROVE  userdata' = userdata
  BY <1>2 DEF downloadHandler, listHandler, cdHandler
<1>3. ASSUME NEW u, NEW p, NEW b, uploadHandler(u, p, b) PROVE userdata' = userdata
  BY <1>3 DEF uploadHandler, UploadPlain, UploadAsSharer, UploadAsSharee, Stored
<1>4. ASSUME NEW u, NEW p, mkdirHandler(u, p) \/ removeHandler(u, p)
      PROVE  userdata' = userdata
  BY <1>4 DEF mkdirHandler, removeHandler, RemovePlain, RemoveAsSharee, RemoveAsSharer
<1>5. ASSUME NEW u, NEW p, NEW sharee, NEW perm,
             \/ shareHandler(u, sharee, p, perm)
             \/ unshareHandler(u, sharee, p)
             \/ chpermHandler(u, sharee, p, perm)
      PROVE  userdata' = userdata
  BY <1>5 DEF shareHandler, unshareHandler, chpermHandler
<1>6. ASSUME NEW u, Request(u) PROVE userdata \subseteq userdata'
  BY <1>1, <1>2, <1>3, <1>4, <1>5, <1>6 DEF Request
<1>7. userdata \subseteq userdata'
  BY <1>6 DEF Next, Expire, Reauth, Start, Shutdown, vars
<1> QED
  BY <1>7 DEF Apart, NamesApart

(* The invariant of the server, for any names: once two of them are not    *)
(* apart, what concerns the store remains.                                 *)
SafeInv == DedupInv /\ (Apart => ServerInv)

LEMMA SafeStep ==
  ASSUME SafeInv, [Next]_vars
  PROVE  SafeInv'
<1>1. DedupInv'
  BY StepUpholds DEF SafeInv
<1>2. Apart' => ServerInv'
  BY UsersStay, ServerStep DEF SafeInv
<1> QED
  BY <1>1, <1>2 DEF SafeInv

LEMMA SafeInvariance == Spec => []SafeInv
<1>1. Init => SafeInv
  BY InitServer DEF SafeInv, ServerInv
<1>2. SafeInv /\ [Next]_vars => SafeInv'
  BY SafeStep
<1> QED
  BY <1>1, <1>2, PTL DEF Spec

-----------------------------------------------------------------------------
(* No link leads to nothing: whatever is removed, overwritten, shared or   *)
(* unshared, a store file stays as long as any link, an owner's or a       *)
(* sharee's, leads to it (remove and sharerUpload of server.go).           *)
THEOREM NeverDangling == Spec => []NoDanglingLink
<1>1. SafeInv => NoDanglingLink
  BY DEF SafeInv, ServerInv, VolumeInv, LinkInv, NoDanglingLink
<1> QED
  BY SafeInvariance, <1>1, PTL

(* numowners is at all times the number of owners' links to a store file:  *)
(* no order of uploads, removals and shares loses or gains one.            *)
THEOREM OwnersAlwaysRight == Spec => []OwnersRight
<1>1. SafeInv => OwnersRight
  BY DEF SafeInv, ServerInv, VolumeInv, LinkInv, OwnersRight
<1> QED
  BY SafeInvariance, <1>1, PTL

(* A row of sharedata always has the sharer's file and the sharee's link   *)
(* with the same content behind, and no two rows share a link or say the   *)
(* same share.                                                             *)
THEOREM SharesAlwaysSound == Spec => []SharesSound
<1>1. SafeInv => SharesSound
  BY DEF SafeInv, ServerInv, VolumeInv, LinkInv, RowsApart, SharesSound, SharesLinked
<1> QED
  BY SafeInvariance, <1>1, PTL

(* Below a Shared_with_me there are received files only.                   *)
THEOREM SharedDirAlwaysClean == Spec => []SharedDirClean
<1>1. SafeInv => SharedDirClean
  BY DEF SafeInv, ServerInv, VolumeInv, SharedDirClean
<1> QED
  BY SafeInvariance, <1>1, PTL

(* The tree below userfs stays a tree in which every user that signed up   *)
(* has a home and a Shared_with_me.                                        *)
THEOREM TreeAlwaysSound == Spec => []TreeOK
<1>1. SafeInv => TreeOK
  BY DEF SafeInv, ServerInv, VolumeInv, TreeOK
<1> QED
  BY SafeInvariance, <1>1, PTL

-----------------------------------------------------------------------------
(* An owner's link that a request leaves alone still leads to the same     *)
(* content.                                                                *)
LEMMA ContentKept ==
  ASSUME ServerInv, Apart', [Next]_vars, NEW u \in User, Request(u),
         NEW p \in OwnedPaths(vol), p[1] \in userdata, u \notin Writers(vol, p)
  PROVE  ContentAt(vol', p) = ContentAt(vol, p)
<1>1. ServerInv'
  BY ServerStep
<1>2. p \in DOMAIN vol.link /\ p \in DOMAIN vol'.link /\ vol'.link[p] = vol.link[p]
  BY RequestLawful DEF Lawful, LinksOwn, OwnedPaths
<1>3. vol.link[p] \in FilesIn(vol.filedata)
  BY <1>2 DEF ServerInv, VolumeInv, LinkInv, LinksLive
<1>4. vol'.link[p] \in FilesIn(vol'.filedata)
  BY <1>1, <1>2 DEF ServerInv, VolumeInv, LinkInv, LinksLive
<1>5. vol'.store[vol.link[p]] = vol.store[vol.link[p]]
  BY <1>2, <1>3, <1>4, FileKept DEF ServerInv
<1> QED
  BY <1>2, <1>5 DEF ContentAt

(* The content at a path in the home of a user who signed up changes or    *)
(* goes only at the request of that user or of a sharee with "rw", for any *)
(* number of users whose names are apart: neither deduplication nor        *)
(* sharing, nor checkpath's prefixes, let anyone else write it.            *)
THEOREM WritersOnly == Spec => OnlyWritersChange
<1>1. SafeInv /\ [Next]_vars =>
        [Apart' =>
           \A p \in OwnedPaths(vol) :
             p[1] \in userdata /\ ContentAt(vol', p) # ContentAt(vol, p) =>
               \A u \in User \ Writers(vol, p) : ~Request(u)]_vars
  BY UsersStay, ContentKept DEF SafeInv
<1> QED
  BY SafeInvariance, <1>1, PTL DEF Spec, OnlyWritersChange

(* A request makes and removes names in no home but the requester's, and   *)
(* the links by which the requester shares; also where the requester's own *)
(* name begins names of directories that are not homes.                    *)
THEOREM HomesAlwaysKept == Spec => HomesKept
<1>1. SafeInv /\ [Next]_vars =>
        [Apart' =>
           \A p \in SymDiff(Taken(vol), Taken(vol')) :
             p[1] \in userdata =>
               \A u \in User \ Namers(vol.sharedata \cup vol'.sharedata, p) : ~Request(u)]_vars
  BY UsersStay, RequestLawful DEF SafeInv, Lawful, NamesOwn
<1> QED
  BY SafeInvariance, <1>1, PTL DEF Spec, HomesKept
=============================================================================
