----------------------------- MODULE LinkProofs -----------------------------
(***************************************************************************)
(* Proofs about the links: they lead to stored files, filedata counts      *)
(* them, sharees see what is shared, and the tree stays a tree.            *)
(***************************************************************************)
EXTENDS DropboxProofs, FiniteSetTheorems

(* sharerUpload unlinks the sharees before it uploads and links them again *)
(* afterwards.  In between, the rows `open' of its file have no links, and *)
(* the other rows must stay right.                                         *)
LinkInv(v, open) ==
  /\ StoreInv(v)
  /\ IsFiniteSet(DOMAIN v.link)
  /\ LinksLive(v)
  /\ OwnersCounted(v)
  /\ \A r \in v.sharedata \ open : ShareLinked(v, r)
  /\ open \subseteq v.sharedata
  /\ \A r \in open : r.shareepath \notin DOMAIN v.link

-----------------------------------------------------------------------------
(* Counting links. *)

LEMMA LinksFinite ==
  ASSUME NEW v, IsFiniteSet(DOMAIN v.link), NEW k
  PROVE  IsFiniteSet(LinksTo(v, k)) /\ Cardinality(LinksTo(v, k)) \in Nat
<1>1. LinksTo(v, k) \in SUBSET DOMAIN v.link
  BY DEF LinksTo, OwnedPaths
<1> QED
  BY <1>1, FS_Subset, FS_CardinalityType

(* A row's numowners is what the query for its file finds. *)
LEMMA OwnersOfRow ==
  ASSUME NEW v, OneRowPerFile(v), NEW row \in v.filedata
  PROVE  Owners(v, row.filename) = row.numowners
<1> DEFINE rows == {r \in v.filedata : r.filename = row.filename}
<1>1. rows = {row}
  BY DEF OneRowPerFile
<1>2. (CHOOSE r \in rows : TRUE) = row /\ rows # {}
  BY <1>1
<1> QED
  BY <1>2 DEF Owners

(* One link of an owner less. *)
LinkLost(v, w, p) ==
  /\ DOMAIN w.link = DOMAIN v.link \ {p}
  /\ \A q \in DOMAIN w.link : w.link[q] = v.link[q]
  /\ OwnedPaths(w) = OwnedPaths(v) \ {p}
  /\ LinksTo(w, v.link[p]) = LinksTo(v, v.link[p]) \ {p}
  /\ \A k : k # v.link[p] => LinksTo(w, k) = LinksTo(v, k)

LEMMA OneLess ==
  ASSUME NEW v, NEW w, NEW p \in OwnedPaths(v),
         w.link = Without(v.link, {p}), w.sharedata = v.sharedata
  PROVE  LinkLost(v, w, p)
<1>1. /\ DOMAIN w.link = DOMAIN v.link \ {p}
      /\ \A q \in DOMAIN w.link : w.link[q] = v.link[q]
  BY DEF Without, Restrict
<1>2. OwnedPaths(w) = OwnedPaths(v) \ {p}
  BY <1>1 DEF OwnedPaths
<1>3. \A q \in OwnedPaths(w) : w.link[q] = v.link[q]
  BY <1>1 DEF OwnedPaths
<1> QED
  BY <1>1, <1>2, <1>3 DEF LinkLost, LinksTo

(* One link of an owner more. *)
LinkGained(v, w, p, k) ==
  /\ DOMAIN w.link = DOMAIN v.link \cup {p}
  /\ w.link[p] = k
  /\ \A q \in DOMAIN v.link : w.link[q] = v.link[q]
  /\ OwnedPaths(w) = OwnedPaths(v) \cup {p}
  /\ LinksTo(w, k) = LinksTo(v, k) \cup {p}
  /\ \A j : j # k => LinksTo(w, j) = LinksTo(v, j)

LEMMA OneMore ==
  ASSUME NEW v, NEW w, NEW k, NEW p,
         p \notin DOMAIN v.link, p \notin ShareePaths(v.sharedata),
         w.link = With(v.link, p, k), w.sharedata = v.sharedata
  PROVE  LinkGained(v, w, p, k)
<1>1. /\ DOMAIN w.link = DOMAIN v.link \cup {p}
      /\ w.link[p] = k
      /\ \A q \in DOMAIN v.link : w.link[q] = v.link[q]
  BY DEF With
<1>2. OwnedPaths(w) = OwnedPaths(v) \cup {p}
  BY <1>1 DEF OwnedPaths
<1>3. \A q \in OwnedPaths(v) : w.link[q] = v.link[q]
  BY <1>1 DEF OwnedPaths
<1> QED
  BY <1>1, <1>2, <1>3 DEF LinkGained, LinksTo

-----------------------------------------------------------------------------
(* remove of an owner's link, of which no sharee is linked. *)

LEMMA RemoveLinkShape ==
  ASSUME NEW v, VolumeType(v), NEW p \in DOMAIN v.link
  PROVE  LET w == RemoveLink(v, p).vol
         IN  /\ w.link = Without(v.link, {p})
             /\ w.dirs = v.dirs /\ w.sharedata = v.sharedata
  BY DEF RemoveLink, Forget, Result, VolumeType

LEMMA SharesSurviveRemove ==
  ASSUME NEW v, NEW w, NEW open, NEW p \in OwnedPaths(v),
         \A r \in v.sharedata \ open : ShareLinked(v, r) /\ r.origpath # p,
         w.link = Without(v.link, {p}), w.sharedata = v.sharedata
  PROVE  \A r \in w.sharedata \ open : ShareLinked(w, r)
<1> SUFFICES ASSUME NEW r \in v.sharedata \ open PROVE ShareLinked(w, r)
  OBVIOUS
<1>1. ShareLinked(v, r) /\ r.origpath # p
  OBVIOUS
<1>2. r.shareepath # p
  BY DEF OwnedPaths, ShareePaths
<1>3. /\ DOMAIN w.link = DOMAIN v.link \ {p}
      /\ \A q \in DOMAIN w.link : w.link[q] = v.link[q]
      /\ OwnedPaths(w) = OwnedPaths(v) \ {p}
  <2>1. LinkLost(v, w, p)
    BY OneLess
  <2> QED
    BY <2>1 DEF LinkLost
<1>4. r.origpath \in OwnedPaths(w) /\ r.shareepath \in DOMAIN w.link
  BY <1>1, <1>2, <1>3 DEF ShareLinked
<1>5. r.origpath \in DOMAIN w.link
  BY <1>4 DEF OwnedPaths
<1> QED
  BY <1>1, <1>3, <1>4, <1>5 DEF ShareLinked

LEMMA RemoveLinkInv ==
  ASSUME NEW v, NEW open, LinkInv(v, open), NEW p \in OwnedPaths(v),
         \A r \in v.sharedata \ open : r.origpath # p
  PROVE  LinkInv(RemoveLink(v, p).vol, open)
<1> DEFINE k == v.link[p]
           left == Owners(v, k) - 1
           w == RemoveLink(v, p).vol
           n == Cardinality(LinksTo(v, k))
<1>0. VolumeType(v) /\ p \in DOMAIN v.link /\ StoreInv(v) /\ OneRowPerFile(v) /\ StoreMatchesTable(v)
  BY DEF LinkInv, StoreInv, OwnedPaths
<1>1. StoreInv(w)
  BY <1>0, RemoveLinkStore
<1>2. w.link = Without(v.link, {p}) /\ w.dirs = v.dirs /\ w.sharedata = v.sharedata
  BY <1>0, RemoveLinkShape
<1>3. PICK row \in v.filedata : row.filename = k
  BY <1>0 DEF LinkInv, LinksLive, FilesIn
<1>4. left = n - 1 /\ n \in Nat /\ IsFiniteSet(LinksTo(v, k))
  BY <1>0, <1>3, OwnersOfRow, LinksFinite DEF LinkInv, OwnersCounted
<1>5. p \in LinksTo(v, k) /\ n # 0
  BY <1>4, FS_EmptySet DEF LinksTo
<1>6. /\ DOMAIN w.link = DOMAIN v.link \ {p}
      /\ \A q \in DOMAIN w.link : w.link[q] = v.link[q]
      /\ LinksTo(w, k) = LinksTo(v, k) \ {p}
      /\ \A j : j # k => LinksTo(w, j) = LinksTo(v, j)
  <2>1. LinkLost(v, w, p)
    BY <1>2, OneLess
  <2> QED
    BY <2>1 DEF LinkLost
<1>7. Cardinality(LinksTo(w, k)) = left
  <2> DEFINE L == LinksTo(v, k)
  <2>1. IsFiniteSet(L) /\ p \in L
    BY <1>4, <1>5
  <2>2. LinksTo(w, k) = L \ {p}
    BY <1>6
  <2>3. left = Cardinality(L) - 1
    BY <1>4
  <2> HIDE DEF L, left, w, k
  <2>4. Cardinality(L \ {p}) = Cardinality(L) - 1
    BY <2>1, FS_RemoveElement
  <2> QED
    BY <2>2, <2>3, <2>4
<1>8. IsFiniteSet(DOMAIN w.link)
  BY <1>6, FS_RemoveElement DEF LinkInv
<1>9. \A r \in w.sharedata \ open : ShareLinked(w, r)
  BY <1>2, SharesSurviveRemove DEF LinkInv
<1>10. \A r \in open : r.shareepath \notin DOMAIN w.link
  BY <1>6 DEF LinkInv
<1>11. OwnersCounted(w) /\ LinksLive(w)
  <2>1. CASE left > 0
    <3>1. w.filedata = {IF r.filename = k THEN [r EXCEPT !.numowners = left] ELSE r
                          : r \in v.filedata}
      BY <1>0, <2>1 DEF RemoveLink, HasOwners, Result, VolumeType
    <3>2. \A r \in v.filedata : r \in FileRow
      BY <1>0 DEF VolumeType
    <3>3. ASSUME NEW r \in v.filedata PROVE \E s \in w.filedata : s.filename = r.filename
      <4> DEFINE s == IF r.filename = k THEN [r EXCEPT !.numowners = left] ELSE r
      <4>1. s \in w.filedata
        BY <3>1
      <4>2. s.filename = r.filename
        BY <3>2 DEF FileRow
      <4> QED
        BY <4>1, <4>2
    <3>4. ASSUME NEW s \in w.filedata
          PROVE  s.numowners = Cardinality(LinksTo(w, s.filename))
      <4>1. PICK r \in v.filedata :
              s = IF r.filename = k THEN [r EXCEPT !.numowners = left] ELSE r
        BY <3>1
      <4>2. CASE r.filename = k
        BY <1>7, <3>2, <4>1, <4>2 DEF FileRow
      <4>3. CASE r.filename # k
        BY <1>6, <4>1, <4>3 DEF LinkInv, OwnersCounted
      <4> QED
        BY <4>2, <4>3
    <3>5. OwnersCounted(w)
      BY <3>4 DEF OwnersCounted
    <3>6. LinksLive(w)
      BY <1>6, <3>3 DEF LinkInv, LinksLive, FilesIn
    <3> QED
      BY <3>5, <3>6
  <2>2. CASE ~(left > 0)
    <3>1. k \in DOMAIN v.store
      BY <1>0, <1>3 DEF StoreMatchesTable, FilesIn
    <3>2. w.filedata = {r \in v.filedata : r.filename # k}
      BY <1>0, <2>2, <3>1 DEF RemoveLink, HasOwners, Forget, Result, VolumeType
    <3>3. n = 1
      BY <1>4, <1>5, <2>2
    <3>4. LinksTo(v, k) = {p}
      BY <1>4, <1>5, <3>3, FS_Singleton
    <3>5. \A r \in w.filedata : r.numowners = Cardinality(LinksTo(w, r.filename))
      BY <1>6, <3>2 DEF LinkInv, OwnersCounted
    <3>6. ASSUME NEW q \in DOMAIN w.link PROVE v.link[q] # k
      <4>1. q \in DOMAIN v.link /\ q # p
        BY <1>6
      <4>2. CASE q \in OwnedPaths(v)
        BY <3>4, <4>1, <4>2 DEF LinksTo
      <4>3. CASE q \in ShareePaths(v.sharedata)
        <5>1. PICK r \in v.sharedata : r.shareepath = q
          BY <4>3 DEF ShareePaths
        <5>2. ShareLinked(v, r) /\ r.origpath # p
          BY <4>1, <5>1 DEF LinkInv
        <5> QED
          BY <3>4, <5>1, <5>2 DEF ShareLinked, LinksTo
      <4> QED
        BY <4>1, <4>2, <4>3 DEF OwnedPaths
    <3>7. LinksLive(w)
      BY <1>6, <3>2, <3>6 DEF LinkInv, LinksLive, FilesIn
    <3> QED
      BY <3>5, <3>7 DEF OwnersCounted
  <2> QED
    BY <2>1, <2>2
<1> QED
  BY <1>1, <1>2, <1>8, <1>9, <1>10, <1>11 DEF LinkInv
(* What LinkInv speaks of is left alone. *)
LEMMA SameLinks ==
  ASSUME NEW v, NEW open, LinkInv(v, open), NEW w, StoreInv(w),
         w.link = v.link, w.filedata = v.filedata, w.sharedata = v.sharedata
  PROVE  LinkInv(w, open)
<1>1. OwnedPaths(w) = OwnedPaths(v)
  BY DEF OwnedPaths
<1>2. \A k : LinksTo(w, k) = LinksTo(v, k)
  BY <1>1 DEF LinksTo
<1>3. LinksLive(w) /\ OwnersCounted(w)
  BY <1>2 DEF LinkInv, LinksLive, OwnersCounted
<1>4. \A r \in w.sharedata \ open : ShareLinked(w, r)
  BY <1>1 DEF LinkInv, ShareLinked
<1> QED
  BY <1>3, <1>4 DEF LinkInv

LEMMA RemoveInv ==
  ASSUME NEW v, NEW open, LinkInv(v, open), NEW p, NEW u,
         p \notin ShareePaths(v.sharedata),
         \A r \in v.sharedata \ open : r.origpath # p
  PROVE  /\ LinkInv(remove(v, p, u).vol, open)
         /\ remove(v, p, u).vol.sharedata = v.sharedata
<1> DEFINE w == [v EXCEPT !.dirs = @ \ {p}]
<1>0. StoreInv(v) /\ VolumeType(v)
  BY DEF LinkInv, StoreInv
<1>1. CASE p \in DOMAIN v.link /\ remove(v, p, u) = RemoveLink(v, p)
  <2>1. p \in OwnedPaths(v)
    BY <1>1 DEF OwnedPaths
  <2> QED
    BY <1>0, <1>1, <2>1, RemoveLinkInv, RemoveLinkShape
<1>2. CASE remove(v, p, u).vol = v
  BY <1>2
<1>3. CASE remove(v, p, u).vol = w
  <2>1. /\ w.link = v.link /\ w.filedata = v.filedata /\ w.sharedata = v.sharedata
        /\ w.store = v.store /\ w.filecount = v.filecount
    BY <1>0 DEF VolumeType
  <2>2. VolumeType(w)
    BY <1>0 DEF VolumeType
  <2> HIDE DEF w
  <2>3. StoreInv(w)
    BY <1>0, <2>1, <2>2, SameStore
  <2>4. LinkInv(w, open)
    BY <2>1, <2>3, SameLinks
  <2> QED
    BY <1>3, <2>1, <2>4
<1> QED
  BY <1>1, <1>2, <1>3 DEF remove, Result

-----------------------------------------------------------------------------
(* uploadHelper makes a link at an owner's path. *)

LEMMA SharesSurviveAdd ==
  ASSUME NEW v, NEW w, NEW open, NEW p, NEW k,
         \A r \in v.sharedata \ open : ShareLinked(v, r),
         p \notin DOMAIN v.link, LinkGained(v, w, p, k), w.sharedata = v.sharedata
  PROVE  \A r \in w.sharedata \ open : ShareLinked(w, r)
<1> SUFFICES ASSUME NEW r \in v.sharedata \ open PROVE ShareLinked(w, r)
  OBVIOUS
<1>1. ShareLinked(v, r) /\ r.origpath \in DOMAIN v.link
  BY DEF ShareLinked, OwnedPaths
<1> QED
  BY <1>1 DEF ShareLinked, LinkGained

LEMMA StoreNewInv ==
  ASSUME NEW v, NEW open, LinkInv(v, open), NEW p \in Path, NEW b \in Body,
         p \notin ShareePaths(v.sharedata), ~\E r \in v.filedata : r.filehash = b
  PROVE  LinkInv(StoreNew(v, p, b).vol, open)
<1> DEFINE k == v.filecount
           row == [filename |-> k, filehash |-> b, numowners |-> 1]
           w == StoreNew(v, p, b).vol
<1>0. StoreInv(v) /\ VolumeType(v)
  BY DEF LinkInv, StoreInv
<1>1. StoreInv(w)
  BY <1>0, StoreNewStore
<1>2. CASE ~CanCreate(v, p)
  <2>1. w.link = v.link /\ w.filedata = v.filedata /\ w.sharedata = v.sharedata
    BY <1>0, <1>2 DEF StoreNew, Result, VolumeType
  <2> QED
    BY <1>1, <2>1, SameLinks
<1>3. CASE CanCreate(v, p)
  <2>1. /\ w.link = With(v.link, p, k) /\ w.sharedata = v.sharedata
        /\ w.filedata = v.filedata \cup {row}
    BY <1>0, <1>3 DEF StoreNew, Result, VolumeType
  <2>2. p \notin DOMAIN v.link
    BY <1>3 DEF CanCreate, Taken
  <2>3. row.filename = k /\ row.numowners = 1
    OBVIOUS
  <2> HIDE DEF w, row
  <2>4. LinkGained(v, w, p, k)
    BY <2>1, <2>2, OneMore
  <2>5. k \notin FilesIn(v.filedata)
    BY <1>0 DEF StoreInv, FilesBelow, VolumeType
  <2>6. \A q \in DOMAIN v.link : v.link[q] # k
    BY <2>5 DEF LinkInv, LinksLive
  <2>7. LinksTo(v, k) = {}
    BY <2>6 DEF LinksTo, OwnedPaths
  <2>8. LinksTo(w, k) = {p} /\ Cardinality({p}) = 1
    BY <2>4, <2>7, FS_Singleton DEF LinkGained
  <2>9. \A r \in v.filedata : r.filename # k
    BY <2>5 DEF FilesIn
  <2>10. OwnersCounted(w)
    BY <2>1, <2>3, <2>4, <2>8, <2>9 DEF LinkInv, OwnersCounted, LinkGained
  <2>11. LinksLive(w)
    BY <2>1, <2>3, <2>4 DEF LinkInv, LinksLive, LinkGained, FilesIn
  <2>12. IsFiniteSet(DOMAIN w.link)
    BY <2>4, FS_AddElement DEF LinkInv, LinkGained
  <2>13. \A r \in w.sharedata \ open : ShareLinked(w, r)
    BY <2>1, <2>2, <2>4, SharesSurviveAdd DEF LinkInv
  <2>14. ASSUME NEW r \in open PROVE r.shareepath \notin DOMAIN w.link
    BY <2>4 DEF LinkInv, LinkGained, ShareePaths
  <2>15. LinkInv(w, open)
    BY <1>1, <2>1, <2>10, <2>11, <2>12, <2>13, <2>14 DEF LinkInv
  <2> QED
    BY <2>15 DEF w
<1> QED
  BY <1>2, <1>3

LEMMA LinkExistingInv ==
  ASSUME NEW v, NEW open, LinkInv(v, open), NEW p \in Path, NEW b,
         p \notin ShareePaths(v.sharedata), \E r \in v.filedata : r.filehash = b
  PROVE  LinkInv(LinkExisting(v, p, b).vol, open)
<1> DEFINE row == CHOOSE r \in v.filedata : r.filehash = b
           k == row.filename
           w == LinkExisting(v, p, b).vol
<1>0. StoreInv(v) /\ VolumeType(v) /\ OneRowPerFile(v)
  BY DEF LinkInv, StoreInv
<1>1. row \in v.filedata /\ row.filehash = b /\ row \in FileRow
  BY <1>0 DEF VolumeType
<1>2. StoreInv(w)
  BY <1>0, LinkExistingStore
<1>3. CASE ~CanCreate(v, p)
  BY <1>3 DEF LinkExisting, Result
<1>4. CASE CanCreate(v, p)
  <2>1. /\ w.link = With(v.link, p, k) /\ w.sharedata = v.sharedata
        /\ w.filedata = {IF r.filehash = b
                         THEN [r EXCEPT !.numowners = row.numowners + 1]
                         ELSE r : r \in v.filedata}
    BY <1>0, <1>4 DEF LinkExisting, Result, VolumeType
  <2>2. p \notin DOMAIN v.link
    BY <1>4 DEF CanCreate, Taken
  <2> HIDE DEF w, row
  <2>3. LinkGained(v, w, p, k)
    BY <2>1, <2>2, OneMore
  <2>4. \A r \in v.filedata : r.filehash = b \/ r.filename = k => r = row
    BY <1>0, <1>1 DEF OneRowPerFile
  <2>5. Cardinality(LinksTo(w, k)) = row.numowners + 1
    <3>1. p \notin LinksTo(v, k)
      BY <2>2 DEF LinksTo, OwnedPaths
    <3>2. IsFiniteSet(LinksTo(v, k))
      BY LinksFinite DEF LinkInv
    <3>3. Cardinality(LinksTo(v, k)) = row.numowners
      BY <1>1 DEF LinkInv, OwnersCounted
    <3>4. LinksTo(w, k) = LinksTo(v, k) \cup {p}
      BY <2>3 DEF LinkGained
    <3> QED
      BY <3>1, <3>2, <3>3, <3>4, FS_AddElement
  <2>6. ASSUME NEW s \in w.filedata
        PROVE  s.numowners = Cardinality(LinksTo(w, s.filename))
    <3>1. PICK r \in v.filedata :
            s = IF r.filehash = b THEN [r EXCEPT !.numowners = row.numowners + 1] ELSE r
      BY <2>1
    <3>2. CASE r.filehash = b
      <4>1. r = row
        BY <2>4, <3>2
      <4>2. s.filename = k /\ s.numowners = row.numowners + 1
        BY <1>1, <3>1, <3>2, <4>1 DEF FileRow
      <4> QED
        BY <2>5, <4>2
    <3>3. CASE r.filehash # b
      <4>1. r.filename # k
        BY <1>1, <2>4, <3>3
      <4> QED
        BY <2>3, <3>1, <3>3, <4>1 DEF LinkInv, OwnersCounted, LinkGained
    <3> QED
      BY <3>2, <3>3
  <2>7. ASSUME NEW r \in v.filedata PROVE r.filename \in FilesIn(w.filedata)
    <3> DEFINE s == IF r.filehash = b THEN [r EXCEPT !.numowners = row.numowners + 1] ELSE r
    <3>1. s \in w.filedata
      BY <2>1
    <3>2. s.filename = r.filename
      BY <1>0 DEF VolumeType, FileRow
    <3> QED
      BY <3>1, <3>2 DEF FilesIn
  <2>8. LinksLive(w)
    <3>1. k \in FilesIn(w.filedata)
      BY <1>1, <2>7
    <3>2. ASSUME NEW q \in DOMAIN v.link PROVE v.link[q] \in FilesIn(w.filedata)
      BY <2>7 DEF LinkInv, LinksLive, FilesIn
    <3> QED
      BY <2>3, <3>1, <3>2 DEF LinksLive, LinkGained
  <2>9. IsFiniteSet(DOMAIN w.link)
    BY <2>3, FS_AddElement DEF LinkInv, LinkGained
  <2>10. \A r \in w.sharedata \ open : ShareLinked(w, r)
    BY <2>1, <2>2, <2>3, SharesSurviveAdd DEF LinkInv
  <2>11. ASSUME NEW r \in open PROVE r.shareepath \notin DOMAIN w.link
    BY <2>3 DEF LinkInv, LinkGained, ShareePaths
  <2>12. OwnersCounted(w)
    BY <2>6 DEF OwnersCounted
  <2>13. LinkInv(w, open)
    BY <1>2, <2>1, <2>8, <2>9, <2>10, <2>11, <2>12 DEF LinkInv
  <2> QED
    BY <2>13 DEF w
<1> QED
  BY <1>3, <1>4

LEMMA UploadHelperInv ==
  ASSUME NEW v, NEW open, LinkInv(v, open), NEW p \in Path, NEW u, NEW b \in Body,
         p \notin ShareePaths(v.sharedata),
         \A r \in v.sharedata \ open : r.origpath # p
  PROVE  /\ LinkInv(uploadHelper(v, p, u, b).vol, open)
         /\ uploadHelper(v, p, u, b).vol.sharedata = v.sharedata
<1> DEFINE w == IF Stat(v, p) THEN remove(v, p, u).vol ELSE v
           x == uploadHelper(v, p, u, b).vol
<1>1. LinkInv(w, open) /\ w.sharedata = v.sharedata
  BY RemoveInv
<1>2. VolumeType(w)
  BY <1>1 DEF LinkInv, StoreInv
<1>3. CASE InShared(p, u)
  BY <1>3 DEF uploadHelper, Result
<1>4. CASE ~InShared(p, u) /\ \E r \in w.filedata : r.filehash = b
  <2>1. x = LinkExisting(w, p, b).vol
    BY <1>4 DEF uploadHelper
  <2>2. x.sharedata = w.sharedata
    BY <1>2, <2>1 DEF LinkExisting, Result, VolumeType
  <2> QED
    BY <1>1, <1>4, <2>1, <2>2, LinkExistingInv
<1>5. CASE ~InShared(p, u) /\ ~\E r \in w.filedata : r.filehash = b
  <2>1. x = StoreNew(w, p, b).vol
    BY <1>5 DEF uploadHelper
  <2>2. x.sharedata = w.sharedata
    BY <1>2, <2>1 DEF StoreNew, Result, VolumeType
  <2> QED
    BY <1>1, <1>5, <2>1, <2>2, StoreNewInv
<1> QED
  BY <1>3, <1>4, <1>5

-----------------------------------------------------------------------------
(* What remove and uploadHelper do to the tree. *)

SameShape(v, w) == w.link = v.link /\ w.dirs = v.dirs
LinkGone(v, w, p) == p \in DOMAIN v.link /\ w.link = Without(v.link, {p}) /\ w.dirs = v.dirs
DirGone(v, w, p, u) == Removable(v, p, u) /\ w.link = v.link /\ w.dirs = v.dirs \ {p}
LinkMade(v, w, p) ==
  CanCreate(v, p) /\ w.dirs = v.dirs /\ \E k : w.link = With(v.link, p, k)

LEMMA RemoveShape ==
  ASSUME NEW v, VolumeType(v), NEW p, NEW u
  PROVE  LET w == remove(v, p, u).vol
         IN  /\ w.sharedata = v.sharedata
             /\ \/ SameShape(v, w)
                \/ checkpath(p, u) /\ (LinkGone(v, w, p) \/ DirGone(v, w, p, u))
<1> DEFINE w == remove(v, p, u).vol
<1>1. CASE checkpath(p, u) /\ p \in DOMAIN v.link
  <2>1. w = RemoveLink(v, p).vol
    BY <1>1 DEF remove
  <2> QED
    BY <1>1, <2>1, RemoveLinkShape DEF LinkGone
<1>2. CASE checkpath(p, u) /\ p \notin DOMAIN v.link /\ Removable(v, p, u)
  BY <1>2 DEF remove, Result, DirGone, VolumeType
<1>3. CASE ~checkpath(p, u) \/ (p \notin DOMAIN v.link /\ ~Removable(v, p, u))
  BY <1>3 DEF remove, Result, SameShape
<1> QED
  BY <1>1, <1>2, <1>3

LEMMA StoreNewShape ==
  ASSUME NEW v, VolumeType(v), NEW p, NEW b
  PROVE  LET w == StoreNew(v, p, b).vol
         IN  /\ w.sharedata = v.sharedata
             /\ IF CanCreate(v, p) THEN LinkMade(v, w, p) ELSE SameShape(v, w)
  BY DEF StoreNew, Result, LinkMade, SameShape, VolumeType

LEMMA LinkExistingShape ==
  ASSUME NEW v, VolumeType(v), NEW p, NEW b
  PROVE  LET w == LinkExisting(v, p, b).vol
         IN  /\ w.sharedata = v.sharedata
             /\ IF CanCreate(v, p) THEN LinkMade(v, w, p) ELSE SameShape(v, w)
  BY DEF LinkExisting, Result, LinkMade, SameShape, VolumeType

(* w is what remove left, or v. *)
LEMMA UploadHelperShape ==
  ASSUME NEW v, VolumeType(v), NEW p, NEW u, NEW b, ~InShared(p, u)
  PROVE  LET w == IF Stat(v, p) THEN remove(v, p, u).vol ELSE v
             x == uploadHelper(v, p, u, b).vol
         IN  /\ x.sharedata = v.sharedata
             /\ IF CanCreate(w, p) THEN LinkMade(w, x, p) ELSE SameShape(w, x)
<1> DEFINE w == IF Stat(v, p) THEN remove(v, p, u).vol ELSE v
           x == uploadHelper(v, p, u, b).vol
<1>1. VolumeType(w) /\ w.sharedata = v.sharedata
  BY RemoveType, RemoveShape
<1>2. x \in {LinkExisting(w, p, b).vol, StoreNew(w, p, b).vol}
  BY DEF uploadHelper
<1> HIDE DEF w, x
<1>3. /\ x.sharedata = w.sharedata
      /\ IF CanCreate(w, p) THEN LinkMade(w, x, p) ELSE SameShape(w, x)
  BY <1>1, <1>2, StoreNewShape, LinkExistingShape
<1> QED
  BY <1>1, <1>3 DEF w, x

(* An upload in place of a live link: the tree stays, only this link moves. *)
LEMMA UploadOver ==
  ASSUME NEW v, VolumeType(v), NEW p \in DOMAIN v.link, NEW u, NEW b,
         checkpath(p, u), Stat(v, p), p \notin v.dirs, Parent(p) \in v.dirs \cup {<<>>}
  PROVE  LET x == uploadHelper(v, p, u, b).vol
         IN  /\ x.dirs = v.dirs
             /\ DOMAIN x.link = DOMAIN v.link
             /\ \A q \in DOMAIN v.link \ {p} : x.link[q] = v.link[q]
<1> DEFINE w == remove(v, p, u).vol
           x == uploadHelper(v, p, u, b).vol
<1>1. CASE InShared(p, u)
  BY <1>1 DEF uploadHelper, Result
<1>2. CASE ~InShared(p, u)
  <2>1. w = RemoveLink(v, p).vol
    BY DEF remove
  <2>2. w.link = Without(v.link, {p}) /\ w.dirs = v.dirs
    BY <2>1, RemoveLinkShape
  <2> HIDE DEF w
  <2>3. /\ DOMAIN w.link = DOMAIN v.link \ {p}
        /\ \A q \in DOMAIN w.link : w.link[q] = v.link[q]
    BY <2>2 DEF Without, Restrict
  <2>4. CanCreate(w, p)
    BY <2>2, <2>3 DEF CanCreate, Taken
  <2>5. LinkMade(w, x, p)
    BY <1>2, <2>4, UploadHelperShape DEF w
  <2> HIDE DEF x
  <2>6. PICK k : x.link = With(w.link, p, k)
    BY <2>5 DEF LinkMade
  <2>7. /\ DOMAIN x.link = DOMAIN v.link
        /\ \A q \in DOMAIN v.link \ {p} : x.link[q] = v.link[q]
    BY <2>3, <2>6 DEF With
  <2>8. x.dirs = v.dirs
    BY <2>2, <2>5 DEF LinkMade
  <2> QED
    BY <2>7, <2>8 DEF x
<1> QED
  BY <1>1, <1>2

-----------------------------------------------------------------------------
(* sharerUpload. *)

\* What holds of sharedata whatever the links are.
RowsApart(v) ==
  \A r, s \in v.sharedata :
    \/ r.shareepath = s.shareepath
    \/ r.sharer = s.sharer /\ r.sharee = s.sharee /\ r.origpath = s.origpath
    => r = s

(* The links of rows are links, so that the loops of os.Remove get through. *)
LEMMA RowsRemovable ==
  ASSUME NEW v, LinkInv(v, {}), NEW rows \in SUBSET v.sharedata
  PROVE  /\ ShareePaths(rows) \subseteq DOMAIN v.link
         /\ AllRemovable(v, rows)
         /\ \A done \in Unlinkable(v, rows) : done = rows
<1>1. \A r \in v.sharedata : r.shareepath \in DOMAIN v.link
  BY DEF LinkInv, ShareLinked
<1>2. \A S \in SUBSET rows : AllRemovable(v, S)
  BY <1>1 DEF AllRemovable, CanRemove
<1>3. \A done \in Unlinkable(v, rows) : done = rows
  BY <1>2 DEF Unlinkable
<1> QED
  BY <1>1, <1>2, <1>3 DEF ShareePaths

LEMMA UnlinkInv ==
  ASSUME NEW v, LinkInv(v, {}), RowsApart(v), v.dirs \cap DOMAIN v.link = {},
         NEW rows \in SUBSET v.sharedata
  PROVE  LET w == Removed(v, ShareePaths(rows))
         IN  /\ LinkInv(w, rows)
             /\ w.dirs = v.dirs /\ w.sharedata = v.sharedata
             /\ DOMAIN w.link = DOMAIN v.link \ ShareePaths(rows)
             /\ \A q \in DOMAIN w.link : w.link[q] = v.link[q]
<1> DEFINE w == Removed(v, ShareePaths(rows))
<1>0. StoreInv(v) /\ VolumeType(v) /\ v.dirs \ ShareePaths(rows) = v.dirs
  BY RowsRemovable DEF LinkInv, StoreInv
<1>1. /\ w.dirs = v.dirs /\ w.sharedata = v.sharedata /\ w.filedata = v.filedata
      /\ w.store = v.store /\ w.filecount = v.filecount
      /\ w.link = Without(v.link, ShareePaths(rows))
  BY <1>0 DEF Removed, VolumeType
<1>2. /\ DOMAIN w.link = DOMAIN v.link \ ShareePaths(rows)
      /\ \A q \in DOMAIN w.link : w.link[q] = v.link[q]
  BY <1>1 DEF Without, Restrict
<1>3. VolumeType(w)
  BY <1>0, RemovedType
<1> HIDE DEF w
<1>4. StoreInv(w)
  BY <1>0, <1>1, <1>3, SameStore
<1>5. ShareePaths(rows) \subseteq ShareePaths(v.sharedata)
  BY DEF ShareePaths
<1>6. OwnedPaths(w) = OwnedPaths(v)
  BY <1>1, <1>2, <1>5 DEF OwnedPaths
<1>7. \A k : LinksTo(w, k) = LinksTo(v, k)
  BY <1>2, <1>6 DEF LinksTo, OwnedPaths
<1>8. OwnersCounted(w)
  BY <1>1, <1>7 DEF LinkInv, OwnersCounted
<1>9. LinksLive(w)
  BY <1>1, <1>2 DEF LinkInv, LinksLive
<1>10. IsFiniteSet(DOMAIN w.link)
  BY <1>2, FS_Subset DEF LinkInv
<1>11. ASSUME NEW r \in w.sharedata \ rows PROVE ShareLinked(w, r)
  <2>1. ShareLinked(v, r)
    BY <1>1 DEF LinkInv
  <2>2. r.shareepath \notin ShareePaths(rows)
    BY <1>1 DEF RowsApart, ShareePaths
  <2>3. r.shareepath \in DOMAIN w.link /\ r.origpath \in DOMAIN w.link
    BY <1>2, <1>6, <2>1, <2>2 DEF ShareLinked, OwnedPaths
  <2> QED
    BY <1>2, <1>6, <2>1, <2>3 DEF ShareLinked
<1>12. rows \subseteq w.sharedata /\ \A r \in rows : r.shareepath \notin DOMAIN w.link
  BY <1>1, <1>2 DEF ShareePaths
<1>13. LinkInv(w, rows)
  BY <1>4, <1>8, <1>9, <1>10, <1>11, <1>12 DEF LinkInv
<1> QED
  BY <1>1, <1>2, <1>13 DEF w

(* The rows are linked again, to what the sharer's path now leads to. *)
LEMMA RelinkInv ==
  ASSUME NEW v, NEW rows \in SUBSET v.sharedata, LinkInv(v, rows),
         NEW orig \in OwnedPaths(v),
         \A q \in ShareePaths(rows) : CanCreate(v, q),
         \A r \in rows : /\ r.sharer # r.sharee /\ r.origpath = orig
                         /\ checkpath(orig, r.sharer)
                         /\ Parent(r.shareepath) = SharedDir(r.sharee),
         RowsApart(v), IsFiniteSet(ShareePaths(rows))
  PROVE  LET w == Relink(v, orig, rows)
         IN  /\ LinkInv(w, {})
             /\ w.dirs = v.dirs /\ w.sharedata = v.sharedata
             /\ DOMAIN w.link = DOMAIN v.link \cup ShareePaths(rows)
             /\ \A q \in DOMAIN v.link : w.link[q] = v.link[q]
<1> DEFINE w == Relink(v, orig, rows)
           made == ShareePaths(rows)
<1>0. StoreInv(v) /\ VolumeType(v) /\ orig \in DOMAIN v.link
  BY DEF LinkInv, StoreInv, OwnedPaths
<1>1. /\ w.dirs = v.dirs /\ w.sharedata = v.sharedata /\ w.filedata = v.filedata
      /\ w.store = v.store /\ w.filecount = v.filecount
      /\ w.link = [q \in DOMAIN v.link \cup made |->
                     IF q \in made THEN v.link[orig] ELSE v.link[q]]
  <2>1. made = {q \in made : CanCreate(v, q)}
    OBVIOUS
  <2> HIDE DEF made
  <2> QED
    BY <1>0, <2>1 DEF Relink, VolumeType, made
<1>2. VolumeType(w)
  <2>1. rows \in SUBSET ShareRow
    BY <1>0 DEF VolumeType
  <2> QED
    BY <1>0, <2>1, RelinkType
<1> HIDE DEF w
<1>3. StoreInv(w)
  BY <1>0, <1>1, <1>2, SameStore
<1>4. \A q \in made : q \notin DOMAIN v.link
  BY DEF CanCreate, Taken
<1>5. made \subseteq ShareePaths(v.sharedata)
  BY DEF ShareePaths
<1> HIDE DEF made
<1>6. /\ DOMAIN w.link = DOMAIN v.link \cup made
      /\ \A q \in DOMAIN v.link : w.link[q] = v.link[q]
      /\ \A q \in made : w.link[q] = v.link[orig]
  BY <1>1, <1>4
<1>7. OwnedPaths(w) = OwnedPaths(v)
  BY <1>1, <1>5, <1>6 DEF OwnedPaths
<1>8. \A k : LinksTo(w, k) = LinksTo(v, k)
  BY <1>6, <1>7 DEF LinksTo, OwnedPaths
<1>9. OwnersCounted(w)
  BY <1>1, <1>8 DEF LinkInv, OwnersCounted
<1>10. LinksLive(w)
  BY <1>0, <1>1, <1>6 DEF LinkInv, LinksLive
<1>11. IsFiniteSet(DOMAIN w.link)
  <2>1. IsFiniteSet(DOMAIN v.link) /\ IsFiniteSet(made)
    BY DEF LinkInv, made
  <2>2. IsFiniteSet(DOMAIN v.link \cup made)
    BY <2>1, FS_Union
  <2> QED
    BY <1>6, <2>2
<1>12. ASSUME NEW r \in w.sharedata PROVE ShareLinked(w, r)
  <2>1. CASE r \in rows
    <3>1. r.shareepath \in made
      BY <2>1 DEF made, ShareePaths
    <3> QED
      BY <1>0, <1>6, <1>7, <2>1, <3>1 DEF ShareLinked
  <2>2. CASE r \notin rows
    <3>1. ShareLinked(v, r)
      BY <1>1, <2>2 DEF LinkInv
    <3>2. r.origpath \in DOMAIN v.link
      BY <3>1 DEF ShareLinked, OwnedPaths
    <3> QED
      BY <1>6, <1>7, <3>1, <3>2 DEF ShareLinked
  <2> QED
    BY <2>1, <2>2
<1>13. LinkInv(w, {})
  BY <1>3, <1>9, <1>10, <1>11, <1>12 DEF LinkInv
<1> QED
  BY <1>1, <1>6, <1>13 DEF w, made

-----------------------------------------------------------------------------
(* Whose names are apart reach no path together; what there is in the tree *)
(* and in sharedata is some user's who signed up.                          *)
Placed(v, us) ==
  /\ us \in SUBSET User
  /\ NamesApart(us)
  /\ \A r \in v.sharedata : r.sharer \in us /\ r.sharee \in us
  /\ \A p \in Taken(v) : \E x \in us : checkpath(p, x)

(* The volume between requests; us are the users signed up. *)
VolumeInv(v, us) ==
  /\ LinkInv(v, {})
  /\ RowsApart(v)
  /\ SharedDirManaged(v, us)
  /\ TreeSound(v, us)
  /\ Placed(v, us)

(* A path one user reaches by checkpath no other one does. *)
LEMMA OneReaches ==
  ASSUME NEW us \in SUBSET User, NamesApart(us), NEW p \in Path,
         NEW u \in us, NEW x \in us, checkpath(p, u), checkpath(p, x)
  PROVE  x = u
<1>1. /\ Root(u)[1] = u /\ Len(Root(u)) = 1
      /\ Root(x)[1] = x /\ Len(Root(x)) = 1
  BY DEF Root
<1>2. 1 <= Len(p) /\ StartsWith(p[1], u) /\ StartsWith(p[1], x)
  BY <1>1 DEF checkpath, HasPrefix
<1>3. p[1] \in Name
  BY <1>2 DEF Path
<1>4. StartsWith(u, x) \/ StartsWith(x, u)
  BY <1>2, <1>3, NameAssumption
<1> QED
  BY <1>4 DEF NamesApart

\* From v to w, at most what paths of S lead to is replaced.
OthersKept(v, w, S) ==
  /\ w.dirs = v.dirs /\ w.sharedata = v.sharedata
  /\ DOMAIN w.link = DOMAIN v.link
  /\ \A q \in DOMAIN v.link \ S : w.link[q] = v.link[q]

LEMMA OthersKeptInv ==
  ASSUME NEW v, NEW us, VolumeInv(v, us), NEW w, NEW S, OthersKept(v, w, S), LinkInv(w, {})
  PROVE  VolumeInv(w, us)
<1>1. RowsApart(w)
  BY DEF VolumeInv, RowsApart, OthersKept
<1>2. SharedDirManaged(w, us)
  BY DEF VolumeInv, SharedDirManaged, OwnedPaths, OthersKept
<1>3. TreeSound(w, us) /\ Placed(w, us)
  BY DEF VolumeInv, TreeSound, Placed, Taken, OthersKept
<1> QED
  BY <1>1, <1>2, <1>3 DEF VolumeInv

(* The sharer's file, and with it the sharees' links, all there before and *)
(* after, lead to the new content.                                         *)
LEMMA SharerUploadInv ==
  ASSUME NEW v, NEW us, VolumeInv(v, us), NEW row \in v.sharedata,
         NEW b \in Body, NEW done \in Unlinkable(v, SharesOf(v, row.sharer, row.origpath))
  PROVE  LET w == sharerUpload(v, row.sharer, row.origpath, b, done).vol
         IN  /\ VolumeInv(w, us)
             /\ OthersKept(v, w, {row.origpath} \cup
                                  ShareePaths(SharesOf(v, row.sharer, row.origpath)))
<1> DEFINE sharer == row.sharer
           orig == row.origpath
           rows == SharesOf(v, sharer, orig)
           S == {orig} \cup ShareePaths(rows)
           unlinked == Removed(v, ShareePaths(done))
           w == uploadHelper(unlinked, orig, sharer, b).vol
           x == sharerUpload(v, sharer, orig, b, done).vol
<1>0. /\ LinkInv(v, {}) /\ StoreInv(v) /\ VolumeType(v)
      /\ RowsApart(v) /\ TreeSound(v, us)
      /\ orig \in Path /\ sharer \in User
  BY DEF VolumeInv, LinkInv, StoreInv, VolumeType, ShareRow
<1>1. \A r \in v.sharedata : ShareLinked(v, r)
  BY <1>0 DEF LinkInv
<1>2. rows \in SUBSET v.sharedata
  BY DEF SharesOf
<1>3. ShareePaths(rows) \subseteq DOMAIN v.link /\ v.dirs \cap DOMAIN v.link = {}
  BY <1>0, <1>2, RowsRemovable DEF TreeSound
<1>4. done = rows
  BY <1>0, <1>2, RowsRemovable
<1>5. /\ LinkInv(unlinked, rows)
      /\ unlinked.dirs = v.dirs /\ unlinked.sharedata = v.sharedata
      /\ DOMAIN unlinked.link = DOMAIN v.link \ ShareePaths(rows)
      /\ \A q \in DOMAIN unlinked.link : unlinked.link[q] = v.link[q]
  <2> DEFINE y == Removed(v, ShareePaths(rows))
  <2> HIDE DEF rows
  <2>1. /\ LinkInv(y, rows)
        /\ y.dirs = v.dirs /\ y.sharedata = v.sharedata
        /\ DOMAIN y.link = DOMAIN v.link \ ShareePaths(rows)
        /\ \A q \in DOMAIN y.link : y.link[q] = v.link[q]
    BY <1>0, <1>2, <1>3, UnlinkInv
  <2>2. unlinked = y
    BY <1>4
  <2> HIDE DEF unlinked, y
  <2> QED
    BY <2>1, <2>2
<1> HIDE DEF unlinked
<1>6. orig \in OwnedPaths(v) /\ checkpath(orig, sharer)
  BY <1>1 DEF ShareLinked
<1>7. orig \in DOMAIN v.link /\ orig \notin ShareePaths(v.sharedata)
  BY <1>6 DEF OwnedPaths
<1>8. orig \in DOMAIN unlinked.link
  BY <1>2, <1>5, <1>7 DEF ShareePaths
<1>9. VolumeType(unlinked) /\ StoreInv(unlinked)
  BY <1>5 DEF LinkInv, StoreInv
<1>10. ASSUME NEW q \in DOMAIN v.link
       PROVE  q \notin v.dirs /\ Parent(q) \in v.dirs \cup {<<>>}
  BY <1>0 DEF TreeSound, Taken
<1>11. LinkInv(w, rows) /\ w.sharedata = v.sharedata
  <2>1. ASSUME NEW r \in v.sharedata \ rows PROVE r.origpath # orig
    <3>1. /\ us \in SUBSET User /\ NamesApart(us) /\ r.sharer \in us /\ sharer \in us
          /\ checkpath(r.origpath, r.sharer) /\ (r.sharer # sharer \/ r.origpath # orig)
      BY <1>1 DEF VolumeInv, Placed, ShareLinked, SharesOf
    <3> QED
      BY <1>0, <1>6, <3>1, OneReaches
  <2> QED
    BY <1>0, <1>5, <1>7, <2>1, UploadHelperInv
<1>12. /\ w.dirs = v.dirs
       /\ DOMAIN w.link = DOMAIN v.link \ ShareePaths(rows)
       /\ \A q \in DOMAIN w.link \ {orig} : w.link[q] = v.link[q]
  <2>2. Stat(unlinked, orig)
    BY <1>5, <1>8, <1>9 DEF Stat, LinkInv, LinksLive, StoreInv, StoreMatchesTable
  <2>3. orig \notin unlinked.dirs /\ Parent(orig) \in unlinked.dirs \cup {<<>>}
    BY <1>5, <1>7, <1>10
  <2>4. /\ w.dirs = unlinked.dirs
        /\ DOMAIN w.link = DOMAIN unlinked.link
        /\ \A q \in DOMAIN unlinked.link \ {orig} : w.link[q] = unlinked.link[q]
    BY <1>6, <1>8, <1>9, <2>2, <2>3, UploadOver
  <2> QED
    BY <1>5, <2>4
<1>13. x = Relink(w, orig, rows)
  <2>1. orig \in DOMAIN w.link
    BY <1>5, <1>8, <1>12
  <2> QED
    BY <1>4, <2>1 DEF sharerUpload, Result, unlinked
<1> HIDE DEF w, x
<1>14. /\ LinkInv(x, {})
       /\ x.dirs = w.dirs /\ x.sharedata = w.sharedata
       /\ DOMAIN x.link = DOMAIN w.link \cup ShareePaths(rows)
       /\ \A q \in DOMAIN w.link : x.link[q] = w.link[q]
  <2>1. orig \in OwnedPaths(w) /\ rows \in SUBSET w.sharedata /\ RowsApart(w)
    BY <1>0, <1>2, <1>5, <1>7, <1>8, <1>11, <1>12 DEF OwnedPaths, RowsApart
  <2>2. ASSUME NEW q \in ShareePaths(rows) PROVE CanCreate(w, q)
    BY <1>3, <1>10, <1>12 DEF CanCreate, Taken
  <2>3. ASSUME NEW r \in rows
        PROVE  /\ r.sharer # r.sharee /\ r.origpath = orig /\ checkpath(orig, r.sharer)
               /\ Parent(r.shareepath) = SharedDir(r.sharee)
    BY <1>1, <1>6 DEF ShareLinked, SharesOf
  <2>4. IsFiniteSet(ShareePaths(rows))
    BY <1>0, <1>3, FS_Subset DEF LinkInv
  <2> HIDE DEF rows, orig
  <2> QED
    BY <1>11, <1>13, <2>1, <2>2, <2>3, <2>4, RelinkInv
<1>15. OthersKept(v, x, S)
  BY <1>3, <1>11, <1>12, <1>14 DEF OthersKept
<1>16. VolumeInv(x, us)
  BY <1>14, <1>15, OthersKeptInv
<1> QED
  BY <1>15, <1>16 DEF x
=============================================================================
