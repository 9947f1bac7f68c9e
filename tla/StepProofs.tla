----------------------------- MODULE StepProofs -----------------------------
(***************************************************************************)
(* Proofs about module DropboxSteps: what holds at every point of every    *)
(* handler, and that the steps of a handler add up to the handler.         *)
(***************************************************************************)
EXTENDS SharingProofs, DropboxSteps

(* The volumes a handler goes through keep three of the promises between   *)
(* requests: links lead to content, at most one count of owners is wrong,  *)
(* and nobody sees an old version of a shared file.                        *)
KeepsContent(v) == \A p \in DOMAIN v.link : v.link[p] \in DOMAIN v.store

OwnersOff(v) ==
  /\ Cardinality(Miscounted(v)) <= 1
  /\ \A k \in Miscounted(v) : Owners(v, k) - Cardinality(LinksTo(v, k)) \in {1, -1}

SingleVersion(v) ==
  \A r \in v.sharedata :
    {r.origpath, r.shareepath} \subseteq DOMAIN v.link =>
      v.link[r.origpath] = v.link[r.shareepath]

VolumeSet ==
  [dirs : SUBSET Path,
   link : UNION {[D -> Nat] : D \in SUBSET Path},
   store : UNION {[D -> Body] : D \in SUBSET Nat},
   filedata : SUBSET FileRow,
   sharedata : SUBSET ShareRow,
   filecount : Nat]

Halfway == {v \in VolumeSet : KeepsContent(v) /\ OwnersOff(v) /\ SingleVersion(v)}

LEMMA VolumeSetType ==
  ASSUME NEW v
  PROVE  VolumeType(v) <=> v \in VolumeSet
<1>1. ASSUME VolumeType(v) PROVE v \in VolumeSet
  <2>1. v.link \in [DOMAIN v.link -> Nat] /\ v.store \in [DOMAIN v.store -> Body]
    BY <1>1 DEF VolumeType
  <2>2. /\ v.link \in UNION {[D -> Nat] : D \in SUBSET Path}
        /\ v.store \in UNION {[D -> Body] : D \in SUBSET Nat}
    BY <1>1, <2>1 DEF VolumeType
  <2> QED
    BY <1>1, <2>2 DEF VolumeType, VolumeSet
<1>2. ASSUME v \in VolumeSet PROVE VolumeType(v)
  <2>1. PICK D \in SUBSET Path, E \in SUBSET Nat :
          v.link \in [D -> Nat] /\ v.store \in [E -> Body]
    BY <1>2 DEF VolumeSet
  <2> QED
    BY <1>2, <2>1 DEF VolumeType, VolumeSet
<1> QED
  BY <1>1, <1>2

-----------------------------------------------------------------------------
(* The last of a sequence of stages. *)

LEMMA NoStage ==
  ASSUME NEW S, NEW v
  PROVE  <<>> \in Seq(S) /\ LastStage(v, <<>>) = v
  BY DEF LastStage

LEMMA OneStage ==
  ASSUME NEW S, NEW v, NEW a \in S
  PROVE  <<a>> \in Seq(S) /\ LastStage(v, <<a>>) = a
<1>1. <<a>> # <<>>
  OBVIOUS
<1> QED
  BY <1>1 DEF LastStage, Seqs!Last

LEMMA TwoStages ==
  ASSUME NEW S, NEW v, NEW a \in S, NEW b \in S
  PROVE  <<a, b>> \in Seq(S) /\ LastStage(v, <<a, b>>) = b
<1>1. <<a, b>> # <<>>
  OBVIOUS
<1> QED
  BY <1>1 DEF LastStage, Seqs!Last

LEMMA ThreeStages ==
  ASSUME NEW S, NEW v, NEW a \in S, NEW b \in S, NEW c \in S
  PROVE  <<a, b, c>> \in Seq(S) /\ LastStage(v, <<a, b, c>>) = c
<1>1. <<a, b, c>> # <<>>
  OBVIOUS
<1> QED
  BY <1>1 DEF LastStage, Seqs!Last

LEMMA LastInSet ==
  ASSUME NEW S, NEW v \in S, NEW s \in Seq(S)
  PROVE  LastStage(v, s) \in S
<1>1. CASE s = <<>>
  BY <1>1 DEF LastStage
<1>2. CASE s # <<>>
  <2>1. Len(s) \in 1 .. Len(s)
    BY <1>2, EmptySeq
  <2>2. s[Len(s)] \in S
    BY <2>1, ElementOfSeq
  <2> QED
    BY <1>2, <2>2 DEF LastStage, Seqs!Last
<1> QED
  BY <1>1, <1>2

LEMMA LastOfConcat ==
  ASSUME NEW S, NEW v, NEW s \in Seq(S), NEW t \in Seq(S)
  PROVE  s \o t \in Seq(S) /\ LastStage(v, s \o t) = LastStage(LastStage(v, s), t)
<1>1. /\ s \o t \in Seq(S) /\ Len(s \o t) = Len(s) + Len(t)
      /\ \A i \in 1 .. Len(s) + Len(t) :
           (s \o t)[i] = IF i <= Len(s) THEN s[i] ELSE t[i - Len(s)]
  BY ConcatProperties
<1>2. CASE t = <<>>
  <2>1. s \o t = s
    BY <1>2, ConcatEmptySeq
  <2> QED
    BY <1>1, <1>2, <2>1 DEF LastStage
<1>3. CASE t # <<>>
  <2>1. Len(t) \in Nat \ {0} /\ Len(s) \in Nat
    BY <1>3, EmptySeq, LenProperties
  <2>2. s \o t # <<>>
    BY <1>3, ConcatEqualIffEmpty
  <2>3. (s \o t)[Len(s) + Len(t)] = t[Len(t)]
    BY <1>1, <2>1
  <2> QED
    BY <1>1, <1>3, <2>2, <2>3 DEF LastStage, Seqs!Last
<1> QED
  BY <1>2, <1>3

LEMMA LastOfTail ==
  ASSUME NEW S, NEW v, NEW s \in Seq(S), s # <<>>
  PROVE  LastStage(Head(s), Tail(s)) = LastStage(v, s)
<1>1. /\ Head(s) \in S /\ Tail(s) \in Seq(S) /\ Len(Tail(s)) = Len(s) - 1
      /\ \A i \in 1 .. Len(Tail(s)) : Tail(s)[i] = s[i + 1]
  BY HeadTailProperties
<1>2. Len(s) \in Nat \ {0}
  BY EmptySeq
<1>3. CASE Tail(s) = <<>>
  <2>1. Len(<<>>) = 0
    BY EmptySeq
  <2>2. Len(s) = 1
    BY <1>1, <1>2, <1>3, <2>1
  <2>3. Head(s) = s[Len(s)]
    BY <2>2
  <2> QED
    BY <1>3, <2>3 DEF LastStage, Seqs!Last
<1>4. CASE Tail(s) # <<>>
  <2>1. Len(Tail(s)) \in Nat \ {0}
    BY <1>1, <1>4, EmptySeq
  <2>2. Tail(s)[Len(Tail(s))] = s[Len(s)]
    BY <1>1, <1>2, <2>1
  <2> QED
    BY <1>4, <2>2 DEF LastStage, Seqs!Last
<1> QED
  BY <1>3, <1>4

(* A loop that performs one stage per round. *)
LEMMA LastOfLoop ==
  ASSUME NEW S, NEW n \in Nat \ {0}, NEW f \in [1 .. n -> S]
  PROVE  f \in Seq(S) /\ \A v : LastStage(v, f) = f[n]
<1>1. f \in Seq(S)
  BY SeqDef
<1>2. Len(f) = n
  BY <1>1, LenProperties
<1>3. f # <<>>
  BY <1>2, EmptySeq
<1> QED
  BY <1>1, <1>2, <1>3 DEF LastStage, Seqs!Last


-----------------------------------------------------------------------------
(* What is halfway. *)

LEMMA CountsRight ==
  ASSUME NEW v, NEW open, LinkInv(v, open), NEW k
  PROVE  Owners(v, k) \in Nat /\ Owners(v, k) = Cardinality(LinksTo(v, k))
<1>0. VolumeType(v) /\ OneRowPerFile(v)
  BY DEF LinkInv, StoreInv
<1>1. Owners(v, k) \in Nat
  BY <1>0, OwnersType
<1>2. CASE k \in FilesIn(v.filedata)
  <2>1. PICK row \in v.filedata : row.filename = k
    BY <1>2 DEF FilesIn
  <2>2. Owners(v, row.filename) = row.numowners
    BY <1>0, OwnersOfRow
  <2> QED
    BY <1>1, <2>1, <2>2 DEF LinkInv, OwnersCounted
<1>3. CASE k \notin FilesIn(v.filedata)
  <2>1. Owners(v, k) = 0
    BY <1>3 DEF Owners, FilesIn
  <2>2. LinksTo(v, k) = {}
    BY <1>3 DEF LinkInv, LinksLive, LinksTo, OwnedPaths
  <2> QED
    BY <1>1, <2>1, <2>2, FS_EmptySet
<1> QED
  BY <1>2, <1>3

(* At most the count of k is off. *)
LEMMA OneOff ==
  ASSUME NEW v, NEW k, \A j : j # k => Owners(v, j) = Cardinality(LinksTo(v, j)),
         Owners(v, k) - Cardinality(LinksTo(v, k)) \in {0, 1, -1},
         Owners(v, k) \in Nat, Cardinality(LinksTo(v, k)) \in Nat
  PROVE  OwnersOff(v)
<1>1. Miscounted(v) \subseteq {k}
  BY DEF Miscounted
<1>2. CASE Miscounted(v) = {}
  BY <1>2, FS_EmptySet DEF OwnersOff
<1>3. CASE Miscounted(v) # {}
  <2>1. Miscounted(v) = {k} /\ Owners(v, k) # Cardinality(LinksTo(v, k))
    BY <1>1, <1>3 DEF Miscounted
  <2>2. Cardinality({k}) = 1
    BY FS_Singleton
  <2>3. Owners(v, k) - Cardinality(LinksTo(v, k)) \in {1, -1}
    BY <2>1
  <2> QED
    BY <2>1, <2>2, <2>3 DEF OwnersOff
<1> QED
  BY <1>2, <1>3

(* x has the links of d, at least its store files, and d's count of every  *)
(* store file but k.                                                       *)
LEMMA NearlyThere ==
  ASSUME NEW d, NEW open, LinkInv(d, open), NEW x, VolumeType(x),
         x.link = d.link, x.sharedata = d.sharedata,
         DOMAIN d.store \subseteq DOMAIN x.store, NEW k,
         \A j : j # k => Owners(x, j) = Owners(d, j),
         Owners(x, k) - Owners(d, k) \in {0, 1, -1}
  PROVE  x \in Halfway
<1>1. OwnedPaths(x) = OwnedPaths(d)
  BY DEF OwnedPaths
<1>2. \A j : LinksTo(x, j) = LinksTo(d, j)
  BY <1>1 DEF LinksTo
<1>3. \A j : Owners(d, j) \in Nat /\ Owners(d, j) = Cardinality(LinksTo(d, j))
  BY CountsRight
<1>4. Owners(x, k) \in Nat
  BY OwnersType
<1>5. OwnersOff(x)
  <2>1. \A j : j # k => Owners(x, j) = Cardinality(LinksTo(x, j))
    BY <1>2, <1>3
  <2>2. /\ Owners(x, k) - Cardinality(LinksTo(x, k)) \in {0, 1, -1}
        /\ Cardinality(LinksTo(x, k)) \in Nat
    BY <1>2, <1>3
  <2> QED
    BY <1>4, <2>1, <2>2, OneOff
<1>6. KeepsContent(x)
  BY DEF LinkInv, LinksLive, StoreInv, StoreMatchesTable, KeepsContent
<1>7. SingleVersion(x)
  <2> SUFFICES ASSUME NEW r \in d.sharedata, {r.origpath, r.shareepath} \subseteq DOMAIN d.link
               PROVE  d.link[r.origpath] = d.link[r.shareepath]
    BY DEF SingleVersion
  <2>1. r \notin open
    BY DEF LinkInv
  <2> QED
    BY <2>1 DEF LinkInv, ShareLinked
<1> QED
  BY <1>5, <1>6, <1>7, VolumeSetType DEF Halfway

LEMMA SameCounts ==
  ASSUME NEW v, NEW w, w.filedata = v.filedata, NEW k
  PROVE  Owners(w, k) = Owners(v, k)
  BY DEF Owners

LEMMA LinkedHalfway ==
  ASSUME NEW d, NEW open, LinkInv(d, open)
  PROVE  d \in Halfway
<1>1. VolumeType(d)
  BY DEF LinkInv, StoreInv
<1>2. \A k : Owners(d, k) - Owners(d, k) = 0
  BY <1>1, OwnersType
<1> QED
  BY <1>1, <1>2, NearlyThere

\* All counts as in d.
LEMMA SameCountsHalfway ==
  ASSUME NEW d, NEW open, LinkInv(d, open), NEW x, VolumeType(x),
         x.link = d.link, x.sharedata = d.sharedata, x.filedata = d.filedata,
         DOMAIN d.store \subseteq DOMAIN x.store
  PROVE  x \in Halfway
<1>1. VolumeType(d)
  BY DEF LinkInv, StoreInv
<1>2. \A k : Owners(x, k) = Owners(d, k) /\ Owners(d, k) \in Nat
  BY <1>1, SameCounts, OwnersType
<1>3. \A k : Owners(x, k) - Owners(d, k) = 0
  BY <1>2
<1> QED
  BY <1>2, <1>3, NearlyThere

-----------------------------------------------------------------------------
(* Stages of the helpers. *)

LEMMA UnlinkedFields ==
  ASSUME NEW v, VolumeType(v), NEW S
  PROVE  LET w == Unlinked(v, S)
         IN  /\ VolumeType(w) /\ w.link = Without(v.link, S)
             /\ w.dirs = v.dirs /\ w.store = v.store /\ w.filedata = v.filedata
             /\ w.sharedata = v.sharedata /\ w.filecount = v.filecount
<1>1. VolumeType(Unlinked(v, S))
  BY UnlinkType DEF Unlinked
<1> QED
  BY <1>1 DEF Unlinked, VolumeType

(* The last link of an owner is counted, and no other. *)
LEMMA RemoveLinkCounts ==
  ASSUME NEW v, NEW open, LinkInv(v, open), NEW p \in OwnedPaths(v),
         NEW d, LinkInv(d, open), d.link = Without(v.link, {p}), d.sharedata = v.sharedata
  PROVE  LET k == v.link[p]
         IN  /\ Owners(v, k) - Owners(d, k) = 1
             /\ \A j : j # k => Owners(v, j) = Owners(d, j)
<1> DEFINE k == v.link[p]
           L == LinksTo(v, k)
<1>1. LinkLost(v, d, p)
  BY OneLess
<1>2. /\ \A j : Owners(v, j) \in Nat /\ Owners(v, j) = Cardinality(LinksTo(v, j))
      /\ \A j : Owners(d, j) \in Nat /\ Owners(d, j) = Cardinality(LinksTo(d, j))
  BY CountsRight
<1>3. \A j : j # k => Owners(v, j) = Owners(d, j)
  BY <1>1, <1>2 DEF LinkLost
<1>4. IsFiniteSet(L) /\ p \in L /\ LinksTo(d, k) = L \ {p}
  <2>1. IsFiniteSet(L)
    BY LinksFinite DEF LinkInv
  <2>2. LinksTo(d, k) = L \ {p}
    BY <1>1 DEF LinkLost
  <2> QED
    BY <2>1, <2>2 DEF LinksTo
<1>5. Owners(v, k) = Cardinality(L) /\ Owners(d, k) = Cardinality(L \ {p})
  BY <1>2, <1>4
<1> HIDE DEF L, k
<1>6. Cardinality(L \ {p}) = Cardinality(L) - 1
  BY <1>4, FS_RemoveElement
<1>7. Owners(v, k) - Owners(d, k) = 1
  BY <1>2, <1>5, <1>6
<1> QED
  BY <1>3, <1>7 DEF k

LEMMA RemoveLinkHalfway ==
  ASSUME NEW v, NEW open, LinkInv(v, open), NEW p \in OwnedPaths(v),
         \A r \in v.sharedata \ open : r.origpath # p
  PROVE  /\ RemoveLinkStages(v, p) \in Seq(Halfway)
         /\ \A u : LastStage(u, RemoveLinkStages(v, p)) = RemoveLink(v, p).vol
<1> DEFINE k == v.link[p]
           w == Unlinked(v, {p})
           x == [w EXCEPT !.store = Without(@, {k})]
           done == RemoveLink(v, p).vol
<1>0. VolumeType(v) /\ p \in DOMAIN v.link
  BY DEF LinkInv, StoreInv, OwnedPaths
<1>1. /\ VolumeType(w) /\ w.link = Without(v.link, {p}) /\ w.store = v.store
      /\ w.filedata = v.filedata /\ w.sharedata = v.sharedata
  BY <1>0, UnlinkedFields
<1>2. LinkInv(done, open) /\ done \in Halfway
  BY RemoveLinkInv, LinkedHalfway
<1>3. done.link = w.link /\ done.sharedata = w.sharedata
  BY <1>0, <1>1, RemoveLinkShape
<1>4. Owners(v, k) - Owners(done, k) = 1 /\ \A j : j # k => Owners(v, j) = Owners(done, j)
  <2>1. done.link = Without(v.link, {p}) /\ done.sharedata = v.sharedata
    BY <1>1, <1>3
  <2> HIDE DEF done, w
  <2> QED
    BY <1>2, <2>1, RemoveLinkCounts
<1>5. \A j : Owners(w, j) = Owners(v, j) /\ Owners(x, j) = Owners(v, j)
  <2>1. x.filedata = v.filedata
    BY <1>1
  <2> HIDE DEF w, x
  <2> QED
    BY <1>1, <2>1, SameCounts
<1>6. DOMAIN done.store \subseteq DOMAIN v.store
  BY <1>0 DEF RemoveLink, Forget, Result, VolumeType, Without, Restrict
<1>7. w \in Halfway
  <2> HIDE DEF w, x, done, k
  <2> QED
    BY <1>1, <1>2, <1>3, <1>4, <1>5, <1>6, NearlyThere
<1>8. CASE HasOwners(Owners(v, k) - 1)
  <2>1. RemoveLinkStages(v, p) = <<w, done>>
    BY <1>8 DEF RemoveLinkStages
  <2> HIDE DEF w, done
  <2>4. /\ RemoveLinkStages(v, p) \in Seq(Halfway)
        /\ \A u : LastStage(u, RemoveLinkStages(v, p)) = done
    BY <1>2, <1>7, <2>1, TwoStages
  <2> QED
    BY <2>4 DEF done
<1>9. CASE ~HasOwners(Owners(v, k) - 1)
  <2>1. k \in DOMAIN v.store
    BY <1>0 DEF LinkInv, LinksLive, StoreInv, StoreMatchesTable
  <2>2. RemoveLinkStages(v, p) = <<w, x, done>>
    BY <1>1, <1>9, <2>1 DEF RemoveLinkStages
  <2>3. done = Forget(w, k)
    BY <1>9, <2>1 DEF RemoveLink, Result, Unlinked
  <2>4. done.store = x.store
    BY <1>1, <2>3 DEF Forget, VolumeType
  <2>5. VolumeType(x) /\ x.link = w.link /\ x.sharedata = w.sharedata
    <3>1. Without(w.store, {k}) \in [DOMAIN w.store \ {k} -> Body]
      BY <1>1, WithoutType DEF VolumeType
    <3> QED
      BY <1>1, <3>1 DEF VolumeType
  <2>6. x \in Halfway
    <3> HIDE DEF w, x, done, k
    <3> QED
      BY <1>2, <1>3, <1>4, <1>5, <2>4, <2>5, NearlyThere
  <2> HIDE DEF w, x, done
  <2>7. /\ RemoveLinkStages(v, p) \in Seq(Halfway)
        /\ \A u : LastStage(u, RemoveLinkStages(v, p)) = done
    BY <1>2, <1>7, <2>2, <2>6, ThreeStages
  <2> QED
    BY <2>7 DEF done
<1> QED
  BY <1>8, <1>9

LEMMA RemoveHalfway ==
  ASSUME NEW v, NEW open, LinkInv(v, open), NEW p, NEW u,
         p \notin ShareePaths(v.sharedata),
         \A r \in v.sharedata \ open : r.origpath # p
  PROVE  /\ removeStages(v, p, u) \in Seq(Halfway)
         /\ LastStage(v, removeStages(v, p, u)) = remove(v, p, u).vol
<1> DEFINE w == remove(v, p, u).vol
<1>1. LinkInv(w, open) /\ w \in Halfway
  BY RemoveInv, LinkedHalfway
<1>2. CASE checkpath(p, u) /\ p \in DOMAIN v.link
  <2>1. p \in OwnedPaths(v)
    BY <1>2 DEF OwnedPaths
  <2>2. w = RemoveLink(v, p).vol /\ removeStages(v, p, u) = RemoveLinkStages(v, p)
    BY <1>2 DEF remove, removeStages
  <2> QED
    BY <2>1, <2>2, RemoveLinkHalfway
<1>3. CASE ~(checkpath(p, u) /\ p \in DOMAIN v.link)
  <2>1. removeStages(v, p, u) = IF w = v THEN <<>> ELSE <<w>>
    BY <1>3 DEF removeStages
  <2> HIDE DEF w
  <2>2. /\ removeStages(v, p, u) \in Seq(Halfway)
        /\ LastStage(v, removeStages(v, p, u)) = w
    BY <1>1, <2>1, NoStage, OneStage
  <2> QED
    BY <2>2 DEF w
<1> QED
  BY <1>2, <1>3

LEMMA StoreNewHalfway ==
  ASSUME NEW v, NEW open, LinkInv(v, open), NEW p \in Path, NEW b \in Body,
         p \notin ShareePaths(v.sharedata), ~\E r \in v.filedata : r.filehash = b
  PROVE  /\ StoreNewStages(v, p, b) \in Seq(Halfway)
         /\ \A u : LastStage(u, StoreNewStages(v, p, b)) = StoreNew(v, p, b).vol
<1> DEFINE k == v.filecount
           row == [filename |-> k, filehash |-> b, numowners |-> 1]
           w == [v EXCEPT !.store = With(@, k, b)]
           x == [w EXCEPT !.link = With(@, p, k)]
           done == StoreNew(v, p, b).vol
<1>0. VolumeType(v) /\ k \in Nat /\ p \in Path
  BY DEF LinkInv, StoreInv, VolumeType
<1>1. LinkInv(done, open) /\ done \in Halfway
  BY StoreNewInv, LinkedHalfway
<1>2. /\ VolumeType(w) /\ w.link = v.link /\ w.sharedata = v.sharedata
      /\ w.filedata = v.filedata /\ w.store = With(v.store, k, b)
  <2>1. With(v.store, k, b) \in [DOMAIN v.store \cup {k} -> Body]
    BY <1>0, WithType DEF VolumeType
  <2> QED
    BY <1>0, <2>1 DEF VolumeType
<1>3. w \in Halfway
  <2>1. DOMAIN v.store \subseteq DOMAIN w.store
    BY <1>2 DEF With
  <2> HIDE DEF w
  <2> QED
    BY <1>2, <2>1, SameCountsHalfway
<1>4. CASE ~CanCreate(v, p)
  <2>1. StoreNewStages(v, p, b) = <<w>> /\ done = w
    BY <1>4 DEF StoreNewStages, StoreNew, Result
  <2> HIDE DEF w
  <2> QED
    BY <1>3, <2>1, OneStage
<1>5. CASE CanCreate(v, p)
  <2>1. StoreNewStages(v, p, b) = <<w, x, done>>
    BY <1>5 DEF StoreNewStages
  <2>2. /\ done.link = With(v.link, p, k) /\ done.sharedata = v.sharedata
        /\ done.store = w.store /\ done.filedata = v.filedata \cup {row}
    BY <1>0, <1>2, <1>5 DEF StoreNew, Result, VolumeType
  <2>3. /\ VolumeType(x) /\ x.link = With(v.link, p, k) /\ x.sharedata = v.sharedata
        /\ x.filedata = v.filedata /\ x.store = w.store
    <3>1. With(w.link, p, k) \in [DOMAIN w.link \cup {p} -> Nat]
      BY <1>0, <1>2, WithType DEF VolumeType
    <3> HIDE DEF w
    <3> QED
      BY <1>0, <1>2, <3>1 DEF VolumeType
  <2>4. row.filename = k /\ row.numowners = 1
    OBVIOUS
  <2>5. row \in done.filedata /\ OneRowPerFile(done)
    BY <1>1, <2>2 DEF LinkInv, StoreInv
  <2> HIDE DEF w, x, done, row
  <2>6. \A j : j # k => Owners(x, j) = Owners(done, j)
    <3> SUFFICES ASSUME NEW j, j # k PROVE Owners(x, j) = Owners(done, j)
      OBVIOUS
    <3> DEFINE xs == {r \in x.filedata : r.filename = j}
               ds == {r \in done.filedata : r.filename = j}
    <3>1. xs = ds
      BY <2>2, <2>3, <2>4
    <3>2. /\ Owners(x, j) = IF xs = {} THEN 0 ELSE (CHOOSE r \in xs : TRUE).numowners
          /\ Owners(done, j) = IF ds = {} THEN 0 ELSE (CHOOSE r \in ds : TRUE).numowners
      BY DEF Owners
    <3> HIDE DEF xs, ds
    <3> QED
      BY <3>1, <3>2
  <2>7. Owners(done, k) = 1
    BY <2>4, <2>5, OwnersOfRow
  <2>8. Owners(x, k) = 0
    <3>1. \A r \in v.filedata : r.filename # k
      BY <1>0 DEF LinkInv, StoreInv, FilesBelow, FilesIn, VolumeType, FileRow
    <3> QED
      BY <2>3, <3>1 DEF Owners
  <2>9. x \in Halfway
    <3>1. Owners(x, k) - Owners(done, k) = -1
      BY <2>7, <2>8
    <3> HIDE DEF k
    <3> QED
      BY <1>1, <2>2, <2>3, <2>6, <3>1, NearlyThere
  <2>10. /\ StoreNewStages(v, p, b) \in Seq(Halfway)
         /\ \A u : LastStage(u, StoreNewStages(v, p, b)) = done
    BY <1>1, <1>3, <2>1, <2>9, ThreeStages
  <2> QED
    BY <2>10 DEF done
<1> QED
  BY <1>4, <1>5

LEMMA LinkExistingHalfway ==
  ASSUME NEW v, NEW open, LinkInv(v, open), NEW p \in Path, NEW b,
         p \notin ShareePaths(v.sharedata), \E r \in v.filedata : r.filehash = b
  PROVE  /\ LinkExistingStages(v, p, b) \in Seq(Halfway)
         /\ LastStage(v, LinkExistingStages(v, p, b)) = LinkExisting(v, p, b).vol
<1> DEFINE row == CHOOSE r \in v.filedata : r.filehash = b
           k == row.filename
           done == LinkExisting(v, p, b).vol
           x == [v EXCEPT !.link = With(@, p, done.link[p])]
<1>0. VolumeType(v) /\ OneRowPerFile(v) /\ p \in Path
  BY DEF LinkInv, StoreInv
<1>1. LinkInv(done, open) /\ done \in Halfway
  BY LinkExistingInv, LinkedHalfway
<1>2. CASE ~CanCreate(v, p)
  <2>1. LinkExistingStages(v, p, b) = <<>> /\ done = v
    BY <1>2 DEF LinkExistingStages, LinkExisting, Result
  <2> HIDE DEF done
  <2>2. /\ LinkExistingStages(v, p, b) \in Seq(Halfway)
        /\ LastStage(v, LinkExistingStages(v, p, b)) = done
    BY <2>1, NoStage
  <2> QED
    BY <2>2 DEF done
<1>3. CASE CanCreate(v, p)
  <2>1. LinkExistingStages(v, p, b) = <<x, done>>
    BY <1>3 DEF LinkExistingStages
  <2>2. row \in v.filedata /\ row.filehash = b /\ row \in FileRow
    BY <1>0 DEF VolumeType
  <2>3. /\ done.link = With(v.link, p, k) /\ done.sharedata = v.sharedata
        /\ done.store = v.store
    BY <1>0, <1>3 DEF LinkExisting, Result, VolumeType
  <2>4. done.link[p] = k /\ k \in Nat
    BY <2>2, <2>3 DEF With, FileRow
  <2>5. /\ VolumeType(x) /\ x.link = done.link /\ x.sharedata = v.sharedata
        /\ x.filedata = v.filedata /\ x.store = v.store
    <3>1. With(v.link, p, k) \in [DOMAIN v.link \cup {p} -> Nat]
      BY <1>0, <2>4, WithType DEF VolumeType
    <3> HIDE DEF k, done
    <3> QED
      BY <1>0, <2>3, <2>4, <3>1 DEF VolumeType
  <2>6. LinkGained(v, done, p, k)
    <3>1. p \notin DOMAIN v.link
      BY <1>3 DEF CanCreate, Taken
    <3> HIDE DEF done, k
    <3> QED
      BY <2>3, <3>1, OneMore
  <2> HIDE DEF x, done, row
  <2>7. /\ \A j : Owners(v, j) \in Nat /\ Owners(v, j) = Cardinality(LinksTo(v, j))
        /\ \A j : Owners(done, j) \in Nat /\ Owners(done, j) = Cardinality(LinksTo(done, j))
    BY <1>1, CountsRight
  <2>8. \A j : Owners(x, j) = Owners(v, j)
    BY <2>5, SameCounts
  <2>9. \A j : j # k => Owners(x, j) = Owners(done, j)
    BY <2>6, <2>7, <2>8 DEF LinkGained
  <2>10. Cardinality(LinksTo(done, k)) = Cardinality(LinksTo(v, k)) + 1
    <3>1. p \notin LinksTo(v, k)
      BY <1>3 DEF CanCreate, Taken, LinksTo, OwnedPaths
    <3>2. IsFiniteSet(LinksTo(v, k))
      BY LinksFinite DEF LinkInv
    <3>3. LinksTo(done, k) = LinksTo(v, k) \cup {p}
      BY <2>6 DEF LinkGained
    <3> QED
      BY <3>1, <3>2, <3>3, FS_AddElement
  <2>11. Owners(x, k) - Owners(done, k) = -1
    BY <2>7, <2>8, <2>10
  <2>12. x \in Halfway
    <3> HIDE DEF k
    <3> QED
      BY <1>1, <2>3, <2>5, <2>9, <2>11, NearlyThere
  <2>13. /\ LinkExistingStages(v, p, b) \in Seq(Halfway)
         /\ LastStage(v, LinkExistingStages(v, p, b)) = done
    BY <1>1, <2>1, <2>12, TwoStages
  <2> QED
    BY <2>13 DEF done
<1> QED
  BY <1>2, <1>3

LEMMA UploadHelperHalfway ==
  ASSUME NEW v, NEW open, LinkInv(v, open), NEW p \in Path, NEW u, NEW b \in Body,
         p \notin ShareePaths(v.sharedata),
         \A r \in v.sharedata \ open : r.origpath # p
  PROVE  /\ uploadHelperStages(v, p, u, b) \in Seq(Halfway)
         /\ LastStage(v, uploadHelperStages(v, p, u, b)) = uploadHelper(v, p, u, b).vol
<1> DEFINE removal == IF Stat(v, p) THEN removeStages(v, p, u) ELSE <<>>
           w == IF Stat(v, p) THEN remove(v, p, u).vol ELSE v
           known == \E r \in w.filedata : r.filehash = b
           placing == IF known THEN LinkExistingStages(w, p, b) ELSE StoreNewStages(w, p, b)
           x == uploadHelper(v, p, u, b).vol
<1>1. removal \in Seq(Halfway) /\ LastStage(v, removal) = w
  BY RemoveHalfway, NoStage
<1>2. LinkInv(w, open) /\ w.sharedata = v.sharedata
  BY RemoveInv
<1>3. CASE InShared(p, u)
  BY <1>3, NoStage DEF uploadHelperStages, uploadHelper, Result
<1>4. CASE ~InShared(p, u)
  <2>1. uploadHelperStages(v, p, u, b) = removal \o placing
    BY <1>1, <1>4 DEF uploadHelperStages
  <2>2. x = IF known THEN LinkExisting(w, p, b).vol ELSE StoreNew(w, p, b).vol
    BY <1>4 DEF uploadHelper
  <2> HIDE DEF removal, w, x
  <2>3. placing \in Seq(Halfway) /\ LastStage(w, placing) = x
    BY <1>2, <2>2, LinkExistingHalfway, StoreNewHalfway
  <2> HIDE DEF placing
  <2>4. removal \o placing \in Seq(Halfway) /\ LastStage(v, removal \o placing) = x
    BY <1>1, <2>3, LastOfConcat
  <2> QED
    BY <2>1, <2>4 DEF x
<1> QED
  BY <1>3, <1>4

-----------------------------------------------------------------------------
(* Stages of the loops over the sharees of a file. *)

(* Each row has a link of its own, of which there are finitely many. *)
LEMMA RowsFinite ==
  ASSUME NEW v, NEW us, VolumeInv(v, us), NEW R \in SUBSET v.sharedata
  PROVE  IsFiniteSet(R) /\ ShareePaths(R) \subseteq DOMAIN v.link
<1> DEFINE f == [r \in R |-> r.shareepath]
<1>1. \A r \in R : r.shareepath \in DOMAIN v.link
  BY DEF VolumeInv, LinkInv, ShareLinked
<1>2. \A r, s \in R : r.shareepath = s.shareepath => r = s
  BY DEF VolumeInv, RowsApart
<1>3. f \in Injection(R, DOMAIN v.link)
  BY <1>1, <1>2 DEF Injection, IsInjective
<1>4. IsFiniteSet(DOMAIN v.link)
  BY DEF VolumeInv, LinkInv
<1> HIDE DEF f
<1>5. IsFiniteSet(R)
  BY <1>3, <1>4, FS_Injection
<1> QED
  BY <1>1, <1>5 DEF ShareePaths

(* The instance of SequencesExt has a Cardinality of its own. *)
LEMMA SameCardinality ==
  ASSUME NEW S
  PROVE  Seqs!Cardinality(S) = Cardinality(S)
  BY DEF Seqs!Cardinality, Cardinality

(* A query returns every row once. *)
LEMMA OrderShape ==
  ASSUME NEW R, IsFiniteSet(R), NEW rows \in Orders(R)
  PROVE  /\ rows \in Seq(R)
         /\ R # {} => Len(rows) # 0
         /\ \A n \in 0 .. Len(rows) : FirstRows(rows, n) \in SUBSET R
         /\ FirstRows(rows, Len(rows)) = R
<1> DEFINE n == Cardinality(R)
<1>1. n \in Nat
  BY FS_CardinalityType
<1>2. rows \in [1 .. n -> R] /\ \A i, j \in 1 .. n : i # j => rows[i] # rows[j]
  BY SameCardinality DEF Orders, Seqs!SetToSeqs
<1>3. rows \in Seq(R)
  BY <1>1, <1>2, SeqDef
<1>4. Len(rows) = n
  BY <1>1, <1>2, <1>3, LenProperties
<1>5. rows \in Injection(1 .. n, R)
  BY <1>2 DEF Injection, IsInjective
<1>6. Cardinality(1 .. n) = n
  BY <1>1, FS_Interval
<1> HIDE DEF n
<1>7. rows \in Surjection(1 .. n, R)
  <2>1. Cardinality(1 .. n) = Cardinality(R)
    BY <1>6 DEF n
  <2> QED
    BY <1>5, <2>1, FS_Injection
<1>8. \A m \in 0 .. n : FirstRows(rows, m) \in SUBSET R
  BY <1>1, <1>2 DEF FirstRows
<1>9. FirstRows(rows, n) = R
  BY <1>2, <1>7 DEF FirstRows, Surjection
<1>10. R # {} => n # 0
  BY <1>2, <1>7 DEF Surjection
<1> QED
  BY <1>3, <1>4, <1>8, <1>9, <1>10

LEMMA ReachedAll ==
  ASSUME NEW v, NEW R, NEW rows \in Seq(R), ShareePaths(R) \subseteq DOMAIN v.link
  PROVE  Reached(v, rows) = Len(rows)
<1> DEFINE Stop(n) == /\ \A i \in 1 .. n : CanRemove(v, rows[i].shareepath)
                      /\ n = Len(rows) \/ ~CanRemove(v, rows[n + 1].shareepath)
<1>1. Len(rows) \in Nat /\ \A i \in 1 .. Len(rows) : rows[i] \in R
  BY LenProperties, ElementOfSeq
<1>2. \A i \in 1 .. Len(rows) : CanRemove(v, rows[i].shareepath)
  BY <1>1 DEF ShareePaths, CanRemove
<1>3. Stop(Len(rows)) /\ Len(rows) \in 0 .. Len(rows)
  BY <1>1, <1>2
<1>4. \A n \in 0 .. Len(rows) : Stop(n) => n = Len(rows)
  BY <1>1, <1>2
<1>5. Reached(v, rows) = CHOOSE n \in 0 .. Len(rows) : Stop(n)
  BY DEF Reached
<1> HIDE DEF Stop
<1> QED
  BY <1>3, <1>4, <1>5

LEMMA UnlinkHalfway ==
  ASSUME NEW v, NEW us, VolumeInv(v, us), NEW R \in SUBSET v.sharedata, R # {},
         NEW rows \in Orders(R)
  PROVE  /\ UnlinkStages(v, rows) \in Seq(Halfway)
         /\ LastStage(v, UnlinkStages(v, rows)) = Removed(v, ShareePaths(R))
         /\ Reached(v, rows) = Len(rows)
<1> DEFINE n == Len(rows)
           stages == UnlinkStages(v, rows)
<1>1. IsFiniteSet(R) /\ ShareePaths(R) \subseteq DOMAIN v.link
  BY RowsFinite
<1>2. /\ rows \in Seq(R) /\ n # 0 /\ FirstRows(rows, n) = R
      /\ \A i \in 0 .. n : FirstRows(rows, i) \in SUBSET R
  BY <1>1, OrderShape
<1>3. n \in Nat
  BY <1>2, LenProperties
<1>4. Reached(v, rows) = n
  BY <1>1, <1>2, ReachedAll
<1> HIDE DEF n
<1>5. ASSUME NEW i \in 1 .. n PROVE Removed(v, ShareePaths(FirstRows(rows, i))) \in Halfway
  <2>1. FirstRows(rows, i) \in SUBSET v.sharedata
    BY <1>2, <1>3
  <2>2. LinkInv(v, {}) /\ RowsApart(v) /\ v.dirs \cap DOMAIN v.link = {}
    BY DEF VolumeInv, TreeSound
  <2>3. LinkInv(Removed(v, ShareePaths(FirstRows(rows, i))), FirstRows(rows, i))
    BY <2>1, <2>2, UnlinkInv
  <2> QED
    BY <2>3, LinkedHalfway
<1>6. stages = [i \in 1 .. n |-> Removed(v, ShareePaths(FirstRows(rows, i)))]
  BY <1>4 DEF UnlinkStages
<1>7. stages \in [1 .. n -> Halfway] /\ stages[n] = Removed(v, ShareePaths(R))
  BY <1>2, <1>3, <1>5, <1>6
<1> HIDE DEF stages
<1>8. stages \in Seq(Halfway) /\ \A u : LastStage(u, stages) = stages[n]
  <2>1. n \in Nat \ {0}
    BY <1>2, <1>3
  <2>2. stages \in [1 .. n -> Halfway]
    BY <1>7
  <2> QED
    BY <2>1, <2>2, LastOfLoop
<1> QED
  BY <1>4, <1>7, <1>8 DEF stages, n

(* Some of the sharees are linked again. *)
LEMMA RelinkHalfway ==
  ASSUME NEW v, NEW open, LinkInv(v, open), RowsApart(v), NEW rows \in SUBSET open,
         NEW orig \in OwnedPaths(v), \A r \in rows : r.origpath = orig
  PROVE  Relink(v, orig, rows) \in Halfway
<1> DEFINE w == Relink(v, orig, rows)
           made == {q \in ShareePaths(rows) : CanCreate(v, q)}
<1>0. /\ VolumeType(v) /\ orig \in DOMAIN v.link /\ open \subseteq v.sharedata
      /\ orig \notin ShareePaths(v.sharedata)
  BY DEF LinkInv, StoreInv, OwnedPaths
<1>1. VolumeType(w)
  <2>1. rows \in SUBSET ShareRow
    BY <1>0 DEF VolumeType
  <2> QED
    BY <1>0, <2>1, RelinkType
<1>2. /\ w.sharedata = v.sharedata /\ w.filedata = v.filedata /\ w.store = v.store
      /\ w.link = [q \in DOMAIN v.link \cup made |->
                     IF q \in made THEN v.link[orig] ELSE v.link[q]]
  BY <1>0 DEF Relink, VolumeType
<1>3. made \subseteq ShareePaths(v.sharedata) /\ \A q \in made : q \notin DOMAIN v.link
  BY <1>0 DEF ShareePaths, CanCreate, Taken
<1>4. \A q \in made : \E r \in rows : r.shareepath = q
  BY DEF ShareePaths
<1> HIDE DEF w, made
<1>5. /\ DOMAIN w.link = DOMAIN v.link \cup made
      /\ \A q \in DOMAIN v.link : w.link[q] = v.link[q]
      /\ \A q \in made : w.link[q] = v.link[orig]
  BY <1>2, <1>3
<1>6. OwnedPaths(w) = OwnedPaths(v)
  BY <1>2, <1>3, <1>5 DEF OwnedPaths
<1>7. \A k : LinksTo(w, k) = LinksTo(v, k)
  BY <1>5, <1>6 DEF LinksTo, OwnedPaths
<1>8. OwnersOff(w)
  <2>1. \A k : Owners(w, k) \in Nat /\ Owners(w, k) = Cardinality(LinksTo(w, k))
    BY <1>2, <1>7, SameCounts, CountsRight
  <2>2. \A k : Owners(w, k) - Cardinality(LinksTo(w, k)) = 0
    BY <2>1
  <2> QED
    BY <2>1, <2>2, OneOff
<1>9. KeepsContent(w)
  <2>1. \A q \in DOMAIN v.link : v.link[q] \in DOMAIN v.store
    BY DEF LinkInv, LinksLive, StoreInv, StoreMatchesTable
  <2> QED
    BY <1>0, <1>2, <1>5, <2>1 DEF KeepsContent
<1>10. ASSUME NEW r \in v.sharedata, {r.origpath, r.shareepath} \subseteq DOMAIN w.link
       PROVE  w.link[r.origpath] = w.link[r.shareepath]
  <2>1. CASE r.shareepath \in made
    <3>1. r \in rows
      BY <1>0, <1>4, <2>1 DEF RowsApart
    <3> QED
      BY <1>0, <1>5, <2>1, <3>1
  <2>2. CASE r.shareepath \notin made
    <3>1. r \notin open
      BY <1>5, <1>10, <2>2 DEF LinkInv
    <3>2. ShareLinked(v, r) /\ r.origpath \in DOMAIN v.link
      BY <3>1 DEF LinkInv, ShareLinked, OwnedPaths
    <3> QED
      BY <1>5, <3>2 DEF ShareLinked
  <2> QED
    BY <2>1, <2>2
<1>11. SingleVersion(w)
  BY <1>2, <1>10 DEF SingleVersion
<1> QED
  BY <1>1, <1>8, <1>9, <1>11, VolumeSetType DEF Halfway, w

LEMMA SharerUploadHalfway ==
  ASSUME NEW v, NEW us, VolumeInv(v, us), NEW row \in v.sharedata, NEW b \in Body,
         NEW rows \in Orders(SharesOf(v, row.sharer, row.origpath))
  PROVE  LET R == SharesOf(v, row.sharer, row.origpath)
             stages == sharerUploadStages(v, row.sharer, row.origpath, b, rows)
         IN  /\ stages \in Seq(Halfway)
             /\ LastStage(v, stages) = sharerUpload(v, row.sharer, row.origpath, b, R).vol
             /\ FirstRows(rows, Reached(v, rows)) = R /\ R \in Unlinkable(v, R)
<1> DEFINE sharer == row.sharer
           orig == row.origpath
           R == SharesOf(v, sharer, orig)
           unlink == UnlinkStages(v, rows)
           w == Removed(v, ShareePaths(R))
           upload == uploadHelperStages(w, orig, sharer, b)
           x == uploadHelper(w, orig, sharer, b).vol
           relink == RelinkStages(x, orig, rows)
           rest == IF orig \notin DOMAIN x.link THEN <<>> ELSE relink
           stages == sharerUploadStages(v, sharer, orig, b, rows)
           done == sharerUpload(v, sharer, orig, b, R).vol
<1>0. /\ LinkInv(v, {}) /\ RowsApart(v) /\ VolumeType(v) /\ orig \in Path
      /\ v.dirs \cap DOMAIN v.link = {}
      /\ us \in SUBSET User /\ NamesApart(us)
      /\ \A r \in v.sharedata : ShareLinked(v, r) /\ r.sharer \in us
  BY DEF VolumeInv, LinkInv, StoreInv, VolumeType, ShareRow, TreeSound, Placed
<1>1. R \in SUBSET v.sharedata /\ row \in R /\ \A r \in R : r.origpath = orig
  BY DEF SharesOf
<1>2. IsFiniteSet(R) /\ ShareePaths(R) \subseteq DOMAIN v.link
  BY <1>1, RowsFinite
<1>3. /\ orig \in OwnedPaths(v) /\ orig \notin ShareePaths(v.sharedata)
      /\ sharer \in us /\ checkpath(orig, sharer)
  BY <1>0 DEF ShareLinked, OwnedPaths
<1>4. \A r \in v.sharedata \ R : r.origpath # orig
  <2> SUFFICES ASSUME NEW r \in v.sharedata, r.origpath = orig PROVE r \in R
    OBVIOUS
  <2>1. r.sharer = sharer
    BY <1>0, <1>3, OneReaches DEF ShareLinked
  <2> QED
    BY <2>1 DEF SharesOf
<1>5. R \in Unlinkable(v, R)
  BY <1>0, <1>1, RowsRemovable DEF Unlinkable
<1> HIDE DEF R, sharer, orig
<1>6. /\ rows \in Seq(R) /\ Len(rows) \in Nat /\ Len(rows) # 0
      /\ FirstRows(rows, Len(rows)) = R
      /\ \A i \in 0 .. Len(rows) : FirstRows(rows, i) \in SUBSET R
  <2>1. rows \in Orders(R) /\ R # {}
    BY <1>1 DEF R, sharer, orig
  <2> QED
    BY <1>2, <2>1, OrderShape, LenProperties
<1>7. /\ unlink \in Seq(Halfway) /\ LastStage(v, unlink) = w
      /\ Reached(v, rows) = Len(rows)
  <2>1. rows \in Orders(R) /\ R # {}
    BY <1>1 DEF R, sharer, orig
  <2> QED
    BY <1>1, <2>1, UnlinkHalfway
<1>8. LinkInv(w, R) /\ w.sharedata = v.sharedata
  BY <1>0, <1>1, UnlinkInv
<1>9. stages = unlink \o (upload \o rest)
  <2>1. LastStage(w, upload) = x
    BY <1>0, <1>3, <1>4, <1>8, UploadHelperHalfway
  <2>2. ~(Reached(v, rows) < Len(rows))
    BY <1>6, <1>7
  <2> HIDE DEF w, x
  <2> QED
    BY <1>7, <2>1, <2>2 DEF sharerUploadStages
<1> HIDE DEF unlink, w, stages, done
<1>10. upload \in Seq(Halfway) /\ LastStage(w, upload) = x
  BY <1>0, <1>3, <1>4, <1>8, UploadHelperHalfway
<1>11. LinkInv(x, R) /\ x.sharedata = v.sharedata
  BY <1>0, <1>3, <1>4, <1>8, UploadHelperInv
<1>12. done = IF orig \notin DOMAIN x.link THEN x ELSE Relink(x, orig, R)
  BY DEF done, sharerUpload, Result, R, w
<1> HIDE DEF upload, x
<1>13. rest \in Seq(Halfway) /\ LastStage(x, rest) = done
  <2>1. CASE orig \notin DOMAIN x.link
    BY <1>12, <2>1, NoStage
  <2>2. CASE orig \in DOMAIN x.link
    <3>1. orig \in OwnedPaths(x) /\ RowsApart(x)
      BY <1>0, <1>3, <1>11, <2>2 DEF OwnedPaths, RowsApart
    <3>2. ASSUME NEW i \in 1 .. Len(rows)
          PROVE  Relink(x, orig, FirstRows(rows, i)) \in Halfway
      <4>1. FirstRows(rows, i) \in SUBSET R
        BY <1>6
      <4> QED
        BY <1>1, <1>11, <3>1, <4>1, RelinkHalfway
    <3>3. relink = [i \in 1 .. Len(rows) |-> Relink(x, orig, FirstRows(rows, i))]
      BY DEF RelinkStages
    <3>4. relink \in [1 .. Len(rows) -> Halfway] /\ relink[Len(rows)] = Relink(x, orig, R)
      BY <1>6, <3>2, <3>3
    <3> HIDE DEF relink
    <3>5. relink \in Seq(Halfway) /\ LastStage(x, relink) = relink[Len(rows)]
      <4> DEFINE n == Len(rows)
      <4>1. n \in Nat \ {0} /\ relink \in [1 .. n -> Halfway]
        BY <1>6, <3>4
      <4> HIDE DEF n
      <4>2. relink \in Seq(Halfway) /\ \A y : LastStage(y, relink) = relink[n]
        BY <4>1, LastOfLoop
      <4> QED
        BY <4>2 DEF n
    <3> QED
      BY <1>12, <2>2, <3>4, <3>5
  <2> QED
    BY <2>1, <2>2
<1> HIDE DEF rest
<1>14. upload \o rest \in Seq(Halfway) /\ LastStage(w, upload \o rest) = done
  BY <1>10, <1>13, LastOfConcat
<1>15. stages \in Seq(Halfway) /\ LastStage(v, stages) = done
  <2> DEFINE after == upload \o rest
  <2>1. after \in Seq(Halfway) /\ LastStage(w, after) = done /\ stages = unlink \o after
    BY <1>9, <1>14
  <2> HIDE DEF after
  <2> QED
    BY <1>7, <2>1, LastOfConcat
<1>16. FirstRows(rows, Reached(v, rows)) = R
  BY <1>6, <1>7
<1> QED
  BY <1>5, <1>15, <1>16 DEF stages, done, R, sharer, orig

-----------------------------------------------------------------------------
(* Rows of sharedata go, and with them their links. *)

LEMMA ForgetOpen ==
  ASSUME NEW d, NEW open, LinkInv(d, open), NEW rows \in SUBSET open
  PROVE  LinkInv([d EXCEPT !.sharedata = @ \ rows], open \ rows)
<1> DEFINE w == [d EXCEPT !.sharedata = @ \ rows]
<1>0. StoreInv(d) /\ VolumeType(d)
  BY DEF LinkInv, StoreInv
<1>1. /\ w.sharedata = d.sharedata \ rows /\ w.link = d.link
      /\ w.store = d.store /\ w.filedata = d.filedata /\ w.filecount = d.filecount
  BY <1>0 DEF VolumeType
<1>2. VolumeType(w)
  BY <1>0 DEF VolumeType
<1> HIDE DEF w
<1>3. StoreInv(w)
  BY <1>0, <1>1, <1>2, SameStore
<1>4. OwnedPaths(w) = OwnedPaths(d)
  <2>1. \A r \in rows : r.shareepath \notin DOMAIN d.link
    BY DEF LinkInv
  <2> QED
    BY <1>1, <2>1 DEF OwnedPaths, ShareePaths
<1>5. \A k : LinksTo(w, k) = LinksTo(d, k)
  BY <1>1, <1>4 DEF LinksTo
<1>6. OwnersCounted(w) /\ LinksLive(w)
  BY <1>1, <1>5 DEF LinkInv, OwnersCounted, LinksLive
<1>7. \A r \in w.sharedata \ (open \ rows) : ShareLinked(w, r)
  BY <1>1, <1>4 DEF LinkInv, ShareLinked
<1>8. open \ rows \subseteq w.sharedata
  BY <1>1 DEF LinkInv
<1>9. LinkInv(w, open \ rows)
  BY <1>1, <1>3, <1>6, <1>7, <1>8 DEF LinkInv
<1> QED
  BY <1>9 DEF w

(* Some links go, and some of their rows. *)
LEMMA DroppedHalfway ==
  ASSUME NEW v, NEW us, VolumeInv(v, us), NEW A \in SUBSET v.sharedata, NEW B \in SUBSET A
  PROVE  [Removed(v, ShareePaths(A)) EXCEPT !.sharedata = @ \ B] \in Halfway
<1> DEFINE d == Removed(v, ShareePaths(A))
           w == [d EXCEPT !.sharedata = @ \ B]
<1>1. LinkInv(v, {}) /\ RowsApart(v) /\ v.dirs \cap DOMAIN v.link = {}
  BY DEF VolumeInv, TreeSound
<1>2. LinkInv(d, A)
  BY <1>1, UnlinkInv
<1> HIDE DEF d
<1>3. LinkInv(w, A \ B)
  BY <1>2, ForgetOpen
<1> HIDE DEF w
<1>4. w \in Halfway
  BY <1>3, LinkedHalfway
<1> QED
  BY <1>4 DEF w, d

LEMMA UnlinkedAndForgotten ==
  ASSUME NEW v, NEW rows
  PROVE  [Removed(v, ShareePaths(rows)) EXCEPT !.sharedata = @ \ rows] = DropRows(v, rows)
  BY DEF DropRows

(* A handler that takes links away and then their rows. *)
LEMMA DropRowsHalfway ==
  ASSUME NEW v, NEW us, VolumeInv(v, us), NEW rows \in SUBSET v.sharedata
  PROVE  LET stages == <<Removed(v, ShareePaths(rows)), DropRows(v, rows)>>
         IN  stages \in Seq(Halfway) /\ LastStage(v, stages) = DropRows(v, rows)
<1> DEFINE w == Removed(v, ShareePaths(rows))
           x == DropRows(v, rows)
<1>1. LinkInv(v, {}) /\ RowsApart(v) /\ v.dirs \cap DOMAIN v.link = {}
  BY DEF VolumeInv, TreeSound
<1>2. LinkInv(w, rows)
  BY <1>1, UnlinkInv
<1>3. VolumeInv(x, us)
  BY DropRowsVolume
<1> HIDE DEF w, x
<1>4. w \in Halfway /\ x \in Halfway
  BY <1>2, <1>3, LinkedHalfway DEF VolumeInv
<1>5. <<w, x>> \in Seq(Halfway) /\ LastStage(v, <<w, x>>) = x
  BY <1>4, TwoStages
<1> QED
  BY <1>5 DEF w, x

LEMMA RemoveSharedHalfway ==
  ASSUME NEW v, NEW us, VolumeInv(v, us), NEW u \in us, NEW p \in Path, checkpath(p, u),
         NEW rows \in Orders(SharesOf(v, u, p)), \E r \in v.sharedata : r.origpath = p
  PROVE  LET R == SharesOf(v, u, p)
             stages == RemoveSharedStages(v, u, p, rows)
         IN  /\ stages \in Seq(Halfway)
             /\ LastStage(v, stages) = RemoveShared(v, u, p, R).vol
             /\ FirstRows(rows, Reached(v, rows)) = R /\ R \in Unlinkable(v, R)
<1> DEFINE R == SharesOf(v, u, p)
           n == Len(rows)
           Links(i) == FirstRows(rows, (i + 1) \div 2)
           Gone(i) == FirstRows(rows, i \div 2)
           Stage(A, B) == [Removed(v, ShareePaths(A)) EXCEPT !.sharedata = @ \ B]
           drop == [i \in 1 .. 2 * n |-> Stage(Links(i), Gone(i))]
           w == DropRows(v, R)
           removal == removeStages(w, p, u)
           stages == RemoveSharedStages(v, u, p, rows)
           done == RemoveShared(v, u, p, R).vol
<1>0. /\ LinkInv(v, {}) /\ VolumeType(v) /\ RowsApart(v)
      /\ us \in SUBSET User /\ NamesApart(us)
      /\ \A r \in v.sharedata : ShareLinked(v, r) /\ r.sharer \in us
  BY DEF VolumeInv, LinkInv, StoreInv, Placed
<1>1. R \in SUBSET v.sharedata /\ R # {} /\ \A r \in v.sharedata \ R : r.origpath # p
  <2>1. \A r \in v.sharedata : r.origpath = p => r.sharer = u
    BY <1>0, OneReaches DEF ShareLinked
  <2> QED
    BY <2>1 DEF SharesOf
<1>2. p \notin ShareePaths(v.sharedata)
  BY <1>0 DEF ShareLinked, OwnedPaths
<1>3. IsFiniteSet(R) /\ ShareePaths(R) \subseteq DOMAIN v.link
  BY <1>1, RowsFinite
<1>4. rows \in Orders(R)
  OBVIOUS
<1>5. R \in Unlinkable(v, R)
  BY <1>0, <1>1, RowsRemovable DEF Unlinkable
<1>6. done = remove(w, p, u).vol
  BY DEF RemoveShared, DropRows
<1>7. /\ LinkInv(w, {}) /\ w.sharedata = v.sharedata \ R
  BY <1>1, DropRowsVolume DEF VolumeInv
<1> HIDE DEF R, done
<1>8. /\ rows \in Seq(R) /\ n \in Nat /\ n # 0 /\ FirstRows(rows, n) = R
      /\ \A i \in 0 .. n : FirstRows(rows, i) \in SUBSET R
  BY <1>1, <1>3, <1>4, OrderShape, LenProperties
<1>9. Reached(v, rows) = n
  BY <1>3, <1>8, ReachedAll
<1> HIDE DEF n
<1>10. Stage(R, R) = w
  BY <1>0, UnlinkedAndForgotten
<1>11. ASSUME NEW i \in 1 .. 2 * n PROVE Stage(Links(i), Gone(i)) \in Halfway
  <2>1. /\ (i + 1) \div 2 \in 0 .. n /\ i \div 2 \in 0 .. n
        /\ i \div 2 <= (i + 1) \div 2
    BY <1>8
  <2>2. Links(i) \in SUBSET R /\ Gone(i) \in SUBSET Links(i)
    BY <1>8, <2>1 DEF FirstRows
  <2>3. Links(i) \in SUBSET v.sharedata
    BY <1>1, <2>2
  <2> HIDE DEF Links, Gone
  <2> QED
    BY <2>2, <2>3, DroppedHalfway
<1>12. Links(2 * n) = R /\ Gone(2 * n) = R
  <2>1. (2 * n + 1) \div 2 = n /\ (2 * n) \div 2 = n
    BY <1>8
  <2> QED
    BY <1>8, <2>1
<1> DEFINE S(i) == Stage(Links(i), Gone(i))
<1>13. stages = drop \o removal
  <2> DEFINE All(m) ==
               [i \in 1 .. 2 * m |-> S(i)]
                 \o IF m < Len(rows) THEN <<>>
                    ELSE removeStages(Stage(FirstRows(rows, m), FirstRows(rows, m)), p, u)
  <2>1. stages = All(Reached(v, rows))
    BY DEF RemoveSharedStages
  <2>2. removal = removeStages(Stage(FirstRows(rows, n), FirstRows(rows, n)), p, u)
    BY <1>8, <1>10
  <2>3. ~(n < Len(rows))
    BY <1>8 DEF n
  <2>4. All(n) = drop \o removal
    BY <2>2, <2>3
  <2> HIDE DEF All
  <2> QED
    BY <1>9, <2>1, <2>4
<1>14. drop \in [1 .. 2 * n -> Halfway] /\ drop[2 * n] = w
  <2>1. \A i \in 1 .. 2 * n : S(i) \in Halfway
    BY <1>11
  <2>2. S(2 * n) = w
    BY <1>10, <1>12
  <2>3. drop = [i \in 1 .. 2 * n |-> S(i)] /\ 2 * n \in 1 .. 2 * n
    BY <1>8
  <2> HIDE DEF S, drop
  <2> QED
    BY <2>1, <2>2, <2>3
<1> HIDE DEF drop, stages, w, S
<1>15. drop \in Seq(Halfway) /\ LastStage(v, drop) = w
  <2> DEFINE m == 2 * n
  <2>1. m \in Nat \ {0}
    BY <1>8
  <2>2. drop \in [1 .. m -> Halfway] /\ drop[m] = w
    BY <1>14
  <2> HIDE DEF m
  <2>3. drop \in Seq(Halfway) /\ \A y : LastStage(y, drop) = drop[m]
    BY <2>1, <2>2, LastOfLoop
  <2> QED
    BY <2>2, <2>3
<1>16. removal \in Seq(Halfway) /\ LastStage(w, removal) = done
  <2>1. p \notin ShareePaths(w.sharedata) /\ \A r \in w.sharedata : r.origpath # p
    BY <1>1, <1>2, <1>7 DEF ShareePaths
  <2> QED
    BY <1>6, <1>7, <2>1, RemoveHalfway
<1> HIDE DEF removal
<1>17. stages \in Seq(Halfway) /\ LastStage(v, stages) = done
  BY <1>13, <1>15, <1>16, LastOfConcat
<1>18. FirstRows(rows, Reached(v, rows)) = R
  BY <1>8, <1>9
<1> QED
  BY <1>5, <1>17, <1>18 DEF stages, done, R

-----------------------------------------------------------------------------
(* The helpers of module Dropbox, as the handlers that these steps make up *)
(* use them, are the helpers.                                              *)

LEMMA SamePathTests ==
  /\ \A p, u : Handlers!checkpath(p, u) <=> checkpath(p, u)
  /\ \A p, u : Handlers!InShared(p, u) <=> InShared(p, u)
  /\ \A p : Handlers!Parent(p) = Parent(p)
  /\ \A u : Handlers!Root(u) = Root(u) /\ Handlers!SharedDir(u) = SharedDir(u)
  /\ \A sharee, p, i : Handlers!ReceivedAs(sharee, p, i) = ReceivedAs(sharee, p, i)
  BY DEF Handlers!checkpath, Handlers!InShared, Handlers!HasPrefix, Handlers!Parent,
         Handlers!Root, Handlers!SharedDir, Handlers!ReceivedAs, Handlers!Candidate,
         Handlers!Base, checkpath, InShared, HasPrefix, Parent, Root, SharedDir,
         ReceivedAs, Candidate, Base

LEMMA SameFunctions ==
  /\ \A f, S : Handlers!Without(f, S) = Without(f, S)
  /\ \A f, x, y : Handlers!With(f, x, y) = With(f, x, y)
  /\ \A v, r : Handlers!Result(v, r) = Result(v, r)
  BY DEF Handlers!Without, Handlers!With, Handlers!Result, Handlers!Restrict,
         Without, With, Result, Restrict

LEMMA SameFiles ==
  /\ \A v : Handlers!Taken(v) = Taken(v)
  /\ \A v, p : Handlers!CanCreate(v, p) <=> CanCreate(v, p)
  /\ \A v, p : Handlers!Stat(v, p) <=> Stat(v, p)
  /\ \A v, p : Handlers!BelowFile(v, p) <=> BelowFile(v, p)
  /\ \A v, p : Handlers!IsNotExist(v, p) <=> IsNotExist(v, p)
  /\ \A v, p : Handlers!IsEmptyDir(v, p) <=> IsEmptyDir(v, p)
  /\ \A v, p : Handlers!CanRemove(v, p) <=> CanRemove(v, p)
  /\ \A v, S : Handlers!Removed(v, S) = Removed(v, S)
<1>1. /\ \A v : Handlers!Taken(v) = Taken(v)
      /\ \A v, p : Handlers!Stat(v, p) <=> Stat(v, p)
  BY DEF Handlers!Taken, Handlers!Stat, Taken, Stat
<1>2. /\ \A v, p : Handlers!CanCreate(v, p) <=> CanCreate(v, p)
      /\ \A v, p : Handlers!IsEmptyDir(v, p) <=> IsEmptyDir(v, p)
  BY <1>1, SamePathTests DEF Handlers!CanCreate, Handlers!IsEmptyDir, CanCreate, IsEmptyDir
<1>3. \A v, p : Handlers!BelowFile(v, p) <=> BelowFile(v, p)
  BY <1>1 DEF Handlers!BelowFile, BelowFile
<1>4. \A v, p : Handlers!IsNotExist(v, p) <=> IsNotExist(v, p)
  BY <1>1, <1>3 DEF Handlers!IsNotExist, IsNotExist
<1>5. \A v, p : Handlers!CanRemove(v, p) <=> CanRemove(v, p)
  BY <1>2 DEF Handlers!CanRemove, CanRemove
<1>6. \A v, S : Handlers!Removed(v, S) = Removed(v, S)
  BY SameFunctions DEF Handlers!Removed, Removed
<1> QED
  BY <1>1, <1>2, <1>3, <1>4, <1>5, <1>6

LEMMA SameTables ==
  /\ \A v, u, p : Handlers!SharesOf(v, u, p) = SharesOf(v, u, p)
  /\ \A v, u, s, p : Handlers!SharesWith(v, u, s, p) = SharesWith(v, u, s, p)
  /\ \A rows : Handlers!ShareePaths(rows) = ShareePaths(rows)
  /\ \A v, p : Handlers!isSharedFile(v, p) = isSharedFile(v, p)
  /\ \A v, k : Handlers!Owners(v, k) = Owners(v, k)
  /\ \A v, rows : Handlers!AllRemovable(v, rows) <=> AllRemovable(v, rows)
  /\ \A v, rows : Handlers!Unlinkable(v, rows) = Unlinkable(v, rows)
<1>1. /\ \A v, u, p : Handlers!SharesOf(v, u, p) = SharesOf(v, u, p)
      /\ \A rows : Handlers!ShareePaths(rows) = ShareePaths(rows)
      /\ \A v, k : Handlers!Owners(v, k) = Owners(v, k)
  BY DEF Handlers!SharesOf, Handlers!ShareePaths, Handlers!Owners, SharesOf, ShareePaths, Owners
<1>2. /\ \A v, u, s, p : Handlers!SharesWith(v, u, s, p) = SharesWith(v, u, s, p)
      /\ \A v, p : Handlers!isSharedFile(v, p) = isSharedFile(v, p)
  BY <1>1 DEF Handlers!SharesWith, Handlers!isSharedFile, SharesWith, isSharedFile
<1>3. \A v, rows : Handlers!AllRemovable(v, rows) <=> AllRemovable(v, rows)
  BY SameFiles DEF Handlers!AllRemovable, AllRemovable
<1>4. \A v, rows : Handlers!Unlinkable(v, rows) = Unlinkable(v, rows)
  BY <1>3 DEF Handlers!Unlinkable, Unlinkable
<1> QED
  BY <1>1, <1>2, <1>3, <1>4

LEMMA SameHelpers ==
  /\ \A v, p, u : Handlers!remove(v, p, u) = remove(v, p, u)
  /\ \A v, p, u, b : Handlers!uploadHelper(v, p, u, b) = uploadHelper(v, p, u, b)
  /\ \A v, orig, rows : Handlers!Relink(v, orig, rows) = Relink(v, orig, rows)
<1>1. \A v, p : Handlers!RemoveLink(v, p) = RemoveLink(v, p)
  BY DEF Handlers!RemoveLink, Handlers!HasOwners, Handlers!Forget, Handlers!Owners,
         Handlers!Result, Handlers!Without, Handlers!Restrict,
         RemoveLink, HasOwners, Forget, Owners, Result, Without, Restrict
<1>2. \A v, p, u : Handlers!remove(v, p, u) = remove(v, p, u)
  BY <1>1, SameFunctions, SamePathTests, SameFiles DEF Handlers!remove, Handlers!Removable,
     remove, Removable
<1>3. \A v, p, b : Handlers!StoreNew(v, p, b) = StoreNew(v, p, b)
  BY SameFiles DEF Handlers!StoreNew, Handlers!Result, Handlers!With, StoreNew, Result, With
<1>4. \A v, p, b : Handlers!LinkExisting(v, p, b) = LinkExisting(v, p, b)
  BY SameFiles DEF Handlers!LinkExisting, Handlers!Result, Handlers!With,
                   LinkExisting, Result, With
<1>5. \A v, p, u, b : Handlers!uploadHelper(v, p, u, b) = uploadHelper(v, p, u, b)
  BY <1>2, <1>3, <1>4, SameFunctions, SamePathTests, SameFiles
     DEF Handlers!uploadHelper, uploadHelper
<1>6. \A v, orig, rows : Handlers!Relink(v, orig, rows) = Relink(v, orig, rows)
  BY SameFiles, SameTables DEF Handlers!Relink, Relink
<1> QED
  BY <1>2, <1>5, <1>6

LEMMA SameOutcomes ==
  /\ \A v, sharer, orig, b, done :
       Handlers!sharerUpload(v, sharer, orig, b, done) = sharerUpload(v, sharer, orig, b, done)
  /\ \A v, u, p : Handlers!RemoveReceived(v, u, p) = RemoveReceived(v, u, p)
  /\ \A v, u, p, done : Handlers!RemoveShared(v, u, p, done) = RemoveShared(v, u, p, done)
  /\ \A v, u, sharee, p, perm, at :
       Handlers!Share(v, u, sharee, p, perm, at) = Share(v, u, sharee, p, perm, at)
  /\ \A v, sharee, p, i : Handlers!FirstFree(v, sharee, p, i) <=> FirstFree(v, sharee, p, i)
<1>1. \A v, sharer, orig, b, done :
        Handlers!sharerUpload(v, sharer, orig, b, done) = sharerUpload(v, sharer, orig, b, done)
  BY SameFunctions, SameFiles, SameTables, SameHelpers DEF Handlers!sharerUpload, sharerUpload
<1>2. /\ \A v, u, p : Handlers!RemoveReceived(v, u, p) = RemoveReceived(v, u, p)
      /\ \A v, u, p, done : Handlers!RemoveShared(v, u, p, done) = RemoveShared(v, u, p, done)
  BY SameFunctions, SameFiles, SameTables, SameHelpers
     DEF Handlers!RemoveReceived, Handlers!RemoveShared,
     RemoveReceived, RemoveShared
<1>3. \A v, u, sharee, p, perm, at :
        Handlers!Share(v, u, sharee, p, perm, at) = Share(v, u, sharee, p, perm, at)
  BY SameFunctions DEF Handlers!Share, Share
<1>4. \A v, sharee, p, i : Handlers!FirstFree(v, sharee, p, i) <=> FirstFree(v, sharee, p, i)
  BY SamePathTests, SameFiles DEF Handlers!FirstFree, FirstFree
<1> QED
  BY <1>1, <1>2, <1>3, <1>4

-----------------------------------------------------------------------------
(* A link for a sharee, before its row is there; a home that is empty.     *)

LEMMA ShareHalfway ==
  ASSUME NEW v, NEW us, VolumeInv(v, us), NEW u \in us, NEW sharee \in us, u # sharee,
         NEW p \in Path, p \in OwnedPaths(v), checkpath(p, u), NEW perm \in {0, 1},
         NEW at \in Path, Parent(at) = SharedDir(sharee), CanCreate(v, at),
         SharesWith(v, u, sharee, p) = {}
  PROVE  LET w == Share(v, u, sharee, p, perm, at)
             stages == <<[v EXCEPT !.link = With(@, at, @[p])], w>>
         IN  /\ stages \in Seq(Halfway) /\ LastStage(v, stages) = w
             /\ VolumeInv(w, us)
<1> DEFINE k == v.link[p]
           w == Share(v, u, sharee, p, perm, at)
           x == [v EXCEPT !.link = With(@, at, @[p])]
<1>0. /\ LinkInv(v, {}) /\ VolumeType(v) /\ p \in DOMAIN v.link /\ k \in Nat
      /\ \A r \in v.sharedata : ShareLinked(v, r)
  BY DEF VolumeInv, LinkInv, StoreInv, OwnedPaths, VolumeType
<1>1. VolumeInv(w, us)
  BY ShareVolume
<1>2. /\ VolumeType(x) /\ x.link = With(v.link, at, k) /\ x.sharedata = v.sharedata
      /\ x.filedata = v.filedata /\ x.store = v.store
  <2>1. With(v.link, at, k) \in [DOMAIN v.link \cup {at} -> Nat]
    BY <1>0, WithType DEF VolumeType
  <2> HIDE DEF k
  <2>2. x = [v EXCEPT !.link = With(@, at, k)]
    BY DEF k
  <2> QED
    BY <1>0, <2>1, <2>2 DEF VolumeType
<1> HIDE DEF w, x, k
<1>3. at \notin DOMAIN v.link /\ at \notin ShareePaths(v.sharedata)
  BY <1>0 DEF CanCreate, Taken, ShareePaths, ShareLinked
<1>4. LinkGained(v, x, at, k)
  BY <1>2, <1>3, OneMore
<1>5. /\ \A j : Owners(x, j) = Owners(v, j)
      /\ \A j : Owners(v, j) \in Nat /\ Owners(v, j) = Cardinality(LinksTo(v, j))
  BY <1>0, <1>2, CountsRight, SameCounts
<1>6. Cardinality(LinksTo(x, k)) = Cardinality(LinksTo(v, k)) + 1
  <2>1. at \notin LinksTo(v, k)
    BY <1>3 DEF LinksTo, OwnedPaths
  <2>2. IsFiniteSet(LinksTo(v, k))
    BY <1>0, LinksFinite DEF LinkInv
  <2>3. LinksTo(x, k) = LinksTo(v, k) \cup {at}
    BY <1>4 DEF LinkGained
  <2> QED
    BY <2>1, <2>2, <2>3, FS_AddElement
<1>7. OwnersOff(x)
  <2>1. \A j : j # k => Owners(x, j) = Cardinality(LinksTo(x, j))
    BY <1>4, <1>5 DEF LinkGained
  <2>2. /\ Owners(x, k) - Cardinality(LinksTo(x, k)) \in {0, 1, -1}
        /\ Owners(x, k) \in Nat /\ Cardinality(LinksTo(x, k)) \in Nat
    BY <1>5, <1>6
  <2> QED
    BY <2>1, <2>2, OneOff
<1>8. \A q \in DOMAIN v.link : v.link[q] \in DOMAIN v.store
  BY <1>0 DEF LinkInv, LinksLive, StoreInv, StoreMatchesTable
<1>9. KeepsContent(x)
  BY <1>0, <1>2, <1>4, <1>8 DEF KeepsContent, LinkGained, k
<1>10. SingleVersion(x)
  BY <1>0, <1>2, <1>4 DEF SingleVersion, LinkGained, ShareLinked, OwnedPaths
<1>11. x \in Halfway /\ w \in Halfway
  BY <1>1, <1>2, <1>7, <1>9, <1>10, VolumeSetType, LinkedHalfway DEF Halfway, VolumeInv
<1>12. <<x, w>> \in Seq(Halfway) /\ LastStage(v, <<x, w>>) = w
  BY <1>11, TwoStages
<1> QED
  BY <1>1, <1>12 DEF x, w

LEMMA SignupHalfway ==
  ASSUME NEW v, NEW us, VolumeInv(v, us), NEW u \in User, NamesApart(us \cup {u}),
         CanCreate(v, Root(u))
  PROVE  LET home == [v EXCEPT !.dirs = @ \cup {Root(u)}]
             w == [home EXCEPT !.dirs = @ \cup {SharedDir(u)}]
         IN  /\ <<home, w>> \in Seq(Halfway) /\ LastStage(v, <<home, w>>) = w
             /\ w = [v EXCEPT !.dirs = @ \cup {Root(u), SharedDir(u)}]
             /\ VolumeInv(w, us \cup {u})
<1> DEFINE D == {Root(u), SharedDir(u)}
           home == [v EXCEPT !.dirs = @ \cup {Root(u)}]
           w == [home EXCEPT !.dirs = @ \cup {SharedDir(u)}]
<1>0. LinkInv(v, {}) /\ VolumeType(v) /\ TreeSound(v, us) /\ us \in SUBSET User
  BY DEF VolumeInv, LinkInv, StoreInv, Placed
<1>1. /\ Root(u) \in Path /\ SharedDir(u) \in Path
      /\ Parent(SharedDir(u)) = Root(u) /\ Parent(Root(u)) = <<>>
      /\ Root(u) # <<>>
  BY SharedDirShape DEF Root
<1>2. Root(u) \notin DOMAIN v.link /\ Root(u) \notin v.dirs
  BY DEF CanCreate, Taken
<1>3. SharedDir(u) \notin DOMAIN v.link
  BY <1>0, <1>1, <1>2 DEF TreeSound, Taken
<1>4. w = AddDirs(v, D)
  BY <1>0 DEF AddDirs, VolumeType
<1>5. VolumeInv(AddDirs(v, D), us \cup {u})
  <2>1. D \in SUBSET Path /\ D \cap DOMAIN v.link = {}
    BY <1>1, <1>2, <1>3
  <2>2. \A d \in D : Parent(d) \in v.dirs \cup D \cup {<<>>}
    BY <1>1
  <2>3. \A x \in (us \cup {u}) \ us : {Root(x), SharedDir(x)} \subseteq v.dirs \cup D
    OBVIOUS
  <2>4. \A d \in D : checkpath(d, u)
    BY <1>1, SharedDirShape, HomeChecks
  <2> HIDE DEF D
  <2> DEFINE ws == us \cup {u}
  <2>5. ws \in SUBSET User /\ us \subseteq ws /\ NamesApart(ws) /\ u \in ws
    BY <1>0
  <2> HIDE DEF ws
  <2>6. \A x \in ws \ us : {Root(x), SharedDir(x)} \subseteq v.dirs \cup D
    BY <2>3 DEF ws
  <2>7. VolumeInv(AddDirs(v, D), ws)
    BY <2>1, <2>2, <2>4, <2>5, <2>6, DirsVolume
  <2> QED
    BY <2>7 DEF ws
<1>6. /\ VolumeType(home) /\ home.link = v.link /\ home.sharedata = v.sharedata
      /\ home.filedata = v.filedata /\ home.store = v.store
  BY <1>0, <1>1 DEF VolumeType
<1>7. w = [v EXCEPT !.dirs = @ \cup {Root(u), SharedDir(u)}]
  BY <1>4 DEF AddDirs
<1> HIDE DEF home, w
<1>8. home \in Halfway
  BY <1>0, <1>6, SameCountsHalfway
<1>9. VolumeInv(w, us \cup {u}) /\ w \in Halfway
  BY <1>4, <1>5, LinkedHalfway DEF VolumeInv
<1>10. <<home, w>> \in Seq(Halfway) /\ LastStage(v, <<home, w>>) = w
  BY <1>8, <1>9, TwoStages
<1> QED
  BY <1>7, <1>9, <1>10 DEF home, w

-----------------------------------------------------------------------------
(* What holds at every point: the volume and those to come are halfway,    *)
(* and the last of them is as it is between requests.                      *)
StepInv ==
  /\ TypeOK
  /\ vol \in Halfway
  /\ todo \in Seq(Halfway)
  /\ VolumeInv(LastStage(vol, todo), userdata)
  /\ ~up => todo = <<>> /\ countfile = vol.filecount

LEMMA Settled ==
  ASSUME StepInv, todo = <<>>
  PROVE  /\ LastStage(vol, todo) = vol
         /\ ServerInv
         /\ VolumeInv(vol, userdata) /\ VolumeType(vol) /\ RowsApart(vol)
         /\ userdata \in SUBSET User /\ NamesApart(userdata) /\ InputPath \subseteq Path
         /\ \A r \in vol.sharedata : ShareLinked(vol, r) /\ r \in ShareRow
<1>1. LastStage(vol, todo) = vol
  BY DEF LastStage
<1>2. ServerInv
  BY <1>1 DEF StepInv, ServerInv, DedupInv, VolumeInv, LinkInv
<1> QED
  BY <1>1, <1>2, Standing

(* A handler that goes through stages answers as their last one does. *)
LEMMA PerformKeeps ==
  ASSUME StepInv, todo = <<>>, up, NEW stages \in Seq(Halfway), NEW res,
         res.reply \in Reply, LastStage(vol, stages) = res.vol,
         VolumeInv(res.vol, userdata), Perform(stages, res.reply)
  PROVE  StepInv' /\ Handlers!Answer(res)
<1>1. vol' \in Halfway /\ todo' \in Seq(Halfway) /\ LastStage(vol', todo') = res.vol
  <2>1. CASE stages = <<>>
    BY <2>1 DEF Perform, StepInv, LastStage
  <2>2. CASE stages # <<>>
    <3>1. Head(stages) \in Halfway /\ Tail(stages) \in Seq(Halfway)
      BY <2>2, HeadTailProperties
    <3>2. LastStage(Head(stages), Tail(stages)) = LastStage(vol, stages)
      BY <2>2, LastOfTail
    <3> QED
      BY <2>2, <3>1, <3>2 DEF Perform
  <2> QED
    BY <2>1, <2>2
<1>2. VolumeType(vol')
  BY <1>1, VolumeSetType DEF Halfway
<1>3. TypeOK'
  BY <1>2 DEF TypeOK, VolumeType, StepInv, Perform
<1>4. StepInv'
  BY <1>1, <1>3 DEF StepInv, Perform
<1>5. Handlers!Answer(res)
  BY <1>1 DEF Handlers!Answer, Perform
<1> QED
  BY <1>4, <1>5

-----------------------------------------------------------------------------
(* Each handler keeps the invariant, and its stages end where the handler  *)
(* of module Dropbox does.                                                 *)

LEMMA UploadPlainSteps ==
  ASSUME StepInv, NEW u \in User, NEW p \in InputPath, NEW b \in Body,
         Served(u), checkpath(p, u), uploadPlainSteps(u, p, b)
  PROVE  StepInv' /\ Handlers!uploadHandler(u, p, b)
<1> DEFINE stages == uploadHelperStages(vol, p, u, b)
           res == uploadHelper(vol, p, u, b)
<1>0. /\ LastStage(vol, todo) = vol /\ VolumeInv(vol, userdata) /\ VolumeType(vol)
      /\ u \in userdata /\ p \in Path /\ todo = <<>> /\ up
  BY Settled DEF Served, checkCookie
<1>1. /\ isSharedFile(vol, p) = ""
      /\ p \notin ShareePaths(vol.sharedata) /\ \A r \in vol.sharedata : r.origpath # p
  BY DEF uploadPlainSteps, isSharedFile
<1>2. LinkInv(vol, {}) /\ p \in Path
  BY <1>0 DEF VolumeInv
<1>3. stages \in Seq(Halfway) /\ LastStage(vol, stages) = res.vol
  BY <1>1, <1>2, UploadHelperHalfway
<1>4. VolumeInv(res.vol, userdata)
  BY <1>0, <1>1, UploadHelperVolume
<1>5. res.reply \in Reply
  BY <1>0, <1>1, UploadHelperType DEF Answers, Reply
<1>6. Perform(stages, res.reply) /\ res.vol.filecount <= MaxFilecount
  BY <1>3 DEF uploadPlainSteps, WithinCount
<1> HIDE DEF stages, res
<1>7. StepInv' /\ Handlers!Answer(res)
  BY <1>0, <1>3, <1>4, <1>5, <1>6, PerformKeeps
<1>8. Handlers!UploadPlain(u, p, b)
  BY <1>0, <1>1, <1>6, <1>7, SameTables, SameHelpers
     DEF Handlers!UploadPlain, Handlers!Stored, res
<1>9. Handlers!checkCookie(u)
  BY DEF Handlers!checkCookie, checkCookie, Served
<1>10. ~(Handlers!isSharedFile(LastStage(vol, todo), p) = "sharee")
  BY <1>0, <1>1, SameTables
<1> QED
  BY <1>0, <1>7, <1>8, <1>9, <1>10, SamePathTests DEF Handlers!uploadHandler

(* The file of a row of sharedata is uploaded, for its sharer. *)
LEMMA UploadSharedSteps ==
  ASSUME StepInv, todo = <<>>, up, NEW row \in vol.sharedata, NEW b \in Body,
         NEW answer \in BOOLEAN,
         uploadSharedSteps(row.sharer, row.origpath, b, answer)
  PROVE  /\ StepInv'
         /\ \E done \in Handlers!Unlinkable(LastStage(vol, todo),
                          Handlers!SharesOf(LastStage(vol, todo), row.sharer, row.origpath)) :
              LET res == Handlers!sharerUpload(LastStage(vol, todo), row.sharer, row.origpath,
                                               b, done)
              IN  Handlers!Stored(IF answer THEN res ELSE Handlers!Result(res.vol, "error"))
<1> DEFINE R == SharesOf(vol, row.sharer, row.origpath)
           out == sharerUpload(vol, row.sharer, row.origpath, b, R)
           res == IF answer THEN out ELSE Result(out.vol, "error")
<1>0. /\ LastStage(vol, todo) = vol /\ VolumeInv(vol, userdata) /\ VolumeType(vol)
  BY Settled
<1>1. PICK rows \in Orders(R) :
        LET stages == sharerUploadStages(vol, row.sharer, row.origpath, b, rows)
            done == FirstRows(rows, Reached(vol, rows))
        IN  /\ WithinCount(stages)
            /\ Perform(stages, IF answer
                               THEN sharerUpload(vol, row.sharer, row.origpath, b, done).reply
                               ELSE "error")
  BY DEF uploadSharedSteps
<1> DEFINE stages == sharerUploadStages(vol, row.sharer, row.origpath, b, rows)
<1>2. /\ stages \in Seq(Halfway) /\ LastStage(vol, stages) = out.vol
      /\ FirstRows(rows, Reached(vol, rows)) = R /\ R \in Unlinkable(vol, R)
  BY <1>0, SharerUploadHalfway
<1>3. VolumeInv(out.vol, userdata)
  BY <1>0, <1>2, SharerUploadInv
<1>4. out.reply \in Reply
  <2>1. row.origpath \in Path
    BY <1>0 DEF VolumeType, ShareRow
  <2> QED
    BY <1>0, <2>1, SharerUploadType DEF Answers, Reply
<1>5. /\ Perform(stages, IF answer THEN out.reply ELSE "error")
      /\ LastStage(vol, stages).filecount <= MaxFilecount
  BY <1>1, <1>2 DEF WithinCount
<1> HIDE DEF stages, out, R
<1>6. res.vol = out.vol /\ res.reply = IF answer THEN out.reply ELSE "error"
  BY DEF Result
<1>7. /\ res.reply \in Reply /\ LastStage(vol, stages) = res.vol
      /\ VolumeInv(res.vol, userdata) /\ Perform(stages, res.reply)
      /\ res.vol.filecount <= MaxFilecount
  BY <1>2, <1>3, <1>4, <1>5, <1>6 DEF Reply
<1> HIDE DEF res
<1>8. StepInv' /\ Handlers!Answer(res)
  BY <1>2, <1>7, PerformKeeps
<1>9. Handlers!Stored(res)
  BY <1>7, <1>8 DEF Handlers!Stored
<1>10. /\ Handlers!SharesOf(LastStage(vol, todo), row.sharer, row.origpath) = R
       /\ Handlers!Unlinkable(LastStage(vol, todo), R) = Unlinkable(vol, R)
       /\ Handlers!sharerUpload(LastStage(vol, todo), row.sharer, row.origpath, b, R) = out
       /\ Handlers!Result(out.vol, "error") = Result(out.vol, "error")
  BY <1>0, SameTables, SameOutcomes, SameFunctions DEF R, out
<1> QED
  BY <1>2, <1>8, <1>9, <1>10 DEF res

LEMMA UploadSteps ==
  ASSUME StepInv, NEW u \in User, NEW p \in InputPath, NEW b \in Body, uploadSteps(u, p, b)
  PROVE  StepInv' /\ Handlers!uploadHandler(u, p, b)
<1>0. /\ LastStage(vol, todo) = vol /\ todo = <<>> /\ up /\ checkCookie(u)
      /\ checkpath(p, u) /\ Served(u) /\ ServerInv /\ u \in userdata /\ p \in Path
  BY Settled DEF uploadSteps, Served, checkCookie
<1>1. Handlers!checkCookie(u) /\ Handlers!checkpath(p, u)
  BY <1>0, SamePathTests DEF Handlers!checkCookie, checkCookie
<1>2. CASE uploadPlainSteps(u, p, b)
  BY <1>0, <1>2, UploadPlainSteps
<1>3. CASE isSharedFile(vol, p) = "sharer" /\ uploadSharedSteps(u, p, b, TRUE)
  <2>1. PICK row \in vol.sharedata : row.origpath = p
    BY <1>3 DEF isSharedFile
  <2>2. row.sharer = u
    BY <1>0, <2>1, SharerOf
  <2>3. uploadSharedSteps(row.sharer, row.origpath, b, TRUE)
    BY <1>3, <2>1, <2>2
  <2>4. /\ StepInv'
        /\ \E done \in Handlers!Unlinkable(LastStage(vol, todo),
                         Handlers!SharesOf(LastStage(vol, todo), row.sharer, row.origpath)) :
             Handlers!Stored(Handlers!sharerUpload(LastStage(vol, todo), row.sharer,
                                                   row.origpath, b, done))
    BY <1>0, <2>3, UploadSharedSteps
  <2>5. Handlers!isSharedFile(LastStage(vol, todo), p) = "sharer"
    BY <1>0, <1>3, SameTables
  <2>6. Handlers!UploadAsSharer(u, p, b)
    BY <2>1, <2>2, <2>4, <2>5 DEF Handlers!UploadAsSharer
  <2> QED
    BY <1>0, <1>1, <2>4, <2>5, <2>6 DEF Handlers!uploadHandler
<1>4. CASE /\ isSharedFile(vol, p) = "sharee" /\ 1 \in getPerms(u, p)
           /\ \E r \in {s \in vol.sharedata : s.shareepath = p} :
                uploadSharedSteps(r.sharer, r.origpath, b, FALSE)
  <2>1. PICK row \in vol.sharedata :
          row.shareepath = p /\ uploadSharedSteps(row.sharer, row.origpath, b, FALSE)
    BY <1>4
  <2>2. /\ StepInv'
        /\ \E done \in Handlers!Unlinkable(LastStage(vol, todo),
                         Handlers!SharesOf(LastStage(vol, todo), row.sharer, row.origpath)) :
             Handlers!Stored(Handlers!Result(
               Handlers!sharerUpload(LastStage(vol, todo), row.sharer,
                                     row.origpath, b, done).vol, "error"))
    BY <1>0, <2>1, UploadSharedSteps
  <2>3. /\ Handlers!isSharedFile(LastStage(vol, todo), p) = "sharee"
        /\ 1 \in Handlers!getPerms(u, p)
    BY <1>0, <1>4, SameTables DEF Handlers!getPerms, getPerms
  <2>4. Handlers!UploadAsSharee(u, p, b)
    BY <1>0, <2>1, <2>2, <2>3 DEF Handlers!UploadAsSharee
  <2> QED
    BY <1>0, <1>1, <2>2, <2>3, <2>4 DEF Handlers!uploadHandler
<1> QED
  BY <1>2, <1>3, <1>4 DEF uploadSteps

LEMMA RemoveSteps ==
  ASSUME StepInv, NEW u \in User, NEW p \in InputPath, removeSteps(u, p)
  PROVE  StepInv' /\ Handlers!removeHandler(u, p)
<1>0. /\ LastStage(vol, todo) = vol /\ todo = <<>> /\ up /\ checkCookie(u)
      /\ checkpath(p, u) /\ ~IsNotExist(vol, p) /\ p \in Path /\ u \in userdata
      /\ VolumeInv(vol, userdata) /\ LinkInv(vol, {}) /\ VolumeType(vol)
      /\ vol.dirs \cap DOMAIN vol.link = {}
      /\ ServerInv /\ \A r \in vol.sharedata : ShareLinked(vol, r)
  BY Settled DEF removeSteps, Served, VolumeInv, checkCookie, TreeSound
<1>1. /\ Handlers!checkCookie(u) /\ Handlers!checkpath(p, u)
      /\ ~Handlers!IsNotExist(LastStage(vol, todo), p)
      /\ Handlers!isSharedFile(LastStage(vol, todo), p) = isSharedFile(vol, p)
  BY <1>0, SamePathTests, SameFiles, SameTables DEF Handlers!checkCookie, checkCookie
<1>2. CASE /\ isSharedFile(vol, p) = ""
           /\ Perform(removeStages(vol, p, u), remove(vol, p, u).reply)
  <2> DEFINE stages == removeStages(vol, p, u)
             res == remove(vol, p, u)
  <2>1. p \notin ShareePaths(vol.sharedata) /\ \A r \in vol.sharedata : r.origpath # p
    BY <1>2 DEF isSharedFile
  <2>2. stages \in Seq(Halfway) /\ LastStage(vol, stages) = res.vol
    BY <1>0, <2>1, RemoveHalfway
  <2>3. VolumeInv(res.vol, userdata)
    BY <1>0, <2>1, RemoveVolume
  <2>4. res.reply \in Reply
    BY <1>0, RemoveType DEF Answers, Reply
  <2>5. Perform(stages, res.reply)
    BY <1>2
  <2>6. Handlers!remove(LastStage(vol, todo), p, u) = res
    BY <1>0, SameHelpers
  <2> HIDE DEF stages, res
  <2>7. StepInv' /\ Handlers!Answer(res)
    BY <1>0, <2>2, <2>3, <2>4, <2>5, PerformKeeps
  <2>8. Handlers!RemovePlain(u, p)
    BY <1>1, <1>2, <2>6, <2>7 DEF Handlers!RemovePlain
  <2> QED
    BY <1>0, <1>1, <2>7, <2>8 DEF Handlers!removeHandler
<1>3. CASE /\ isSharedFile(vol, p) = "sharee" /\ CanRemove(vol, p)
           /\ Perform(<<Removed(vol, {p}), RemoveReceived(vol, u, p)>>, "ok")
  <2> DEFINE rows == {r \in vol.sharedata : r.sharee = u /\ r.shareepath = p}
             stages == <<Removed(vol, {p}), RemoveReceived(vol, u, p)>>
             res == Result(RemoveReceived(vol, u, p), "ok")
  <2>1. PICK r \in vol.sharedata : r.shareepath = p
    BY <1>3 DEF isSharedFile, ShareePaths
  <2>2. r.sharee = u
    BY <1>0, <2>1, ShareeOf
  <2>3. ShareePaths(rows) = {p} /\ rows \in SUBSET vol.sharedata
    BY <2>1, <2>2 DEF ShareePaths
  <2>4. RemoveReceived(vol, u, p) = DropRows(vol, rows)
    <3>1. vol.sharedata \ rows = {t \in vol.sharedata : ~(t.sharee = u /\ t.shareepath = p)}
      OBVIOUS
    <3> DEFINE w == Removed(vol, {p})
    <3>2. w.sharedata = vol.sharedata
      BY <1>0, RemovedType
    <3>3. RemoveReceived(vol, u, p) =
            [w EXCEPT !.sharedata = {t \in @ : ~(t.sharee = u /\ t.shareepath = p)}]
      BY DEF RemoveReceived
    <3>4. DropRows(vol, rows) = [w EXCEPT !.sharedata = @ \ rows]
      BY <2>3 DEF DropRows
    <3> HIDE DEF w, rows
    <3> QED
      BY <3>1, <3>2, <3>3, <3>4
  <2>5. stages = <<Removed(vol, ShareePaths(rows)), DropRows(vol, rows)>>
    BY <2>3, <2>4
  <2>6. res.vol = DropRows(vol, rows) /\ res.reply = "ok"
    BY <2>4 DEF Result
  <2>7. Perform(stages, res.reply)
    BY <1>3, <2>6
  <2>8. /\ Handlers!Result(Handlers!RemoveReceived(LastStage(vol, todo), u, p), "ok") = res
        /\ Handlers!CanRemove(LastStage(vol, todo), p)
    BY <1>0, <1>3, SameOutcomes, SameFunctions, SameFiles
  <2> HIDE DEF rows, stages, res
  <2>9. stages \in Seq(Halfway) /\ LastStage(vol, stages) = res.vol
    BY <1>0, <2>3, <2>5, <2>6, DropRowsHalfway
  <2>10. VolumeInv(res.vol, userdata) /\ res.reply \in Reply
    BY <1>0, <2>3, <2>6, DropRowsVolume DEF Reply
  <2>11. StepInv' /\ Handlers!Answer(res)
    BY <1>0, <2>7, <2>9, <2>10, PerformKeeps
  <2>12. Handlers!RemoveAsSharee(u, p)
    BY <1>1, <1>3, <2>8, <2>11 DEF Handlers!RemoveAsSharee
  <2> QED
    BY <1>0, <1>1, <2>11, <2>12 DEF Handlers!removeHandler
<1>4. CASE /\ isSharedFile(vol, p) = "sharer"
           /\ \E rows \in Orders(SharesOf(vol, u, p)) :
                Perform(RemoveSharedStages(vol, u, p, rows),
                        RemoveShared(vol, u, p, FirstRows(rows, Reached(vol, rows))).reply)
  <2> DEFINE R == SharesOf(vol, u, p)
             res == RemoveShared(vol, u, p, R)
  <2>1. PICK rows \in Orders(R) :
          Perform(RemoveSharedStages(vol, u, p, rows),
                  RemoveShared(vol, u, p, FirstRows(rows, Reached(vol, rows))).reply)
    BY <1>4
  <2> DEFINE stages == RemoveSharedStages(vol, u, p, rows)
  <2>2. \E r \in vol.sharedata : r.origpath = p
    BY <1>4 DEF isSharedFile
  <2>3. /\ stages \in Seq(Halfway) /\ LastStage(vol, stages) = res.vol
        /\ FirstRows(rows, Reached(vol, rows)) = R /\ R \in Unlinkable(vol, R)
    BY <1>0, <2>2, RemoveSharedHalfway
  <2>4. Perform(stages, res.reply)
    BY <2>1, <2>3
  <2>5. VolumeInv(res.vol, userdata) /\ res.reply \in Reply
    <3> DEFINE w == DropRows(vol, R)
    <3>1. R \in SUBSET vol.sharedata /\ \A r \in vol.sharedata \ R : r.origpath # p
      BY <1>0, SharerOf DEF SharesOf
    <3>2. p \notin ShareePaths(vol.sharedata)
      BY <1>0, <2>2 DEF ShareLinked, OwnedPaths
    <3>3. res = remove(w, p, u)
      BY DEF RemoveShared, DropRows
    <3> HIDE DEF R
    <3>4. VolumeInv(w, userdata) /\ w.sharedata = vol.sharedata \ R
      BY <1>0, <3>1, DropRowsVolume
    <3>5. VolumeType(w)
      BY <3>4 DEF VolumeInv, LinkInv, StoreInv
    <3> HIDE DEF w, res
    <3>6. p \notin ShareePaths(w.sharedata) /\ \A r \in w.sharedata : r.origpath # p
      BY <3>1, <3>2, <3>4 DEF ShareePaths
    <3>7. VolumeInv(res.vol, userdata)
      BY <1>0, <3>3, <3>4, <3>6, RemoveVolume
    <3>8. res.reply \in Reply
      BY <3>3, <3>5, RemoveType DEF Answers, Reply
    <3> QED
      BY <3>7, <3>8
  <2>6. /\ Handlers!SharesOf(LastStage(vol, todo), u, p) = R
        /\ Handlers!Unlinkable(LastStage(vol, todo), R) = Unlinkable(vol, R)
        /\ Handlers!RemoveShared(LastStage(vol, todo), u, p, R) = res
    BY <1>0, SameTables, SameOutcomes
  <2> HIDE DEF stages, res, R
  <2>7. StepInv' /\ Handlers!Answer(res)
    BY <1>0, <2>3, <2>4, <2>5, PerformKeeps
  <2>8. Handlers!RemoveAsSharer(u, p)
    BY <1>1, <1>4, <2>3, <2>6, <2>7 DEF Handlers!RemoveAsSharer
  <2> QED
    BY <1>0, <1>1, <2>7, <2>8 DEF Handlers!removeHandler
<1> QED
  BY <1>2, <1>3, <1>4 DEF removeSteps

LEMMA ShareSteps ==
  ASSUME StepInv, NEW u \in User, NEW sharee \in User, NEW p \in InputPath,
         NEW perm \in {0, 1}, shareSteps(u, sharee, p, perm)
  PROVE  StepInv' /\ Handlers!shareHandler(u, sharee, p, perm)
<1>0. /\ LastStage(vol, todo) = vol /\ todo = <<>> /\ up /\ checkCookie(u)
      /\ VolumeInv(vol, userdata) /\ ServerInv /\ MayShare(u, sharee, p)
  BY Settled DEF shareSteps, Served
<1>1. PICK i \in 0 .. MaxNumber :
        LET at == ReceivedAs(sharee, p, i)
        IN  /\ FirstFree(vol, sharee, p, i)
            /\ p \in DOMAIN vol.link /\ CanCreate(vol, at)
            /\ Perform(<<[vol EXCEPT !.link = With(@, at, @[p])],
                         Share(vol, u, sharee, p, perm, at)>>, "ok")
  BY DEF shareSteps
<1> DEFINE at == ReceivedAs(sharee, p, i)
           w == Share(vol, u, sharee, p, perm, at)
           res == Result(w, "ok")
           stages == <<[vol EXCEPT !.link = With(@, at, @[p])], w>>
<1>2. /\ p \in Path /\ checkpath(p, u) /\ ~InShared(p, u) /\ u # sharee
      /\ SharesWith(vol, u, sharee, p) = {} /\ u \in userdata /\ sharee \in userdata
  BY <1>0, Settled DEF MayShare, checkCookie
<1>3. p \in OwnedPaths(vol)
  BY <1>0, <1>1, <1>2, NotReceived DEF OwnedPaths
<1>4. /\ at \in Path /\ Parent(at) = SharedDir(sharee) /\ CanCreate(vol, at)
      /\ FirstFree(vol, sharee, p, i) /\ p \in DOMAIN vol.link
  BY <1>1, ReceivedAsShape
<1>5. Perform(stages, "ok")
  BY <1>1
<1>6. res.vol = w /\ res.reply = "ok"
  BY DEF Result
<1>7. /\ Handlers!ReceivedAs(sharee, p, i) = at
      /\ Handlers!FirstFree(LastStage(vol, todo), sharee, p, i)
      /\ Handlers!CanCreate(LastStage(vol, todo), at)
      /\ Handlers!Share(LastStage(vol, todo), u, sharee, p, perm, at) = w
      /\ Handlers!Result(w, "ok") = res
  BY <1>0, <1>4, SamePathTests, SameFiles, SameFunctions, SameOutcomes
<1>8. Handlers!MayShare(u, sharee, p)
  BY <1>0, SamePathTests, SameFiles, SameTables DEF Handlers!MayShare, MayShare
<1>9. Handlers!checkCookie(u)
  BY <1>0 DEF Handlers!checkCookie, checkCookie
<1> HIDE DEF at
<1>10. stages \in Seq(Halfway) /\ LastStage(vol, stages) = w /\ VolumeInv(w, userdata)
  BY <1>0, <1>2, <1>3, <1>4, ShareHalfway
<1> HIDE DEF w, res, stages
<1>11. StepInv' /\ Handlers!Answer(res)
  BY <1>0, <1>5, <1>6, <1>10, PerformKeeps DEF Reply
<1> QED
  BY <1>0, <1>4, <1>7, <1>8, <1>9, <1>11 DEF Handlers!shareHandler

LEMMA UnshareSteps ==
  ASSUME StepInv, NEW u \in User, NEW sharee \in User, NEW p \in InputPath,
         unshareSteps(u, sharee, p)
  PROVE  StepInv' /\ Handlers!unshareHandler(u, sharee, p)
<1> DEFINE rows == SharesWith(vol, u, sharee, p)
           w == Removed(vol, ShareePaths(rows))
           x == DropRows(vol, rows)
           stages == <<w, [w EXCEPT !.sharedata = @ \ rows]>>
           res == Result(x, "ok")
<1>0. /\ LastStage(vol, todo) = vol /\ todo = <<>> /\ up /\ checkCookie(u)
      /\ VolumeInv(vol, userdata) /\ VolumeType(vol)
  BY Settled DEF unshareSteps, Served
<1>1. /\ checkpath(p, u) /\ u # sharee /\ sharee \in userdata
      /\ rows # {} /\ AllRemovable(vol, rows)
      /\ Perform(stages, "ok")
  BY DEF unshareSteps
<1>2. rows \in SUBSET vol.sharedata
  BY DEF SharesWith, SharesOf
<1>3. stages = <<Removed(vol, ShareePaths(rows)), DropRows(vol, rows)>>
  BY UnlinkedAndForgotten
<1>4. res.vol = x /\ res.reply = "ok"
  BY DEF Result
<1>5. /\ Handlers!checkpath(p, u)
      /\ Handlers!SharesWith(LastStage(vol, todo), u, sharee, p) = rows
      /\ Handlers!ShareePaths(rows) = ShareePaths(rows)
      /\ Handlers!AllRemovable(LastStage(vol, todo), rows)
      /\ Handlers!Removed(vol, ShareePaths(rows)) = Removed(vol, ShareePaths(rows))
  BY <1>0, <1>1, SamePathTests, SameFiles, SameTables
<1>6. Handlers!Result([Handlers!Removed(LastStage(vol, todo), Handlers!ShareePaths(rows))
                         EXCEPT !.sharedata = @ \ rows], "ok") = res
  BY <1>0, <1>5, SameFunctions DEF DropRows
<1>7. Handlers!checkCookie(u)
  BY <1>0 DEF Handlers!checkCookie, checkCookie
<1> HIDE DEF rows
<1>8. stages \in Seq(Halfway) /\ LastStage(vol, stages) = x
  BY <1>0, <1>2, <1>3, DropRowsHalfway
<1>9. VolumeInv(x, userdata)
  BY <1>0, <1>2, DropRowsVolume
<1> HIDE DEF w, x, res, stages
<1>10. StepInv' /\ Handlers!Answer(res)
  BY <1>0, <1>1, <1>4, <1>8, <1>9, PerformKeeps DEF Reply
<1> QED
  BY <1>0, <1>1, <1>5, <1>6, <1>7, <1>10 DEF Handlers!unshareHandler

LEMMA SignupSteps ==
  ASSUME StepInv, Apart', NEW u \in User, NEW ok \in BOOLEAN, signupSteps(u, ok)
  PROVE  StepInv' /\ Handlers!signupHandler(u, ok)
<1> DEFINE home == [vol EXCEPT !.dirs = @ \cup {Root(u)}]
           w == [home EXCEPT !.dirs = @ \cup {SharedDir(u)}]
           stages == <<home, w>>
<1>0. /\ LastStage(vol, todo) = vol /\ todo = <<>> /\ up /\ TypeOK
      /\ VolumeInv(vol, userdata) /\ CanCreate(vol, Root(u)) /\ ~SignupRefused(u, ok)
  BY Settled DEF signupSteps, StepInv
<1>1. /\ vol' = vol /\ todo' = stages /\ userdata' = userdata \cup {u} /\ reply' = "ok"
      /\ UNCHANGED <<Cookiemap, countfile, up>>
  BY DEF signupSteps
<1>2. /\ stages \in Seq(Halfway) /\ LastStage(vol, stages) = w
      /\ w = [vol EXCEPT !.dirs = @ \cup {Root(u), SharedDir(u)}]
      /\ VolumeInv(w, userdata \cup {u})
  <2>1. NamesApart(userdata \cup {u})
    BY <1>1 DEF Apart
  <2> QED
    BY <1>0, <2>1, SignupHalfway
<1> HIDE DEF home, w, stages
<1>3. TypeOK'
  BY <1>0, <1>1 DEF TypeOK, VolumeType, Reply
<1>4. StepInv'
  BY <1>0, <1>1, <1>2, <1>3 DEF StepInv
<1>5. /\ Handlers!Root(u) = Root(u) /\ Handlers!SharedDir(u) = SharedDir(u)
      /\ Handlers!CanCreate(LastStage(vol, todo), Root(u))
      /\ ~Handlers!SignupRefused(u, ok)
  BY <1>0, SamePathTests, SameFiles DEF Handlers!SignupRefused, SignupRefused
<1>6. LastStage(vol', todo') =
        [LastStage(vol, todo) EXCEPT !.dirs = @ \cup {Root(u), SharedDir(u)}]
  BY <1>0, <1>1, <1>2
<1> QED
  BY <1>0, <1>1, <1>4, <1>5, <1>6 DEF Handlers!signupHandler

-----------------------------------------------------------------------------
(* Requests and other steps that change the disk at one point at most are  *)
(* steps of module Dropbox.                                                *)

LEMMA SameRefuse ==
  ASSUME LastStage(vol, todo) = vol, LastStage(vol', todo') = vol'
  PROVE  /\ \A r : Refuse(r) <=> Handlers!Refuse(r)
         /\ \A res : Answer(res) <=> Handlers!Answer(res)
         /\ \A res : Stored(res) <=> Handlers!Stored(res)
         /\ \A u : checkCookie(u) <=> Handlers!checkCookie(u)
         /\ \A u, p : getPerms(u, p) = Handlers!getPerms(u, p)
         /\ \A u, sharee, p : MayShare(u, sharee, p) <=> Handlers!MayShare(u, sharee, p)
<1>1. /\ \A r : Refuse(r) <=> Handlers!Refuse(r)
      /\ \A res : Answer(res) <=> Handlers!Answer(res)
  BY DEF Refuse, Answer, Handlers!Refuse, Handlers!Answer
<1>2. \A res : Stored(res) <=> Handlers!Stored(res)
  BY <1>1 DEF Stored, Handlers!Stored
<1>3. /\ \A u : checkCookie(u) <=> Handlers!checkCookie(u)
      /\ \A u, p : getPerms(u, p) = Handlers!getPerms(u, p)
  BY DEF checkCookie, getPerms, Handlers!checkCookie, Handlers!getPerms
<1>4. \A u, sharee, p : MayShare(u, sharee, p) <=> Handlers!MayShare(u, sharee, p)
  BY SamePathTests, SameFiles, SameTables DEF MayShare, Handlers!MayShare
<1> QED
  BY <1>1, <1>2, <1>3, <1>4

LEMMA SameReadings ==
  ASSUME LastStage(vol, todo) = vol, LastStage(vol', todo') = vol', NEW u, NEW p
  PROVE  /\ \A ok : authenticateHandler(u, ok) => Handlers!authenticateHandler(u, ok)
         /\ pwdHandler(u) => Handlers!pwdHandler(u)
         /\ downloadHandler(u, p) => Handlers!downloadHandler(u, p)
         /\ listHandler(u, p) => Handlers!listHandler(u, p)
         /\ cdHandler(u, p) => Handlers!cdHandler(u, p)
<1>1. \A ok : authenticateHandler(u, ok) => Handlers!authenticateHandler(u, ok)
  BY SameRefuse DEF authenticateHandler, Handlers!authenticateHandler
<1>2. /\ pwdHandler(u) => Handlers!pwdHandler(u)
      /\ downloadHandler(u, p) => Handlers!downloadHandler(u, p)
  BY SameRefuse, SamePathTests DEF pwdHandler, Handlers!pwdHandler,
     downloadHandler, Handlers!downloadHandler
<1>3. /\ listHandler(u, p) => Handlers!listHandler(u, p)
      /\ cdHandler(u, p) => Handlers!cdHandler(u, p)
  BY SameRefuse, SamePathTests, SameFiles DEF listHandler, Handlers!listHandler,
     cdHandler, Handlers!cdHandler
<1> QED
  BY <1>1, <1>2, <1>3

LEMMA SameChanges ==
  ASSUME LastStage(vol, todo) = vol, LastStage(vol', todo') = vol', NEW u, NEW p
  PROVE  /\ \A ok : signupHandler(u, ok) => Handlers!signupHandler(u, ok)
         /\ mkdirHandler(u, p) => Handlers!mkdirHandler(u, p)
         /\ removeHandler(u, p) => Handlers!removeHandler(u, p)
         /\ \A b : uploadHandler(u, p, b) => Handlers!uploadHandler(u, p, b)
<1>1. \A ok : signupHandler(u, ok) => Handlers!signupHandler(u, ok)
  BY SameRefuse, SamePathTests, SameFiles DEF signupHandler, Handlers!signupHandler,
     SignupRefused, Handlers!SignupRefused
<1>2. mkdirHandler(u, p) => Handlers!mkdirHandler(u, p)
  BY SameRefuse, SamePathTests, SameFiles, SameFunctions
     DEF mkdirHandler, Handlers!mkdirHandler
<1>3. removeHandler(u, p) => Handlers!removeHandler(u, p)
  <2>1. /\ RemovePlain(u, p) => Handlers!RemovePlain(u, p)
        /\ RemoveAsSharee(u, p) => Handlers!RemoveAsSharee(u, p)
        /\ RemoveAsSharer(u, p) => Handlers!RemoveAsSharer(u, p)
    BY SameRefuse, SameFiles, SameTables, SameHelpers, SameFunctions, SameOutcomes
       DEF RemovePlain, RemoveAsSharee, RemoveAsSharer,
           Handlers!RemovePlain, Handlers!RemoveAsSharee, Handlers!RemoveAsSharer
  <2> QED
    BY <2>1, SameRefuse, SamePathTests, SameFiles DEF removeHandler, Handlers!removeHandler
<1>4. \A b : uploadHandler(u, p, b) => Handlers!uploadHandler(u, p, b)
  <2>1. \A b : UploadPlain(u, p, b) => Handlers!UploadPlain(u, p, b)
    BY SameRefuse, SameTables, SameHelpers DEF UploadPlain, Handlers!UploadPlain
  <2>2. \A b : UploadAsSharer(u, p, b) => Handlers!UploadAsSharer(u, p, b)
    BY SameRefuse, SameTables, SameOutcomes DEF UploadAsSharer, Handlers!UploadAsSharer
  <2>3. \A b : UploadAsSharee(u, p, b) => Handlers!UploadAsSharee(u, p, b)
    BY SameRefuse, SameTables, SameOutcomes, SameFunctions
       DEF UploadAsSharee, Handlers!UploadAsSharee
  <2> QED
    BY <2>1, <2>2, <2>3, SameRefuse, SamePathTests, SameTables
       DEF uploadHandler, Handlers!uploadHandler
<1> QED
  BY <1>1, <1>2, <1>3, <1>4

LEMMA SameSharing ==
  ASSUME LastStage(vol, todo) = vol, LastStage(vol', todo') = vol', NEW u, NEW sharee, NEW p
  PROVE  /\ \A perm : shareHandler(u, sharee, p, perm) => Handlers!shareHandler(u, sharee, p, perm)
         /\ unshareHandler(u, sharee, p) => Handlers!unshareHandler(u, sharee, p)
         /\ \A perm : chpermHandler(u, sharee, p, perm) => Handlers!chpermHandler(u, sharee, p, perm)
<1>1. \A perm : shareHandler(u, sharee, p, perm) => Handlers!shareHandler(u, sharee, p, perm)
  BY SameRefuse, SamePathTests, SameFiles, SameFunctions, SameOutcomes
     DEF shareHandler, Handlers!shareHandler
<1>2. unshareHandler(u, sharee, p) => Handlers!unshareHandler(u, sharee, p)
  BY SameRefuse, SamePathTests, SameFiles, SameTables, SameFunctions
     DEF unshareHandler, Handlers!unshareHandler
<1>3. \A perm : chpermHandler(u, sharee, p, perm) => Handlers!chpermHandler(u, sharee, p, perm)
  BY SameRefuse, SamePathTests, SameFiles, SameTables, SameFunctions
     DEF chpermHandler, Handlers!chpermHandler
<1> QED
  BY <1>1, <1>2, <1>3

LEMMA SameLife ==
  ASSUME LastStage(vol, todo) = vol, LastStage(vol', todo') = vol'
  PROVE  /\ \A u : Expire(u) => Handlers!Expire(u)
         /\ Reauth => Handlers!Reauth
         /\ Start => Handlers!Start
         /\ Shutdown => Handlers!Shutdown
  BY DEF Expire, Reauth, Refuse, Start, Shutdown, Handlers!Expire, Handlers!Reauth,
         Handlers!Refuse, Handlers!Start, Handlers!Shutdown

-----------------------------------------------------------------------------
(* Every step keeps the invariant and is a step of module Dropbox.         *)

\* A step of module Dropbox that no other stages follow.
LEMMA OneStepKeeps ==
  ASSUME StepInv, Apart', todo = <<>>, Next, UNCHANGED todo
  PROVE  /\ StepInv'
         /\ LastStage(vol, todo) = vol /\ LastStage(vol', todo') = vol'
<1>1. LastStage(vol, todo) = vol /\ LastStage(vol', todo') = vol'
  BY DEF LastStage
<1>2. ServerInv'
  BY Settled, ServerStep
<1>3. vol' \in Halfway
  BY <1>2, LinkedHalfway DEF ServerInv, VolumeInv
<1>4. StepInv'
  BY <1>1, <1>2, <1>3 DEF ServerInv, DedupInv, StepInv
<1> QED
  BY <1>1, <1>4

LEMMA RequestSteps ==
  ASSUME StepInv, Apart', NEW u \in User, StepRequest(u)
  PROVE  StepInv' /\ Handlers!Request(u)
<1>1. ASSUME NEW ok \in BOOLEAN, signupSteps(u, ok) PROVE StepInv' /\ Handlers!Request(u)
  BY <1>1, SignupSteps DEF Handlers!Request
<1>2. CASE InOneStep(Quiet(u))
  <2>1. todo = <<>> /\ UNCHANGED todo /\ Request(u)
    BY <1>2 DEF InOneStep, Quiet
  <2>2. Next
    BY <2>1 DEF Next
  <2>3. StepInv' /\ LastStage(vol, todo) = vol /\ LastStage(vol', todo') = vol'
    BY <2>1, <2>2, OneStepKeeps
  <2>4. Handlers!Request(u)
    BY <2>1, <2>3, SameReadings, SameChanges, SameSharing DEF Request, Handlers!Request
  <2> QED
    BY <2>3, <2>4
<1>3. ASSUME NEW p \in InputPath, NEW b \in Body, uploadSteps(u, p, b)
      PROVE  StepInv' /\ Handlers!Request(u)
  BY <1>3, UploadSteps DEF Handlers!Request
<1>4. ASSUME NEW p \in InputPath, removeSteps(u, p) PROVE StepInv' /\ Handlers!Request(u)
  BY <1>4, RemoveSteps DEF Handlers!Request
<1>5. ASSUME NEW p \in InputPath, InOneStep(mkdirHandler(u, p))
      PROVE  StepInv' /\ Handlers!Request(u)
  <2>1. todo = <<>> /\ UNCHANGED todo /\ mkdirHandler(u, p)
    BY <1>5 DEF InOneStep
  <2>2. Next
    BY <2>1 DEF Next, Request
  <2>3. StepInv' /\ LastStage(vol, todo) = vol /\ LastStage(vol', todo') = vol'
    BY <2>1, <2>2, OneStepKeeps
  <2> QED
    BY <2>1, <2>3, SameChanges DEF Handlers!Request
<1>6. ASSUME NEW p \in InputPath, NEW sharee \in User, unshareSteps(u, sharee, p)
      PROVE  StepInv' /\ Handlers!Request(u)
  BY <1>6, UnshareSteps DEF Handlers!Request
<1>7. ASSUME NEW p \in InputPath, NEW sharee \in User, NEW perm \in {0, 1},
             shareSteps(u, sharee, p, perm)
      PROVE  StepInv' /\ Handlers!Request(u)
  BY <1>7, ShareSteps DEF Handlers!Request
<1>8. ASSUME NEW p \in InputPath, NEW sharee \in User, NEW perm \in {0, 1},
             InOneStep(chpermHandler(u, sharee, p, perm))
      PROVE  StepInv' /\ Handlers!Request(u)
  <2>1. todo = <<>> /\ UNCHANGED todo /\ chpermHandler(u, sharee, p, perm)
    BY <1>8 DEF InOneStep
  <2>2. Next
    BY <2>1 DEF Next, Request
  <2>3. StepInv' /\ LastStage(vol, todo) = vol /\ LastStage(vol', todo') = vol'
    BY <2>1, <2>2, OneStepKeeps
  <2> QED
    BY <2>1, <2>3, SameSharing DEF Handlers!Request
<1> QED
  BY <1>1, <1>2, <1>3, <1>4, <1>5, <1>6, <1>7, <1>8 DEF StepRequest

LEMMA StagePasses ==
  ASSUME StepInv, Step
  PROVE  StepInv' /\ UNCHANGED Handlers!vars
<1>1. /\ todo # <<>> /\ todo \in Seq(Halfway) /\ vol' = Head(todo) /\ todo' = Tail(todo)
      /\ UNCHANGED <<userdata, Cookiemap, countfile, up, reply>>
  BY DEF StepInv, Step
<1>2. vol' \in Halfway /\ todo' \in Seq(Halfway)
  BY <1>1, HeadTailProperties
<1>3. LastStage(vol', todo') = LastStage(vol, todo)
  BY <1>1, LastOfTail
<1>4. VolumeType(vol')
  BY <1>2, VolumeSetType DEF Halfway
<1>5. TypeOK'
  BY <1>1, <1>4 DEF TypeOK, VolumeType, StepInv
<1>6. StepInv'
  BY <1>1, <1>2, <1>3, <1>5 DEF StepInv
<1> QED
  BY <1>1, <1>3, <1>6 DEF Handlers!vars

\* A session may end while a handler runs.
LEMMA ExpireSteps ==
  ASSUME StepInv, NEW u \in User, Expire(u), UNCHANGED todo
  PROVE  StepInv' /\ Handlers!Expire(u)
<1>1. TypeOK'
  BY DEF StepInv, Expire, TypeOK, VolumeType
<1>2. StepInv'
  BY <1>1 DEF StepInv, Expire
<1>3. Handlers!Expire(u)
  BY DEF Expire, Handlers!Expire
<1> QED
  BY <1>2, <1>3

LEMMA LifeSteps ==
  ASSUME StepInv, Apart', InOneStep(Reauth \/ Start \/ Shutdown)
  PROVE  StepInv' /\ (Handlers!Reauth \/ Handlers!Start \/ Handlers!Shutdown)
<1>1. todo = <<>> /\ UNCHANGED todo /\ (Reauth \/ Start \/ Shutdown)
  BY DEF InOneStep
<1>2. Next
  BY <1>1 DEF Next
<1>3. StepInv' /\ LastStage(vol, todo) = vol /\ LastStage(vol', todo') = vol'
  BY <1>1, <1>2, OneStepKeeps
<1> QED
  BY <1>1, <1>3, SameLife

LEMMA EveryStep ==
  ASSUME StepInv, Apart', [StepNext]_stepVars
  PROVE  StepInv' /\ [Handlers!Next]_(Handlers!vars)
<1>1. ASSUME NEW u \in User, StepRequest(u) PROVE StepInv' /\ Handlers!Next
  BY <1>1, RequestSteps DEF Handlers!Next
<1>2. ASSUME NEW u \in User, Expire(u) /\ UNCHANGED todo PROVE StepInv' /\ Handlers!Next
  BY <1>2, ExpireSteps DEF Handlers!Next
<1>3. CASE Step
  BY <1>3, StagePasses
<1>4. CASE InOneStep(Reauth \/ Start \/ Shutdown)
  BY <1>4, LifeSteps DEF Handlers!Next
<1>5. CASE UNCHANGED stepVars
  <2>1. StepInv'
    BY <1>5 DEF StepInv, stepVars, TypeOK, VolumeType
  <2> QED
    BY <1>5, <2>1 DEF stepVars, Handlers!vars
<1> QED
  BY <1>1, <1>2, <1>3, <1>4, <1>5 DEF StepNext

LEMMA InitSteps == StepInit => StepInv /\ Handlers!Init
<1> SUFFICES ASSUME StepInit PROVE StepInv /\ Handlers!Init
  OBVIOUS
<1>1. Init /\ todo = <<>> /\ LastStage(vol, todo) = vol
  BY DEF StepInit, LastStage
<1>2. ServerInv
  BY <1>1, InitServer
<1>3. vol \in Halfway
  BY <1>2, LinkedHalfway DEF ServerInv, VolumeInv
<1>4. StepInv
  BY <1>1, <1>2, <1>3 DEF StepInv, ServerInv, DedupInv
<1>5. Handlers!Init
  BY <1>1 DEF Init, EmptyVolume, Handlers!Init, Handlers!EmptyVolume
<1> QED
  BY <1>4, <1>5

(* Users sign up and stay, also stage by stage. *)
LEMMA StepUsersStay ==
  ASSUME [StepNext]_stepVars
  PROVE  Apart' => Apart
<1>1. ASSUME NEW u \in User, StepRequest(u) PROVE userdata \subseteq userdata'
  <2>1. ASSUME NEW ok \in BOOLEAN, signupSteps(u, ok) PROVE userdata \subseteq userdata'
    BY <2>1 DEF signupSteps
  <2>2. ASSUME InOneStep(Quiet(u)) PROVE userdata \subseteq userdata'
    <3>1. Next
      BY <2>2 DEF InOneStep, Quiet, Next
    <3> QED
      BY <3>1, UsersStay
  <2>3. \A stages, r : Perform(stages, r) => userdata' = userdata
    BY DEF Perform
  <2>4. ASSUME NEW p \in InputPath PROVE
          /\ \A b \in Body : uploadSteps(u, p, b) => userdata' = userdata
          /\ removeSteps(u, p) => userdata' = userdata
          /\ InOneStep(mkdirHandler(u, p)) => userdata' = userdata
    <3>1. \A b \in Body : uploadSteps(u, p, b) => userdata' = userdata
      BY <2>3 DEF uploadSteps, uploadPlainSteps, uploadSharedSteps
    <3> QED
      BY <2>3, <3>1 DEF removeSteps, InOneStep, mkdirHandler, Answer, Refuse
  <2>5. ASSUME NEW p \in InputPath, NEW sharee \in User PROVE
          /\ unshareSteps(u, sharee, p) => userdata' = userdata
          /\ \A perm \in {0, 1} :
               /\ shareSteps(u, sharee, p, perm) => userdata' = userdata
               /\ InOneStep(chpermHandler(u, sharee, p, perm)) => userdata' = userdata
    BY <2>3 DEF unshareSteps, shareSteps, InOneStep, chpermHandler, Answer, Refuse
  <2> QED
    BY <1>1, <2>1, <2>2, <2>4, <2>5 DEF StepRequest
<1>2. userdata \subseteq userdata'
  BY <1>1 DEF StepNext, Expire, Step, InOneStep, Reauth, Refuse, Start, Shutdown, stepVars
<1> QED
  BY <1>2 DEF Apart, NamesApart

(* Whatever names sign up; userdata only grows. *)
StepSafe == Apart => StepInv

LEMMA StepInvariance == StepSpec => []StepSafe
<1>1. StepSafe /\ [StepNext]_stepVars => StepSafe'
  BY EveryStep, StepUsersStay DEF StepSafe
<1>2. StepInit => StepSafe
  BY InitSteps DEF StepSafe
<1> QED
  BY <1>1, <1>2, PTL DEF StepSpec

-----------------------------------------------------------------------------
(* Handlers interrupted nowhere: all the stages of a handler of server.go  *)
(* (uploadHandler, removeHandler, shareHandler, unshareHandler,            *)
(* signupHandler) add up to the one step module Dropbox makes of it, so    *)
(* what is proved of Spec holds of the server that works stage by stage.   *)
(* Proved as long as the names that signed up are apart; the run of        *)
(* ImplementsHandlers makes no such exception.                             *)
StepsOfHandlers ==
  Handlers!Init /\ [][Apart' => [Handlers!Next]_(Handlers!vars)]_stepVars

THEOREM HandlersImplemented == StepSpec => StepsOfHandlers
<1>1. StepSafe /\ [StepNext]_stepVars => (Apart' => [Handlers!Next]_(Handlers!vars))
  BY EveryStep, StepUsersStay DEF StepSafe
<1>2. StepInit => Handlers!Init
  BY InitSteps
<1> QED
  BY <1>1, <1>2, StepInvariance, PTL DEF StepSpec, StepsOfHandlers

(* Whichever system call of remove, uploadHelper or sharerUpload comes     *)
(* next, no link leads to a store file that is already gone.               *)
THEOREM ContentOutlivesLinks == StepSpec => []LinksKeepContent
<1>1. StepSafe => LinksKeepContent
  BY DEF StepSafe, StepInv, Halfway, KeepsContent, LinksKeepContent
<1> QED
  BY <1>1, StepInvariance, PTL

(* At every point of every handler numowners is right for all store files  *)
(* but one, and off by one for that: the link and the row of one content   *)
(* are changed before those of the next.                                   *)
THEOREM OneCountOff == StepSpec => []OneOwnerOff
<1>1. StepSafe => OneOwnerOff
  BY DEF StepSafe, StepInv, Halfway, OwnersOff, OneOwnerOff
<1> QED
  BY <1>1, StepInvariance, PTL

(* At every point of sharerUpload the links of a shared file that are      *)
(* there lead to one store file, the old or the new.                       *)
THEOREM OldOrNew == StepSpec => []OneVersion
<1>1. StepSafe => OneVersion
  BY DEF StepSafe, StepInv, Halfway, SingleVersion, OneVersion
<1> QED
  BY <1>1, StepInvariance, PTL
=============================================================================
