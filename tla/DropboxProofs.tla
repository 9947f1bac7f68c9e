--------------------------- MODULE DropboxProofs ---------------------------
(***************************************************************************)
(* Proofs about module Dropbox, for any users, paths, contents and bounds: *)
(* every variable keeps its type, and deduplication is right: filedata and *)
(* filestore agree, no content is stored twice, and no store file is       *)
(* written over while a row names it.                                      *)
(***************************************************************************)
EXTENDS DropboxSafety, TLAPS

-----------------------------------------------------------------------------
(* Each helper of module Volume leaves a well-typed volume well-typed.     *)

Answers == {"ok", "error"}

(* Taking points away from a function and adding one. *)
LEMMA WithoutType ==
  ASSUME NEW D, NEW R, NEW f \in [D -> R], NEW S
  PROVE  Without(f, S) \in [D \ S -> R]
  BY DEF Without, Restrict

LEMMA WithType ==
  ASSUME NEW D, NEW R, NEW f \in [D -> R], NEW x, NEW y \in R
  PROVE  With(f, x, y) \in [D \cup {x} -> R]
  BY DEF With

(* An owner taken off a row leaves a row, as long as HasOwners says so. *)
LEMMA OwnersType ==
  ASSUME NEW v, VolumeType(v), NEW k
  PROVE  Owners(v, k) \in Nat
<1> DEFINE rows == {r \in v.filedata : r.filename = k}
<1>1. CASE rows = {}
  BY <1>1 DEF Owners
<1>2. CASE rows # {}
  <2>1. (CHOOSE r \in rows : TRUE) \in rows
    BY <1>2
  <2>2. (CHOOSE r \in rows : TRUE) \in FileRow
    BY <2>1 DEF VolumeType
  <2> QED
    BY <1>2, <2>2 DEF Owners, FileRow
<1> QED
  BY <1>1, <1>2

LEMMA ForgetType ==
  ASSUME NEW v, VolumeType(v), NEW k
  PROVE  VolumeType(Forget(v, k))
<1>1. Without(v.store, {k}) \in [DOMAIN v.store \ {k} -> Body]
  BY WithoutType DEF VolumeType
<1> QED
  BY <1>1 DEF Forget, VolumeType

(* remove of a link. *)
LEMMA RemoveLinkType ==
  ASSUME NEW v, VolumeType(v), NEW p \in DOMAIN v.link
  PROVE  VolumeType(RemoveLink(v, p).vol) /\ RemoveLink(v, p).reply \in Answers
<1> DEFINE k == v.link[p]
           left == Owners(v, k) - 1
           w == [v EXCEPT !.link = Without(@, {p})]
           counted == {IF r.filename = k THEN [r EXCEPT !.numowners = left] ELSE r
                         : r \in v.filedata}
<1>1. Without(v.link, {p}) \in [DOMAIN v.link \ {p} -> Nat]
  BY WithoutType DEF VolumeType
<1>2. VolumeType(w)
  BY <1>1 DEF VolumeType
<1>3. CASE HasOwners(left)
  <2>1. left \in Nat \ {0}
    BY <1>3, OwnersType DEF HasOwners
  <2>2. counted \subseteq FileRow
    BY <2>1 DEF VolumeType, FileRow
  <2>3. RemoveLink(v, p) = Result([w EXCEPT !.filedata = counted], "ok")
    BY <1>3 DEF RemoveLink, VolumeType
  <2>4. VolumeType([w EXCEPT !.filedata = counted])
    BY <1>2, <2>2 DEF VolumeType
  <2> QED
    BY <2>3, <2>4 DEF Result, Answers
<1>4. CASE ~HasOwners(left) /\ k \notin DOMAIN v.store
  <2>1. RemoveLink(v, p) = Result(w, "error")
    BY <1>4 DEF RemoveLink
  <2> QED
    BY <1>2, <2>1 DEF Result, Answers
<1>5. CASE ~HasOwners(left) /\ k \in DOMAIN v.store
  <2>1. RemoveLink(v, p) = Result(Forget(w, k), "ok")
    BY <1>5 DEF RemoveLink
  <2> QED
    BY <1>2, <2>1, ForgetType DEF Result, Answers
<1> QED
  BY <1>3, <1>4, <1>5

LEMMA RemoveType ==
  ASSUME NEW v, VolumeType(v), NEW p, NEW u
  PROVE  VolumeType(remove(v, p, u).vol) /\ remove(v, p, u).reply \in Answers
<1>1. CASE checkpath(p, u) /\ p \in DOMAIN v.link
  <2>1. remove(v, p, u) = RemoveLink(v, p)
    BY <1>1 DEF remove
  <2> QED
    BY <1>1, <2>1, RemoveLinkType
<1>2. CASE checkpath(p, u) /\ p \notin DOMAIN v.link /\ Removable(v, p, u)
  <2>1. remove(v, p, u) = Result([v EXCEPT !.dirs = @ \ {p}], "ok")
    BY <1>2 DEF remove
  <2>2. VolumeType([v EXCEPT !.dirs = @ \ {p}])
    BY DEF VolumeType
  <2> QED
    BY <2>1, <2>2 DEF Result, Answers
<1>3. CASE ~checkpath(p, u) \/ (p \notin DOMAIN v.link /\ ~Removable(v, p, u))
  <2>1. remove(v, p, u) = Result(v, "error")
    BY <1>3 DEF remove
  <2> QED
    BY <2>1 DEF Result, Answers
<1> QED
  BY <1>1, <1>2, <1>3

-----------------------------------------------------------------------------
(* Uploads. *)

LEMMA StoreNewType ==
  ASSUME NEW v, VolumeType(v), NEW p \in Path, NEW b \in Body
  PROVE  VolumeType(StoreNew(v, p, b).vol) /\ StoreNew(v, p, b).reply \in Answers
<1> DEFINE k == v.filecount
           w == [v EXCEPT !.store = With(@, k, b)]
           row == [filename |-> k, filehash |-> b, numowners |-> 1]
           x == [w EXCEPT !.link = With(@, p, k), !.filedata = @ \cup {row},
                          !.filecount = @ + 1]
<1>1. With(v.store, k, b) \in [DOMAIN v.store \cup {k} -> Body]
  BY WithType DEF VolumeType
<1>2. VolumeType(w)
  BY <1>1 DEF VolumeType
<1>3. With(w.link, p, k) \in [DOMAIN w.link \cup {p} -> Nat]
  BY <1>2, WithType DEF VolumeType
<1>4. row \in FileRow
  BY DEF VolumeType, FileRow
<1>5. VolumeType(x)
  <2>1. VolumeType([w EXCEPT !.link = With(@, p, k)])
    BY <1>2, <1>3 DEF VolumeType
  <2>2. w.filedata \cup {row} \subseteq FileRow /\ w.filecount + 1 \in Nat
    BY <1>2, <1>4 DEF VolumeType
  <2> QED
    BY <2>1, <2>2 DEF VolumeType
<1>6. StoreNew(v, p, b) \in {Result(w, "error"), Result(x, "ok")}
  BY DEF StoreNew
<1> QED
  BY <1>2, <1>5, <1>6 DEF Result, Answers

LEMMA LinkExistingType ==
  ASSUME NEW v, VolumeType(v), NEW p \in Path, NEW b,
         \E r \in v.filedata : r.filehash = b
  PROVE  VolumeType(LinkExisting(v, p, b).vol) /\ LinkExisting(v, p, b).reply \in Answers
<1> DEFINE row == CHOOSE r \in v.filedata : r.filehash = b
           counted == {IF r.filehash = b
                       THEN [r EXCEPT !.numowners = row.numowners + 1] ELSE r
                         : r \in v.filedata}
           x == [v EXCEPT !.link = With(@, p, row.filename), !.filedata = counted]
<1>1. row \in v.filedata
  OBVIOUS
<1>2. row \in FileRow
  BY <1>1 DEF VolumeType
<1>3. With(v.link, p, row.filename) \in [DOMAIN v.link \cup {p} -> Nat]
  BY <1>2, WithType DEF VolumeType, FileRow
<1>4. counted \subseteq FileRow
  BY <1>2 DEF VolumeType, FileRow
<1>5. VolumeType(x)
  BY <1>3, <1>4 DEF VolumeType
<1>6. LinkExisting(v, p, b) \in {Result(v, "error"), Result(x, "error")}
  BY DEF LinkExisting
<1> QED
  BY <1>5, <1>6 DEF Result, Answers

LEMMA UploadHelperType ==
  ASSUME NEW v, VolumeType(v), NEW p \in Path, NEW u, NEW b \in Body
  PROVE  VolumeType(uploadHelper(v, p, u, b).vol) /\ uploadHelper(v, p, u, b).reply \in Answers
<1> DEFINE w == IF Stat(v, p) THEN remove(v, p, u).vol ELSE v
<1>1. VolumeType(w)
  BY RemoveType
<1>2. CASE InShared(p, u)
  BY <1>2 DEF uploadHelper, Result, Answers
<1>3. CASE ~InShared(p, u) /\ \E r \in w.filedata : r.filehash = b
  <2>1. uploadHelper(v, p, u, b) = LinkExisting(w, p, b)
    BY <1>3 DEF uploadHelper
  <2> QED
    BY <1>1, <1>3, <2>1, LinkExistingType
<1>4. CASE ~InShared(p, u) /\ ~\E r \in w.filedata : r.filehash = b
  <2>1. uploadHelper(v, p, u, b) = StoreNew(w, p, b)
    BY <1>4 DEF uploadHelper
  <2> QED
    BY <1>1, <2>1, StoreNewType
<1> QED
  BY <1>2, <1>3, <1>4

(* Taking the links of some rows away. *)
LEMMA UnlinkType ==
  ASSUME NEW v, VolumeType(v), NEW S
  PROVE  VolumeType([v EXCEPT !.link = Without(@, S)])
<1>1. Without(v.link, S) \in [DOMAIN v.link \ S -> Nat]
  BY WithoutType DEF VolumeType
<1> QED
  BY <1>1 DEF VolumeType

LEMMA RemovedType ==
  ASSUME NEW v, VolumeType(v), NEW S
  PROVE  /\ VolumeType(Removed(v, S))
         /\ Removed(v, S) = [v EXCEPT !.link = Without(v.link, S), !.dirs = v.dirs \ S]
         /\ Removed(v, S).sharedata = v.sharedata
<1>1. Without(v.link, S) \in [DOMAIN v.link \ S -> Nat]
  BY WithoutType DEF VolumeType
<1>2. Removed(v, S) = [v EXCEPT !.link = Without(v.link, S), !.dirs = v.dirs \ S]
  BY DEF Removed
<1> QED
  BY <1>1, <1>2 DEF VolumeType

LEMMA RelinkType ==
  ASSUME NEW v, VolumeType(v), NEW orig \in DOMAIN v.link, NEW rows \in SUBSET ShareRow
  PROVE  VolumeType(Relink(v, orig, rows))
<1> DEFINE made == {q \in ShareePaths(rows) : CanCreate(v, q)}
           f == [q \in DOMAIN v.link \cup made |->
                   IF q \in made THEN v.link[orig] ELSE v.link[q]]
<1>1. made \subseteq Path
  BY DEF ShareePaths, ShareRow
<1>2. f \in [DOMAIN v.link \cup made -> Nat]
  BY DEF VolumeType
<1>3. Relink(v, orig, rows) = [v EXCEPT !.link = f]
  BY DEF Relink
<1> QED
  BY <1>1, <1>2, <1>3 DEF VolumeType

LEMMA SharerUploadType ==
  ASSUME NEW v, VolumeType(v), NEW sharer, NEW orig \in Path, NEW b \in Body, NEW done
  PROVE  /\ VolumeType(sharerUpload(v, sharer, orig, b, done).vol)
         /\ sharerUpload(v, sharer, orig, b, done).reply \in Answers
<1> DEFINE rows == SharesOf(v, sharer, orig)
           unlinked == Removed(v, ShareePaths(done))
           w == uploadHelper(unlinked, orig, sharer, b).vol
<1>1. VolumeType(unlinked)
  BY RemovedType
<1>2. VolumeType(w)
  BY <1>1, UploadHelperType
<1>3. CASE done # rows
  <2>1. sharerUpload(v, sharer, orig, b, done) = Result(unlinked, "error")
    BY <1>3 DEF sharerUpload
  <2> QED
    BY <1>1, <2>1 DEF Result, Answers
<1>4. CASE done = rows /\ orig \notin DOMAIN w.link
  <2>1. sharerUpload(v, sharer, orig, b, done) = Result(w, "error")
    BY <1>4 DEF sharerUpload
  <2> QED
    BY <1>2, <2>1 DEF Result, Answers
<1>5. CASE done = rows /\ orig \in DOMAIN w.link
  <2>1. sharerUpload(v, sharer, orig, b, done) = Result(Relink(w, orig, rows), "ok")
    BY <1>5 DEF sharerUpload
  <2>2. rows \in SUBSET ShareRow
    BY DEF VolumeType, SharesOf
  <2> QED
    BY <1>2, <1>5, <2>1, <2>2, RelinkType DEF Result, Answers
<1> QED
  BY <1>3, <1>4, <1>5

-----------------------------------------------------------------------------
(* Paths of requests and of received files are paths. *)

LEMMA RootType ==
  ASSUME NEW u \in User
  PROVE  Root(u) \in Path /\ SharedDir(u) \in Path
<1>1. u \in Name /\ SharedName \in Name
  BY NameAssumption
<1> QED
  BY <1>1 DEF Root, SharedDir, Path

LEMMA ReceivedAsType ==
  ASSUME NEW sharee \in User, NEW p \in InputPath, NEW i \in 0 .. MaxNumber
  PROVE  ReceivedAs(sharee, p, i) \in Path
<1>1. p \in Seq(Name) /\ p # <<>>
  BY InputAssumption DEF Path
<1>2. Base(p) \in Name
  BY <1>1 DEF Base
<1>3. Candidate(i, Base(p)) \in Name
  BY <1>2, InputAssumption DEF Candidate
<1>4. SharedDir(sharee) \in Seq(Name)
  BY RootType DEF Path
<1>5. Append(SharedDir(sharee), Candidate(i, Base(p))) \in Seq(Name) \ {<<>>}
  BY <1>3, <1>4
<1> QED
  BY <1>5 DEF ReceivedAs, Path

(* An answer with a well-typed volume keeps the types; so does a refusal. *)
LEMMA AnswerType ==
  ASSUME TypeOK, NEW res, VolumeType(res.vol), res.reply \in Answers, Answer(res)
  PROVE  TypeOK'
<1>1. VolumeType(vol')
  BY DEF Answer
<1> QED
  BY <1>1 DEF TypeOK, Answer, Answers, Reply, VolumeType

LEMMA RefuseType ==
  ASSUME TypeOK, NEW r \in Reply, Refuse(r)
  PROVE  TypeOK'
  BY DEF TypeOK, Refuse, VolumeType

LEMMA RefuseErrorType ==
  ASSUME TypeOK, Refuse("error")
  PROVE  TypeOK'
  BY RefuseType DEF Reply

-----------------------------------------------------------------------------
(* Each handler keeps the types. *)

LEMMA AccountsType ==
  ASSUME TypeOK, NEW u \in User, NEW ok,
         signupHandler(u, ok) \/ authenticateHandler(u, ok) \/ pwdHandler(u)
  PROVE  TypeOK'
<1>1. CASE Refuse("error") \/ Refuse("ok")
  BY <1>1, RefuseType DEF Reply
<1>2. CASE signupHandler(u, ok) /\ ~SignupRefused(u, ok)
  <2>1. VolumeType([vol EXCEPT !.dirs = @ \cup {Root(u), SharedDir(u)}])
    BY RootType DEF TypeOK, VolumeType
  <2>2. VolumeType(vol')
    BY <1>2, <2>1 DEF signupHandler
  <2> QED
    BY <1>2, <2>2 DEF signupHandler, TypeOK, Reply, VolumeType
<1>3. CASE authenticateHandler(u, ok) /\ u \in userdata /\ ok
  BY <1>3 DEF authenticateHandler, TypeOK, Reply, VolumeType
<1> QED
  BY <1>1, <1>2, <1>3 DEF signupHandler, authenticateHandler, pwdHandler

LEMMA UploadType ==
  ASSUME TypeOK, NEW u \in User, NEW p \in InputPath, NEW b \in Body, uploadHandler(u, p, b)
  PROVE  TypeOK'
<1> p \in Path /\ VolumeType(vol)
  BY InputAssumption DEF TypeOK
<1>1. CASE Refuse("error")
  BY <1>1, RefuseErrorType
<1>2. CASE UploadPlain(u, p, b)
  BY <1>2, UploadHelperType, AnswerType DEF UploadPlain, Stored
<1>3. CASE UploadAsSharer(u, p, b)
  <2>1. PICK done : Stored(sharerUpload(vol, u, p, b, done))
    BY <1>3 DEF UploadAsSharer
  <2> QED
    BY <2>1, SharerUploadType, AnswerType DEF Stored
<1>4. ASSUME NEW r \in vol.sharedata, NEW done,
             Stored(Result(sharerUpload(vol, r.sharer, r.origpath, b, done).vol, "error"))
      PROVE  TypeOK'
  <2>1. r.origpath \in Path
    BY DEF VolumeType, ShareRow
  <2>2. VolumeType(sharerUpload(vol, r.sharer, r.origpath, b, done).vol)
    BY <2>1, SharerUploadType
  <2> QED
    BY <1>4, <2>2, AnswerType DEF Stored, Result, Answers
<1>5. CASE UploadAsSharee(u, p, b)
  BY <1>1, <1>4, <1>5 DEF UploadAsSharee
<1> QED
  BY <1>1, <1>2, <1>3, <1>5 DEF uploadHandler

LEMMA ReadType ==
  ASSUME TypeOK, NEW u \in User, NEW p \in InputPath,
         downloadHandler(u, p) \/ listHandler(u, p) \/ cdHandler(u, p)
  PROVE  TypeOK'
<1>1. CASE Refuse("error") \/ Refuse("ok")
  BY <1>1, RefuseType DEF Reply
<1>2. CASE /\ p \in DOMAIN vol.link
           /\ vol.link[p] \in DOMAIN vol.store
           /\ Refuse(vol.store[vol.link[p]])
  <2>1. vol.store[vol.link[p]] \in Reply
    BY <1>2 DEF TypeOK, VolumeType, Reply
  <2> QED
    BY <1>2, <2>1, RefuseType
<1> QED
  BY <1>1, <1>2 DEF downloadHandler, listHandler, cdHandler

LEMMA MkdirType ==
  ASSUME TypeOK, NEW u \in User, NEW p \in InputPath, mkdirHandler(u, p)
  PROVE  TypeOK'
<1>1. VolumeType([vol EXCEPT !.dirs = @ \cup {p}])
  BY InputAssumption DEF TypeOK, VolumeType
<1>2. CASE Refuse("error")
  BY <1>2, RefuseErrorType
<1>3. CASE Answer(Result([vol EXCEPT !.dirs = @ \cup {p}], "ok"))
  BY <1>1, <1>3, AnswerType DEF Result, Answers
<1> QED
  BY <1>2, <1>3 DEF mkdirHandler

(* Taking the links and the rows of shares away. *)
LEMMA UnshareVolumeType ==
  ASSUME NEW v, VolumeType(v), NEW S, NEW rows \in SUBSET v.sharedata
  PROVE  VolumeType([Removed(v, S) EXCEPT !.sharedata = rows])
<1>1. VolumeType(Removed(v, S))
  BY RemovedType
<1>2. rows \subseteq ShareRow
  BY DEF VolumeType
<1> HIDE DEF Removed
<1> QED
  BY <1>1, <1>2 DEF VolumeType

LEMMA RemoveHandlerType ==
  ASSUME TypeOK, NEW u \in User, NEW p \in InputPath, removeHandler(u, p)
  PROVE  TypeOK'
<1> VolumeType(vol)
  BY DEF TypeOK
<1>1. CASE Refuse("error")
  BY <1>1, RefuseErrorType
<1>2. CASE RemovePlain(u, p)
  BY <1>2, RemoveType, AnswerType DEF RemovePlain
<1>3. CASE RemoveAsSharee(u, p)
  <2>1. VolumeType(RemoveReceived(vol, u, p))
    BY RemovedType, UnshareVolumeType DEF RemoveReceived
  <2> QED
    BY <1>1, <1>3, <2>1, AnswerType DEF RemoveAsSharee, Result, Answers
<1>4. CASE RemoveAsSharer(u, p)
  <2>1. PICK done : Answer(RemoveShared(vol, u, p, done))
    BY <1>4 DEF RemoveAsSharer
  <2> DEFINE w == [Removed(vol, ShareePaths(done)) EXCEPT !.sharedata = @ \ done]
  <2>2. VolumeType(w)
    BY RemovedType, UnshareVolumeType
  <2>3. RemoveShared(vol, u, p, done) \in {Result(w, "error"), remove(w, p, u)}
    BY DEF RemoveShared
  <2> HIDE DEF w
  <2>4. /\ VolumeType(RemoveShared(vol, u, p, done).vol)
        /\ RemoveShared(vol, u, p, done).reply \in Answers
    BY <2>2, <2>3, RemoveType DEF Result, Answers
  <2> QED
    BY <2>1, <2>4, AnswerType
<1> QED
  BY <1>1, <1>2, <1>3, <1>4 DEF removeHandler

LEMMA ShareVolumeType ==
  ASSUME NEW v, VolumeType(v), NEW u \in User, NEW sharee \in User,
         NEW p \in Path, p \in DOMAIN v.link, NEW perm \in {0, 1}, NEW at \in Path
  PROVE  VolumeType(Share(v, u, sharee, p, perm, at))
<1> DEFINE row == [sharer |-> u, sharee |-> sharee, origpath |-> p,
                   shareepath |-> at, perm |-> perm]
           w == [v EXCEPT !.link = With(@, at, @[p])]
<1>1. With(v.link, at, v.link[p]) \in [DOMAIN v.link \cup {at} -> Nat]
  BY WithType DEF VolumeType
<1>2. VolumeType(w)
  BY <1>1 DEF VolumeType
<1>3. v.sharedata \cup {row} \subseteq ShareRow
  BY DEF VolumeType, ShareRow
<1>4. VolumeType([w EXCEPT !.sharedata = v.sharedata \cup {row}])
  BY <1>2, <1>3 DEF VolumeType
<1> QED
  BY <1>4 DEF Share, VolumeType

LEMMA SharingType ==
  ASSUME TypeOK, NEW u \in User, NEW sharee \in User, NEW p \in InputPath,
         NEW perm \in {0, 1},
         \/ shareHandler(u, sharee, p, perm)
         \/ unshareHandler(u, sharee, p)
         \/ chpermHandler(u, sharee, p, perm)
  PROVE  TypeOK'
<1> VolumeType(vol) /\ p \in Path
  BY InputAssumption DEF TypeOK
<1> DEFINE rows == SharesWith(vol, u, sharee, p)
<1>1. CASE Refuse("error")
  BY <1>1, RefuseErrorType
<1>2. ASSUME NEW i \in 0 .. MaxNumber, p \in DOMAIN vol.link,
             Answer(Result(Share(vol, u, sharee, p, perm, ReceivedAs(sharee, p, i)), "ok"))
      PROVE  TypeOK'
  <2>1. VolumeType(Share(vol, u, sharee, p, perm, ReceivedAs(sharee, p, i)))
    BY <1>2, ReceivedAsType, ShareVolumeType
  <2> QED
    BY <1>2, <2>1, AnswerType DEF Result, Answers
<1>3. CASE Answer(Result([Removed(vol, ShareePaths(rows)) EXCEPT !.sharedata = @ \ rows],
                         "ok"))
  BY <1>3, RemovedType, UnshareVolumeType, AnswerType DEF Result, Answers
<1>4. CASE Answer(Result([vol EXCEPT !.sharedata =
                           {IF r \in rows THEN [r EXCEPT !.perm = perm] ELSE r : r \in @}],
                         "error"))
  <2>1. {IF r \in rows THEN [r EXCEPT !.perm = perm] ELSE r : r \in vol.sharedata}
          \subseteq ShareRow
    BY DEF VolumeType, ShareRow
  <2>2. VolumeType([vol EXCEPT !.sharedata =
                     {IF r \in rows THEN [r EXCEPT !.perm = perm] ELSE r : r \in @}])
    BY <2>1 DEF VolumeType
  <2> QED
    BY <1>4, <2>2, AnswerType DEF Result, Answers
<1> QED
  BY <1>1, <1>2, <1>3, <1>4 DEF shareHandler, unshareHandler, chpermHandler

LEMMA LifeType ==
  ASSUME TypeOK,
         \/ \E u \in User : Expire(u)
         \/ Reauth \/ Start \/ Shutdown \/ Crash \/ UNCHANGED vars
  PROVE  TypeOK'
<1>1. CASE Reauth
  BY <1>1, RefuseType DEF Reauth, Reply
<1>2. CASE Start
  <2>1. VolumeType([vol EXCEPT !.filecount = countfile])
    BY DEF TypeOK, VolumeType
  <2>2. VolumeType(vol')
    BY <1>2, <2>1 DEF Start
  <2> QED
    BY <1>2, <2>2 DEF Start, TypeOK, VolumeType
<1>3. CASE (\E u \in User : Expire(u)) \/ Shutdown \/ Crash \/ UNCHANGED vars
  BY <1>3 DEF Expire, Shutdown, Crash, vars, TypeOK, VolumeType
<1> QED
  BY <1>1, <1>2, <1>3

-----------------------------------------------------------------------------
LEMMA InitType == Init => TypeOK
<1>1. DOMAIN <<>> = {} /\ <<>> \in [{} -> Nat] /\ <<>> \in [{} -> Body]
  OBVIOUS
<1>2. VolumeType(EmptyVolume)
  BY <1>1 DEF EmptyVolume, VolumeType
<1>3. Init => VolumeType(vol)
  BY <1>2 DEF Init
<1>4. Init => up \in BOOLEAN
  BY DEF Init
<1>5. Init => userdata \subseteq User /\ Cookiemap \subseteq User /\ countfile \in Nat
  BY DEF Init
<1>6. Init => reply \in Reply
  BY DEF Init, Reply
<1> QED
  BY <1>3, <1>4, <1>5, <1>6 DEF TypeOK

(* A handler that ends the server has changed no more than table userdata. *)
LEMMA ExitsType ==
  ASSUME TypeOK, NEW u \in User, Exits(u)
  PROVE  TypeOK'
<1>1. Exit /\ userdata' \in {userdata, userdata \cup {u}}
  BY DEF Exits, signupExits, uploadExits
<1> QED
  BY <1>1 DEF Exit, TypeOK, Reply, VolumeType

LEMMA StepType ==
  ASSUME TypeOK, [Next \/ Crash \/ \E u \in User : Exits(u)]_vars
  PROVE  TypeOK'
<1>1. ASSUME NEW u \in User, Request(u) PROVE TypeOK'
  BY <1>1, AccountsType, UploadType, ReadType, MkdirType, RemoveHandlerType, SharingType
  DEF Request
<1>2. ASSUME NEW u \in User, Expire(u) PROVE TypeOK'
  BY <1>2, LifeType
<1>3. CASE Reauth \/ Start \/ Shutdown \/ Crash \/ UNCHANGED vars
  BY <1>3, LifeType
<1> QED
  BY <1>1, <1>2, <1>3, ExitsType DEF Next

(* Whatever requests are made, and also if the server is killed between    *)
(* them, every variable keeps its type: no row of filedata is left with 0  *)
(* owners, and every link, row and store file is of the form the handlers  *)
(* rely on.                                                                *)
THEOREM TypeCorrect == CrashSpec => []TypeOK
  BY InitType, StepType, PTL DEF CrashSpec

(* The same for the server that is only ever shut down by SIGINT.          *)
THEOREM TypeCorrectSpec == Spec => []TypeOK
<1>1. TypeOK /\ [Next]_vars => TypeOK'
  BY StepType
<1> QED
  BY InitType, <1>1, PTL DEF Spec

-----------------------------------------------------------------------------
(* Deduplication. *)

(* The number of the next store file is above that of every row: without   *)
(* it StoreNew could write over a file.                                    *)
FilesBelow(v) == \A k \in FilesIn(v.filedata) : k < v.filecount

StoreInv(v) ==
  VolumeType(v) /\ OneRowPerFile(v) /\ StoreMatchesTable(v) /\ FilesBelow(v)

(* From v to w, the files numbered so far are left alone or taken away.    *)
Kept(v, w) ==
  /\ v.filecount <= w.filecount
  /\ \A k \in DOMAIN w.store : k < v.filecount =>
       k \in DOMAIN v.store /\ w.store[k] = v.store[k]

-----------------------------------------------------------------------------
LEMMA KeptTransitive ==
  ASSUME NEW v, VolumeType(v), NEW w, VolumeType(w), NEW x, VolumeType(x),
         Kept(v, w), Kept(w, x)
  PROVE  Kept(v, x)
<1>1. v.filecount \in Nat /\ w.filecount \in Nat /\ x.filecount \in Nat
  BY DEF VolumeType
<1>2. DOMAIN x.store \subseteq Nat
  BY DEF VolumeType
<1> QED
  BY <1>1, <1>2 DEF Kept

(* Links, directories and shares do not matter. *)
LEMMA SameStore ==
  ASSUME NEW v, StoreInv(v), NEW w, VolumeType(w),
         w.store = v.store, w.filedata = v.filedata, w.filecount = v.filecount
  PROVE  StoreInv(w) /\ Kept(v, w)
<1>1. v.filecount \in Nat
  BY DEF StoreInv, VolumeType
<1> QED
  BY <1>1 DEF StoreInv, OneRowPerFile, StoreMatchesTable, FilesBelow, Kept

(* Nor does the number of owners: g gives each row a new one. *)
LEMMA Recounted ==
  ASSUME NEW v, StoreInv(v), NEW w, VolumeType(w),
         w.store = v.store, w.filecount = v.filecount, NEW g,
         \A r \in v.filedata : g[r].filename = r.filename /\ g[r].filehash = r.filehash,
         w.filedata = {g[r] : r \in v.filedata}
  PROVE  StoreInv(w) /\ Kept(v, w)
<1>1. FilesIn(w.filedata) = FilesIn(v.filedata)
  BY DEF FilesIn
<1>2. OneRowPerFile(w)
  BY DEF StoreInv, OneRowPerFile
<1>3. StoreMatchesTable(w)
  <2>1. StoreMatchesTable(v)
    BY DEF StoreInv
  <2>2. ASSUME NEW t \in w.filedata PROVE w.store[t.filename] = t.filehash
    <3>1. PICK r \in v.filedata : t = g[r]
      OBVIOUS
    <3>2. v.store[r.filename] = r.filehash
      BY <2>1 DEF StoreMatchesTable
    <3> QED
      BY <3>1, <3>2
  <2> QED
    BY <1>1, <2>1, <2>2 DEF StoreMatchesTable
<1>4. FilesBelow(w)
  BY <1>1 DEF StoreInv, FilesBelow
<1>5. v.filecount \in Nat
  BY DEF StoreInv, VolumeType
<1> QED
  BY <1>2, <1>3, <1>4, <1>5 DEF StoreInv, Kept

LEMMA ForgetStore ==
  ASSUME NEW v, StoreInv(v), NEW k
  PROVE  StoreInv(Forget(v, k)) /\ Kept(v, Forget(v, k))
<1> DEFINE w == Forget(v, k)
<1>1. VolumeType(w)
  BY ForgetType DEF StoreInv
<1>2. /\ w.store = Without(v.store, {k})
      /\ w.filedata = {r \in v.filedata : r.filename # k}
      /\ w.filecount = v.filecount
  BY DEF Forget, StoreInv, VolumeType
<1>3. /\ DOMAIN w.store = DOMAIN v.store \ {k}
      /\ \A j \in DOMAIN w.store : w.store[j] = v.store[j]
  BY <1>2 DEF Without, Restrict
<1>4. FilesIn(w.filedata) = FilesIn(v.filedata) \ {k}
  BY <1>2 DEF FilesIn
<1> HIDE DEF w
<1>5. OneRowPerFile(w)
  BY <1>2 DEF StoreInv, OneRowPerFile
<1>6. StoreMatchesTable(w)
  <2>1. FilesIn(w.filedata) \subseteq DOMAIN w.store
    BY <1>3, <1>4 DEF StoreInv, StoreMatchesTable
  <2>2. ASSUME NEW r \in w.filedata PROVE w.store[r.filename] = r.filehash
    <3>1. r \in v.filedata /\ r.filename \in DOMAIN w.store
      BY <1>2, <2>1 DEF FilesIn
    <3> QED
      BY <1>3, <3>1 DEF StoreInv, StoreMatchesTable
  <2>3. DOMAIN w.store \subseteq FilesIn(w.filedata) \cup {w.filecount}
    BY <1>2, <1>3, <1>4 DEF StoreInv, StoreMatchesTable
  <2> QED
    BY <2>1, <2>2, <2>3 DEF StoreMatchesTable
<1>7. FilesBelow(w)
  BY <1>2, <1>4 DEF StoreInv, FilesBelow
<1>8. Kept(v, w)
  <2>1. v.filecount \in Nat
    BY DEF StoreInv, VolumeType
  <2>2. v.filecount <= w.filecount
    BY <1>2, <2>1
  <2>3. \A j \in DOMAIN w.store : j \in DOMAIN v.store /\ w.store[j] = v.store[j]
    BY <1>3
  <2> QED
    BY <2>2, <2>3 DEF Kept
<1>9. StoreInv(w)
  BY <1>1, <1>5, <1>6, <1>7 DEF StoreInv
<1> QED
  BY <1>8, <1>9 DEF w

-----------------------------------------------------------------------------
(* remove and the two ways of uploadHelper. *)

LEMMA RemoveLinkStore ==
  ASSUME NEW v, StoreInv(v), NEW p \in DOMAIN v.link
  PROVE  StoreInv(RemoveLink(v, p).vol) /\ Kept(v, RemoveLink(v, p).vol)
<1> DEFINE k == v.link[p]
           left == Owners(v, k) - 1
           w == [v EXCEPT !.link = Without(@, {p})]
           g == [r \in v.filedata |->
                   IF r.filename = k THEN [r EXCEPT !.numowners = left] ELSE r]
           x == [w EXCEPT !.filedata = {g[r] : r \in v.filedata}]
<1>0. VolumeType(v)
  BY DEF StoreInv
<1>1. StoreInv(w) /\ Kept(v, w)
  <2>1. VolumeType(w)
    BY <1>0, UnlinkType
  <2>2. w.store = v.store /\ w.filedata = v.filedata /\ w.filecount = v.filecount
    BY <1>0 DEF VolumeType
  <2> QED
    BY <2>1, <2>2, SameStore
<1>2. CASE HasOwners(left)
  <2>1. RemoveLink(v, p).vol = x
    BY <1>0, <1>2 DEF RemoveLink, Result, VolumeType
  <2>2. VolumeType(x)
    BY <1>0, <2>1, RemoveLinkType
  <2>3. x.store = v.store /\ x.filecount = v.filecount /\ x.filedata = {g[r] : r \in v.filedata}
    BY <1>0 DEF VolumeType
  <2>4. \A r \in v.filedata : g[r].filename = r.filename /\ g[r].filehash = r.filehash
    BY <1>0 DEF VolumeType, FileRow
  <2> HIDE DEF g, x
  <2> QED
    BY <2>1, <2>2, <2>3, <2>4, Recounted
<1>3. CASE ~HasOwners(left) /\ k \notin DOMAIN v.store
  BY <1>1, <1>3 DEF RemoveLink, Result
<1>4. CASE ~HasOwners(left) /\ k \in DOMAIN v.store
  <2>1. RemoveLink(v, p).vol = Forget(w, k)
    BY <1>4 DEF RemoveLink, Result
  <2>2. StoreInv(Forget(w, k)) /\ Kept(w, Forget(w, k))
    BY <1>1, ForgetStore
  <2> QED
    BY <1>0, <1>1, <2>1, <2>2, KeptTransitive DEF StoreInv
<1> QED
  BY <1>2, <1>3, <1>4

LEMMA RemoveStore ==
  ASSUME NEW v, StoreInv(v), NEW p, NEW u
  PROVE  StoreInv(remove(v, p, u).vol) /\ Kept(v, remove(v, p, u).vol)
<1> DEFINE w == [v EXCEPT !.dirs = @ \ {p}]
<1>0. VolumeType(v)
  BY DEF StoreInv
<1>1. VolumeType(w)
  BY <1>0 DEF VolumeType
<1>2. w.store = v.store /\ w.filedata = v.filedata /\ w.filecount = v.filecount
  BY <1>0 DEF VolumeType
<1>3. StoreInv(w) /\ Kept(v, w)
  BY <1>1, <1>2, SameStore
<1>4. StoreInv(v) /\ Kept(v, v)
  BY <1>0, SameStore
<1>5. \/ remove(v, p, u).vol \in {v, w}
      \/ p \in DOMAIN v.link /\ remove(v, p, u) = RemoveLink(v, p)
  BY DEF remove, Result
<1> QED
  BY <1>3, <1>4, <1>5, RemoveLinkStore

LEMMA StoreNewStore ==
  ASSUME NEW v, StoreInv(v), NEW p \in Path, NEW b \in Body,
         ~\E r \in v.filedata : r.filehash = b
  PROVE  StoreInv(StoreNew(v, p, b).vol) /\ Kept(v, StoreNew(v, p, b).vol)
<1> DEFINE k == v.filecount
           row == [filename |-> k, filehash |-> b, numowners |-> 1]
           w == StoreNew(v, p, b).vol
<1>0. VolumeType(v) /\ k \in Nat
  BY DEF StoreInv, VolumeType
<1>1. VolumeType(w)
  BY <1>0, StoreNewType
<1>2. /\ w.store = With(v.store, k, b)
      /\ \/ w.filedata = v.filedata /\ w.filecount = k
         \/ w.filedata = v.filedata \cup {row} /\ w.filecount = k + 1
  BY <1>0 DEF StoreNew, Result, VolumeType
<1>3. /\ DOMAIN w.store = DOMAIN v.store \cup {k}
      /\ \A j \in DOMAIN w.store : w.store[j] = IF j = k THEN b ELSE v.store[j]
  BY <1>2 DEF With
<1>4. k \notin FilesIn(v.filedata)
  BY <1>0 DEF StoreInv, FilesBelow
<1>5. row.filename = k /\ row.filehash = b
  OBVIOUS
<1> HIDE DEF k, row, w
<1>6. \/ w.filecount = k /\ FilesIn(w.filedata) = FilesIn(v.filedata)
      \/ w.filecount = k + 1 /\ FilesIn(w.filedata) = FilesIn(v.filedata) \cup {k}
  BY <1>2, <1>5 DEF FilesIn
<1>7. OneRowPerFile(w)
  <2>1. \A r \in v.filedata : r.filename # k /\ r.filehash # b
    BY <1>4 DEF FilesIn
  <2> QED
    BY <1>2, <1>5, <2>1 DEF StoreInv, OneRowPerFile
<1>8. StoreMatchesTable(w)
  <2>1. FilesIn(w.filedata) \subseteq DOMAIN w.store
    BY <1>3, <1>6 DEF StoreInv, StoreMatchesTable
  <2>2. ASSUME NEW r \in v.filedata PROVE w.store[r.filename] = r.filehash
    <3>1. r.filename \in DOMAIN v.store /\ r.filename # k /\ v.store[r.filename] = r.filehash
      BY <1>4 DEF StoreInv, StoreMatchesTable, FilesIn
    <3> QED
      BY <1>3, <3>1
  <2>3. w.store[row.filename] = row.filehash
    BY <1>3, <1>5
  <2>4. DOMAIN w.store \subseteq FilesIn(w.filedata) \cup {w.filecount}
    BY <1>3, <1>6 DEF StoreInv, StoreMatchesTable, k
  <2>5. \A r \in w.filedata : w.store[r.filename] = r.filehash
    BY <1>2, <2>2, <2>3
  <2> QED
    BY <2>1, <2>4, <2>5 DEF StoreMatchesTable
<1>9. FilesBelow(w)
  <2>1. FilesIn(v.filedata) \subseteq Nat
    BY <1>0 DEF VolumeType, FilesIn, FileRow
  <2>2. \A j \in FilesIn(v.filedata) : j < k
    BY DEF StoreInv, FilesBelow, k
  <2> QED
    BY <1>0, <1>6, <2>1, <2>2 DEF FilesBelow
<1>10. Kept(v, w)
  BY <1>0, <1>2, <1>3 DEF Kept, VolumeType, k
<1>11. StoreInv(w)
  BY <1>1, <1>7, <1>8, <1>9 DEF StoreInv
<1> QED
  BY <1>10, <1>11 DEF w

LEMMA LinkExistingStore ==
  ASSUME NEW v, StoreInv(v), NEW p \in Path, NEW b,
         \E r \in v.filedata : r.filehash = b
  PROVE  StoreInv(LinkExisting(v, p, b).vol) /\ Kept(v, LinkExisting(v, p, b).vol)
<1> DEFINE row == CHOOSE r \in v.filedata : r.filehash = b
           g == [r \in v.filedata |->
                   IF r.filehash = b
                   THEN [r EXCEPT !.numowners = row.numowners + 1] ELSE r]
           w == LinkExisting(v, p, b).vol
<1>0. VolumeType(v)
  BY DEF StoreInv
<1>1. VolumeType(w)
  BY <1>0, LinkExistingType
<1>2. CASE ~CanCreate(v, p)
  BY <1>0, <1>2, SameStore DEF LinkExisting, Result
<1>3. CASE CanCreate(v, p)
  <2>1. /\ w.store = v.store /\ w.filecount = v.filecount
        /\ w.filedata = {g[r] : r \in v.filedata}
    BY <1>0, <1>3 DEF LinkExisting, Result, VolumeType
  <2>2. \A r \in v.filedata : g[r].filename = r.filename /\ g[r].filehash = r.filehash
    BY <1>0 DEF VolumeType, FileRow
  <2> HIDE DEF g, w
  <2>3. StoreInv(w) /\ Kept(v, w)
    BY <1>1, <2>1, <2>2, Recounted
  <2> QED
    BY <2>3 DEF w
<1> QED
  BY <1>2, <1>3

LEMMA UploadHelperStore ==
  ASSUME NEW v, StoreInv(v), NEW p \in Path, NEW u, NEW b \in Body
  PROVE  StoreInv(uploadHelper(v, p, u, b).vol) /\ Kept(v, uploadHelper(v, p, u, b).vol)
<1> DEFINE w == IF Stat(v, p) THEN remove(v, p, u).vol ELSE v
           x == uploadHelper(v, p, u, b).vol
<1>1. StoreInv(v) /\ Kept(v, v) /\ VolumeType(v)
  BY SameStore DEF StoreInv
<1>2. StoreInv(w) /\ Kept(v, w) /\ VolumeType(w)
  BY <1>1, RemoveStore DEF StoreInv
<1>3. CASE InShared(p, u)
  BY <1>1, <1>3 DEF uploadHelper, Result
<1>4. CASE ~InShared(p, u) /\ \E r \in w.filedata : r.filehash = b
  <2>1. x = LinkExisting(w, p, b).vol
    BY <1>4 DEF uploadHelper
  <2>2. StoreInv(x) /\ Kept(w, x)
    BY <1>2, <1>4, <2>1, LinkExistingStore
  <2> QED
    BY <1>1, <1>2, <2>2, KeptTransitive DEF StoreInv
<1>5. CASE ~InShared(p, u) /\ ~\E r \in w.filedata : r.filehash = b
  <2>1. x = StoreNew(w, p, b).vol
    BY <1>5 DEF uploadHelper
  <2>2. StoreInv(x) /\ Kept(w, x)
    BY <1>2, <1>5, <2>1, StoreNewStore
  <2> QED
    BY <1>1, <1>2, <2>2, KeptTransitive DEF StoreInv
<1> QED
  BY <1>3, <1>4, <1>5

LEMMA SharerUploadStore ==
  ASSUME NEW v, StoreInv(v), NEW sharer, NEW orig \in Path, NEW b \in Body, NEW done
  PROVE  /\ StoreInv(sharerUpload(v, sharer, orig, b, done).vol)
         /\ Kept(v, sharerUpload(v, sharer, orig, b, done).vol)
<1> DEFINE rows == SharesOf(v, sharer, orig)
           unlinked == Removed(v, ShareePaths(done))
           w == uploadHelper(unlinked, orig, sharer, b).vol
           x == Relink(w, orig, rows)
<1>0. VolumeType(v) /\ rows \in SUBSET ShareRow
  BY DEF StoreInv, VolumeType, SharesOf
<1>1. StoreInv(unlinked) /\ Kept(v, unlinked)
  <2>1. VolumeType(unlinked)
    BY <1>0, RemovedType
  <2>2. /\ unlinked.store = v.store /\ unlinked.filedata = v.filedata
        /\ unlinked.filecount = v.filecount
    BY <1>0 DEF Removed, VolumeType
  <2> QED
    BY <2>1, <2>2, SameStore
<1>2. StoreInv(w) /\ Kept(v, w)
  <2>1. StoreInv(w) /\ Kept(unlinked, w)
    BY <1>1, UploadHelperStore
  <2> QED
    BY <1>0, <1>1, <2>1, KeptTransitive DEF StoreInv
<1>3. CASE orig \in DOMAIN w.link
  <2>1. VolumeType(w)
    BY <1>2 DEF StoreInv
  <2>2. VolumeType(x)
    BY <1>0, <1>3, <2>1, RelinkType
  <2>3. x.store = w.store /\ x.filedata = w.filedata /\ x.filecount = w.filecount
    BY <2>1 DEF Relink, VolumeType
  <2>4. StoreInv(x) /\ Kept(w, x)
    BY <1>2, <2>2, <2>3, SameStore
  <2>5. StoreInv(x) /\ Kept(v, x)
    BY <1>0, <1>2, <2>1, <2>2, <2>4, KeptTransitive
  <2>6. sharerUpload(v, sharer, orig, b, done).vol \in {unlinked, w, x}
    BY DEF sharerUpload, Result
  <2> QED
    BY <1>1, <1>2, <2>5, <2>6
<1>4. CASE orig \notin DOMAIN w.link
  <2>1. sharerUpload(v, sharer, orig, b, done).vol \in {unlinked, w}
    BY <1>4 DEF sharerUpload, Result
  <2> QED
    BY <1>1, <1>2, <2>1
<1> QED
  BY <1>3, <1>4

-----------------------------------------------------------------------------
(* The invariant of the server: while it is down, filecount.txt holds the  *)
(* number that Start will read.                                            *)
DedupInv == TypeOK /\ StoreInv(vol) /\ (~up => countfile = vol.filecount)

(* What a request leaves. *)
Upheld == StoreInv(vol') /\ Kept(vol, vol')

LEMMA UploadUpholds ==
  ASSUME DedupInv, NEW u \in User, NEW p \in InputPath, NEW b \in Body, uploadHandler(u, p, b)
  PROVE  Upheld
<1> p \in Path /\ StoreInv(vol) /\ VolumeType(vol)
  BY InputAssumption DEF DedupInv, StoreInv
<1>1. CASE vol' = vol
  BY <1>1, SameStore DEF Upheld
<1>2. CASE UploadPlain(u, p, b)
  BY <1>2, UploadHelperStore DEF UploadPlain, Stored, Answer, Upheld
<1>3. CASE UploadAsSharer(u, p, b)
  BY <1>3, SharerUploadStore DEF UploadAsSharer, Stored, Answer, Upheld
<1>4. ASSUME NEW r \in vol.sharedata, NEW done,
             Stored(Result(sharerUpload(vol, r.sharer, r.origpath, b, done).vol, "error"))
      PROVE  Upheld
  <2>1. r.origpath \in Path
    BY DEF VolumeType, ShareRow
  <2> QED
    BY <1>4, <2>1, SharerUploadStore DEF Stored, Result, Answer, Upheld
<1>5. CASE UploadAsSharee(u, p, b)
  BY <1>1, <1>4, <1>5 DEF UploadAsSharee, Refuse
<1> QED
  BY <1>1, <1>2, <1>3, <1>5 DEF uploadHandler, Refuse

LEMMA RemoveUpholds ==
  ASSUME DedupInv, NEW u \in User, NEW p \in InputPath, removeHandler(u, p)
  PROVE  Upheld
<1> StoreInv(vol) /\ VolumeType(vol)
  BY DEF DedupInv, StoreInv
<1>1. CASE vol' = vol
  BY <1>1, SameStore DEF Upheld
<1>2. CASE RemovePlain(u, p)
  BY <1>2, RemoveStore DEF RemovePlain, Answer, Upheld
<1>3. ASSUME NEW S, NEW rows \in SUBSET vol.sharedata
      PROVE  LET w == [Removed(vol, S) EXCEPT !.sharedata = rows]
             IN  StoreInv(w) /\ Kept(vol, w)
  <2> DEFINE w == [Removed(vol, S) EXCEPT !.sharedata = rows]
  <2>1. VolumeType(w)
    BY UnshareVolumeType
  <2>2. w.store = vol.store /\ w.filedata = vol.filedata /\ w.filecount = vol.filecount
    BY DEF Removed, VolumeType
  <2> QED
    BY <2>1, <2>2, SameStore
<1>4. CASE RemoveAsSharee(u, p)
  <2>1. CASE vol' = RemoveReceived(vol, u, p)
    BY <1>3, <2>1, RemovedType DEF RemoveReceived, Upheld
  <2> QED
    BY <1>1, <1>4, <2>1 DEF RemoveAsSharee, Answer, Refuse, Result
<1>5. CASE RemoveAsSharer(u, p)
  <2>1. PICK done : vol' = RemoveShared(vol, u, p, done).vol
    BY <1>5 DEF RemoveAsSharer, Answer
  <2> DEFINE w == [Removed(vol, ShareePaths(done)) EXCEPT !.sharedata = @ \ done]
             x == remove(w, p, u).vol
  <2>2. StoreInv(w) /\ Kept(vol, w)
    BY <1>3, RemovedType
  <2>3. StoreInv(x) /\ Kept(w, x)
    BY <2>2, RemoveStore
  <2>4. StoreInv(x) /\ Kept(vol, x)
    BY <2>2, <2>3, KeptTransitive DEF StoreInv
  <2>5. vol' \in {w, x}
    BY <2>1 DEF RemoveShared, Result
  <2> QED
    BY <2>2, <2>4, <2>5 DEF Upheld
<1> QED
  BY <1>1, <1>2, <1>4, <1>5 DEF removeHandler, Refuse

(* A step that writes neither table filedata nor filestore. *)
LEMMA ElsewhereUpholds ==
  ASSUME DedupInv, TypeOK', vol'.store = vol.store, vol'.filedata = vol.filedata,
         vol'.filecount = vol.filecount
  PROVE  Upheld
<1>1. StoreInv(vol) /\ VolumeType(vol')
  BY DEF DedupInv, TypeOK
<1> QED
  BY <1>1, SameStore DEF Upheld

LEMMA RequestUpholds ==
  ASSUME DedupInv, TypeOK', NEW u \in User, Request(u)
  PROVE  Upheld
<1>1. VolumeType(vol)
  BY DEF DedupInv, TypeOK
<1>2. ASSUME NEW ok, signupHandler(u, ok) \/ authenticateHandler(u, ok) PROVE Upheld
  BY <1>1, <1>2, ElsewhereUpholds
  DEF signupHandler, authenticateHandler, Refuse, VolumeType
<1>3. CASE pwdHandler(u)
  BY <1>3, ElsewhereUpholds DEF pwdHandler, Refuse
<1>4. ASSUME NEW p \in InputPath,
             downloadHandler(u, p) \/ listHandler(u, p) \/ cdHandler(u, p)
      PROVE  Upheld
  BY <1>4, ElsewhereUpholds DEF downloadHandler, listHandler, cdHandler, Refuse
<1>5. ASSUME NEW p \in InputPath, mkdirHandler(u, p) PROVE Upheld
  BY <1>1, <1>5, ElsewhereUpholds DEF mkdirHandler, Refuse, Answer, Result, VolumeType
<1>6. ASSUME NEW p \in InputPath, NEW sharee \in User, NEW perm \in {0, 1},
             shareHandler(u, sharee, p, perm)
      PROVE  Upheld
  BY <1>1, <1>6, ElsewhereUpholds DEF shareHandler, Share, Refuse, Answer, Result, VolumeType
<1>7. ASSUME NEW p \in InputPath, NEW sharee \in User, unshareHandler(u, sharee, p)
      PROVE  Upheld
  BY <1>1, <1>7, ElsewhereUpholds DEF unshareHandler, Removed, Refuse, Answer, Result, VolumeType
<1>8. ASSUME NEW p \in InputPath, NEW sharee \in User, NEW perm \in {0, 1},
             chpermHandler(u, sharee, p, perm)
      PROVE  Upheld
  BY <1>1, <1>8, ElsewhereUpholds DEF chpermHandler, Refuse, Answer, Result, VolumeType
<1> QED
  BY <1>2, <1>3, <1>4, <1>5, <1>6, <1>7, <1>8, UploadUpholds, RemoveUpholds DEF Request

(* Requests are served while the server is up, and leave it up. *)
LEMMA RequestUp ==
  ASSUME NEW u \in User, Request(u)
  PROVE  up /\ up' = up
<1> USE DEF Answer, Refuse
<1>1. ASSUME NEW ok, signupHandler(u, ok) \/ authenticateHandler(u, ok) \/ pwdHandler(u)
      PROVE  up /\ up' = up
  BY <1>1 DEF signupHandler, authenticateHandler, pwdHandler
<1>2. ASSUME NEW p, downloadHandler(u, p) \/ listHandler(u, p) \/ cdHandler(u, p)
      PROVE  up /\ up' = up
  BY <1>2 DEF downloadHandler, listHandler, cdHandler
<1>3. ASSUME NEW p, NEW b, uploadHandler(u, p, b) PROVE up /\ up' = up
  BY <1>3 DEF uploadHandler, UploadPlain, UploadAsSharer, UploadAsSharee, Stored
<1>4. ASSUME NEW p, mkdirHandler(u, p) \/ removeHandler(u, p) PROVE up /\ up' = up
  BY <1>4 DEF mkdirHandler, removeHandler, RemovePlain, RemoveAsSharee, RemoveAsSharer
<1>5. ASSUME NEW p, NEW sharee, NEW perm,
             \/ shareHandler(u, sharee, p, perm)
             \/ unshareHandler(u, sharee, p)
             \/ chpermHandler(u, sharee, p, perm)
      PROVE  up /\ up' = up
  BY <1>5 DEF shareHandler, unshareHandler, chpermHandler
<1> QED
  BY <1>1, <1>2, <1>3, <1>4, <1>5 DEF Request

(* Start reads the number back; Shutdown has saved it. *)
LEMMA StepUpholds ==
  ASSUME DedupInv, [Next]_vars
  PROVE  DedupInv' /\ Upheld
<1> DEFINE Saved == ~up => countfile = vol.filecount
<1>1. TypeOK' /\ VolumeType(vol) /\ Saved
  BY StepType DEF DedupInv, TypeOK
<1>2. ASSUME \E u \in User : Request(u) PROVE Upheld /\ Saved'
  <2>1. up' = up /\ up
    BY <1>2, RequestUp
  <2>2. Saved'
    BY <2>1
  <2>3. Upheld
    BY <1>1, <1>2, RequestUpholds
  <2> QED
    BY <2>2, <2>3
<1>3. ASSUME Start PROVE Upheld /\ Saved'
  <2>1. vol' = [vol EXCEPT !.filecount = vol.filecount]
    BY <1>1, <1>3 DEF Start
  <2>2. /\ vol'.store = vol.store /\ vol'.filedata = vol.filedata
        /\ vol'.filecount = vol.filecount
    BY <1>1, <2>1 DEF VolumeType
  <2>3. Saved'
    BY <1>3 DEF Start
  <2>4. Upheld
    BY <1>1, <2>2, ElsewhereUpholds
  <2> QED
    BY <2>3, <2>4
<1>4. ASSUME (\E u \in User : Expire(u)) \/ Reauth \/ UNCHANGED vars
      PROVE  Upheld /\ Saved'
  <2>1. vol' = vol /\ up' = up /\ countfile' = countfile
    BY <1>4 DEF Expire, Reauth, Refuse, vars
  <2>2. Saved'
    BY <1>1, <2>1
  <2>3. Upheld
    BY <1>1, <2>1, ElsewhereUpholds
  <2> QED
    BY <2>2, <2>3
<1>5. ASSUME Shutdown PROVE Upheld /\ Saved'
  <2>1. vol' = vol /\ countfile' = vol.filecount
    BY <1>5 DEF Shutdown
  <2>2. Saved'
    BY <2>1
  <2>3. Upheld
    BY <1>1, <2>1, ElsewhereUpholds
  <2> QED
    BY <2>2, <2>3
<1> HIDE DEF Saved
<1>6. Upheld /\ Saved'
  BY <1>2, <1>3, <1>4, <1>5 DEF Next
<1>7. StoreInv(vol')
  BY <1>6 DEF Upheld
<1> QED
  BY <1>1, <1>6, <1>7 DEF DedupInv, Saved

LEMMA InitUpholds == Init => DedupInv
<1>1. Init => TypeOK
  BY InitType
<1>2. Init => StoreInv(vol)
  <2>1. DOMAIN <<>> = {}
    OBVIOUS
  <2>2. ASSUME Init
        PROVE  VolumeType(vol) /\ vol.filedata = {} /\ DOMAIN vol.store = {}
    BY <1>1, <2>1, <2>2 DEF Init, EmptyVolume, TypeOK
  <2> QED
    BY <2>2 DEF StoreInv, OneRowPerFile, StoreMatchesTable, FilesBelow, FilesIn
<1>3. Init => countfile = vol.filecount
  BY DEF Init, EmptyVolume
<1> QED
  BY <1>1, <1>2, <1>3 DEF DedupInv

LEMMA Invariance == Spec => []DedupInv
<1>1. DedupInv /\ [Next]_vars => DedupInv'
  BY StepUpholds
<1> QED
  BY InitUpholds, <1>1, PTL DEF Spec

-----------------------------------------------------------------------------
(* README:33, "preventing any of the same files from existing within       *)
(* filestore": no content and no file has two rows, for any number of      *)
(* users and any sequence of uploads, removals and shares.                 *)
THEOREM Deduplicated == Spec => []Dedup
<1>1. DedupInv => Dedup
  BY DEF DedupInv, StoreInv, Dedup
<1> QED
  BY Invariance, <1>1, PTL

(* filestore holds exactly what filedata says it does, but for one file    *)
(* whose link could not be made.                                           *)
THEOREM TablesAgree == Spec => []StoreAgrees
<1>1. DedupInv => StoreAgrees
  BY DEF DedupInv, StoreInv, StoreAgrees
<1> QED
  BY Invariance, <1>1, PTL

(* The next file number is unused, also across a shutdown and a start.     *)
THEOREM NumbersFresh == Spec => []NumberFresh
<1>1. DedupInv => NumberFresh
  BY DEF DedupInv, StoreInv, FilesBelow, NumberFresh
<1> QED
  BY Invariance, <1>1, PTL

LEMMA FileKept ==
  ASSUME DedupInv, [Next]_vars, NEW k \in FilesIn(vol.filedata) \cap FilesIn(vol'.filedata)
  PROVE  vol'.store[k] = vol.store[k]
<1>1. StoreInv(vol) /\ StoreInv(vol') /\ Kept(vol, vol')
  BY StepUpholds DEF DedupInv, Upheld
<1>2. k < vol.filecount
  BY <1>1 DEF StoreInv, FilesBelow
<1>3. k \in DOMAIN vol'.store
  BY <1>1 DEF StoreInv, StoreMatchesTable
<1> QED
  BY <1>1, <1>2, <1>3 DEF Kept

(* No step writes over a store file that a row names: what one user        *)
(* uploads is never replaced by another's content of the same file number. *)
THEOREM FilesImmutable == Spec => StoreImmutable
<1>1. DedupInv /\ [Next]_vars =>
        [\A k \in FilesIn(vol.filedata) \cap FilesIn(vol'.filedata) :
           vol'.store[k] = vol.store[k]]_vars
  BY FileKept
<1> QED
  BY Invariance, <1>1, PTL DEF Spec, StoreImmutable
=============================================================================
