------------------------------ MODULE Dropbox ------------------------------
(***************************************************************************)
(* The server of server/server.go: one action per handler.  rpc.request    *)
(* runs every handler under one mutex, so a handler is one step here;      *)
(* module RpcServer shows what that mutex does and does not give.          *)
(*                                                                         *)
(* Every handler but authenticate and signup first calls checkCookie; a    *)
(* request that fails it is the action Reauth, and the other actions are   *)
(* requests that pass it.                                                  *)
(***************************************************************************)
EXTENDS Volume

CONSTANTS
  InputPath,   \* the paths clients name in requests
  NameLength,  \* length of a user's name in characters
  MaxNumber,   \* bound: names tried for a shared file
  MaxFilecount \* bound: the largest value filecount takes

ASSUME InputAssumption ==
  /\ InputPath \subseteq Path
  /\ \A p \in InputPath, i \in 1 .. MaxNumber : Numbered(i, Base(p)) \in Name
  /\ NameLength \in [User -> Nat]
  /\ MaxNumber \in Nat
  /\ MaxFilecount \in Nat

VARIABLES
  vol,        \* the volume; its filecount is the global variable of that name
  userdata,   \* table userdata: the names signed up
  Cookiemap,  \* the users whose entry in Cookiemap has not expired
  countfile,  \* the number in filecount.txt
  up,         \* the server is running
  reply       \* how the client reads the last answer; a body after download

vars == <<vol, userdata, Cookiemap, countfile, up, reply>>

Reply == {"ok", "error", "reauth"} \cup Body

-----------------------------------------------------------------------------
(* The tables and the store as REINITIALIZE_ALL.sh leaves them. *)

EmptyVolume == [dirs |-> {}, link |-> <<>>, store |-> <<>>,
                filedata |-> {}, sharedata |-> {}, filecount |-> 1]

Init ==
  /\ vol = EmptyVolume
  /\ userdata = {}
  /\ Cookiemap = {}
  /\ countfile = 1
  /\ up = FALSE
  /\ reply = "ok"

Answer(res) ==
  /\ vol' = res.vol
  /\ reply' = res.reply
  /\ UNCHANGED <<userdata, Cookiemap, countfile, up>>

Refuse(r) ==
  /\ reply' = r
  /\ UNCHANGED <<vol, userdata, Cookiemap, countfile, up>>

checkCookie(u) == u \in userdata /\ u \in Cookiemap

-----------------------------------------------------------------------------
(* Accounts and sessions. *)

\* An os.Exit(1): the finalizer does not run, and the client gets no answer.
Exit ==
  /\ up' = FALSE
  /\ Cookiemap' = {}
  /\ reply' = "error"
  /\ UNCHANGED <<vol, countfile>>

\* The length test is the source's own conjunction.
SignupRefused(u, longPassword) ==
  \/ u \in userdata
  \/ NameLength[u] < 5 /\ NameLength[u] > 16
  \/ ~longPassword

signupHandler(u, longPassword) ==
  /\ up
  /\ IF SignupRefused(u, longPassword)
     THEN Refuse("error")
     ELSE /\ CanCreate(vol, Root(u))
          /\ userdata' = userdata \cup {u}
          /\ vol' = [vol EXCEPT !.dirs = @ \cup {Root(u), SharedDir(u)}]
          /\ reply' = "ok"
          /\ UNCHANGED <<Cookiemap, countfile, up>>

\* The home cannot be made, when the account is already entered.
signupExits(u, longPassword) ==
  /\ up
  /\ ~SignupRefused(u, longPassword)
  /\ ~CanCreate(vol, Root(u))
  /\ userdata' = userdata \cup {u}
  /\ Exit

authenticateHandler(u, rightPassword) ==
  /\ up
  /\ IF u \in userdata /\ rightPassword
     THEN /\ Cookiemap' = Cookiemap \cup {u}
          /\ reply' = "ok"
          /\ UNCHANGED <<vol, userdata, countfile, up>>
     ELSE Refuse("error")

\* 1000 seconds pass since u authenticated.
Expire(u) ==
  /\ u \in Cookiemap
  /\ Cookiemap' = Cookiemap \ {u}
  /\ UNCHANGED <<vol, userdata, countfile, up, reply>>

\* Any request with a cookie that is unknown, replaced or expired.
Reauth == up /\ Refuse("reauth")

-----------------------------------------------------------------------------
(* Files and directories. *)

\* The handler's answer, within the bound on filecount.
Stored(res) == res.vol.filecount <= MaxFilecount /\ Answer(res)

UploadPlain(u, p, b) ==
  /\ isSharedFile(vol, p) = ""
  /\ Stored(uploadHelper(vol, p, u, b))

\* done: the rows whose links were taken away; see Unlinkable.
UploadAsSharer(u, p, b) ==
  /\ isSharedFile(vol, p) = "sharer"
  /\ \E done \in Unlinkable(vol, SharesOf(vol, u, p)) :
       Stored(sharerUpload(vol, u, p, b, done))

\* Slip: any sharee may write.
anyPerms(u, p) == {1 : r \in {s \in vol.sharedata : s.shareepath = p /\ s.sharee = u}}

\* The permissions sharee u may be found to hold at path p.
getPerms(u, p) == {r.perm : r \in {s \in vol.sharedata : s.shareepath = p /\ s.sharee = u}}

\* Whatever sharerUpload returned, the answer is "File Shared!".
UploadAsSharee(u, p, b) ==
  /\ isSharedFile(vol, p) = "sharee"
  /\ \/ 0 \in getPerms(u, p) /\ Refuse("error")
     \/ /\ 1 \in getPerms(u, p)
        /\ \E r \in {s \in vol.sharedata : s.shareepath = p} :
             \E done \in Unlinkable(vol, SharesOf(vol, r.sharer, r.origpath)) :
               Stored(Result(sharerUpload(vol, r.sharer, r.origpath, b, done).vol, "error"))

uploadHandler(u, p, b) ==
  /\ up /\ checkCookie(u)
  /\ IF ~checkpath(p, u) THEN Refuse("error")
     ELSE UploadPlain(u, p, b) \/ UploadAsSharer(u, p, b) \/ UploadAsSharee(u, p, b)

\* A path of another sharee: getPerms finds no row.
uploadExits(u, p) ==
  /\ up /\ checkCookie(u)
  /\ checkpath(p, u)
  /\ isSharedFile(vol, p) = "sharee" /\ getPerms(u, p) = {}
  /\ Exit /\ UNCHANGED userdata

downloadHandler(u, p) ==
  /\ up /\ checkCookie(u)
  /\ Refuse(IF /\ checkpath(p, u)
               /\ p \in DOMAIN vol.link
               /\ vol.link[p] \in DOMAIN vol.store
            THEN vol.store[vol.link[p]] ELSE "error")

\* list, pwd and cd answer from the tree and change nothing on the server.
listHandler(u, p) ==
  /\ up /\ checkCookie(u)
  /\ Refuse(IF checkpath(p, u) /\ p \in vol.dirs THEN "ok" ELSE "error")

pwdHandler(u) == up /\ checkCookie(u) /\ Refuse("ok")

\* Slip: cd goes wherever there is something.
cdUnchecked(u, p) ==
  /\ up /\ checkCookie(u)
  /\ Refuse(IF ~IsNotExist(vol, p) THEN "ok" ELSE "error")

cdHandler(u, p) ==
  /\ up /\ checkCookie(u)
  /\ Refuse(IF checkpath(p, u) /\ ~IsNotExist(vol, p) THEN "ok" ELSE "error")

mkdirHandler(u, p) ==
  /\ up /\ checkCookie(u)
  /\ IF checkpath(p, u) /\ CanCreate(vol, p)
     THEN Answer(Result([vol EXCEPT !.dirs = @ \cup {p}], "ok"))
     ELSE Refuse("error")

RemovePlain(u, p) ==
  /\ isSharedFile(vol, p) = ""
  /\ Answer(remove(vol, p, u))

\* Slip: a sharee's link is removed as an owner's is.
RemoveReceivedCounted(v, u, p) ==
  [remove(v, p, u).vol EXCEPT
     !.sharedata = {r \in @ : ~(r.sharee = u /\ r.shareepath = p)}]

\* A sharee takes its own link and row away; the count of owners stays.
RemoveReceived(v, u, p) ==
  [Removed(v, {p}) EXCEPT
     !.sharedata = {r \in @ : ~(r.sharee = u /\ r.shareepath = p)}]

\* Slip: rows are deleted, the sharees' links stay.
RemoveSharedRows(v, u, p, done) ==
  remove([v EXCEPT !.sharedata = @ \ SharesOf(v, u, p)], p, u)

\* The sharer unlinks and forgets each sharee, then removes the file.
RemoveShared(v, u, p, done) ==
  LET w == [Removed(v, ShareePaths(done)) EXCEPT !.sharedata = @ \ done]
  IN  IF done # SharesOf(v, u, p) THEN Result(w, "error") ELSE remove(w, p, u)

RemoveAsSharee(u, p) ==
  /\ isSharedFile(vol, p) = "sharee"
  /\ IF CanRemove(vol, p) THEN Answer(Result(RemoveReceived(vol, u, p), "ok"))
     ELSE Refuse("error")

RemoveAsSharer(u, p) ==
  /\ isSharedFile(vol, p) = "sharer"
  /\ \E done \in Unlinkable(vol, SharesOf(vol, u, p)) :
       Answer(RemoveShared(vol, u, p, done))

removeHandler(u, p) ==
  /\ up /\ checkCookie(u)
  /\ IF ~checkpath(p, u) \/ IsNotExist(vol, p)
     THEN Refuse("error")
     ELSE RemovePlain(u, p) \/ RemoveAsSharee(u, p) \/ RemoveAsSharer(u, p)

-----------------------------------------------------------------------------
(* Sharing. *)

ReceivedAs(sharee, p, i) == Append(SharedDir(sharee), Candidate(i, Base(p)))

\* i numbers the first candidate name that does not exist.
FirstFree(v, sharee, p, i) ==
  /\ IsNotExist(v, ReceivedAs(sharee, p, i))
  /\ \A j \in 0 .. i - 1 : ~IsNotExist(v, ReceivedAs(sharee, p, j))

MayShare(u, sharee, p) ==
  /\ checkpath(p, u)
  /\ u # sharee
  /\ sharee \in userdata
  /\ ~IsNotExist(vol, p)
  /\ ~InShared(p, u)
  /\ SharesWith(vol, u, sharee, p) = {}

Share(v, u, sharee, p, perm, at) ==
  [v EXCEPT !.link = With(@, at, @[p]),
            !.sharedata = @ \cup {[sharer |-> u, sharee |-> sharee, origpath |-> p,
                                   shareepath |-> at, perm |-> perm]}]

\* Where a file has the place of the sharee's Shared_with_me, no candidate is
\* free: the loop does not end, and the server answers nobody until a Crash.
shareHandler(u, sharee, p, perm) ==
  /\ up /\ checkCookie(u)
  /\ IF ~MayShare(u, sharee, p) THEN Refuse("error")
     ELSE \E i \in 0 .. MaxNumber :
            /\ FirstFree(vol, sharee, p, i)
            /\ LET at == ReceivedAs(sharee, p, i)
               IN  IF p \in DOMAIN vol.link /\ CanCreate(vol, at)
                   THEN Answer(Result(Share(vol, u, sharee, p, perm, at), "ok"))
                   ELSE Refuse("error")

unshareHandler(u, sharee, p) ==
  /\ up /\ checkCookie(u)
  /\ LET rows == SharesWith(vol, u, sharee, p)
     IN  IF /\ checkpath(p, u)
            /\ u # sharee
            /\ sharee \in userdata
            /\ rows # {}
            /\ AllRemovable(vol, rows)
         THEN Answer(Result([Removed(vol, ShareePaths(rows))
                               EXCEPT !.sharedata = @ \ rows], "ok"))
         ELSE Refuse("error")

\* On success the answer is "Permissions updated", which is not "".
chpermHandler(u, sharee, p, perm) ==
  /\ up /\ checkCookie(u)
  /\ LET rows == SharesWith(vol, u, sharee, p)
     IN  IF checkpath(p, u) /\ ~InShared(p, u) /\ ~IsNotExist(vol, p) /\ rows # {}
         THEN Answer(Result([vol EXCEPT !.sharedata =
                               {IF r \in rows THEN [r EXCEPT !.perm = perm] ELSE r
                                  : r \in @}], "error"))
         ELSE Refuse("error")
-----------------------------------------------------------------------------
(* The server's life. *)

\* main reads filecount.txt; Cookiemap starts empty.
Start ==
  /\ ~up
  /\ up' = TRUE
  /\ vol' = [vol EXCEPT !.filecount = countfile]
  /\ Cookiemap' = {}
  /\ UNCHANGED <<userdata, countfile, reply>>

\* Slip: no finalizer registered.
ShutdownUnsaved ==
  /\ up
  /\ up' = FALSE
  /\ Cookiemap' = {}
  /\ UNCHANGED <<vol, userdata, countfile, reply>>

\* SIGINT: the finalizer writes filecount.txt.
Shutdown ==
  /\ up
  /\ up' = FALSE
  /\ countfile' = vol.filecount
  /\ Cookiemap' = {}
  /\ UNCHANGED <<vol, userdata, reply>>

\* The process dies between two handlers without running its finalizer.  So it
\* does when "", "." or ".." signs up, whom the model does not follow further.
Crash ==
  /\ up
  /\ up' = FALSE
  /\ Cookiemap' = {}
  /\ UNCHANGED <<vol, userdata, countfile, reply>>

\* Requests made in the name of user u.
Request(u) ==
  \/ \E ok \in BOOLEAN : signupHandler(u, ok) \/ authenticateHandler(u, ok)
  \/ pwdHandler(u)
  \/ \E p \in InputPath :
       \/ \E b \in Body : uploadHandler(u, p, b)
       \/ downloadHandler(u, p)
       \/ listHandler(u, p)
       \/ cdHandler(u, p)
       \/ mkdirHandler(u, p)
       \/ removeHandler(u, p)
       \/ \E sharee \in User, perm \in {0, 1} :
            shareHandler(u, sharee, p, perm) \/ chpermHandler(u, sharee, p, perm)
       \/ \E sharee \in User : unshareHandler(u, sharee, p)

Next ==
  \/ \E u \in User : Request(u) \/ Expire(u)
  \/ Reauth
  \/ Start
  \/ Shutdown

Spec == Init /\ [][Next]_vars

\* Handlers that end the server, possible only where names are not apart.
Exits(u) ==
  \/ \E ok \in BOOLEAN : signupExits(u, ok)
  \/ \E p \in InputPath : uploadExits(u, p)

\* The same server, which may also be killed or end itself.
CrashSpec == Init /\ [][Next \/ Crash \/ \E u \in User : Exits(u)]_vars
=============================================================================
