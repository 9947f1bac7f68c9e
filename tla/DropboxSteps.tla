---------------------------- MODULE DropboxSteps ----------------------------
(***************************************************************************)
(* The handlers of module Dropbox with their changes of the disk one by    *)
(* one.  Links, store files, directories and rows are changed by separate  *)
(* calls, so that a kill, or an os.Exit(1) of the handler's own at an      *)
(* error of the database, can come between any two of them.                *)
(*                                                                         *)
(* No other handler runs meanwhile, hence what is left to do is known when *)
(* a handler begins: the stages, the volumes it goes through.  A single    *)
(* write, rename or statement is taken to be atomic.                       *)
(***************************************************************************)
EXTENDS DropboxSafety
Seqs == INSTANCE SequencesExt

VARIABLE todo   \* the volumes the handler that runs has yet to go through

stepVars == <<vol, userdata, Cookiemap, countfile, up, reply, todo>>

LastStage(v, stages) == IF stages = <<>> THEN v ELSE Seqs!Last(stages)

-----------------------------------------------------------------------------
(* Stages of the helpers. *)

Unlinked(v, S) == [v EXCEPT !.link = Without(@, S)]

\* Slip: the store file goes before the link that leads to it.
FileBeforeLink(v, p) ==
  IF HasOwners(Owners(v, v.link[p]) - 1)
  THEN <<Unlinked(v, {p}), RemoveLink(v, p).vol>>
  ELSE <<[v EXCEPT !.store = Without(@, {v.link[p]})], RemoveLink(v, p).vol>>

\* The link, then the count; or the link, the store file and its row.
RemoveLinkStages(v, p) ==
  LET k == v.link[p]
      w == Unlinked(v, {p})
      done == RemoveLink(v, p).vol
  IN  IF HasOwners(Owners(v, k) - 1) THEN <<w, done>>
      ELSE IF k \notin DOMAIN v.store THEN <<w>>
      ELSE <<w, [w EXCEPT !.store = Without(@, {k})], done>>

removeStages(v, p, u) ==
  IF checkpath(p, u) /\ p \in DOMAIN v.link THEN RemoveLinkStages(v, p)
  ELSE IF remove(v, p, u).vol = v THEN <<>> ELSE <<remove(v, p, u).vol>>

\* The store file, its link, its row.
StoreNewStages(v, p, b) ==
  LET w == [v EXCEPT !.store = With(@, v.filecount, b)]
  IN  IF ~CanCreate(v, p) THEN <<w>>
      ELSE <<w, [w EXCEPT !.link = With(@, p, v.filecount)], StoreNew(v, p, b).vol>>

\* The link, then the count.
LinkExistingStages(v, p, b) ==
  LET done == LinkExisting(v, p, b).vol
  IN  IF ~CanCreate(v, p) THEN <<>>
      ELSE <<[v EXCEPT !.link = With(@, p, done.link[p])], done>>

uploadHelperStages(v, p, u, b) ==
  IF InShared(p, u) THEN <<>>
  ELSE LET removal == IF Stat(v, p) THEN removeStages(v, p, u) ELSE <<>>
           w == LastStage(v, removal)
       IN  removal \o IF \E r \in w.filedata : r.filehash = b
                      THEN LinkExistingStages(w, p, b)
                      ELSE StoreNewStages(w, p, b)

-----------------------------------------------------------------------------
(* Stages of the loops over the sharees of a file.  rows is a sequence of  *)
(* rows of sharedata, in the order in which the query returns them.        *)

Orders(rows) == Seqs!SetToSeqs(rows)
FirstRows(rows, n) == {rows[i] : i \in 1 .. n}

\* The rows a loop gets through before it meets a path it cannot remove.
Reached(v, rows) ==
  CHOOSE n \in 0 .. Len(rows) :
    /\ \A i \in 1 .. n : CanRemove(v, rows[i].shareepath)
    /\ n = Len(rows) \/ ~CanRemove(v, rows[n + 1].shareepath)

UnlinkStages(v, rows) ==
  [i \in 1 .. Reached(v, rows) |-> Removed(v, ShareePaths(FirstRows(rows, i)))]

\* Slip: the last sharee is forgotten.
RelinkAllButLast(v, orig, rows) ==
  [i \in 1 .. Len(rows) - 1 |-> Relink(v, orig, FirstRows(rows, i))]
RelinkStages(v, orig, rows) ==
  [i \in 1 .. Len(rows) |-> Relink(v, orig, FirstRows(rows, i))]

\* Slip: the sharees' links are replaced after the upload.
RelinkAfterwards(v, sharer, orig, b, rows) ==
  LET upload == uploadHelperStages(v, orig, sharer, b)
      w == LastStage(v, upload)
  IN  upload \o IF orig \notin DOMAIN w.link THEN <<>>
                ELSE [i \in 1 .. Len(rows) |->
                        Relink(Unlinked(w, ShareePaths(FirstRows(rows, i))), orig,
                               FirstRows(rows, i))]

sharerUploadStages(v, sharer, orig, b, rows) ==
  LET unlink == UnlinkStages(v, rows)
      w == LastStage(v, unlink)
      upload == uploadHelperStages(w, orig, sharer, b)
      x == LastStage(w, upload)
  IN  unlink \o IF Reached(v, rows) < Len(rows) THEN <<>>
                ELSE upload \o IF orig \notin DOMAIN x.link THEN <<>>
                               ELSE RelinkStages(x, orig, rows)

\* Slip: all the rows go before the links.
RowsFirst(v, u, p, rows) ==
  LET w == [v EXCEPT !.sharedata = @ \ FirstRows(rows, Len(rows))]
      unlink == UnlinkStages(w, rows)
      x == LastStage(w, unlink)
  IN  <<w>> \o unlink \o removeStages(x, p, u)

\* Sharee by sharee, the link and then the row; then the file.
RemoveSharedStages(v, u, p, rows) ==
  LET n == Reached(v, rows)
      Stage(links, gone) ==
        [Removed(v, ShareePaths(FirstRows(rows, links)))
           EXCEPT !.sharedata = @ \ FirstRows(rows, gone)]
  IN  [i \in 1 .. 2 * n |-> Stage((i + 1) \div 2, i \div 2)]
        \o IF n < Len(rows) THEN <<>> ELSE removeStages(Stage(n, n), p, u)

-----------------------------------------------------------------------------
(* The handlers: the first stage at once, the others in steps of their own. *)

Perform(stages, r) ==
  /\ vol' = IF stages = <<>> THEN vol ELSE Head(stages)
  /\ todo' = IF stages = <<>> THEN <<>> ELSE Tail(stages)
  /\ reply' = r
  /\ UNCHANGED <<userdata, Cookiemap, countfile, up>>

Step ==
  /\ todo # <<>>
  /\ vol' = Head(todo)
  /\ todo' = Tail(todo)
  /\ UNCHANGED <<userdata, Cookiemap, countfile, up, reply>>

\* A request that is served when no handler runs.
Served(u) == todo = <<>> /\ up /\ checkCookie(u)
InOneStep(A) == todo = <<>> /\ A /\ UNCHANGED todo

\* The account, the home, and Shared_with_me in it.
signupSteps(u, longPassword) ==
  /\ todo = <<>>
  /\ up
  /\ ~SignupRefused(u, longPassword)
  /\ CanCreate(vol, Root(u))
  /\ userdata' = userdata \cup {u}
  /\ LET home == [vol EXCEPT !.dirs = @ \cup {Root(u)}]
     IN  todo' = <<home, [home EXCEPT !.dirs = @ \cup {SharedDir(u)}]>>
  /\ reply' = "ok"
  /\ UNCHANGED <<vol, Cookiemap, countfile, up>>

WithinCount(stages) == LastStage(vol, stages).filecount <= MaxFilecount

uploadPlainSteps(u, p, b) ==
  /\ isSharedFile(vol, p) = ""
  /\ LET stages == uploadHelperStages(vol, p, u, b)
     IN  WithinCount(stages) /\ Perform(stages, uploadHelper(vol, p, u, b).reply)

\* The sharer's answer tells success; a sharee's is always "File Shared!".
uploadSharedSteps(sharer, orig, b, answer) ==
  \E rows \in Orders(SharesOf(vol, sharer, orig)) :
    LET stages == sharerUploadStages(vol, sharer, orig, b, rows)
        done == FirstRows(rows, Reached(vol, rows))
    IN  /\ WithinCount(stages)
        /\ Perform(stages, IF answer THEN sharerUpload(vol, sharer, orig, b, done).reply
                           ELSE "error")

uploadSteps(u, p, b) ==
  /\ Served(u) /\ checkpath(p, u)
  /\ \/ uploadPlainSteps(u, p, b)
     \/ /\ isSharedFile(vol, p) = "sharer"
        /\ uploadSharedSteps(u, p, b, TRUE)
     \/ /\ isSharedFile(vol, p) = "sharee" /\ 1 \in getPerms(u, p)
        /\ \E r \in {s \in vol.sharedata : s.shareepath = p} :
             uploadSharedSteps(r.sharer, r.origpath, b, FALSE)

removeSteps(u, p) ==
  /\ Served(u) /\ checkpath(p, u) /\ ~IsNotExist(vol, p)
  /\ \/ /\ isSharedFile(vol, p) = ""
        /\ Perform(removeStages(vol, p, u), remove(vol, p, u).reply)
     \/ /\ isSharedFile(vol, p) = "sharee" /\ CanRemove(vol, p)
        /\ Perform(<<Removed(vol, {p}), RemoveReceived(vol, u, p)>>, "ok")
     \/ /\ isSharedFile(vol, p) = "sharer"
        /\ \E rows \in Orders(SharesOf(vol, u, p)) :
             Perform(RemoveSharedStages(vol, u, p, rows),
                     RemoveShared(vol, u, p, FirstRows(rows, Reached(vol, rows))).reply)

shareSteps(u, sharee, p, perm) ==
  /\ Served(u) /\ MayShare(u, sharee, p)
  /\ \E i \in 0 .. MaxNumber :
       LET at == ReceivedAs(sharee, p, i)
       IN  /\ FirstFree(vol, sharee, p, i)
           /\ p \in DOMAIN vol.link /\ CanCreate(vol, at)
           /\ Perform(<<[vol EXCEPT !.link = With(@, at, @[p])],
                        Share(vol, u, sharee, p, perm, at)>>, "ok")

unshareSteps(u, sharee, p) ==
  /\ Served(u) /\ checkpath(p, u) /\ u # sharee /\ sharee \in userdata
  /\ LET rows == SharesWith(vol, u, sharee, p)
         w == Removed(vol, ShareePaths(rows))
     IN  /\ rows # {} /\ AllRemovable(vol, rows)
         /\ Perform(<<w, [w EXCEPT !.sharedata = @ \ rows]>>, "ok")

\* Logins, readings, refusals: requests that leave the disk as they find it.
Quiet(u) == Request(u) /\ vol' = vol

-----------------------------------------------------------------------------
(* The life of the server. *)

Kill ==
  /\ up
  /\ up' = FALSE
  /\ todo' = <<>>
  /\ Cookiemap' = {}
  /\ reply' = IF todo = <<>> THEN reply ELSE "error"
  /\ UNCHANGED <<vol, userdata, countfile>>

StepRequest(u) ==
  \/ \E ok \in BOOLEAN : signupSteps(u, ok)
  \/ InOneStep(Quiet(u))
  \/ \E p \in InputPath :
       \/ \E b \in Body : uploadSteps(u, p, b)
       \/ removeSteps(u, p)
       \/ InOneStep(mkdirHandler(u, p))
       \/ \E sharee \in User :
            \/ unshareSteps(u, sharee, p)
            \/ \E perm \in {0, 1} :
                 shareSteps(u, sharee, p, perm)
                   \/ InOneStep(chpermHandler(u, sharee, p, perm))

StepInit == Init /\ todo = <<>>

StepNext ==
  \/ \E u \in User : StepRequest(u) \/ (Expire(u) /\ UNCHANGED todo)
  \/ Step
  \/ InOneStep(Reauth \/ Start \/ Shutdown)

StepSpec == StepInit /\ [][StepNext]_stepVars

\* The same server, which may be killed at any point of a handler or end itself.
KillSpec ==
  StepInit /\ [][StepNext \/ Kill \/ \E u \in User : InOneStep(Exits(u))]_stepVars

-----------------------------------------------------------------------------
(* What holds at every point of every handler, which is what a kill can    *)
(* leave on the disk of a server that was never killed before, as long as  *)
(* the names that signed up are apart (module DropboxSafety).              *)

(* A handler that is not interrupted does what module Dropbox says it does *)
(* in one step.                                                            *)
Handlers == INSTANCE Dropbox WITH vol <- LastStage(vol, todo)
ImplementsHandlers == Handlers!Spec

(* A link never leads to a store file that is gone: content is removed     *)
(* after all its links.                                                    *)
LinksKeepContent == Apart => \A p \in DOMAIN vol.link : vol.link[p] \in DOMAIN vol.store

(* The count of owners is wrong for one store file at most, and by one at  *)
(* most, so that a kill in the middle of an overwriting upload or of the   *)
(* removal of a file shared with many is no worse than one in the middle   *)
(* of a single removal.                                                    *)
Miscounted(v) ==
  {k \in FilesIn(v.filedata) \cup {v.link[p] : p \in DOMAIN v.link} :
     Owners(v, k) # Cardinality(LinksTo(v, k))}
OneOwnerOff ==
  Apart => /\ Cardinality(Miscounted(vol)) <= 1
           /\ \A k \in Miscounted(vol) :
                Owners(vol, k) - Cardinality(LinksTo(vol, k)) \in {1, -1}

(* While a shared file is overwritten, nobody sees the old content beside  *)
(* the new: of the links to it that are there, all lead to one store file. *)
OneVersion ==
  Apart => \A r \in vol.sharedata :
             {r.origpath, r.shareepath} \subseteq DOMAIN vol.link =>
               vol.link[r.origpath] = vol.link[r.shareepath]
=============================================================================
