------------------------------- MODULE Drive -------------------------------
(***************************************************************************)
(* What the server promises its users, without links, store files, hashes  *)
(* and counts of owners: each user has a tree of directories and files,    *)
(* and a received file is the sharer's file under a second name.           *)
(* The operations are those of lib/support/client.Client; the answer       *)
(* "error" to an operation that is done is allowed where the server gives  *)
(* one (see DropboxClaims), a refusal of one that could be done is not.    *)
(***************************************************************************)
EXTENDS Paths, Functions

CONSTANTS
  Body,      \* contents of files
  InputPath, \* the paths clients name in requests
  MaxNumber  \* bound: names tried for a shared file

VARIABLES
  dirs,     \* directories
  file,     \* the content of each user's own files
  shares,   \* sharer, sharee, origpath, shareepath, perm
  users,    \* who has signed up
  sessions, \* who is logged in
  up,       \* the service is running
  reply     \* the last answer

vars == <<dirs, file, shares, users, sessions, up, reply>>
tree == <<dirs, file, shares>>

Init ==
  /\ dirs = {} /\ file = <<>> /\ shares = {}
  /\ users = {} /\ sessions = {}
  /\ up = FALSE
  /\ reply = "ok"

-----------------------------------------------------------------------------
Received == {r.shareepath : r \in shares}
ReceivedBy(u, p) == {r \in shares : r.sharee = u /\ r.shareepath = p}
Shared(u, p) == {r \in shares : r.sharer = u /\ r.origpath = p}
SharedTo(u, sharee, p) == {r \in Shared(u, p) : r.sharee = sharee}

Names == dirs \cup DOMAIN file \cup Received
Free(p) == p \notin Names /\ Parent(p) \in dirs \cup {<<>>}
EmptyDir(p) == p \in dirs /\ \A q \in Names : Parent(q) # p
UnderFile(p) == \E i \in 1 .. Len(p) - 1 : SubSeq(p, 1, i) \in Names \ dirs

\* The own file that is read and written at path p, if there is one.
Origin(p) ==
  DOMAIN file \cap ({p} \cup {r.origpath : r \in {s \in shares : s.shareepath = p}})

Active(u) == up /\ u \in users \cap sessions
Say(r) == reply' = r /\ UNCHANGED <<users, sessions, up>>
Refuse == Say("error") /\ UNCHANGED tree
Done == \E r \in {"ok", "error"} : Say(r)

-----------------------------------------------------------------------------
Signup(u) ==
  /\ up
  /\ \/ Refuse
     \/ /\ u \notin users
        /\ users' = users \cup {u}
        /\ dirs' = dirs \cup {Root(u), SharedDir(u)}
        /\ reply' = "ok"
        /\ UNCHANGED <<file, shares, sessions, up>>

Login(u) ==
  /\ up
  /\ \/ Refuse
     \/ /\ u \in users
        /\ sessions' = sessions \cup {u}
        /\ reply' = "ok"
        /\ UNCHANGED <<dirs, file, shares, users, up>>

Expire(u) == sessions' = sessions \ {u} /\ UNCHANGED <<dirs, file, shares, users, up, reply>>

Reauth == up /\ Say("reauth") /\ UNCHANGED tree

\* Everybody the file is shared with sees the new content.
Put(p, b) ==
  /\ file' = [q \in DOMAIN file \cup {p} |-> IF q = p THEN b ELSE file[q]]
  /\ dirs' = dirs \ {p}
  /\ UNCHANGED shares
  /\ Done

Storable(u, p) ==
  /\ checkpath(p, u)
  /\ ~InShared(p, u)
  /\ p \in DOMAIN file \/ Free(p) \/ EmptyDir(p)

Writable(u, p) ==
  {r.origpath : r \in {s \in ReceivedBy(u, p) : checkpath(p, u) /\ s.perm = 1}}

Upload(u, p, b) ==
  /\ Active(u)
  /\ \/ Storable(u, p) /\ Put(p, b)
     \/ \E orig \in Writable(u, p) : Put(orig, b)
     \/ ~Storable(u, p) /\ Writable(u, p) = {} /\ Refuse

Download(u, p) ==
  /\ Active(u)
  /\ IF checkpath(p, u) /\ Origin(p) # {}
     THEN \E q \in Origin(p) : Say(file[q]) /\ UNCHANGED tree
     ELSE Refuse

List(u, p) ==
  Active(u) /\ Say(IF checkpath(p, u) /\ p \in dirs THEN "ok" ELSE "error") /\ UNCHANGED tree

PWD(u) == Active(u) /\ Say("ok") /\ UNCHANGED tree

CD(u, p) ==
  /\ Active(u)
  /\ Say(IF checkpath(p, u) /\ (p \in Names \/ UnderFile(p)) THEN "ok" ELSE "error")
  /\ UNCHANGED tree

Mkdir(u, p) ==
  /\ Active(u)
  /\ IF checkpath(p, u) /\ Free(p)
     THEN dirs' = dirs \cup {p} /\ Say("ok") /\ UNCHANGED <<file, shares>>
     ELSE Refuse

\* An own file goes for everybody, a received one for its receiver only.
Remove(u, p) ==
  /\ Active(u)
  /\ IF ~checkpath(p, u) THEN Refuse
     ELSE \/ /\ p \in DOMAIN file
             /\ file' = Restrict(file, DOMAIN file \ {p})
             /\ shares' = shares \ Shared(u, p)
             /\ UNCHANGED dirs
             /\ Say("ok")
          \/ /\ p \in Received
             /\ shares' = shares \ ReceivedBy(u, p)
             /\ UNCHANGED <<dirs, file>>
             /\ Say("ok")
          \/ /\ EmptyDir(p) /\ p # SharedDir(u)
             /\ dirs' = dirs \ {p}
             /\ UNCHANGED <<file, shares>>
             /\ Say("ok")
          \/ /\ p \notin DOMAIN file \cup Received
             /\ ~EmptyDir(p) \/ p = SharedDir(u)
             /\ Refuse

MayShare(u, sharee, p) ==
  /\ checkpath(p, u) /\ ~InShared(p, u)
  /\ p \in DOMAIN file
  /\ sharee \in users \ {u}
  /\ SharedTo(u, sharee, p) = {}

Share(u, sharee, p, perm) ==
  /\ Active(u)
  /\ IF ~MayShare(u, sharee, p) THEN Refuse
     ELSE \E i \in 0 .. MaxNumber :
            LET at == Append(SharedDir(sharee), Candidate(i, Base(p)))
            IN  /\ Free(at)
                /\ shares' = shares \cup {[sharer |-> u, sharee |-> sharee, origpath |-> p,
                                           shareepath |-> at, perm |-> perm]}
                /\ UNCHANGED <<dirs, file>>
                /\ Say("ok")

Unshare(u, sharee, p) ==
  /\ Active(u)
  /\ IF checkpath(p, u) /\ SharedTo(u, sharee, p) # {}
     THEN shares' = shares \ SharedTo(u, sharee, p) /\ UNCHANGED <<dirs, file>> /\ Say("ok")
     ELSE Refuse

Chperm(u, sharee, p, perm) ==
  /\ Active(u)
  /\ LET rows == SharedTo(u, sharee, p)
     IN  IF checkpath(p, u) /\ rows # {}
         THEN /\ shares' = (shares \ rows) \cup {[r EXCEPT !.perm = perm] : r \in rows}
              /\ UNCHANGED <<dirs, file>>
              /\ Done
         ELSE Refuse

\* All but the sessions outlives the server's process.
Start == ~up /\ up' = TRUE /\ sessions' = {} /\ UNCHANGED <<dirs, file, shares, users, reply>>
Stop == up /\ up' = FALSE /\ sessions' = {} /\ UNCHANGED <<dirs, file, shares, users, reply>>

-----------------------------------------------------------------------------
Operation(u) ==
  \/ Signup(u) \/ Login(u) \/ Expire(u) \/ PWD(u)
  \/ \E p \in InputPath :
       \/ \E b \in Body : Upload(u, p, b)
       \/ Download(u, p) \/ List(u, p) \/ CD(u, p) \/ Mkdir(u, p) \/ Remove(u, p)
       \/ \E sharee \in User, perm \in {0, 1} :
            Share(u, sharee, p, perm) \/ Chperm(u, sharee, p, perm)
       \/ \E sharee \in User : Unshare(u, sharee, p)

Next == (\E u \in User : Operation(u)) \/ Reauth \/ Start \/ Stop

Spec == Init /\ [][Next]_vars
=============================================================================
