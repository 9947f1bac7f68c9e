---------------------------- MODULE ClientProofs ----------------------------
(***************************************************************************)
(* Proofs about module Clients, for any number of clients and users, any   *)
(* paths, and a server that may be killed: sessions are the right          *)
(* client's, stay over once they are over, currdir stays where its user    *)
(* may go, and names in a home change under a session only.                *)
(***************************************************************************)
EXTENDS Clients, SequenceTheorems, TLAPS

Place == {"menu", "login", "signup", "exited", "pwd", "prompt"}

ClientType ==
  /\ at \in [Client -> Place]
  /\ user \in [Client -> User \cup {""}]
  /\ sessionid \in [Client -> Nat]
  /\ currdir \in [Client -> Seq(Name)]
  /\ token \in [User -> Nat]
  /\ issued \in Nat
  /\ holder \in [User -> Client \cup {NoClient}]
  /\ Cookiemap \subseteq userdata /\ userdata \subseteq User

(* Every token in use was drawn; a session has one; and who holds the      *)
(* token of a user logged that user in last, although several clients may  *)
(* be that user and a client may be somebody else by now.                  *)
TokensSound ==
  /\ \A u \in User : token[u] <= issued
  /\ \A c \in Client : sessionid[c] <= issued
  /\ \A u \in Cookiemap : token[u] # 0
  /\ \A c \in Client, u \in User :
       token[u] # 0 /\ sessionid[c] = token[u] => holder[u] = c

Inside == {"pwd", "prompt"}

\* Who is at the command line signed up, and is where checkpath lets it be.
Lodged ==
  \A c \in Client :
    at[c] \in Inside => user[c] \in userdata /\ checkpath(currdir[c], user[c])

ClientInv == ClientType /\ TokensSound /\ Lodged

-----------------------------------------------------------------------------
(* Requests other than signup and authenticate leave accounts and cookies  *)
(* alone.                                                                  *)
Accounts == <<userdata, Cookiemap>>

LEMMA ReadQuiet ==
  ASSUME NEW u, NEW p,
         \/ pwdHandler(u) \/ listHandler(u, p) \/ cdHandler(u, p) \/ downloadHandler(u, p)
         \/ Reauth \/ Refuse("error")
  PROVE  UNCHANGED Accounts
  BY DEF pwdHandler, listHandler, cdHandler, downloadHandler, Reauth, Refuse, Accounts

LEMMA WriteQuiet ==
  ASSUME NEW u, NEW p, NEW b,
         uploadHandler(u, p, b) \/ mkdirHandler(u, p) \/ removeHandler(u, p)
  PROVE  UNCHANGED Accounts
<1> USE DEF Answer, Refuse, Accounts
<1>1. CASE uploadHandler(u, p, b)
  BY <1>1 DEF uploadHandler, UploadPlain, UploadAsSharer, UploadAsSharee, Stored
<1>2. CASE mkdirHandler(u, p) \/ removeHandler(u, p)
  BY <1>2 DEF mkdirHandler, removeHandler, RemovePlain, RemoveAsSharee, RemoveAsSharer
<1> QED
  BY <1>1, <1>2

LEMMA ShareQuiet ==
  ASSUME NEW u, NEW sharee, NEW p, NEW perm,
         \/ shareHandler(u, sharee, p, perm)
         \/ unshareHandler(u, sharee, p)
         \/ chpermHandler(u, sharee, p, perm)
  PROVE  UNCHANGED Accounts
  BY DEF shareHandler, unshareHandler, chpermHandler, Answer, Refuse, Accounts

-----------------------------------------------------------------------------
(* What the commands have in common. *)

\* Client c moves, and comes to the command line from the command line only.
Moved(c) ==
  /\ UNCHANGED <<userdata, user, sessionid, sessionVars>>
  /\ Cookiemap' \subseteq Cookiemap
  /\ \E place \in Place : /\ at' = [at EXCEPT ![c] = place]
                          /\ place \in Inside => at[c] \in Inside

LEMMA StatusMoved ==
  ASSUME NEW c \in Client, PWD(c)
  PROVE  Moved(c) /\ UNCHANGED currdir
<1>1. \/ UNCHANGED vars \/ Reauth \/ pwdHandler(user[c])
  BY DEF PWD, Call
<1>2. UNCHANGED Accounts
  BY <1>1, ReadQuiet DEF vars, Accounts
<1> QED
  BY <1>2 DEF PWD, Call, Ends, Go, Moved, Inside, Place, Accounts

\* A command that does not change directory.
Commanded(c) ==
  /\ at[c] = "prompt"
  /\ UNCHANGED Accounts
  /\ UNCHANGED <<user, sessionid, currdir, sessionVars>>
  /\ Go(c, "pwd") \/ Go(c, "exited")

LEMMA CommandedMoved ==
  ASSUME NEW c \in Client, Commanded(c)
  PROVE  Moved(c) /\ UNCHANGED currdir
  BY DEF Commanded, Go, Moved, Inside, Place, Accounts

LEMMA ReadCommand ==
  ASSUME NEW c \in Client, NEW r, ls(c, r) \/ download(c, r) \/ pwd(c)
  PROVE  Commanded(c)
<1> USE DEF Command, Call, Typing, Ends, Commanded
<1>1. CASE ls(c, r)
  <2>1. \/ UNCHANGED vars \/ Reauth
        \/ listHandler(user[c], Target(c, r)) \/ Refuse("error")
    BY <1>1 DEF ls
  <2>2. UNCHANGED Accounts
    BY <2>1, ReadQuiet DEF vars, Accounts
  <2> QED
    BY <1>1, <2>2 DEF ls
<1>2. CASE download(c, r)
  <2>1. \/ UNCHANGED vars \/ Reauth \/ downloadHandler(user[c], Target(c, r))
    BY <1>2 DEF download
  <2>2. UNCHANGED Accounts
    BY <2>1, ReadQuiet DEF vars, Accounts
  <2> QED
    BY <1>2, <2>2 DEF download
<1>3. CASE pwd(c)
  <2>1. \/ UNCHANGED vars \/ Reauth \/ pwdHandler(user[c])
    BY <1>3 DEF pwd
  <2>2. UNCHANGED Accounts
    BY <2>1, ReadQuiet DEF vars, Accounts
  <2> QED
    BY <1>3, <2>2 DEF pwd
<1> QED
  BY <1>1, <1>2, <1>3

LEMMA WriteCommand ==
  ASSUME NEW c \in Client, NEW r, NEW b, upload(c, r, b) \/ mkdir(c, r) \/ rm(c, r)
  PROVE  Commanded(c)
<1> USE DEF Command, Call, Typing, Ends, Commanded
<1>1. CASE upload(c, r, b)
  <2>1. \/ UNCHANGED vars \/ Reauth \/ uploadHandler(user[c], Target(c, r), b)
    BY <1>1 DEF upload
  <2>2. UNCHANGED Accounts
    BY <2>1, ReadQuiet, WriteQuiet DEF vars, Accounts
  <2> QED
    BY <1>1, <2>2 DEF upload
<1>2. CASE mkdir(c, r)
  <2>1. \/ UNCHANGED vars \/ Reauth
        \/ mkdirHandler(user[c], Target(c, r)) \/ Refuse("error")
    BY <1>2 DEF mkdir
  <2>2. UNCHANGED Accounts
    BY <2>1, ReadQuiet, WriteQuiet DEF vars, Accounts
  <2> QED
    BY <1>2, <2>2 DEF mkdir
<1>3. CASE rm(c, r)
  <2>1. \/ UNCHANGED vars \/ Reauth \/ removeHandler(user[c], Target(c, r))
    BY <1>3 DEF rm
  <2>2. UNCHANGED Accounts
    BY <2>1, ReadQuiet, WriteQuiet DEF vars, Accounts
  <2> QED
    BY <1>3, <2>2 DEF rm
<1> QED
  BY <1>1, <1>2, <1>3

LEMMA ShareCommand ==
  ASSUME NEW c \in Client, NEW r, NEW sharee, NEW perm,
         \/ share(c, r, sharee, perm) \/ unshare(c, r, sharee) \/ chperm(c, r, sharee, perm)
  PROVE  Commanded(c)
<1> USE DEF Command, Call, Typing, Ends, Commanded, share, unshare, chperm
<1>1. \/ UNCHANGED vars \/ Reauth
      \/ shareHandler(user[c], sharee, Target(c, r), perm)
      \/ unshareHandler(user[c], sharee, Target(c, r))
      \/ chpermHandler(user[c], sharee, Target(c, r), perm)
  OBVIOUS
<1>2. UNCHANGED Accounts
  BY <1>1, ReadQuiet, ShareQuiet DEF vars, Accounts
<1> QED
  BY <1>2

\* The path a cd that succeeded went to passes checkpath.
CDMade(c, r) ==
  \/ UNCHANGED currdir
  \/ /\ currdir' = [currdir EXCEPT ![c] = Target(c, r)]
     /\ user[c] \in User /\ checkpath(Target(c, r), user[c])

LEMMA CDMoved ==
  ASSUME NEW c \in Client, NEW r, cd(c, r)
  PROVE  at[c] = "prompt" /\ Moved(c) /\ CDMade(c, r)
<1> USE DEF cd, Typing, Call, Ends, Passes
<1>1. \/ UNCHANGED vars \/ Reauth \/ cdHandler(user[c], Target(c, r))
  OBVIOUS
<1>2. UNCHANGED Accounts
  BY <1>1, ReadQuiet DEF vars, Accounts
<1>3. cdHandler(user[c], Target(c, r)) /\ reply' = "ok" => checkpath(Target(c, r), user[c])
  BY DEF cdHandler, Refuse
<1> QED
  BY <1>2, <1>3 DEF Go, Moved, Inside, Place, CDMade, Accounts

-----------------------------------------------------------------------------
(* A step that revives no session but that of a client at its login. *)
NoneRevived == \A c \in Client : ~Passes(c) /\ Passes(c)' => at[c] = "login"

Upheld == ClientInv' /\ NoneRevived

LEMMA MovedUpholds ==
  ASSUME ClientInv, NEW c \in Client, Moved(c), UNCHANGED currdir
  PROVE  Upheld
<1>1. PICK place \in Place : /\ at' = [at EXCEPT ![c] = place]
                             /\ place \in Inside => at[c] \in Inside
  BY DEF Moved
<1>2. /\ UNCHANGED <<userdata, user, sessionid, token, issued, holder>>
      /\ Cookiemap' \subseteq Cookiemap
  BY DEF Moved, sessionVars
<1>3. ClientType'
  BY <1>1, <1>2 DEF ClientInv, ClientType
<1>4. TokensSound'
  BY <1>2 DEF ClientInv, TokensSound
<1>5. Lodged'
  <2>1. \A d \in Client : at'[d] \in Inside => at[d] \in Inside
    BY <1>1 DEF ClientInv, ClientType
  <2> QED
    BY <1>2, <2>1 DEF ClientInv, Lodged
<1>6. NoneRevived
  BY <1>2 DEF NoneRevived, Passes, checkCookie
<1> QED
  BY <1>3, <1>4, <1>5, <1>6 DEF Upheld, ClientInv

(* The paths sent are paths, whatever is typed.                            *)
LEMMA TargetPath ==
  ASSUME ClientInv, NEW c \in Client, NEW r \in Typed
  PROVE  Target(c, r) \in Seq(Name)
<1> DEFINE d == currdir[c]
           n == Len(d) - r.ups
<1>1. d \in Seq(Name) /\ Len(d) \in Nat
  <2>1. d \in Seq(Name)
    BY DEF ClientInv, ClientType
  <2> HIDE DEF d
  <2> QED
    BY <2>1
<1> HIDE DEF d
<1>2. r.ups \in Nat /\ r.names \in Seq(Name)
  BY ClientAssumption DEF TypedPath
<1>3. CASE r.ups > Len(d)
  <2>1. Target(c, r) = <<>>
    BY <1>3 DEF Target, d
  <2> QED
    BY <2>1
<1>4. CASE ~(r.ups > Len(d))
  <2>1. n \in 0 .. Len(d)
    BY <1>1, <1>2, <1>4
  <2>2. \A i \in 1 .. n : d[i] \in Name
    BY <1>1, <2>1
  <2>3. Target(c, r) = SubSeq(d, 1, n) \o r.names
    BY <1>4 DEF Target, d
  <2> HIDE DEF n
  <2>4. SubSeq(d, 1, n) \in Seq(Name)
    BY <1>1, <2>1, <2>2, SubSeqProperties
  <2> QED
    BY <1>2, <2>3, <2>4, ConcatProperties
<1> QED
  BY <1>3, <1>4

LEMMA CDUpholds ==
  ASSUME ClientInv, NEW c \in Client, NEW r \in Typed, cd(c, r)
  PROVE  Upheld
<1>1. at[c] = "prompt" /\ Moved(c) /\ CDMade(c, r)
  BY CDMoved
<1>2. CASE UNCHANGED currdir
  BY <1>1, <1>2, MovedUpholds
<1>3. CASE /\ currdir' = [currdir EXCEPT ![c] = Target(c, r)]
           /\ user[c] \in User /\ checkpath(Target(c, r), user[c])
  <2>1. Target(c, r) \in Seq(Name)
    BY TargetPath
  <2>2. PICK place \in Place : at' = [at EXCEPT ![c] = place]
    BY <1>1 DEF Moved
  <2>3. /\ UNCHANGED <<userdata, user, sessionid, token, issued, holder>>
        /\ Cookiemap' \subseteq Cookiemap
    BY <1>1 DEF Moved, sessionVars
  <2>4. ClientType'
    BY <1>3, <2>1, <2>2, <2>3 DEF ClientInv, ClientType
  <2>5. TokensSound'
    BY <2>3 DEF ClientInv, TokensSound
  <2>6. Lodged'
    <3> DEFINE p == Target(c, r)
    <3>1. currdir'[c] = p /\ \A d \in Client \ {c} : currdir'[d] = currdir[d] /\ at'[d] = at[d]
      BY <1>3, <2>2 DEF ClientInv, ClientType
    <3>2. at[c] \in Inside /\ checkpath(p, user[c])
      BY <1>1, <1>3 DEF Inside
    <3> HIDE DEF p
    <3>3. Lodged /\ user' = user /\ userdata' = userdata
      BY <2>3 DEF ClientInv
    <3> QED
      BY <3>1, <3>2, <3>3 DEF Lodged
  <2>7. NoneRevived
    BY <2>3 DEF NoneRevived, Passes, checkCookie
  <2> QED
    BY <2>4, <2>5, <2>6, <2>7 DEF Upheld, ClientInv
<1> QED
  BY <1>1, <1>2, <1>3 DEF CDMade

-----------------------------------------------------------------------------
(* Logging in. *)

\* The server lets u in and draws a token that no client has yet.
LoggedIn(c, u) ==
  /\ u \in userdata /\ UNCHANGED userdata /\ Cookiemap' = Cookiemap \cup {u}
  /\ issued' = issued + 1
  /\ token' = [token EXCEPT ![u] = issued + 1]
  /\ holder' = [holder EXCEPT ![u] = c]
  /\ \/ UNCHANGED <<at, sessionid>>
     \/ /\ sessionid' = [sessionid EXCEPT ![c] = issued + 1]
        /\ Go(c, "pwd")

\* It does not, or was not reached.
NotLoggedIn(c) ==
  /\ UNCHANGED <<Accounts, sessionVars, at>>
  /\ \/ UNCHANGED sessionid
     \/ sessionid' = [sessionid EXCEPT ![c] = 0]

LEMMA LoginOutcome ==
  ASSUME NEW c \in Client, NEW u \in User, NEW ok \in BOOLEAN, AskCreds(c, u, ok)
  PROVE  /\ at[c] = "login"
         /\ user' = [user EXCEPT ![c] = u]
         /\ currdir' = [currdir EXCEPT ![c] = Root(u)]
         /\ LoggedIn(c, u) \/ NotLoggedIn(c)
<1>1. CASE UNCHANGED <<vars, at, sessionid, sessionVars>>
  BY <1>1 DEF AskCreds, NotLoggedIn, vars, Accounts
<1>2. CASE /\ authenticateHandler(u, ok) /\ reply' = "ok" /\ Granted(c, u)
           /\ \/ UNCHANGED <<at, sessionid>>
              \/ sessionid' = [sessionid EXCEPT ![c] = NewToken(u)] /\ Go(c, "pwd")
  <2>1. u \in userdata /\ UNCHANGED userdata /\ Cookiemap' = Cookiemap \cup {u}
    BY <1>2 DEF authenticateHandler, Refuse
  <2>2. LoggedIn(c, u)
    BY <1>2, <2>1 DEF Granted, NewToken, LoggedIn
  <2> QED
    BY <2>2 DEF AskCreds
<1>3. CASE /\ authenticateHandler(u, ok) /\ reply' # "ok" /\ UNCHANGED sessionVars
           /\ \/ UNCHANGED <<at, sessionid>>
              \/ sessionid' = [sessionid EXCEPT ![c] = 0] /\ UNCHANGED at
  <2>1. UNCHANGED Accounts
    BY <1>3 DEF authenticateHandler, Refuse, Accounts
  <2>2. NotLoggedIn(c)
    BY <1>3, <2>1 DEF NotLoggedIn
  <2> QED
    BY <2>2 DEF AskCreds
<1>4. "ok" # "error"
  OBVIOUS
<1> QED
  BY <1>1, <1>2, <1>3, <1>4 DEF AskCreds

LEMMA LoginUpholds ==
  ASSUME ClientInv, NEW c \in Client, NEW u \in User, NEW ok \in BOOLEAN, AskCreds(c, u, ok)
  PROVE  Upheld
<1>1. /\ at[c] = "login"
      /\ user' = [user EXCEPT ![c] = u]
      /\ currdir' = [currdir EXCEPT ![c] = Root(u)]
      /\ LoggedIn(c, u) \/ NotLoggedIn(c)
  BY LoginOutcome
<1>2. Root(u) \in Seq(Name) /\ checkpath(Root(u), u)
  <2>1. u \in Name /\ StartsWith(u, u)
    BY NameAssumption
  <2>2. Root(u) \in Seq(Name) /\ Len(Root(u)) = 1 /\ Root(u)[1] = u
    BY <2>1 DEF Root
  <2> QED
    BY <2>1, <2>2 DEF checkpath, HasPrefix
<1>3. ClientType /\ TokensSound /\ Lodged
  BY DEF ClientInv
<1>4. /\ currdir' \in [Client -> Seq(Name)] /\ user' \in [Client -> User \cup {""}]
      /\ user'[c] = u /\ currdir'[c] = Root(u)
      /\ \A d \in Client \ {c} : user'[d] = user[d] /\ currdir'[d] = currdir[d]
  BY <1>1, <1>2, <1>3 DEF ClientType
<1>5. /\ at' \in [Client -> Place] /\ sessionid' \in [Client -> Nat]
      /\ \A d \in Client \ {c} : at'[d] = at[d] /\ sessionid'[d] = sessionid[d]
  <2>1. at \in [Client -> Place] /\ sessionid \in [Client -> Nat] /\ issued + 1 \in Nat
    <3>1. issued \in Nat
      BY <1>3 DEF ClientType
    <3>2. at \in [Client -> Place] /\ sessionid \in [Client -> Nat]
      BY <1>3 DEF ClientType
    <3> QED
      BY <3>1, <3>2
  <2>2. \/ at' = at
        \/ at' = [at EXCEPT ![c] = "pwd"]
    BY <1>1 DEF LoggedIn, NotLoggedIn, Go
  <2>3. \/ sessionid' = sessionid
        \/ sessionid' = [sessionid EXCEPT ![c] = issued + 1]
        \/ sessionid' = [sessionid EXCEPT ![c] = 0]
    BY <1>1 DEF LoggedIn, NotLoggedIn
  <2>4. "pwd" \in Place
    BY DEF Place
  <2>5. at' \in [Client -> Place] /\ \A d \in Client \ {c} : at'[d] = at[d]
    BY <2>1, <2>2, <2>4
  <2>6. sessionid' \in [Client -> Nat] /\ \A d \in Client \ {c} : sessionid'[d] = sessionid[d]
    BY <2>1, <2>3
  <2> QED
    BY <2>5, <2>6
<1>6. Lodged'
  <2>1. userdata' = userdata
    BY <1>1 DEF LoggedIn, NotLoggedIn, Accounts
  <2>2. at'[c] \in Inside => u \in userdata
    BY <1>1 DEF LoggedIn, NotLoggedIn, Inside
  <2>3. ASSUME NEW d \in Client \ {c}, at'[d] \in Inside
        PROVE  user'[d] \in userdata /\ checkpath(currdir'[d], user'[d])
    BY <1>3, <1>4, <1>5, <2>3 DEF Lodged
  <2> QED
    BY <1>2, <1>4, <2>1, <2>2, <2>3 DEF Lodged
<1>7. CASE LoggedIn(c, u)
  <2>1. /\ issued \in Nat /\ issued' = issued + 1
        /\ token' \in [User -> Nat] /\ holder' \in [User -> Client \cup {NoClient}]
        /\ token'[u] = issued + 1 /\ holder'[u] = c
        /\ \A w \in User \ {u} : token'[w] = token[w] /\ holder'[w] = holder[w]
        /\ sessionid'[c] = sessionid[c] \/ sessionid'[c] = issued + 1
        /\ Cookiemap' = Cookiemap \cup {u} /\ userdata' = userdata /\ u \in userdata
    <3>1. /\ token \in [User -> Nat] /\ issued \in Nat
          /\ holder \in [User -> Client \cup {NoClient}] /\ sessionid \in [Client -> Nat]
      BY <1>3 DEF ClientType
    <3>2. issued + 1 \in Nat
      BY <3>1
    <3>3. /\ issued' = issued + 1
          /\ token' = [token EXCEPT ![u] = issued + 1] /\ holder' = [holder EXCEPT ![u] = c]
          /\ Cookiemap' = Cookiemap \cup {u} /\ userdata' = userdata /\ u \in userdata
          /\ sessionid' = sessionid \/ sessionid' = [sessionid EXCEPT ![c] = issued + 1]
      BY <1>7 DEF LoggedIn
    <3>4. /\ token' \in [User -> Nat] /\ token'[u] = issued + 1
          /\ \A w \in User \ {u} : token'[w] = token[w]
      BY <3>1, <3>2, <3>3
    <3>5. /\ holder' \in [User -> Client \cup {NoClient}] /\ holder'[u] = c
          /\ \A w \in User \ {u} : holder'[w] = holder[w]
      BY <3>1, <3>3
    <3>6. sessionid'[c] = sessionid[c] \/ sessionid'[c] = issued + 1
      BY <3>1, <3>3
    <3> QED
      BY <3>1, <3>3, <3>4, <3>5, <3>6
  <2>2. ClientType'
    <3>1. issued' \in Nat
      BY <2>1
    <3>2. Cookiemap' \subseteq userdata' /\ userdata' \subseteq User
      BY <1>3, <2>1 DEF ClientType
    <3> QED
      BY <1>4, <1>5, <2>1, <3>1, <3>2 DEF ClientType
  <2>3. /\ \A w \in User : token[w] \in Nat /\ token[w] <= issued
        /\ \A d \in Client : sessionid[d] \in Nat /\ sessionid[d] <= issued
    BY <1>3 DEF ClientType, TokensSound
  <2>4. ASSUME NEW d \in Client, NEW w \in User, token'[w] # 0, sessionid'[d] = token'[w]
        PROVE  holder'[w] = d
    <3>1. CASE w = u
      BY <1>5, <2>1, <2>3, <2>4, <3>1
    <3>2. CASE w # u
      BY <1>3, <1>5, <2>1, <2>3, <2>4, <3>2 DEF TokensSound
    <3> QED
      BY <3>1, <3>2
  <2>5. TokensSound'
    <3>1. \A w \in User : token'[w] <= issued'
      BY <2>1, <2>3
    <3>2. \A d \in Client : sessionid'[d] <= issued'
      BY <1>5, <2>1, <2>3
    <3>3. \A w \in Cookiemap' : token'[w] # 0
      <4>1. \A w \in Cookiemap : w \in User /\ token[w] # 0
        BY <1>3 DEF TokensSound, ClientType
      <4>2. issued + 1 # 0
        BY <2>1
      <4> QED
        BY <2>1, <4>1, <4>2
    <3> QED
      BY <2>4, <3>1, <3>2, <3>3 DEF TokensSound
  <2>6. NoneRevived
    <3> SUFFICES ASSUME NEW d \in Client \ {c}, Passes(d)' PROVE Passes(d)
      BY <1>1 DEF NoneRevived
    <3>1. user[d] # u
      <4> SUFFICES ASSUME user[d] = u PROVE FALSE
        OBVIOUS
      <4>1. sessionid[d] = issued + 1
        BY <1>4, <1>5, <2>1 DEF Passes
      <4>2. sessionid[d] \in Nat /\ sessionid[d] <= issued
        BY <2>3
      <4> QED
        BY <2>1, <4>1, <4>2
    <3> QED
      BY <1>4, <1>5, <2>1, <3>1 DEF Passes, checkCookie
  <2> QED
    BY <1>6, <2>2, <2>5, <2>6 DEF Upheld, ClientInv
<1>8. CASE NotLoggedIn(c)
  <2>1. /\ UNCHANGED <<userdata, Cookiemap, token, issued, holder>>
        /\ sessionid'[c] = sessionid[c] \/ sessionid'[c] = 0
    BY <1>3, <1>8 DEF NotLoggedIn, Accounts, sessionVars, ClientType
  <2>2. ClientType'
    BY <1>3, <1>4, <1>5, <2>1 DEF ClientType
  <2>3. TokensSound'
    <3>1. issued \in Nat
      BY <1>3 DEF ClientType
    <3>2. \A d \in Client : sessionid'[d] <= issued
      BY <1>3, <1>5, <2>1, <3>1 DEF TokensSound
    <3>3. ASSUME NEW d \in Client, NEW w \in User, token[w] # 0, sessionid'[d] = token[w]
          PROVE  holder[w] = d
      BY <1>3, <1>5, <2>1, <3>3 DEF TokensSound
    <3> QED
      BY <1>3, <2>1, <3>2, <3>3 DEF TokensSound
  <2>4. NoneRevived
    BY <1>1, <1>4, <1>5, <2>1 DEF NoneRevived, Passes, checkCookie
  <2> QED
    BY <1>6, <2>2, <2>3, <2>4 DEF Upheld, ClientInv
<1> QED
  BY <1>1, <1>7, <1>8

-----------------------------------------------------------------------------
(* Signing up, and the server's own steps. *)

LEMMA SignupUpholds ==
  ASSUME ClientInv, NEW c \in Client, NEW u \in User, NEW ok \in BOOLEAN,
         newUserDetails(c, u, ok)
  PROVE  Upheld
<1>1. /\ userdata' = userdata \/ userdata' = userdata \cup {u}
      /\ Cookiemap' \subseteq Cookiemap
      /\ UNCHANGED <<user, sessionid, currdir, token, issued, holder>>
      /\ UNCHANGED at \/ Go(c, "menu")
  BY DEF newUserDetails, signupHandler, signupExits, Exit, Refuse, sessionVars
<1>2. ClientType /\ TokensSound /\ Lodged
  BY DEF ClientInv
<1>3. at' \in [Client -> Place] /\ \A d \in Client : at'[d] \in {at[d], "menu"}
  BY <1>1, <1>2 DEF ClientType, Go, Place
<1>4. ClientType'
  BY <1>1, <1>2, <1>3 DEF ClientType
<1>5. TokensSound'
  BY <1>1, <1>2 DEF TokensSound
<1>6. Lodged'
  BY <1>1, <1>2, <1>3 DEF Lodged, Inside
<1>7. NoneRevived
  BY <1>1, <1>2 DEF NoneRevived, Passes, checkCookie, ClientType
<1> QED
  BY <1>4, <1>5, <1>6, <1>7 DEF Upheld, ClientInv

LEMMA ServerUpholds ==
  ASSUME ClientInv,
         \/ \E u \in User : Timeout(u)
         \/ StartServer \/ StopServer \/ UNCHANGED allVars
  PROVE  Upheld
<1>1. /\ UNCHANGED <<userdata, at, user, sessionid, currdir, issued>>
      /\ \/ Cookiemap' \subseteq Cookiemap /\ UNCHANGED <<token, holder>>
         \/ /\ Cookiemap' = {}
            /\ token' = [u \in User |-> 0] /\ holder' = [u \in User |-> NoClient]
  BY DEF Timeout, Expire, StartServer, Start, StopServer, Shutdown, Crash, allVars, vars,
         clientVars, sessionVars
<1>2. ClientType /\ TokensSound /\ Lodged
  BY DEF ClientInv
<1>3. Lodged'
  BY <1>1, <1>2 DEF Lodged
<1>4. CASE Cookiemap' \subseteq Cookiemap /\ UNCHANGED <<token, holder>>
  <2>1. ClientType' /\ TokensSound'
    BY <1>1, <1>2, <1>4 DEF ClientType, TokensSound
  <2>2. NoneRevived
    BY <1>1, <1>4 DEF NoneRevived, Passes, checkCookie
  <2> QED
    BY <1>3, <2>1, <2>2 DEF Upheld, ClientInv
<1>5. CASE /\ Cookiemap' = {}
           /\ token' = [u \in User |-> 0] /\ holder' = [u \in User |-> NoClient]
  <2>1. ClientType'
    BY <1>1, <1>2, <1>5 DEF ClientType
  <2>2. TokensSound'
    <3>1. /\ \A u \in User : token'[u] = 0 /\ issued \in Nat
          /\ \A c \in Client : sessionid[c] <= issued
      BY <1>2, <1>5 DEF TokensSound, ClientType
    <3>2. 0 <= issued
      <4>1. issued \in Nat
        BY <1>2 DEF ClientType
      <4> QED
        BY <4>1
    <3> QED
      BY <1>1, <1>5, <3>1, <3>2 DEF TokensSound
  <2>3. NoneRevived
    BY <1>5 DEF NoneRevived, Passes, checkCookie
  <2> QED
    BY <1>3, <2>1, <2>2, <2>3 DEF Upheld, ClientInv
<1> QED
  BY <1>1, <1>4, <1>5

LEMMA MenuMoved ==
  ASSUME NEW c \in Client, displayoptions(c) \/ NoCall(c) \/ quit(c)
  PROVE  Moved(c) /\ UNCHANGED currdir
  BY DEF displayoptions, NoCall, quit, Go, Moved, Place, Inside, vars

LEMMA StepUpholds ==
  ASSUME ClientInv, [ClientNext]_allVars
  PROVE  Upheld
<1>1. ASSUME NEW c \in Client, displayoptions(c) \/ NoCall(c) \/ quit(c) \/ PWD(c)
      PROVE  Upheld
  BY <1>1, MenuMoved, StatusMoved, MovedUpholds
<1>2. ASSUME NEW c \in Client, Commanded(c) PROVE Upheld
  BY <1>2, CommandedMoved, MovedUpholds
<1>3. ASSUME NEW c \in Client, ClientStep(c) PROVE Upheld
  BY <1>1, <1>2, <1>3, LoginUpholds, SignupUpholds, CDUpholds,
     ReadCommand, WriteCommand, ShareCommand DEF ClientStep
<1> QED
  BY <1>3, ServerUpholds DEF ClientNext

LEMMA InitUpholds == ClientInit => ClientInv
<1> SUFFICES ASSUME ClientInit PROVE ClientInv
  OBVIOUS
<1>1. <<>> \in Seq(Name)
  OBVIOUS
<1>2. ClientType
  BY <1>1 DEF ClientInit, Init, ClientType, Place
<1>3. TokensSound
  <2>1. /\ Cookiemap = {} /\ issued = 0
        /\ \A u \in User : token[u] = 0
        /\ \A c \in Client : sessionid[c] = 0
    BY DEF ClientInit, Init
  <2>2. 0 <= 0
    OBVIOUS
  <2> QED
    BY <2>1, <2>2 DEF TokensSound
<1>4. Lodged
  BY DEF ClientInit, Lodged, Inside
<1> QED
  BY <1>2, <1>3, <1>4 DEF ClientInv

LEMMA Invariance == ClientSpec => []ClientInv
<1>1. ClientInv /\ [ClientNext]_allVars => ClientInv'
  BY StepUpholds DEF Upheld
<1> QED
  BY InitUpholds, <1>1, PTL DEF ClientSpec

-----------------------------------------------------------------------------
(* The names below userfs, and the rows of sharedata that name some of     *)
(* them.  A kill may leave filecount, and later the tables of files, wrong *)
(* (see UniqueNames), but nothing of this: sharerUpload finds every link   *)
(* it takes away and can make it again.  The rows join files of users us   *)
(* of whose names none begins with another one's: of a path in another's   *)
(* home checkpath would not tell whose it is.                              *)
Shaped(v) ==
  DOMAIN v = {"dirs", "link", "store", "filedata", "sharedata", "filecount"}

RowPlaced(v, us, r) ==
  /\ DOMAIN r = {"sharer", "sharee", "origpath", "shareepath", "perm"}
  /\ {r.origpath, r.shareepath} \subseteq DOMAIN v.link
  /\ r.sharer \in us /\ checkpath(r.origpath, r.sharer) /\ ~InShared(r.origpath, r.sharer)
  /\ r.sharee \in us /\ r.shareepath[1] = r.sharee /\ InShared(r.shareepath, r.sharee)

RowsPlaced(v, us) ==
  /\ \A r \in v.sharedata : RowPlaced(v, us, r)
  /\ \A r, s \in v.sharedata : r.shareepath = s.shareepath => r = s

NamesInv(v, us) ==
  /\ us \subseteq User /\ NamesApart(us)
  /\ Shaped(v) /\ TreeSound(v, {}) /\ <<>> \notin Taken(v) /\ RowsPlaced(v, us)

(* Among users whose names are apart nobody's path lies in another's home, *)
(* and a path is checked for one of them only.                             *)
LEMMA OwnHome ==
  ASSUME NEW us, NamesApart(us), NEW u \in us, NEW p, checkpath(p, u), p[1] \in us
  PROVE  p[1] = u
<1>1. StartsWith(p[1], u)
  BY DEF checkpath, HasPrefix, Root
<1> QED
  BY <1>1 DEF NamesApart

LEMMA OneReaches ==
  ASSUME NEW us, us \subseteq User, NamesApart(us), NEW p \in Seq(Name),
         NEW u \in us, NEW x \in us, checkpath(p, u), checkpath(p, x)
  PROVE  x = u
<1>1. 1 <= Len(p) /\ StartsWith(p[1], u) /\ StartsWith(p[1], x)
  BY DEF checkpath, HasPrefix, Root
<1>2. p[1] \in Name
  BY <1>1
<1>3. StartsWith(u, x) \/ StartsWith(x, u)
  BY <1>1, <1>2, NameAssumption
<1> QED
  BY <1>3 DEF NamesApart

SameNames(v, w) ==
  /\ Shaped(w)
  /\ w.dirs = v.dirs /\ DOMAIN w.link = DOMAIN v.link /\ w.sharedata = v.sharedata

LEMMA SameNamesInv ==
  ASSUME NEW v, NEW w, SameNames(v, w)
  PROVE  /\ Taken(w) = Taken(v)
         /\ TreeSound(v, {}) => TreeSound(w, {})
         /\ \A us : NamesInv(v, us) => NamesInv(w, us)
<1>1. Taken(w) = Taken(v)
  BY DEF SameNames, Taken
<1> QED
  BY <1>1 DEF SameNames, TreeSound, NamesInv, RowsPlaced, RowPlaced

(* No file is both shared and received.                                    *)
LEMMA OrigNotReceived ==
  ASSUME NEW v, NEW us, NamesInv(v, us), NEW r \in v.sharedata
  PROVE  r.origpath \notin ShareePaths(v.sharedata)
<1> SUFFICES ASSUME NEW s \in v.sharedata, s.shareepath = r.origpath PROVE FALSE
  BY DEF ShareePaths
<1>1. RowPlaced(v, us, r) /\ RowPlaced(v, us, s) /\ NamesApart(us)
  BY DEF NamesInv, RowsPlaced
<1>2. s.sharee = r.sharer
  BY <1>1, OwnHome DEF RowPlaced
<1> QED
  BY <1>1, <1>2 DEF RowPlaced

\* The name p goes: a link, or a directory that is empty.
NameGone(v, w, p) ==
  /\ Shaped(w) /\ w.sharedata = v.sharedata
  /\ \/ /\ p \in DOMAIN v.link
        /\ w.dirs = v.dirs /\ DOMAIN w.link = DOMAIN v.link \ {p}
     \/ /\ p \notin DOMAIN v.link /\ p \in v.dirs /\ \A q \in Taken(v) : Parent(q) # p
        /\ w.dirs = v.dirs \ {p} /\ DOMAIN w.link = DOMAIN v.link

LEMMA RemoveNames ==
  ASSUME NEW v, Shaped(v), NEW u, NEW p
  PROVE  LET w == remove(v, p, u).vol IN SameNames(v, w) \/ NameGone(v, w, p)
<1> DEFINE w == remove(v, p, u).vol
<1> USE DEF remove, Result
<1>1. CASE ~checkpath(p, u)
  BY <1>1 DEF SameNames
<1>2. CASE checkpath(p, u) /\ p \in DOMAIN v.link
  <2> DEFINE k == v.link[p]
             left == Owners(v, k) - 1
             g == Without(v.link, {p})
             x == [v EXCEPT !.link = g]
             lowered == {IF r.filename = k THEN [r EXCEPT !.numowners = left] ELSE r
                           : r \in v.filedata}
             y == [x EXCEPT !.filedata = lowered]
  <2>1. DOMAIN g = DOMAIN v.link \ {p}
    BY DEF Without, Restrict
  <2>2. /\ Shaped(x) /\ x.dirs = v.dirs /\ x.link = g /\ x.sharedata = v.sharedata
        /\ x.filedata = v.filedata
    <3> HIDE DEF g
    <3> QED
      BY DEF Shaped
  <2>3. Shaped(y) /\ y.dirs = v.dirs /\ y.link = g /\ y.sharedata = v.sharedata
    <3> HIDE DEF lowered, g
    <3> QED
      BY <2>2 DEF Shaped
  <2>4. /\ Shaped(Forget(x, k)) /\ Forget(x, k).dirs = v.dirs /\ Forget(x, k).link = g
        /\ Forget(x, k).sharedata = v.sharedata
    <3> HIDE DEF x, g, k
    <3> QED
      BY <2>2 DEF Shaped, Forget
  <2>5. w \in {x, y, Forget(x, k)}
    <3>1. remove(v, p, u) = RemoveLink(v, p)
      BY <1>2
    <3>2. [x EXCEPT !.filedata = {IF r.filename = k THEN [r EXCEPT !.numowners = left] ELSE r
                                    : r \in @}] = y
      BY <2>2
    <3> QED
      BY <3>1, <3>2 DEF RemoveLink
  <2> HIDE DEF w, x, y, g, k
  <2>6. NameGone(v, w, p)
    BY <1>2, <2>1, <2>2, <2>3, <2>4, <2>5 DEF NameGone
  <2> QED
    BY <2>6 DEF w
<1>3. CASE checkpath(p, u) /\ p \notin DOMAIN v.link
  BY <1>3 DEF Removable, IsEmptyDir, NameGone, SameNames, Shaped
<1> QED
  BY <1>1, <1>2, <1>3

\* The link p is made.
NameMade(v, w, p) ==
  /\ CanCreate(v, p)
  /\ Shaped(w) /\ w.sharedata = v.sharedata
  /\ w.dirs = v.dirs /\ DOMAIN w.link = DOMAIN v.link \cup {p}

LEMMA StoreNames ==
  ASSUME NEW v, Shaped(v), NEW p, NEW b
  PROVE  \A w \in {LinkExisting(v, p, b).vol, StoreNew(v, p, b).vol} :
           NameMade(v, w, p) \/ (SameNames(v, w) /\ ~CanCreate(v, p))
<1> USE DEF Result, Shaped
<1>1. \A k : DOMAIN With(v.link, p, k) = DOMAIN v.link \cup {p}
  BY DEF With
<1>2. LET w == LinkExisting(v, p, b).vol
      IN  NameMade(v, w, p) \/ (SameNames(v, w) /\ ~CanCreate(v, p))
  <2>1. CASE CanCreate(v, p)
    <3> DEFINE row == CHOOSE r \in v.filedata : r.filehash = b
               g == With(v.link, p, row.filename)
               fd == {IF r.filehash = b THEN [r EXCEPT !.numowners = row.numowners + 1]
                      ELSE r : r \in v.filedata}
               w == [v EXCEPT !.link = g, !.filedata = fd]
    <3>1. LinkExisting(v, p, b).vol = w
      BY <2>1 DEF LinkExisting
    <3>2. DOMAIN g = DOMAIN v.link \cup {p}
      BY <1>1
    <3>3. Shaped(w) /\ w.dirs = v.dirs /\ w.link = g /\ w.sharedata = v.sharedata
      <4> HIDE DEF g, fd, row
      <4> QED
        OBVIOUS
    <3> HIDE DEF w, g
    <3> QED
      BY <2>1, <3>1, <3>2, <3>3 DEF NameMade
  <2> QED
    BY <2>1 DEF LinkExisting, SameNames
<1>3. LET w == StoreNew(v, p, b).vol
      IN  NameMade(v, w, p) \/ (SameNames(v, w) /\ ~CanCreate(v, p))
  <2>1. CASE CanCreate(v, p)
    <3> DEFINE k == v.filecount
               g == With(v.link, p, k)
               st == With(v.store, k, b)
               fd == v.filedata \cup {[filename |-> k, filehash |-> b, numowners |-> 1]}
               w == [v EXCEPT !.store = st, !.link = g, !.filedata = fd, !.filecount = k + 1]
    <3>1. StoreNew(v, p, b).vol = w
      BY <2>1 DEF StoreNew
    <3>2. DOMAIN g = DOMAIN v.link \cup {p}
      BY <1>1
    <3>3. Shaped(w) /\ w.dirs = v.dirs /\ w.link = g /\ w.sharedata = v.sharedata
      <4> HIDE DEF g, fd, st, k
      <4> QED
        OBVIOUS
    <3> HIDE DEF w, g
    <3> QED
      BY <2>1, <3>1, <3>2, <3>3 DEF NameMade
  <2> QED
    BY <2>1 DEF StoreNew, SameNames
<1> QED
  BY <1>2, <1>3

\* v and w differ at most by whether, and as what, the name p is there.
NamesApartFrom(v, w, p) ==
  /\ Shaped(w) /\ TreeSound(w, {}) /\ w.sharedata = v.sharedata
  /\ Taken(w) \ {p} = Taken(v) \ {p}
  /\ DOMAIN w.link \ {p} = DOMAIN v.link \ {p}

LEMMA NameGoneTree ==
  ASSUME NEW v, TreeSound(v, {}), NEW w, NEW p, NameGone(v, w, p)
  PROVE  NamesApartFrom(v, w, p)
<1>1. Taken(w) \subseteq Taken(v) /\ Taken(w) \ {p} = Taken(v) \ {p}
  BY DEF NameGone, Taken
<1>2. TreeSound(w, {})
  BY <1>1 DEF NameGone, TreeSound
<1> QED
  BY <1>1, <1>2 DEF NameGone, NamesApartFrom

LEMMA NameMadeTree ==
  ASSUME NEW v, TreeSound(v, {}), NEW w, NEW p, NameMade(v, w, p)
  PROVE  NamesApartFrom(v, w, p)
<1>1. Taken(w) = Taken(v) \cup {p} /\ p \notin v.dirs /\ Parent(p) \in v.dirs \cup {<<>>}
  BY DEF NameMade, CanCreate, Taken
<1>2. TreeSound(w, {})
  BY <1>1 DEF NameMade, TreeSound
<1> QED
  BY <1>1, <1>2 DEF NameMade, NamesApartFrom

LEMMA SameNamesTree ==
  ASSUME NEW v, TreeSound(v, {}), NEW w, NEW p, SameNames(v, w)
  PROVE  NamesApartFrom(v, w, p)
<1>1. Taken(w) = Taken(v) /\ TreeSound(w, {})
  BY SameNamesInv
<1> QED
  BY <1>1 DEF SameNames, NamesApartFrom

(* An upload to a file that is there leaves every name as it was, although *)
(* the file is removed first.                                              *)
LEMMA UploadNames ==
  ASSUME NEW v, Shaped(v), TreeSound(v, {}), NEW u, NEW p, NEW b
  PROVE  LET x == uploadHelper(v, p, u, b).vol
         IN  NamesApartFrom(v, x, p) /\ (p \in DOMAIN v.link => SameNames(v, x))
<1> DEFINE w == IF Stat(v, p) THEN remove(v, p, u).vol ELSE v
           x == uploadHelper(v, p, u, b).vol
<1>0. SameNames(v, v)
  BY DEF SameNames
<1>1. CASE InShared(p, u)
  <2>1. x = v
    BY <1>1 DEF uploadHelper, Result
  <2> QED
    BY <1>0, <2>1, SameNamesTree
<1>2. CASE ~InShared(p, u)
  <2>1. SameNames(v, w) \/ NameGone(v, w, p)
    BY <1>0, RemoveNames
  <2>2. x \in {LinkExisting(w, p, b).vol, StoreNew(w, p, b).vol}
    BY <1>2 DEF uploadHelper
  <2> HIDE DEF w, x
  <2>3. Shaped(w)
    BY <2>1 DEF SameNames, NameGone
  <2>4. NamesApartFrom(v, w, p)
    BY <2>1, SameNamesTree, NameGoneTree
  <2>5. NameMade(w, x, p) \/ (SameNames(w, x) /\ ~CanCreate(w, p))
    BY <2>2, <2>3, StoreNames
  <2>6. NamesApartFrom(w, x, p)
    BY <2>4, <2>5, NameMadeTree, SameNamesTree DEF NamesApartFrom
  <2>7. NamesApartFrom(v, x, p)
    BY <2>4, <2>6 DEF NamesApartFrom
  <2>8. ASSUME p \in DOMAIN v.link PROVE SameNames(v, x)
    <3>1. CASE SameNames(v, w)
      <4>1. ~CanCreate(w, p)
        BY <2>8, <3>1 DEF SameNames, CanCreate, Taken
      <4>2. SameNames(w, x)
        BY <2>5, <4>1 DEF NameMade
      <4> QED
        BY <3>1, <4>2 DEF SameNames
    <3>2. CASE NameGone(v, w, p)
      <4>1. w.dirs = v.dirs /\ DOMAIN w.link = DOMAIN v.link \ {p} /\ w.sharedata = v.sharedata
        BY <2>8, <3>2 DEF NameGone
      <4>2. p \notin v.dirs /\ Parent(p) \in v.dirs \cup {<<>>}
        BY <2>8 DEF TreeSound, Taken
      <4>3. CanCreate(w, p)
        BY <4>1, <4>2 DEF CanCreate, Taken
      <4>4. NameMade(w, x, p)
        BY <2>5, <4>3
      <4> QED
        BY <2>8, <4>1, <4>4 DEF NameMade, SameNames
    <3> QED
      BY <2>1, <3>1, <3>2
  <2> QED
    BY <2>7, <2>8 DEF x
<1> QED
  BY <1>1, <1>2

(* Of a file that is shared all links are found, so they all are unlinked. *)
LEMMA AllUnlinked ==
  ASSUME NEW v, NEW us, RowsPlaced(v, us), NEW rows, rows \subseteq v.sharedata,
         NEW done \in Unlinkable(v, rows)
  PROVE  done = rows
<1>1. AllRemovable(v, rows \ done)
  BY DEF RowsPlaced, RowPlaced, AllRemovable, CanRemove
<1> QED
  BY <1>1 DEF Unlinkable

LEMMA UnlinkNames ==
  ASSUME NEW v, Shaped(v), TreeSound(v, {}), NEW S, S \subseteq DOMAIN v.link
  PROVE  LET w == Removed(v, S)
         IN  /\ Shaped(w) /\ TreeSound(w, {})
             /\ w.dirs = v.dirs /\ w.sharedata = v.sharedata
             /\ DOMAIN w.link = DOMAIN v.link \ S
<1> DEFINE g == Without(v.link, S)
           e == v.dirs \ S
           w == Removed(v, S)
<1>1. DOMAIN g = DOMAIN v.link \ S
  BY DEF Without, Restrict
<1>2. e = v.dirs
  BY DEF TreeSound
<1>3. Shaped(w) /\ w.dirs = v.dirs /\ w.link = g /\ w.sharedata = v.sharedata
  <2>1. w = [v EXCEPT !.link = g, !.dirs = e]
    BY DEF Removed
  <2> HIDE DEF g, e, w
  <2> QED
    BY <1>2, <2>1 DEF Shaped
<1> HIDE DEF g, w
<1>4. TreeSound(w, {})
  BY <1>1, <1>3 DEF TreeSound, Taken
<1> QED
  BY <1>1, <1>3, <1>4 DEF w

(* An upload for the sharer, by whomever it was asked for, takes away      *)
(* links of several users and leaves all of them, and no other, in place.  *)
LEMMA SharerUploadNames ==
  ASSUME NEW v, NEW us, NamesInv(v, us), NEW sharer, NEW orig, NEW b,
         SharesOf(v, sharer, orig) # {},
         NEW done \in Unlinkable(v, SharesOf(v, sharer, orig))
  PROVE  SameNames(v, sharerUpload(v, sharer, orig, b, done).vol)
<1> DEFINE rows == SharesOf(v, sharer, orig)
           S == ShareePaths(rows)
           d == Removed(v, ShareePaths(done))
           w == uploadHelper(d, orig, sharer, b).vol
           x == sharerUpload(v, sharer, orig, b, done).vol
<1>0. Shaped(v) /\ TreeSound(v, {}) /\ RowsPlaced(v, us)
  BY DEF NamesInv
<1>1. rows \subseteq v.sharedata /\ \A r \in rows : r.origpath = orig
  BY DEF SharesOf
<1>2. done = rows
  BY <1>0, <1>1, AllUnlinked
<1>3. orig \in DOMAIN v.link /\ orig \notin S
  <2>1. PICK r \in rows : TRUE
    OBVIOUS
  <2>2. r \in v.sharedata /\ r.origpath = orig
    BY <1>1
  <2>3. orig \notin ShareePaths(v.sharedata)
    BY <2>2, OrigNotReceived
  <2>4. S \subseteq ShareePaths(v.sharedata)
    BY <1>1 DEF ShareePaths
  <2> HIDE DEF S, rows
  <2> QED
    BY <1>0, <2>2, <2>3, <2>4 DEF RowsPlaced, RowPlaced
<1>4. S \subseteq DOMAIN v.link
  BY <1>0, <1>1 DEF RowsPlaced, RowPlaced, ShareePaths
<1>5. /\ Shaped(d) /\ TreeSound(d, {}) /\ d.dirs = v.dirs /\ d.sharedata = v.sharedata
      /\ DOMAIN d.link = DOMAIN v.link \ S
  <2> HIDE DEF rows
  <2> QED
    BY <1>0, <1>2, <1>4, UnlinkNames
<1>6. x = IF orig \notin DOMAIN w.link THEN w ELSE Relink(w, orig, rows)
  BY <1>2 DEF sharerUpload, Result
<1> HIDE DEF d
<1>7. SameNames(d, w)
  BY <1>3, <1>5, UploadNames
<1> HIDE DEF w, x
<1>8. /\ Shaped(w) /\ w.dirs = v.dirs /\ w.sharedata = v.sharedata
      /\ DOMAIN w.link = DOMAIN v.link \ S
  BY <1>5, <1>7 DEF SameNames
<1>9. x = Relink(w, orig, rows)
  BY <1>3, <1>6, <1>8
<1>10. \A q \in S : CanCreate(w, q)
  <2> HIDE DEF S
  <2> SUFFICES ASSUME NEW q \in S PROVE CanCreate(w, q)
    OBVIOUS
  <2>1. q \in DOMAIN v.link /\ q \notin v.dirs /\ Parent(q) \in v.dirs \cup {<<>>}
    BY <1>0, <1>4 DEF TreeSound, Taken
  <2> QED
    BY <1>8, <2>1 DEF CanCreate, Taken
<1>11. Shaped(x) /\ x.dirs = w.dirs /\ x.sharedata = w.sharedata
       /\ DOMAIN x.link = DOMAIN w.link \cup S
  <2> DEFINE made == {q \in S : CanCreate(w, q)}
             g == [q \in DOMAIN w.link \cup made |->
                     IF q \in made THEN w.link[orig] ELSE w.link[q]]
  <2>1. x = [w EXCEPT !.link = g]
    BY <1>9 DEF Relink
  <2>2. made = S
    BY <1>10
  <2>3. DOMAIN g = DOMAIN w.link \cup made
    OBVIOUS
  <2> HIDE DEF made, g, S
  <2> QED
    BY <1>8, <2>1, <2>2, <2>3 DEF Shaped
<1>12. SameNames(v, x)
  <2> HIDE DEF S
  <2> QED
    BY <1>4, <1>8, <1>11 DEF SameNames
<1> QED
  BY <1>12 DEF x

-----------------------------------------------------------------------------
(* Each request keeps this, and makes and takes away names only that are   *)
(* its user's to name.                                                     *)
NamesOf(u) ==
  \A p \in SymDiff(Taken(vol), Taken(vol')) :
    p[1] \in userdata => u \in Namers(vol.sharedata \cup vol'.sharedata, p)

Settled == NamesInv(vol, userdata)
Orderly(u) == NamesInv(vol', userdata) /\ NamesOf(u)

LEMMA NamesKeptOrderly ==
  ASSUME Settled, NEW u, SameNames(vol, vol') \/ vol' = vol
  PROVE  Orderly(u)
<1>1. NamesInv(vol', userdata) /\ Taken(vol') = Taken(vol)
  BY SameNamesInv DEF Settled
<1> QED
  BY <1>1 DEF Orderly, NamesOf, SymDiff

LEMMA OneNameOrderly ==
  ASSUME Settled, NEW u \in userdata, NEW p, p # <<>>, checkpath(p, u),
         NamesApartFrom(vol, vol', p), isSharedFile(vol, p) = ""
  PROVE  Orderly(u)
<1>1. p \notin ShareePaths(vol.sharedata) /\ \A r \in vol.sharedata : r.origpath # p
  BY DEF isSharedFile
<1>2. \A r \in vol.sharedata : r.shareepath # p
  BY <1>1 DEF ShareePaths
<1>3. RowsPlaced(vol', userdata)
  <2>1. /\ vol'.sharedata = vol.sharedata /\ RowsPlaced(vol, userdata)
        /\ \A q \in DOMAIN vol.link : q # p => q \in DOMAIN vol'.link
    BY DEF NamesApartFrom, NamesInv, Settled
  <2> QED
    BY <1>1, <1>2, <2>1 DEF RowsPlaced, RowPlaced
<1>4. p[1] \in userdata => p[1] = u
  BY OwnHome DEF Settled, NamesInv
<1>5. NamesOf(u)
  BY <1>4 DEF NamesApartFrom, NamesOf, SymDiff, Namers
<1> QED
  BY <1>3, <1>5 DEF Orderly, NamesInv, NamesApartFrom, Settled

LEMMA Checked ==
  ASSUME NEW p, NEW u, checkpath(p, u)
  PROVE  p # <<>>
<1>1. Len(p) >= 1
  BY DEF checkpath, HasPrefix, Root
<1>2. Len(<<>>) = 0
  OBVIOUS
<1> QED
  BY <1>1, <1>2

(* The rows that share a file u may reach are u's.                         *)
LEMMA SharersRows ==
  ASSUME Settled, NEW u \in userdata, NEW p \in Seq(Name), checkpath(p, u),
         isSharedFile(vol, p) = "sharer"
  PROVE  /\ SharesOf(vol, u, p) # {}
         /\ \A r \in vol.sharedata : r.origpath = p => r \in SharesOf(vol, u, p)
<1>1. ASSUME NEW r \in vol.sharedata, r.origpath = p PROVE r.sharer = u
  <2>1. r.sharer \in userdata /\ checkpath(p, r.sharer)
    BY <1>1 DEF Settled, NamesInv, RowsPlaced, RowPlaced
  <2> QED
    BY <2>1, OneReaches DEF Settled, NamesInv
<1>2. \E r \in vol.sharedata : r.origpath = p
  BY DEF isSharedFile
<1> QED
  BY <1>1, <1>2 DEF SharesOf

LEMMA UploadOrderly ==
  ASSUME Settled, NEW u \in userdata, NEW p \in Seq(Name), NEW b, uploadHandler(u, p, b)
  PROVE  Orderly(u)
<1>1. CASE Refuse("error")
  BY <1>1, NamesKeptOrderly DEF Refuse
<1>2. CASE checkpath(p, u) /\ UploadPlain(u, p, b)
  <2>1. vol' = uploadHelper(vol, p, u, b).vol /\ isSharedFile(vol, p) = ""
        /\ checkpath(p, u) /\ p # <<>>
    BY <1>2, Checked DEF UploadPlain, Stored, Answer
  <2>2. NamesApartFrom(vol, vol', p)
    BY <2>1, UploadNames DEF NamesInv, Settled
  <2> QED
    BY <2>1, <2>2, OneNameOrderly
<1>3. CASE checkpath(p, u) /\ UploadAsSharer(u, p, b)
  <2>1. isSharedFile(vol, p) = "sharer" /\ checkpath(p, u)
    BY <1>3 DEF UploadAsSharer
  <2>2. PICK done \in Unlinkable(vol, SharesOf(vol, u, p)) :
          vol' = sharerUpload(vol, u, p, b, done).vol
    BY <1>3 DEF UploadAsSharer, Stored, Answer
  <2>3. SameNames(vol, vol')
    BY <2>1, <2>2, SharersRows, SharerUploadNames DEF Settled
  <2> QED
    BY <2>3, NamesKeptOrderly
<1>4. CASE checkpath(p, u) /\ UploadAsSharee(u, p, b) /\ ~Refuse("error")
  <2>1. PICK r \in vol.sharedata :
          \E done \in Unlinkable(vol, SharesOf(vol, r.sharer, r.origpath)) :
            vol' = sharerUpload(vol, r.sharer, r.origpath, b, done).vol
    BY <1>4, <1>1 DEF UploadAsSharee, Stored, Answer, Result
  <2>2. SharesOf(vol, r.sharer, r.origpath) # {}
    BY DEF SharesOf
  <2>3. SameNames(vol, vol')
    BY <2>1, <2>2, SharerUploadNames DEF Settled
  <2> QED
    BY <2>3, NamesKeptOrderly
<1> QED
  BY <1>1, <1>2, <1>3, <1>4 DEF uploadHandler

LEMMA MkdirOrderly ==
  ASSUME Settled, NEW u \in userdata, NEW p, mkdirHandler(u, p)
  PROVE  Orderly(u)
<1>1. CASE Refuse("error")
  BY <1>1, NamesKeptOrderly DEF Refuse
<1>2. CASE /\ checkpath(p, u) /\ CanCreate(vol, p)
           /\ vol' = [vol EXCEPT !.dirs = @ \cup {p}]
  <2>1. /\ Shaped(vol') /\ vol'.dirs = vol.dirs \cup {p}
        /\ vol'.link = vol.link /\ vol'.sharedata = vol.sharedata
    BY <1>2 DEF Settled, NamesInv, Shaped
  <2>2. Taken(vol') = Taken(vol) \cup {p}
    BY <2>1 DEF Taken
  <2>3. TreeSound(vol', {}) /\ <<>> \notin Taken(vol')
    BY <1>2, <2>1, <2>2, Checked DEF Settled, NamesInv, TreeSound, CanCreate, Taken
  <2>4. RowsPlaced(vol', userdata)
    BY <2>1 DEF Settled, NamesInv, RowsPlaced, RowPlaced
  <2>5. NamesOf(u)
    <3>1. p[1] \in userdata => p[1] = u
      BY <1>2, OwnHome DEF Settled, NamesInv
    <3> QED
      BY <2>2, <3>1 DEF NamesOf, SymDiff, Namers
  <2> QED
    BY <2>1, <2>3, <2>4, <2>5 DEF Orderly, NamesInv, Settled
<1> QED
  BY <1>1, <1>2 DEF mkdirHandler, Answer, Result

\* Rows go from sharedata, and with them their links.
RowsGone(v, w, rows) ==
  /\ Shaped(w) /\ w.dirs = v.dirs
  /\ DOMAIN w.link = DOMAIN v.link \ ShareePaths(rows)
  /\ w.sharedata = v.sharedata \ rows

LEMMA RowsGoneInv ==
  ASSUME NEW v, NEW us, NamesInv(v, us), NEW rows, rows \subseteq v.sharedata,
         NEW w, RowsGone(v, w, rows)
  PROVE  NamesInv(w, us)
<1>1. TreeSound(w, {}) /\ <<>> \notin Taken(w)
  BY DEF RowsGone, NamesInv, TreeSound, Taken
<1>2. ASSUME NEW r \in w.sharedata PROVE RowPlaced(w, us, r)
  <2>1. r \in v.sharedata /\ r \notin rows /\ RowPlaced(v, us, r)
    BY DEF RowsGone, NamesInv, RowsPlaced
  <2>2. r.origpath \notin ShareePaths(rows)
    <3>1. r.origpath \notin ShareePaths(v.sharedata)
      BY <2>1, OrigNotReceived
    <3> QED
      BY <3>1 DEF ShareePaths
  <2>3. r.shareepath \notin ShareePaths(rows)
    BY <2>1 DEF NamesInv, RowsPlaced, ShareePaths
  <2> QED
    BY <2>1, <2>2, <2>3 DEF RowsGone, RowPlaced
<1>3. RowsPlaced(w, us)
  BY <1>2 DEF RowsGone, NamesInv, RowsPlaced
<1> QED
  BY <1>1, <1>3 DEF RowsGone, NamesInv

LEMMA DropRowsNames ==
  ASSUME NEW v, NEW us, NamesInv(v, us), NEW rows, rows \subseteq v.sharedata,
         NEW paths, ShareePaths(rows) = paths, NEW kept, kept = v.sharedata \ rows
  PROVE  RowsGone(v, [Removed(v, paths) EXCEPT !.sharedata = kept], rows)
<1> DEFINE d == Removed(v, paths)
           w == [d EXCEPT !.sharedata = kept]
<1>1. paths \subseteq DOMAIN v.link
  BY DEF NamesInv, RowsPlaced, RowPlaced, ShareePaths
<1>2. Shaped(d) /\ d.dirs = v.dirs /\ DOMAIN d.link = DOMAIN v.link \ paths
  BY <1>1, UnlinkNames DEF NamesInv
<1> HIDE DEF d
<1>3. Shaped(w) /\ w.dirs = d.dirs /\ w.link = d.link /\ w.sharedata = kept
  BY <1>2 DEF Shaped
<1> HIDE DEF w
<1>4. RowsGone(v, w, rows)
  BY <1>2, <1>3 DEF RowsGone
<1> QED
  BY <1>4 DEF w, d

LEMMA RowsGoneOrderly ==
  ASSUME Settled, NEW u, NEW rows, rows \subseteq vol.sharedata,
         RowsGone(vol, vol', rows),
         \A r \in rows : r.sharer = u \/ r.shareepath[1] = u
  PROVE  Orderly(u)
<1>1. NamesInv(vol', userdata)
  BY RowsGoneInv DEF Settled
<1>2. SymDiff(Taken(vol), Taken(vol')) \subseteq ShareePaths(rows)
  BY DEF RowsGone, SymDiff, Taken
<1>3. ASSUME NEW p \in ShareePaths(rows)
      PROVE  u \in Namers(vol.sharedata \cup vol'.sharedata, p)
  BY DEF ShareePaths, Namers
<1> QED
  BY <1>1, <1>2, <1>3 DEF Orderly, NamesOf

LEMMA RemoveOrderly ==
  ASSUME Settled, NEW u \in userdata, NEW p \in Seq(Name), removeHandler(u, p)
  PROVE  Orderly(u)
<1>0. Shaped(vol) /\ TreeSound(vol, {}) /\ RowsPlaced(vol, userdata) /\ NamesApart(userdata)
  BY DEF NamesInv, Settled
<1>1. CASE Refuse("error")
  BY <1>1, NamesKeptOrderly DEF Refuse
<1>2. CASE checkpath(p, u) /\ RemovePlain(u, p)
  <2>1. vol' = remove(vol, p, u).vol /\ isSharedFile(vol, p) = "" /\ p # <<>>
    BY <1>2, Checked DEF RemovePlain, Answer
  <2>2. NamesApartFrom(vol, vol', p)
    BY <1>0, <2>1, RemoveNames, SameNamesTree, NameGoneTree
  <2> QED
    BY <1>2, <2>1, <2>2, OneNameOrderly
<1>3. CASE /\ checkpath(p, u) /\ isSharedFile(vol, p) = "sharee"
           /\ vol' = RemoveReceived(vol, u, p)
  <2> DEFINE rows == {r \in vol.sharedata : r.sharee = u /\ r.shareepath = p}
             kept == {r \in vol.sharedata : ~(r.sharee = u /\ r.shareepath = p)}
             d == Removed(vol, {p})
  <2>1. PICK r \in vol.sharedata : r.shareepath = p
    BY <1>3 DEF isSharedFile, ShareePaths
  <2>2. r.sharee \in userdata /\ p[1] = r.sharee
    BY <1>0, <2>1 DEF RowsPlaced, RowPlaced
  <2>3. r.sharee = u
    BY <1>0, <1>3, <2>2, OwnHome
  <2>4. ShareePaths(rows) = {p}
    BY <2>1, <2>3 DEF ShareePaths
  <2>5. kept = vol.sharedata \ rows /\ rows \subseteq vol.sharedata
        /\ \A s \in rows : s.shareepath[1] = u
    BY <2>2, <2>3
  <2>6. d.sharedata = vol.sharedata
    BY <1>0 DEF Removed, Shaped
  <2>7. vol' = [d EXCEPT !.sharedata = {r2 \in d.sharedata :
                                           ~(r2.sharee = u /\ r2.shareepath = p)}]
    BY <1>3 DEF RemoveReceived
  <2> HIDE DEF d
  <2>8. vol' = [d EXCEPT !.sharedata = kept]
    BY <2>6, <2>7
  <2> HIDE DEF rows, kept
  <2>9. RowsGone(vol, vol', rows)
    BY <2>4, <2>5, <2>8, DropRowsNames DEF Settled, d
  <2> QED
    BY <2>5, <2>9, RowsGoneOrderly
<1>4. CASE checkpath(p, u) /\ RemoveAsSharer(u, p)
  <2> DEFINE rows == SharesOf(vol, u, p)
             d == Removed(vol, ShareePaths(rows))
             w == [d EXCEPT !.sharedata = vol.sharedata \ rows]
  <2>1. p # <<>> /\ isSharedFile(vol, p) = "sharer"
    BY <1>4, Checked DEF RemoveAsSharer
  <2>2. PICK done \in Unlinkable(vol, rows) : vol' = RemoveShared(vol, u, p, done).vol
    BY <1>4 DEF RemoveAsSharer, Answer
  <2>3. rows \subseteq vol.sharedata /\ \A r \in rows : r.sharer = u
    BY DEF SharesOf
  <2>4. \A r \in vol.sharedata : r.origpath = p => r \in rows
    BY <1>4, <2>1, SharersRows
  <2>5. rows # {} /\ \A r \in rows : r.origpath = p
    BY <1>4, <2>1, SharersRows DEF SharesOf
  <2>6. done = rows
    BY <1>0, <2>2, <2>3, AllUnlinked
  <2>7. vol' = remove(w, p, u).vol
    <3>1. d.sharedata = vol.sharedata
      BY <1>0 DEF Removed, Shaped
    <3>2. RemoveShared(vol, u, p, rows) = remove([d EXCEPT !.sharedata = d.sharedata \ rows], p, u)
      BY DEF RemoveShared
    <3> HIDE DEF d, rows
    <3> QED
      BY <2>2, <2>6, <3>1, <3>2
  <2> HIDE DEF rows
  <2>8. RowsGone(vol, w, rows)
    BY <2>3, DropRowsNames DEF Settled
  <2> HIDE DEF w
  <2>9. NamesInv(w, userdata)
    BY <2>3, <2>8, RowsGoneInv DEF Settled
  <2>10. NamesApartFrom(w, vol', p)
    BY <2>7, <2>9, RemoveNames, SameNamesTree, NameGoneTree DEF NamesInv
  <2>11. /\ \A r \in w.sharedata : r.origpath # p
         /\ \A r \in w.sharedata : r.shareepath # p
    <3>1. w.sharedata \subseteq vol.sharedata /\ \A r \in w.sharedata : r.origpath # p
      BY <2>4, <2>8 DEF RowsGone
    <3>2. p \notin ShareePaths(vol.sharedata)
      BY <2>3, <2>5, OrigNotReceived DEF Settled
    <3> QED
      BY <3>1, <3>2 DEF ShareePaths
  <2>12. NamesInv(vol', userdata)
    <3>1. RowsPlaced(vol', userdata)
      BY <2>9, <2>10, <2>11 DEF NamesApartFrom, NamesInv, RowsPlaced, RowPlaced
    <3> QED
      BY <2>1, <2>9, <2>10, <3>1 DEF NamesApartFrom, NamesInv
  <2>13. ASSUME NEW q \in SymDiff(Taken(vol), Taken(vol')), q[1] \in userdata
         PROVE  u \in Namers(vol.sharedata \cup vol'.sharedata, q)
    <3>1. q = p \/ q \in ShareePaths(rows)
      BY <2>8, <2>10 DEF RowsGone, NamesApartFrom, SymDiff, Taken
    <3>2. CASE q = p
      <4>1. q[1] = u
        BY <1>0, <1>4, <2>13, <3>2, OwnHome
      <4> QED
        BY <4>1 DEF Namers
    <3>3. CASE q \in ShareePaths(rows)
      BY <2>3, <3>3 DEF ShareePaths, Namers
    <3> QED
      BY <3>1, <3>2, <3>3
  <2> QED
    BY <2>12, <2>13 DEF Orderly, NamesOf
<1>5. RemoveAsSharee(u, p) =>
        Refuse("error") \/ (/\ isSharedFile(vol, p) = "sharee"
                            /\ vol' = RemoveReceived(vol, u, p))
  BY DEF RemoveAsSharee, Answer, Result
<1> QED
  BY <1>1, <1>2, <1>3, <1>4, <1>5 DEF removeHandler

(* The name a shared file gets lies in the sharee's Shared_with_me.        *)
LEMMA ReceivedPlace ==
  ASSUME NEW sharee \in User, NEW p, NEW i
  PROVE  LET a == ReceivedAs(sharee, p, i) IN a # <<>> /\ a[1] = sharee /\ InShared(a, sharee)
<1> DEFINE n == Candidate(i, Base(p))
           S == {sharee, SharedName, n}
           d == SharedDir(sharee)
           a == ReceivedAs(sharee, p, i)
<1>1. d \in Seq(S) /\ Len(d) = 2 /\ d[1] = sharee /\ d[2] = SharedName
  BY DEF SharedDir
<1>2. n \in S /\ a = Append(d, n)
  BY DEF ReceivedAs
<1> HIDE DEF n, S, d, a
<1>3. Len(a) = Len(d) + 1 /\ \A j \in 1 .. Len(d) : a[j] = d[j]
  <2>1. d \in Seq(S) /\ n \in S
    BY <1>1, <1>2
  <2>2. Len(Append(d, n)) = Len(d) + 1 /\ \A j \in 1 .. Len(d) : Append(d, n)[j] = d[j]
    BY <2>1, AppendProperties
  <2> QED
    BY <1>2, <2>2
<1>4. Len(a) = 3 /\ a[1] = sharee /\ a[2] = SharedName
  BY <1>1, <1>3
<1>5. StartsWith(SharedName, SharedName)
  BY NameAssumption
<1>6. InShared(a, sharee)
  <2>1. /\ Len(d) <= Len(a)
        /\ \A j \in 1 .. Len(d) - 1 : a[j] = d[j]
        /\ StartsWith(a[Len(d)], d[Len(d)])
    BY <1>1, <1>4, <1>5
  <2> QED
    BY <2>1 DEF InShared, HasPrefix, d
<1>7. a # <<>>
  BY <1>4
<1> QED
  BY <1>4, <1>6, <1>7 DEF a

LEMMA ShareOrderly ==
  ASSUME Settled, NEW u \in userdata, NEW sharee \in User, NEW p, NEW perm,
         shareHandler(u, sharee, p, perm)
  PROVE  Orderly(u)
<1>0. Shaped(vol) /\ TreeSound(vol, {}) /\ RowsPlaced(vol, userdata)
  BY DEF Settled, NamesInv
<1>1. CASE Refuse("error")
  BY <1>1, NamesKeptOrderly DEF Refuse
<1>2. ASSUME NEW i, MayShare(u, sharee, p),
             p \in DOMAIN vol.link, CanCreate(vol, ReceivedAs(sharee, p, i)),
             vol' = Share(vol, u, sharee, p, perm, ReceivedAs(sharee, p, i))
      PROVE  Orderly(u)
  <2> DEFINE a == ReceivedAs(sharee, p, i)
             row == [sharer |-> u, sharee |-> sharee, origpath |-> p,
                     shareepath |-> a, perm |-> perm]
             g == With(vol.link, a, vol.link[p])
             rows == vol.sharedata \cup {row}
  <2>1. checkpath(p, u) /\ ~InShared(p, u) /\ sharee \in userdata
    BY <1>2 DEF MayShare
  <2>2. a # <<>> /\ a[1] = sharee /\ InShared(a, sharee)
    BY ReceivedPlace
  <2>3. CanCreate(vol, a) /\ vol' = [vol EXCEPT !.link = g, !.sharedata = rows]
    BY <1>2 DEF Share
  <2>4. DOMAIN g = DOMAIN vol.link \cup {a}
    BY DEF With
  <2> HIDE DEF a, g, rows
  <2>5. /\ Shaped(vol') /\ vol'.dirs = vol.dirs /\ vol'.sharedata = rows
        /\ DOMAIN vol'.link = DOMAIN vol.link \cup {a}
    BY <1>0, <2>3, <2>4 DEF Shaped
  <2>6. Taken(vol') = Taken(vol) \cup {a} /\ a \notin vol.dirs /\ a \notin DOMAIN vol.link
        /\ Parent(a) \in vol.dirs \cup {<<>>}
    BY <2>3, <2>5 DEF CanCreate, Taken
  <2>7. TreeSound(vol', {}) /\ <<>> \notin Taken(vol')
    BY <1>0, <2>2, <2>5, <2>6 DEF TreeSound, NamesInv, Settled
  <2>8. RowPlaced(vol', userdata, row)
    BY <1>2, <2>1, <2>2, <2>5 DEF RowPlaced
  <2>9. \A r \in vol.sharedata : RowPlaced(vol', userdata, r) /\ r.shareepath # a
    BY <1>0, <2>5, <2>6 DEF RowsPlaced, RowPlaced
  <2>10. row.shareepath = a /\ row.sharer = u
    OBVIOUS
  <2> HIDE DEF row
  <2>11. RowsPlaced(vol', userdata)
    BY <1>0, <2>5, <2>8, <2>9, <2>10 DEF RowsPlaced, rows
  <2>12. NamesOf(u)
    <3>1. SymDiff(Taken(vol), Taken(vol')) \subseteq {a} /\ row \in vol'.sharedata
      BY <2>5, <2>6 DEF SymDiff, rows
    <3>2. u \in Namers(vol.sharedata \cup vol'.sharedata, a)
      BY <2>10, <3>1 DEF Namers
    <3> QED
      BY <3>1, <3>2 DEF NamesOf
  <2> QED
    BY <2>5, <2>7, <2>11, <2>12 DEF Orderly, NamesInv, Settled
<1> QED
  BY <1>1, <1>2 DEF shareHandler, Answer, Result

LEMMA UnshareOrderly ==
  ASSUME Settled, NEW u, NEW sharee, NEW p, unshareHandler(u, sharee, p)
  PROVE  Orderly(u)
<1> DEFINE rows == SharesWith(vol, u, sharee, p)
<1>1. CASE Refuse("error")
  BY <1>1, NamesKeptOrderly DEF Refuse
<1>2. CASE vol' = [Removed(vol, ShareePaths(rows)) EXCEPT !.sharedata = @ \ rows]
  <2>1. rows \subseteq vol.sharedata /\ \A r \in rows : r.sharer = u
    BY DEF SharesWith, SharesOf
  <2> DEFINE d == Removed(vol, ShareePaths(rows))
  <2>2. vol' = [d EXCEPT !.sharedata = vol.sharedata \ rows]
    <3>1. d.sharedata = vol.sharedata
      BY DEF Settled, NamesInv, Removed, Shaped
    <3>2. vol' = [d EXCEPT !.sharedata = d.sharedata \ rows]
      BY <1>2
    <3> HIDE DEF d, rows
    <3> QED
      BY <3>1, <3>2
  <2> HIDE DEF rows
  <2>3. RowsGone(vol, vol', rows)
    BY <2>1, <2>2, DropRowsNames DEF Settled
  <2> QED
    BY <2>1, <2>3, RowsGoneOrderly
<1> QED
  BY <1>1, <1>2 DEF unshareHandler, Answer, Result

LEMMA ChpermOrderly ==
  ASSUME Settled, NEW u, NEW sharee, NEW p, NEW perm, chpermHandler(u, sharee, p, perm)
  PROVE  Orderly(u)
<1> DEFINE rows == SharesWith(vol, u, sharee, p)
           g(r) == IF r \in rows THEN [r EXCEPT !.perm = perm] ELSE r
           set == {g(r) : r \in vol.sharedata}
<1>0. Shaped(vol) /\ TreeSound(vol, {}) /\ RowsPlaced(vol, userdata)
  BY DEF Settled, NamesInv
<1>1. CASE Refuse("error")
  BY <1>1, NamesKeptOrderly DEF Refuse
<1>2. CASE vol' = [vol EXCEPT !.sharedata = set]
  <2>1. \A r \in vol.sharedata :
          /\ DOMAIN g(r) = DOMAIN r
          /\ g(r).sharer = r.sharer /\ g(r).sharee = r.sharee
          /\ g(r).origpath = r.origpath /\ g(r).shareepath = r.shareepath
    BY <1>0 DEF RowsPlaced, RowPlaced
  <2>2. \A s \in set : \E r \in vol.sharedata : s = g(r)
    OBVIOUS
  <2> HIDE DEF g, set
  <2>3. /\ Shaped(vol') /\ vol'.dirs = vol.dirs /\ vol'.link = vol.link
        /\ vol'.sharedata = set
    BY <1>0, <1>2 DEF Shaped
  <2>4. Taken(vol') = Taken(vol) /\ TreeSound(vol', {})
    BY <1>0, <2>3 DEF Taken, TreeSound
  <2>5. RowsPlaced(vol', userdata)
    <3>1. ASSUME NEW s \in set PROVE RowPlaced(vol', userdata, s)
      BY <1>0, <2>1, <2>2, <2>3 DEF RowsPlaced, RowPlaced
    <3>2. ASSUME NEW s \in set, NEW t \in set, s.shareepath = t.shareepath PROVE s = t
      BY <1>0, <2>1, <2>2, <3>2 DEF RowsPlaced
    <3> QED
      BY <2>3, <3>1, <3>2 DEF RowsPlaced
  <2> QED
    BY <2>3, <2>4, <2>5 DEF Orderly, NamesInv, NamesOf, SymDiff, Settled
<1> QED
  BY <1>1, <1>2 DEF chpermHandler, Answer, Result

LEMMA HomeParents ==
  ASSUME NEW u \in User
  PROVE  Parent(Root(u)) = <<>> /\ Parent(SharedDir(u)) = Root(u)
<1>1. u \in Name /\ SharedName \in Name
  BY NameAssumption
<1>2. Root(u) \in Seq(Name) /\ Len(Root(u)) = 1 /\ Root(u)[1] = u
  BY <1>1 DEF Root
<1>3. SharedDir(u) \in Seq(Name) /\ Len(SharedDir(u)) = 2 /\ SharedDir(u)[1] = u
  BY <1>1 DEF SharedDir
<1>4. Parent(Root(u)) = <<>>
  <2>1. Parent(Root(u)) = SubSeq(Root(u), 1, 0)
    BY <1>2 DEF Parent
  <2>2. SubSeq(Root(u), 1, 0) \in Seq(Name) /\ Len(SubSeq(Root(u), 1, 0)) = 0
    BY <1>2, SubSeqProperties
  <2> QED
    BY <2>1, <2>2, EmptySeq
<1>5. Parent(SharedDir(u)) = Root(u)
  <2> DEFINE s == SubSeq(SharedDir(u), 1, 1)
  <2>1. Parent(SharedDir(u)) = s
    BY <1>3 DEF Parent
  <2>2. s \in Seq(Name) /\ Len(s) = 1 /\ s[1] = u
    BY <1>3, SubSeqProperties
  <2> HIDE DEF s
  <2> QED
    BY <1>2, <2>1, <2>2, SeqEqual
<1> QED
  BY <1>4, <1>5

(* Signing up makes names in a home that is not yet anybody's.             *)
LEMMA SignupNames ==
  ASSUME Settled, NEW u \in User, NEW ok, Apart', signupHandler(u, ok) \/ signupExits(u, ok)
  PROVE  /\ NamesInv(vol', userdata')
         /\ \A p \in SymDiff(Taken(vol), Taken(vol')) : p[1] \notin userdata
<1>0. Shaped(vol) /\ TreeSound(vol, {}) /\ RowsPlaced(vol, userdata) /\ userdata \subseteq User
  BY DEF NamesInv, Settled
<1>1. CASE UNCHANGED <<vol, userdata>>
  BY <1>1 DEF SymDiff, Settled
<1>2. CASE userdata' = userdata \cup {u} /\ UNCHANGED vol
  <2>1. RowsPlaced(vol, userdata')
    BY <1>0, <1>2 DEF RowsPlaced, RowPlaced
  <2> QED
    BY <1>0, <1>2, <2>1 DEF SymDiff, Settled, NamesInv, Apart
<1>3. CASE /\ userdata' = userdata \cup {u}
           /\ u \notin userdata /\ CanCreate(vol, Root(u))
           /\ vol' = [vol EXCEPT !.dirs = @ \cup {Root(u), SharedDir(u)}]
  <2> DEFINE D == {Root(u), SharedDir(u)}
  <2>1. /\ Root(u)[1] = u /\ SharedDir(u)[1] = u /\ <<>> \notin D
        /\ Parent(Root(u)) = <<>> /\ Parent(SharedDir(u)) = Root(u)
    BY HomeParents DEF Root, SharedDir
  <2>2. /\ Shaped(vol') /\ vol'.dirs = vol.dirs \cup D
        /\ vol'.link = vol.link /\ vol'.sharedata = vol.sharedata
    BY <1>0, <1>3 DEF Shaped
  <2>3. Root(u) \notin Taken(vol)
    BY <1>3 DEF CanCreate
  <2>4. SharedDir(u) \notin DOMAIN vol.link
    BY <1>0, <2>1, <2>3 DEF TreeSound, Taken
  <2>5. Taken(vol') = Taken(vol) \cup D
    BY <2>2 DEF Taken
  <2>6. TreeSound(vol', {})
    <3>1. vol'.dirs \cap DOMAIN vol'.link = {}
      BY <1>0, <2>2, <2>3, <2>4 DEF TreeSound, Taken
    <3>2. \A p \in Taken(vol') : Parent(p) \in vol'.dirs \cup {<<>>}
      BY <1>0, <2>1, <2>2, <2>5 DEF TreeSound
    <3> QED
      BY <3>1, <3>2 DEF TreeSound
  <2>7. RowsPlaced(vol', userdata')
    BY <1>0, <1>3, <2>2 DEF RowsPlaced, RowPlaced
  <2>8. \A p \in SymDiff(Taken(vol), Taken(vol')) : p[1] = u
    BY <2>1, <2>5 DEF SymDiff
  <2>9. <<>> \notin Taken(vol')
    BY <2>1, <2>5 DEF NamesInv, Settled
  <2> QED
    BY <1>0, <1>3, <2>2, <2>6, <2>7, <2>8, <2>9 DEF NamesInv, Apart
<1> QED
  BY <1>1, <1>2, <1>3 DEF signupHandler, signupExits, Exit, SignupRefused, Refuse

-----------------------------------------------------------------------------
(* Steps of clients and server. *)

\* Names in the homes of users change under a command of a live session.
UnderSession ==
  \A p \in SymDiff(Taken(vol), Taken(vol')) :
    p[1] \in userdata =>
      \E c \in Client :
        Commands(c) /\ user[c] \in Namers(vol.sharedata \cup vol'.sharedata, p)

NamesKept == NamesInv(vol', userdata') /\ UnderSession

LEMMA QuietNames ==
  ASSUME Settled, UNCHANGED <<vol, userdata>>
  PROVE  NamesKept
  BY DEF NamesKept, UnderSession, SymDiff, Settled

(* Who passes checkCookie logged in last, and has not expired.             *)
LEMMA RequestNames ==
  ASSUME ClientInv, NEW c \in Client, Passes(c), Commanded(c), Orderly(user[c])
  PROVE  NamesKept
<1>1. at[c] = "prompt" /\ at'[c] # "prompt"
  BY DEF Commanded, Go, ClientInv, ClientType
<1>2. holder[user[c]] = c /\ user[c] \in Cookiemap
  BY DEF Passes, checkCookie, ClientInv, TokensSound
<1>3. Commands(c)
  BY <1>1, <1>2 DEF Commands
<1> QED
  BY <1>3 DEF Orderly, NamesOf, NamesKept, UnderSession, Commanded, Accounts

\* The commands that write.
Writing(c, r) ==
  \/ mkdir(c, r) \/ rm(c, r)
  \/ \E b \in Body : upload(c, r, b)
  \/ \E sharee \in User :
       \/ unshare(c, r, sharee)
       \/ \E perm \in {0, 1} : share(c, r, sharee, perm) \/ chperm(c, r, sharee, perm)

(* What a client at its prompt does to the volume is a request of a client *)
(* with a live session.                                                    *)
LEMMA WritingNames ==
  ASSUME ClientInv, Settled, NEW c \in Client, NEW r \in Typed, Writing(c, r)
  PROVE  NamesKept
<1> DEFINE u == user[c]
           p == Target(c, r)
           Handled == \/ mkdirHandler(u, p) \/ removeHandler(u, p)
                      \/ \E b \in Body : uploadHandler(u, p, b)
                      \/ \E sharee \in User :
                           \/ unshareHandler(u, sharee, p)
                           \/ \E perm \in {0, 1} : \/ shareHandler(u, sharee, p, perm)
                                                   \/ chpermHandler(u, sharee, p, perm)
<1>1. Commanded(c)
  BY WriteCommand, ShareCommand DEF Writing
<1>2. UNCHANGED vol \/ (Passes(c) /\ Handled)
  <2> USE DEF Command, Call, Typing, Reauth, Refuse, vars
  <2>1. CASE mkdir(c, r) \/ rm(c, r)
    BY <2>1 DEF mkdir, rm
  <2>2. CASE \E b \in Body : upload(c, r, b)
    BY <2>2 DEF upload
  <2>3. CASE \E sharee \in User : unshare(c, r, sharee)
    BY <2>3 DEF unshare
  <2>4. CASE \E sharee \in User, perm \in {0, 1} :
               share(c, r, sharee, perm) \/ chperm(c, r, sharee, perm)
    BY <2>4 DEF share, chperm
  <2> QED
    BY <2>1, <2>2, <2>3, <2>4 DEF Writing
<1>3. CASE UNCHANGED vol
  BY <1>1, <1>3, QuietNames DEF Commanded, Accounts
<1>4. ASSUME Passes(c), Handled PROVE NamesKept
  <2>1. u \in userdata /\ p \in Seq(Name)
    BY <1>4, TargetPath DEF Passes, checkCookie
  <2> HIDE DEF u, p
  <2>2. Orderly(u)
    BY <1>4, <2>1, MkdirOrderly, RemoveOrderly, UploadOrderly, ShareOrderly, UnshareOrderly,
       ChpermOrderly
  <2> QED
    BY <1>1, <1>4, <2>2, RequestNames DEF u
<1> QED
  BY <1>2, <1>3, <1>4

LEMMA QuietCommand ==
  ASSUME NEW c, NEW r, NEW u, NEW ok,
         \/ displayoptions(c) \/ PWD(c) \/ pwd(c) \/ NoCall(c) \/ quit(c)
         \/ cd(c, r) \/ ls(c, r) \/ download(c, r) \/ AskCreds(c, u, ok)
  PROVE  UNCHANGED <<vol, userdata>>
<1> USE DEF Refuse, vars
<1>1. CASE displayoptions(c) \/ NoCall(c) \/ quit(c)
  BY <1>1 DEF displayoptions, NoCall, quit
<1>2. CASE PWD(c) \/ pwd(c)
  BY <1>2 DEF PWD, pwd, Command, Call, pwdHandler, Reauth
<1>3. CASE cd(c, r)
  BY <1>3 DEF cd, Call, cdHandler, Reauth
<1>4. CASE ls(c, r)
  BY <1>4 DEF ls, Command, Call, listHandler, Reauth
<1>5. CASE download(c, r)
  BY <1>5 DEF download, Command, Call, downloadHandler, Reauth
<1>6. CASE AskCreds(c, u, ok)
  BY <1>6 DEF AskCreds, authenticateHandler
<1> QED
  BY <1>1, <1>2, <1>3, <1>4, <1>5, <1>6

LEMMA ClientStepNames ==
  ASSUME ClientInv, Settled, Apart', NEW c \in Client, ClientStep(c)
  PROVE  NamesKept
<1>1. CASE UNCHANGED <<vol, userdata>>
  BY <1>1, QuietNames
<1>2. ASSUME NEW u \in User, NEW ok \in BOOLEAN, newUserDetails(c, u, ok)
      PROVE  NamesKept
  <2>1. signupHandler(u, ok) \/ signupExits(u, ok)
    BY <1>2 DEF newUserDetails
  <2> QED
    BY <2>1, SignupNames DEF NamesKept, UnderSession
<1>3. ASSUME NEW r \in Typed, Writing(c, r) PROVE NamesKept
  BY <1>3, WritingNames
<1>4. \/ UNCHANGED <<vol, userdata>>
      \/ \E u \in User, ok \in BOOLEAN : newUserDetails(c, u, ok)
      \/ \E r \in Typed : Writing(c, r)
  BY QuietCommand DEF ClientStep, Writing
<1> QED
  BY <1>1, <1>2, <1>3, <1>4

LEMMA StepNames ==
  ASSUME ClientInv, Settled, Apart', [ClientNext]_allVars
  PROVE  NamesKept
<1>1. ASSUME NEW c \in Client, ClientStep(c) PROVE NamesKept
  BY <1>1, ClientStepNames
<1>2. CASE (\E u \in User : Timeout(u)) \/ StopServer \/ UNCHANGED allVars
  <2>1. UNCHANGED <<vol, userdata>>
    BY <1>2 DEF Timeout, Expire, StopServer, Shutdown, Crash, allVars, vars
  <2> QED
    BY <2>1, QuietNames
<1>3. CASE StartServer
  <2>1. SameNames(vol, vol') /\ userdata' = userdata
    BY <1>3 DEF StartServer, Start, Settled, NamesInv, Shaped, SameNames
  <2>2. NamesInv(vol', userdata') /\ Taken(vol') = Taken(vol)
    BY <2>1, SameNamesInv DEF Settled
  <2> QED
    BY <2>2 DEF NamesKept, UnderSession, SymDiff
<1> QED
  BY <1>1, <1>2, <1>3 DEF ClientNext

(* Names that are apart were so before.                                    *)
LEMMA AccountsGrow ==
  ASSUME [ClientNext]_allVars
  PROVE  userdata \subseteq userdata' /\ (Apart' => Apart)
<1>1. ASSUME NEW c \in Client, ClientStep(c) PROVE userdata \subseteq userdata'
  <2>1. ASSUME NEW u \in User, NEW ok \in BOOLEAN, newUserDetails(c, u, ok)
        PROVE  userdata \subseteq userdata'
    BY <2>1 DEF newUserDetails, signupHandler, signupExits, Refuse
  <2>2. ASSUME NEW r \in Typed, Writing(c, r) PROVE userdata' = userdata
    <3>1. Commanded(c)
      BY <2>2, WriteCommand, ShareCommand DEF Writing
    <3> QED
      BY <3>1 DEF Commanded, Accounts
  <2>3. \/ UNCHANGED <<vol, userdata>>
        \/ \E u \in User, ok \in BOOLEAN : newUserDetails(c, u, ok)
        \/ \E r \in Typed : Writing(c, r)
    BY <1>1, QuietCommand DEF ClientStep, Writing
  <2> QED
    BY <2>1, <2>2, <2>3
<1>2. ASSUME (\E u \in User : Timeout(u)) \/ StopServer \/ StartServer \/ UNCHANGED allVars
      PROVE  userdata' = userdata
  BY <1>2 DEF Timeout, Expire, StopServer, Shutdown, Crash, StartServer, Start, allVars, vars
<1>3. userdata \subseteq userdata'
  BY <1>1, <1>2 DEF ClientNext
<1> QED
  BY <1>3 DEF Apart, NamesApart

\* The invariant of the names is one while the names of users are apart.
NamesSafe == Apart => Settled

LEMMA InitNames == ClientInit => NamesSafe
<1>1. DOMAIN <<>> = {}
  OBVIOUS
<1> SUFFICES ASSUME ClientInit PROVE Settled
  BY DEF NamesSafe
<1>2. vol = EmptyVolume /\ userdata = {}
  BY DEF ClientInit, Init
<1>3. /\ Shaped(vol) /\ vol.dirs = {} /\ DOMAIN vol.link = {} /\ vol.sharedata = {}
  BY <1>1, <1>2 DEF EmptyVolume, Shaped
<1> QED
  BY <1>2, <1>3 DEF Settled, NamesInv, NamesApart, TreeSound, Taken, RowsPlaced

LEMMA NamesInvariance == ClientSpec => [](ClientInv /\ NamesSafe)
<1>1. ClientInv /\ NamesSafe /\ [ClientNext]_allVars => NamesSafe'
  BY StepNames, AccountsGrow DEF NamesKept, NamesSafe, Settled, Apart
<1> QED
  BY Invariance, InitNames, <1>1, PTL DEF ClientSpec

-----------------------------------------------------------------------------
(* README:27, README:35: checkCookie lets only the client through that     *)
(* logged the user in last in this run of the server, for any number of    *)
(* clients, also when answers are lost and the server is killed.           *)
THEOREM SessionsSound == ClientSpec => []SessionSound
<1>1. ClientInv => SessionSound
  BY DEF ClientInv, TokensSound, ClientType, SessionSound, Passes, checkCookie
<1> QED
  BY Invariance, <1>1, PTL

(* A session that is over is over: only its client's own login makes a     *)
(* client's requests pass again.                                           *)
THEOREM SessionsStayOver == ClientSpec => StaleForGood
<1>1. ClientInv /\ [ClientNext]_allVars =>
        [\A c \in Client : ~Passes(c) /\ Passes(c)' => at[c] = "login"]_allVars
  BY StepUpholds DEF Upheld, NoneRevived
<1> QED
  BY Invariance, <1>1, PTL DEF ClientSpec, StaleForGood

(* currdir stays where checkpath lets the client's user go, for paths with *)
(* any number of ".." and any names; and while names are apart that is in  *)
(* no other user's home.                                                   *)
THEOREM HomesBound == ClientSpec => []HomeBound
<1>1. ClientInv => HomeBound
  <2> SUFFICES ASSUME ClientInv, NEW c \in Client, at[c] \in {"pwd", "prompt"}
               PROVE  /\ checkpath(currdir[c], user[c])
                      /\ Apart => currdir[c][1] \notin userdata \ {user[c]}
    BY DEF HomeBound
  <2>1. user[c] \in userdata /\ checkpath(currdir[c], user[c])
    BY DEF ClientInv, Lodged, Inside
  <2> QED
    BY <2>1, OwnHome DEF Apart
<1> QED
  BY Invariance, <1>1, PTL

(* README:27: while names are apart nothing comes or goes in a user's home *)
(* without the session of whoever logged in last, for any number of        *)
(* clients and users, whether the server is killed, calls are lost or      *)
(* sessions replaced in between.  An upload by a sharee, which unlinks and *)
(* links files of users who have no session, leaves their names as they    *)
(* were.                                                                   *)
THEOREM SessionsOnly == ClientSpec => OnlySessionsChange
<1>1. ClientInv /\ NamesSafe /\ [ClientNext]_allVars =>
        [Apart' =>
           \A p \in SymDiff(Taken(vol), Taken(vol')) :
             /\ p # <<>>
             /\ p[1] \in userdata =>
                  \E c \in Client :
                    Commands(c) /\ user[c] \in Namers(vol.sharedata \cup vol'.sharedata, p)]_allVars
  <2> SUFFICES ASSUME ClientInv, NamesSafe, [ClientNext]_allVars, Apart',
                      NEW p \in SymDiff(Taken(vol), Taken(vol'))
               PROVE  /\ p # <<>>
                      /\ p[1] \in userdata =>
                           \E c \in Client :
                             /\ Commands(c)
                             /\ user[c] \in Namers(vol.sharedata \cup vol'.sharedata, p)
    OBVIOUS
  <2>1. Settled
    BY AccountsGrow DEF NamesSafe
  <2>2. NamesInv(vol', userdata') /\ UnderSession
    BY <2>1, StepNames DEF NamesKept
  <2>3. p # <<>>
    BY <2>1, <2>2 DEF NamesInv, Settled, SymDiff
  <2> QED
    BY <2>2, <2>3 DEF UnderSession
<1> QED
  BY NamesInvariance, <1>1, PTL DEF ClientSpec, OnlySessionsChange
=============================================================================
