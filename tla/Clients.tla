------------------------------ MODULE Clients ------------------------------
(***************************************************************************)
(* The client program, client/client.go under the command line of          *)
(* lib/support/client/cli.go, composed with the server of module Dropbox.  *)
(* Each client keeps a user, a session's token and a current directory of  *)
(* its own; the server keeps one token per user.  A call and its answer    *)
(* are one step (see RpcServer for what can happen between them).  The     *)
(* connection may break, before the server acts on a call or after; the    *)
(* next call then dials again.                                             *)
(***************************************************************************)
EXTENDS DropboxSafety

CONSTANTS
  Client,   \* running client programs
  NoClient, \* nobody
  Typed,    \* the paths users type
  MaxDepth, \* bound: length of the paths they reach
  MaxToken  \* bound: tokens drawn

\* A typed path: absolute or not, a number of "..", then names.
TypedPath == [abs : BOOLEAN, ups : Nat, names : Seq(Name)]

ASSUME ClientAssumption ==
  /\ NoClient \notin Client
  /\ Typed \subseteq TypedPath
  /\ MaxDepth \in Nat /\ MaxToken \in Nat

VARIABLES
  at,        \* where each client is
  user,      \* its user; "" before the first login
  sessionid, \* its token; 0 for the empty string
  currdir,   \* its current directory
  token,     \* Cookiemap's sessionid of each user; 0 if there is none
  issued,    \* tokens drawn so far
  holder     \* the client that logged each user in last, in this run

clientVars == <<at, user, sessionid, currdir>>
sessionVars == <<token, issued, holder>>
allVars == <<vars, clientVars, sessionVars>>

ClientInit ==
  /\ Init
  /\ at = [c \in Client |-> "menu"]
  /\ user = [c \in Client |-> ""]
  /\ sessionid = [c \in Client |-> 0]
  /\ currdir = [c \in Client |-> <<>>]
  /\ token = [u \in User |-> 0]
  /\ issued = 0
  /\ holder = [u \in User |-> NoClient]

Go(c, place) == at' = [at EXCEPT ![c] = place]

\* The client's requests get past checkCookie.
Passes(c) ==
  /\ user[c] \in User
  /\ checkCookie(user[c])
  /\ token[user[c]] = sessionid[c]

-----------------------------------------------------------------------------
(* The menu before the command line. *)

displayoptions(c) ==
  /\ at[c] = "menu"
  /\ \E place \in {"login", "signup", "exited"} : Go(c, place)
  /\ UNCHANGED <<vars, user, sessionid, currdir, sessionVars>>

\* Signing up is tried until it succeeds, and then the menu comes back; who
\* misses the answer, or ends the server, tries again.
newUserDetails(c, u, longPassword) ==
  /\ at[c] = "signup"
  /\ \/ /\ signupHandler(u, longPassword)
        /\ UNCHANGED at \/ (reply' = "ok" /\ Go(c, "menu"))
     \/ signupExits(u, longPassword) /\ UNCHANGED at
  /\ UNCHANGED <<user, sessionid, currdir, sessionVars>>

\* Slip: who logs in again is given the token there is.
SameToken(u) == IF u \in Cookiemap THEN token[u] ELSE issued + 1

\* 64 random bytes: never drawn before.
NewToken(u) == issued + 1

Granted(c, u) ==
  /\ issued < MaxToken
  /\ issued' = issued + 1
  /\ token' = [token EXCEPT ![u] = NewToken(u)]
  /\ holder' = [holder EXCEPT ![u] = c]

\* user and currdir are set before the server is asked, sessionid from its
\* answer; only a call that fails leaves the old one.
AskCreds(c, u, rightPassword) ==
  /\ at[c] = "login"
  /\ user' = [user EXCEPT ![c] = u]
  /\ currdir' = [currdir EXCEPT ![c] = Root(u)]
  /\ \/ UNCHANGED <<vars, at, sessionid, sessionVars>>
     \/ /\ authenticateHandler(u, rightPassword)
        /\ IF reply' = "ok" THEN Granted(c, u) ELSE UNCHANGED sessionVars
        /\ \/ UNCHANGED <<at, sessionid>>  \* the answer is lost
           \/ /\ reply' = "ok"
              /\ sessionid' = [sessionid EXCEPT ![c] = NewToken(u)]
              /\ Go(c, "pwd")
           \/ /\ reply' = "error"
              /\ sessionid' = [sessionid EXCEPT ![c] = 0]
              /\ UNCHANGED at

-----------------------------------------------------------------------------
(* The command line.  Before each prompt RunCLI asks the server for the    *)
(* working directory; a call that fails and the answer "reauth" both end   *)
(* the program.                                                            *)

Ends(c) == Go(c, "exited") /\ UNCHANGED currdir

\* The server executes A for a client with a live session, which makes of
\* the answer what Answered says, unless it never gets one.
Call(c, A, Answered) ==
  /\ \/ Ends(c) /\ UNCHANGED vars
     \/ Ends(c) /\ ~Passes(c) /\ Reauth
     \/ Passes(c) /\ A /\ (Answered \/ Ends(c))
  /\ UNCHANGED <<user, sessionid, sessionVars>>

PWD(c) == at[c] = "pwd" /\ Call(c, pwdHandler(user[c]), Go(c, "prompt") /\ UNCHANGED currdir)

\* The path sent is currdir with the typed path after it, so that an absolute
\* path, too, starts from currdir.  <<>> stands for all that is not below a
\* user's directory.
Target(c, r) ==
  LET d == currdir[c]
  IN  IF r.ups > Len(d) THEN <<>> ELSE SubSeq(d, 1, Len(d) - r.ups) \o r.names

\* list and mkdir leave "." and ".." to the system, which looks whether there
\* is a directory; the other handlers clean the path first.
Walkable(c, r) == r.ups > 0 \/ r.names = <<>> => currdir[c] \in vol.dirs

Typing(c, r) == at[c] = "prompt" /\ Len(Target(c, r)) <= MaxDepth

Command(c, A) == Call(c, A, Go(c, "pwd") /\ UNCHANGED currdir)

\* Whatever the answer but "reauth", CD returns without an error.
cd(c, r) ==
  /\ Typing(c, r)
  /\ Call(c, cdHandler(user[c], Target(c, r)),
             /\ currdir' = IF reply' = "ok" THEN [currdir EXCEPT ![c] = Target(c, r)]
                           ELSE currdir
             /\ Go(c, "pwd"))

ls(c, r) ==
  /\ Typing(c, r)
  /\ Command(c, up /\ IF Walkable(c, r) THEN listHandler(user[c], Target(c, r))
                      ELSE Refuse("error"))

mkdir(c, r) ==
  /\ Typing(c, r)
  /\ Command(c, up /\ IF Walkable(c, r) THEN mkdirHandler(user[c], Target(c, r))
                      ELSE Refuse("error"))

upload(c, r, b) ==
  Typing(c, r) /\ Command(c, uploadHandler(user[c], Target(c, r), b))

\* download and cat
download(c, r) == Typing(c, r) /\ Command(c, downloadHandler(user[c], Target(c, r)))

rm(c, r) == Typing(c, r) /\ Command(c, removeHandler(user[c], Target(c, r)))

share(c, r, sharee, perm) ==
  Typing(c, r) /\ Command(c, shareHandler(user[c], sharee, Target(c, r), perm))

unshare(c, r, sharee) ==
  Typing(c, r) /\ Command(c, unshareHandler(user[c], sharee, Target(c, r)))

chperm(c, r, sharee, perm) ==
  Typing(c, r) /\ Command(c, chpermHandler(user[c], sharee, Target(c, r), perm))

\* The command pwd, as opposed to the call before each prompt.
pwd(c) == at[c] = "prompt" /\ Command(c, pwdHandler(user[c]))

\* An empty line, help, an unknown command or one with wrong arguments.
NoCall(c) ==
  /\ at[c] = "prompt" /\ Go(c, "pwd")
  /\ UNCHANGED <<vars, user, sessionid, currdir, sessionVars>>

\* quit, exit, or the end of the input.
quit(c) ==
  /\ at[c] = "prompt" /\ Go(c, "exited")
  /\ UNCHANGED <<vars, user, sessionid, currdir, sessionVars>>

-----------------------------------------------------------------------------
(* The server. *)

\* Slip: every run of the server draws the same tokens.
StartSameTokens ==
  /\ Start
  /\ token' = [u \in User |-> 0]
  /\ issued' = 0
  /\ holder' = [u \in User |-> NoClient]
  /\ UNCHANGED clientVars

StartServer ==
  /\ Start
  /\ token' = [u \in User |-> 0]
  /\ holder' = [u \in User |-> NoClient]
  /\ UNCHANGED <<clientVars, issued>>

\* SIGINT, a kill, or an upload that ends the server (uploadExits in Dropbox):
\* whoever called then finds the call broken.
StopServer == (Shutdown \/ Crash) /\ UNCHANGED <<clientVars, sessionVars>>

Timeout(u) == Expire(u) /\ UNCHANGED <<clientVars, sessionVars>>

ClientStep(c) ==
  \/ displayoptions(c) \/ PWD(c) \/ pwd(c) \/ NoCall(c) \/ quit(c)
  \/ \E u \in User, ok \in BOOLEAN : newUserDetails(c, u, ok) \/ AskCreds(c, u, ok)
  \/ \E r \in Typed :
       \/ cd(c, r) \/ ls(c, r) \/ mkdir(c, r) \/ download(c, r) \/ rm(c, r)
       \/ \E b \in Body : upload(c, r, b)
       \/ \E sharee \in User :
            \/ unshare(c, r, sharee)
            \/ \E perm \in {0, 1} : share(c, r, sharee, perm) \/ chperm(c, r, sharee, perm)

ClientNext ==
  \/ \E c \in Client : ClientStep(c)
  \/ \E u \in User : Timeout(u)
  \/ StartServer \/ StopServer

ClientSpec == ClientInit /\ [][ClientNext]_allVars
-----------------------------------------------------------------------------
(* README:27 and README:35, server.go:145: a request is served for the     *)
(* client that logged its user in last, in this run of the server, and for *)
(* no other, whatever logins fail, sessions expire, clients end and        *)
(* servers stop in between.                                                *)
SessionSound == \A c \in Client : Passes(c) => holder[user[c]] = c

(* A session that is over, because it expired, was replaced by a login     *)
(* elsewhere or went with its server, never comes back to life: a client   *)
(* gets past checkCookie again only by logging in.                         *)
StaleForGood ==
  [][\A c \in Client : ~Passes(c) /\ Passes(c)' => at[c] = "login"]_allVars

(* The current directory, which only the client keeps, is one the user it  *)
(* is logged in as may reach, over every cd and every failed login, and    *)
(* with names that are apart never lies in the home of anybody else.       *)
HomeBound ==
  \A c \in Client :
    at[c] \in {"pwd", "prompt"} =>
      /\ checkpath(currdir[c], user[c])
      /\ Apart => currdir[c][1] \notin userdata \ {user[c]}

\* A command of client c, whose user logged in there last and has not expired.
Commands(c) ==
  /\ at[c] = "prompt" /\ at'[c] # "prompt"
  /\ holder[user[c]] = c /\ user[c] \in Cookiemap

(* README:27, "If the user doesn't send the right cookie, they cannot      *)
(* execute any command": names in the home of a user who signed up come    *)
(* and go only by a command of the client that was the last to log in as   *)
(* that user, or as somebody who shares a file by that name, and before    *)
(* that login expires.                                                     *)
OnlySessionsChange ==
  [][Apart' =>
       \A p \in SymDiff(Taken(vol), Taken(vol')) :
         /\ p # <<>>
         /\ p[1] \in userdata =>
              \E c \in Client :
                Commands(c) /\ user[c] \in Namers(vol.sharedata \cup vol'.sharedata, p)]_allVars
=============================================================================
