----------------------------- MODULE RpcServer -----------------------------
(***************************************************************************)
(* The process around the handlers: lib/support/rpc on top of net/rpc.     *)
(* net/rpc starts a goroutine for each request that arrives; it calls      *)
(* request, which runs the handler under invokeMtx, and sends the response *)
(* after request has returned.  RunServer waits for SIGINT, takes          *)
(* invokeMtx for good, runs the finalizer and returns.  A client has one   *)
(* call outstanding at a time (client.go is a single loop).                *)
(***************************************************************************)
EXTENDS Naturals

CONSTANTS
  Client,      \* clients; also the goroutine that serves a client's call
  Method,      \* method names a request may carry
  Registered,  \* those RegisterHandler was given
  Tag,         \* what tells one call of a client from its next
  Array,       \* backing arrays of pooled buffers
  Nobody,      \* no holder of invokeMtx
  Main,        \* the goroutine of RunServer
  Error        \* an error in place of a return value

ASSUME RegisteredAssumption == Registered \subseteq Method
ASSUME HolderAssumption == Nobody \notin Client /\ Main \notin Client /\ Main # Nobody
ASSUME ErrorAssumption == Error \notin Array \cup (Client \X Tag)

VARIABLES
  main,      \* RunServer: "notified", "serving", "interrupted", "finalized", "down"
  invokeMtx, \* holder of the lock
  at,        \* at[c]: where the goroutine of c's call is; "idle" without a call
  req,       \* req[c]: the last call of c
  runs,      \* runs[c]: how often its handler ran
  ret,       \* ret[c]: resp.Return, an array or Error
  bytes,     \* bytes[a]: the reply last encoded into array a; Error if it is none
  pool,      \* the arrays of the buffers in bufferPool
  got,       \* got[c]: what the last finished call of c returned
  dirty,     \* handlers ran since the finalizer last saved their state
  lost       \* a SIGINT was sent to the process and never received

vars == <<main, invokeMtx, at, req, runs, ret, bytes, pool, got, dirty, lost>>

Call == [name : Method, tag : Tag]
Reply(c) == <<c, req[c].tag>>
Critical == {"locked", "handled", "encoded"}

Init ==
  /\ main = "notified"
  /\ invokeMtx = Nobody
  /\ at = [c \in Client |-> "idle"]
  /\ req \in [Client -> Call]        \* no call yet: any value
  /\ runs = [c \in Client |-> 0]
  /\ ret = [c \in Client |-> Error]
  /\ bytes = [a \in Array |-> Error]
  /\ pool = {}
  /\ got = [c \in Client |-> Error]
  /\ dirty = FALSE
  /\ lost = FALSE

Move(c, from, to) == main # "down" /\ at[c] = from /\ at' = [at EXCEPT ![c] = to]

-----------------------------------------------------------------------------
(* ServerRemote.Call: the request is on its way, or dialling fails. *)

\* Slip: the count of runs is that of the client, not of the call.
StartCallAgain(c, r) ==
  /\ Move(c, "idle", "arrived")
  /\ req' = [req EXCEPT ![c] = r]
  /\ UNCHANGED <<main, invokeMtx, runs, ret, bytes, pool, got, dirty, lost>>

StartCall(c, r) ==
  /\ Move(c, "idle", "arrived")
  /\ req' = [req EXCEPT ![c] = r]
  /\ runs' = [runs EXCEPT ![c] = 0]
  /\ UNCHANGED <<main, invokeMtx, ret, bytes, pool, got, dirty, lost>>

DialFails(c) ==
  /\ main = "down"
  /\ at[c] = "idle"
  /\ got' = [got EXCEPT ![c] = Error]
  /\ UNCHANGED <<main, invokeMtx, at, req, runs, ret, bytes, pool, dirty, lost>>

-----------------------------------------------------------------------------
(* request and handleRequest, in the goroutine of c's call. *)

Lock(c) ==
  /\ Move(c, "arrived", "locked")
  /\ invokeMtx = Nobody
  /\ invokeMtx' = c
  /\ UNCHANGED <<main, req, runs, ret, bytes, pool, got, dirty, lost>>

\* No method with this name, or arguments that do not decode.
Reject(c) ==
  /\ Move(c, "locked", "returned")
  /\ req[c].name \notin Registered
  /\ ret' = [ret EXCEPT ![c] = Error]
  /\ invokeMtx' = Nobody
  /\ UNCHANGED <<main, req, runs, bytes, pool, got, dirty, lost>>

Handle(c) ==
  /\ Move(c, "locked", "handled")
  /\ req[c].name \in Registered
  /\ runs' = [runs EXCEPT ![c] = @ + 1]
  /\ dirty' = TRUE
  /\ UNCHANGED <<main, invokeMtx, req, ret, bytes, pool, got, lost>>

Referenced == {ret[c] : c \in Client}

\* GetBuffer, encode, resp.Return = b.Bytes(), PutBuffer.  The buffer has
\* room (a is in the pool) or is new or grows (a is an array nobody uses);
\* sync.Pool keeps of the others what it likes.
Encode(c) ==
  /\ Move(c, "handled", "encoded")
  /\ \E a \in pool \cup (Array \ Referenced), kept \in SUBSET pool :
       /\ bytes' = [bytes EXCEPT ![a] = Reply(c)]
       /\ ret' = [ret EXCEPT ![c] = a]
       /\ pool' = kept \cup {a}
  /\ UNCHANGED <<main, invokeMtx, req, runs, got, dirty, lost>>

\* A return value that cannot be encoded, of which something may have been
\* written: request returns an error, and the buffer is not put back.
EncodeFails(c) ==
  /\ Move(c, "handled", "returned")
  /\ ret' = [ret EXCEPT ![c] = Error]
  /\ \E a \in pool \cup (Array \ Referenced), kept \in SUBSET pool :
       /\ bytes' \in {bytes, [bytes EXCEPT ![a] = Error]}
       /\ pool' = kept \ {a}
  /\ invokeMtx' = Nobody
  /\ UNCHANGED <<main, req, runs, got, dirty, lost>>

Unlock(c) ==
  /\ Move(c, "encoded", "returned")
  /\ invokeMtx' = Nobody
  /\ UNCHANGED <<main, req, runs, ret, bytes, pool, got, dirty, lost>>

\* Slip: errors are not sent back.
SendReturnsOnly(c) ==
  /\ Move(c, "returned", "idle")
  /\ ret[c] # Error
  /\ got' = [got EXCEPT ![c] = bytes[ret[c]]]
  /\ ret' = [ret EXCEPT ![c] = Error]
  /\ UNCHANGED <<main, invokeMtx, req, runs, bytes, pool, dirty, lost>>

\* net/rpc writes the response: the bytes are read now, without the lock.
Send(c) ==
  /\ Move(c, "returned", "idle")
  /\ got' = [got EXCEPT ![c] = IF ret[c] = Error THEN Error ELSE bytes[ret[c]]]
  /\ ret' = [ret EXCEPT ![c] = Error]
  /\ UNCHANGED <<main, invokeMtx, req, runs, bytes, pool, dirty, lost>>

-----------------------------------------------------------------------------
(* RunServer. *)

\* The process ends: calls under way return an error to their clients.
Ends ==
  /\ main' = "down"
  /\ at' = [c \in Client |-> "idle"]
  /\ got' = [c \in Client |-> IF at[c] = "idle" THEN got[c] ELSE Error]

\* A handler calls os.Exit.
HandlerExits(c) ==
  /\ main # "down" /\ at[c] = "locked" /\ req[c].name \in Registered
  /\ Ends
  /\ UNCHANGED <<invokeMtx, req, runs, ret, bytes, pool, dirty, lost>>

Receive ==
  /\ main = "notified"
  /\ main' = "serving"
  /\ UNCHANGED <<invokeMtx, at, req, runs, ret, bytes, pool, got, dirty, lost>>

\* The channel has no buffer, and package signal drops what it cannot send.
Interrupt ==
  \/ /\ main = "notified"
     /\ lost' = TRUE
     /\ UNCHANGED <<main, invokeMtx, at, req, runs, ret, bytes, pool, got, dirty>>
  \/ /\ main = "serving"
     /\ main' = "interrupted"
     /\ UNCHANGED <<invokeMtx, at, req, runs, ret, bytes, pool, got, dirty, lost>>

\* Slip: RunServer waits for a moment without requests.
FinalizeWhenIdle ==
  /\ main = "interrupted"
  /\ \A c \in Client : at[c] = "idle"
  /\ invokeMtx' = Main
  /\ main' = "finalized"
  /\ dirty' = FALSE
  /\ UNCHANGED <<at, req, runs, ret, bytes, pool, got, lost>>

\* Slip: the finalizer runs without the lock.
FinalizeUnlocked ==
  /\ main = "interrupted"
  /\ main' = "finalized"
  /\ dirty' = FALSE
  /\ UNCHANGED <<invokeMtx, at, req, runs, ret, bytes, pool, got, lost>>

\* Slip: the lock is given back when the finalizer is done.
FinalizeAndUnlock ==
  /\ main = "interrupted"
  /\ invokeMtx = Nobody
  /\ main' = "finalized"
  /\ dirty' = FALSE
  /\ UNCHANGED <<invokeMtx, at, req, runs, ret, bytes, pool, got, lost>>

Finalize ==
  /\ main = "interrupted"
  /\ invokeMtx = Nobody
  /\ invokeMtx' = Main
  /\ main' = "finalized"
  /\ dirty' = FALSE
  /\ UNCHANGED <<at, req, runs, ret, bytes, pool, got, lost>>

Exit ==
  /\ main = "finalized"
  /\ Ends
  /\ UNCHANGED <<invokeMtx, req, runs, ret, bytes, pool, dirty, lost>>

Serve(c) ==
  Reject(c) \/ Handle(c) \/ Encode(c) \/ EncodeFails(c) \/ Unlock(c) \/ Send(c)

Next ==
  \/ \E c \in Client :
       \/ \E r \in Call : StartCall(c, r)
       \/ DialFails(c) \/ Lock(c) \/ Serve(c) \/ HandlerExits(c)
  \/ Receive \/ Interrupt \/ Finalize \/ Exit

\* Goroutines are scheduled fairly; sync.Mutex hands over to a waiter that
\* has waited long (starvation mode).  Nobody has to call or interrupt.
Fairness ==
  /\ \A c \in Client : SF_vars(Lock(c)) /\ WF_vars(Serve(c))
  /\ WF_vars(Receive) /\ SF_vars(Finalize) /\ WF_vars(Exit)

Spec == Init /\ [][Next]_vars
FairSpec == Spec /\ Fairness
-----------------------------------------------------------------------------
TypeOK ==
  /\ main \in {"notified", "serving", "interrupted", "finalized", "down"}
  /\ invokeMtx \in Client \cup {Nobody, Main}
  /\ at \in [Client -> {"idle", "arrived", "returned"} \cup Critical]
  /\ req \in [Client -> Call]
  /\ runs \in [Client -> {0, 1}]
  /\ ret \in [Client -> Array \cup {Error}]
  /\ bytes \in [Array -> (Client \X Tag) \cup {Error}]
  /\ pool \subseteq Array
  /\ got \in [Client -> (Client \X Tag) \cup {Error}]
  /\ dirty \in BOOLEAN
  /\ lost \in BOOLEAN

(* rpc/server.go:72-74: "no two method requests will be handled            *)
(* simultaneously", and none while the finalizer runs or after it.         *)
HandlersAlone ==
  main # "down" =>
    \A c \in Client : at[c] \in Critical =>
      /\ main # "finalized"
      /\ \A d \in Client \ {c} : at[d] \notin Critical

(* What the finalizer saves is the last state any handler made, although   *)
(* requests go on arriving, and being answered, after it has run.          *)
FinalizerLast == main = "finalized" => ~dirty

(* Every call comes back, with a reply or with an error, whatever the other *)
(* clients and the operator do.                                            *)
Answered == \A c \in Client : at[c] = "arrived" ~> at[c] = "idle"

(* A SIGINT that RunServer receives ends the process, however many requests *)
(* keep arriving for the lock.                                             *)
InterruptEnds == main = "interrupted" ~> main = "down"

(* rpc/client.go:49-50: "When the method returns, its return value will be *)
(* placed in the location pointed to by ret": its own, not that of another *)
(* client's call or of an earlier one.                                     *)
ReplyIsOwn ==
  \A c \in Client : at[c] = "idle" => got[c] \in {Error, Reply(c)}

(* rpc/server.go:76-78: "The server runs until it receives SIGINT (ctrl+C  *)
(* on the command line), at which point it calls the finalizer and         *)
(* returns": a SIGINT sent once the handler is installed leads there.      *)
SigintStops == lost ~> main \in {"finalized", "down"}
=============================================================================
