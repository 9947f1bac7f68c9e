-------------------------- MODULE RpcServerProofs --------------------------
(***************************************************************************)
(* Proofs about module RpcServer, for any number of clients, buffers and   *)
(* methods: types, mutual exclusion of handlers and finalizer, that the    *)
(* finalizer saves the last state, and that each step is one of Calls.     *)
(***************************************************************************)
EXTENDS RpcCalls, TLAPS

(* A goroutine between Lock and Unlock holds the mutex, RunServer holds it *)
(* once it is finalized, and a handler runs once at most.                  *)
LockHeld ==
  main # "down" =>
    /\ \A c \in Client : at[c] \in Critical => invokeMtx = c
    /\ main = "finalized" => invokeMtx = Main

RunsOnce == \A c \in Client : at[c] \in {"arrived", "locked"} => runs[c] = 0

LockInv == LockHeld /\ RunsOnce /\ FinalizerLast

IInv == TypeOK /\ LockInv

-----------------------------------------------------------------------------
(* The initial states satisfy the invariant. *)
LEMMA InitInv == Init => IInv
  BY DEF Init, IInv, LockInv, TypeOK, LockHeld, RunsOnce, FinalizerLast, Critical

(* TypeOK is kept by every step, given RunsOnce. *)
LEMMA StepType == IInv /\ [Next]_vars => TypeOK'
<1> SUFFICES ASSUME IInv, [Next]_vars PROVE TypeOK'
  OBVIOUS
<1> USE DEF IInv, TypeOK, LockInv, RunsOnce, Critical, Call
<1>1. ASSUME NEW c \in Client, NEW r \in Call, StartCall(c, r) PROVE TypeOK'
  BY <1>1 DEF StartCall, Move
<1>2. ASSUME NEW c \in Client, DialFails(c) PROVE TypeOK'
  BY <1>2 DEF DialFails
<1>3. ASSUME NEW c \in Client, Lock(c) PROVE TypeOK'
  BY <1>3 DEF Lock, Move
<1>4. ASSUME NEW c \in Client, Reject(c) PROVE TypeOK'
  BY <1>4 DEF Reject, Move
<1>5. ASSUME NEW c \in Client, Handle(c) PROVE TypeOK'
  BY <1>5 DEF Handle, Move
<1>6. ASSUME NEW c \in Client, Encode(c) PROVE TypeOK'
  <2>1. Reply(c) \in Client \X Tag
    BY DEF Reply
  <2> QED
    BY <1>6, <2>1 DEF Encode, Move
<1>7. ASSUME NEW c \in Client, Unlock(c) PROVE TypeOK'
  BY <1>7 DEF Unlock, Move
<1>8. ASSUME NEW c \in Client, Send(c) PROVE TypeOK'
  BY <1>8 DEF Send, Move
<1>9. ASSUME NEW c \in Client, HandlerExits(c) PROVE TypeOK'
  BY <1>9 DEF HandlerExits, Ends
<1>10. ASSUME Receive \/ Interrupt \/ Finalize PROVE TypeOK'
  BY <1>10 DEF Receive, Interrupt, Finalize
<1>11. ASSUME Exit PROVE TypeOK'
  BY <1>11 DEF Exit, Ends
<1>12. ASSUME UNCHANGED vars PROVE TypeOK'
  BY <1>12 DEF vars
<1>13. ASSUME NEW c \in Client, EncodeFails(c) PROVE TypeOK'
  BY <1>13 DEF EncodeFails, Move
<1> QED
  BY <1>1, <1>2, <1>3, <1>4, <1>5, <1>6, <1>7, <1>8, <1>9, <1>10, <1>11, <1>12, <1>13
  DEF Next, Serve

(* The rest of the invariant is kept: only Lock and Finalize take the      *)
(* mutex, both only when it is free, and only its holder gives it back.    *)
LEMMA StepLock == IInv /\ [Next]_vars => LockInv'
<1> SUFFICES ASSUME IInv, [Next]_vars PROVE LockInv'
  OBVIOUS
<1> USE HolderAssumption
    DEF IInv, TypeOK, LockInv, LockHeld, RunsOnce, FinalizerLast, Critical
<1>1. ASSUME NEW c \in Client, NEW r \in Call, StartCall(c, r) PROVE LockInv'
  BY <1>1 DEF StartCall, Move
<1>2. ASSUME NEW c \in Client, DialFails(c) PROVE LockInv'
  BY <1>2 DEF DialFails
<1>3. ASSUME NEW c \in Client, Lock(c) PROVE LockInv'
  BY <1>3 DEF Lock, Move
<1>4. ASSUME NEW c \in Client, Reject(c) PROVE LockInv'
  BY <1>4 DEF Reject, Move
<1>5. ASSUME NEW c \in Client, Handle(c) PROVE LockInv'
  BY <1>5 DEF Handle, Move
<1>6. ASSUME NEW c \in Client, Encode(c) PROVE LockInv'
  BY <1>6 DEF Encode, Move
<1>7. ASSUME NEW c \in Client, Unlock(c) PROVE LockInv'
  BY <1>7 DEF Unlock, Move
<1>8. ASSUME NEW c \in Client, Send(c) PROVE LockInv'
  BY <1>8 DEF Send, Move
<1>9. ASSUME NEW c \in Client, HandlerExits(c) PROVE LockInv'
  BY <1>9 DEF HandlerExits, Ends
<1>10. ASSUME Receive \/ Interrupt \/ Finalize PROVE LockInv'
  BY <1>10 DEF Receive, Interrupt, Finalize
<1>11. ASSUME Exit PROVE LockInv'
  BY <1>11 DEF Exit, Ends
<1>12. ASSUME UNCHANGED vars PROVE LockInv'
  BY <1>12 DEF vars
<1>13. ASSUME NEW c \in Client, EncodeFails(c) PROVE LockInv'
  BY <1>13 DEF EncodeFails, Move
<1> QED
  BY <1>1, <1>2, <1>3, <1>4, <1>5, <1>6, <1>7, <1>8, <1>9, <1>10, <1>11, <1>12, <1>13
  DEF Next, Serve

(* The invariant holds in every reachable state. *)
LEMMA Invariance == Spec => []IInv
<1>1. IInv /\ [Next]_vars => IInv'
  BY StepType, StepLock DEF IInv
<1> QED
  BY InitInv, <1>1, PTL DEF Spec

-----------------------------------------------------------------------------
(* Every variable keeps its type; no handler runs twice for one call.      *)
THEOREM TypeCorrect == Spec => []TypeOK
<1>1. IInv => TypeOK
  BY DEF IInv
<1> QED
  BY Invariance, <1>1, PTL

(* No two handlers run at a time, and none beside or after the finalizer   *)
(* (rpc/server.go:72-74, 105-106).                                         *)
THEOREM MutualExclusion == Spec => []HandlersAlone
<1>1. IInv => HandlersAlone
  BY HolderAssumption DEF IInv, LockInv, LockHeld, HandlersAlone
<1> QED
  BY Invariance, <1>1, PTL

(* The finalizer saves what the last handler left (server.go:1245-1248).   *)
THEOREM FinalizerSavesLast == Spec => []FinalizerLast
<1>1. IInv => FinalizerLast
  BY DEF IInv, LockInv
<1> QED
  BY Invariance, <1>1, PTL

-----------------------------------------------------------------------------
(* The server implements Calls. *)

(* A call whose handler has returned, or for which a reply waits to be     *)
(* sent, has run.                                                          *)
RanFirst ==
  \A c \in Client :
    \/ at[c] \in {"handled", "encoded"}
    \/ at[c] = "returned" /\ ret[c] # Error
    => runs[c] = 1

CallsInv == IInv /\ RanFirst

LEMMA StepRanFirst == CallsInv /\ [Next]_vars => RanFirst'
<1> SUFFICES ASSUME CallsInv, [Next]_vars PROVE RanFirst'
  OBVIOUS
<1>0. TypeOK /\ RanFirst /\ RunsOnce
  BY DEF CallsInv, IInv, LockInv
<1> USE <1>0 DEF RanFirst, TypeOK, Critical, RunsOnce
<1>1. ASSUME NEW c \in Client, NEW r \in Call, StartCall(c, r) PROVE RanFirst'
  BY <1>1 DEF StartCall, Move
<1>2. ASSUME NEW c \in Client, DialFails(c) PROVE RanFirst'
  BY <1>2 DEF DialFails
<1>3. ASSUME NEW c \in Client, Lock(c) PROVE RanFirst'
  BY <1>3 DEF Lock, Move
<1>4. ASSUME NEW c \in Client, Reject(c) PROVE RanFirst'
  BY <1>4 DEF Reject, Move
<1>5. ASSUME NEW c \in Client, Handle(c) PROVE RanFirst'
  BY <1>5 DEF Handle, Move
<1>6. ASSUME NEW c \in Client, Encode(c) PROVE RanFirst'
  BY <1>6 DEF Encode, Move
<1>7. ASSUME NEW c \in Client, EncodeFails(c) PROVE RanFirst'
  BY <1>7 DEF EncodeFails, Move
<1>8. ASSUME NEW c \in Client, Unlock(c) PROVE RanFirst'
  BY <1>8 DEF Unlock, Move
<1>9. ASSUME NEW c \in Client, Send(c) PROVE RanFirst'
  BY <1>9 DEF Send, Move
<1>10. ASSUME (\E c \in Client : HandlerExits(c)) \/ Exit PROVE RanFirst'
  BY <1>10 DEF HandlerExits, Exit, Ends
<1>11. ASSUME Receive \/ Interrupt \/ Finalize \/ UNCHANGED vars PROVE RanFirst'
  BY <1>11 DEF Receive, Interrupt, Finalize, vars
<1> QED
  BY <1>1, <1>2, <1>3, <1>4, <1>5, <1>6, <1>7, <1>8, <1>9, <1>10, <1>11 DEF Next, Serve

LEMMA CallsInvariance == Spec => []CallsInv
<1>1. Init => RanFirst
  BY DEF Init, RanFirst
<1>2. CallsInv /\ [Next]_vars => CallsInv'
  BY StepRanFirst, StepType, StepLock DEF CallsInv, IInv
<1> QED
  BY InitInv, <1>1, <1>2, PTL DEF Spec, CallsInv

\* The state of Calls, and of one call in it.
Calling == [c \in Client |-> CallState(c)]
Answering == [c \in Client |-> IF got[c] = Error THEN "error" ELSE "value"]
Service == CASE main = "finalized" -> "saved" [] main = "down" -> "ended" [] OTHER -> "open"

(* A step of c's goroutine changes the state of c's call only. *)
LEMMA CallingAt ==
  ASSUME TypeOK, NEW c \in Client, NEW from, NEW to, Move(c, from, to),
         \A d \in Client \ {c} : runs'[d] = runs[d]
  PROVE  /\ Calling[c] = CallState(c)
         /\ Calling' = [Calling EXCEPT ![c] = CallState(c)']
<1>1. /\ at[c] = from /\ at'[c] = to /\ \A d \in Client \ {c} : at'[d] = at[d]
  BY DEF Move, TypeOK
<1>2. \A d \in Client \ {c} : CallState(d)' = CallState(d)
  BY <1>1 DEF CallState
<1>3. Calling' = [d \in Client |-> CallState(d)']
  BY DEF Calling
<1> QED
  BY <1>2, <1>3 DEF Calling

(* A step of RunServer that leaves calls and clients alone. *)
LEMMA CallingSame ==
  ASSUME UNCHANGED <<at, runs>>
  PROVE  Calling' = Calling
  BY DEF Calling, CallState

LEMMA ServiceNow ==
  /\ main = "finalized" => Service = "saved"
  /\ main = "down" => Service = "ended"
  /\ main \notin {"finalized", "down"} => Service = "open"
  BY DEF Service

-----------------------------------------------------------------------------
(* The steps. *)

\* A step that Calls cannot see.
Unseen == UNCHANGED <<Calling, Answering, Service>>

LEMMA UnseenStep ==
  ASSUME Unseen
  PROVE  UNCHANGED Abstract!vars
  BY DEF Unseen, Abstract!vars, Calling, Answering, Service

LEMMA InvokeStep ==
  ASSUME CallsInv, NEW c \in Client, NEW r \in Call, StartCall(c, r)
  PROVE  Abstract!Next
<1>1. /\ TypeOK /\ Move(c, "idle", "arrived") /\ UNCHANGED <<got, main>>
      /\ runs' = [runs EXCEPT ![c] = 0]
  BY DEF CallsInv, IInv, StartCall
<1>2. at[c] = "idle" /\ at'[c] = "arrived" /\ runs'[c] = 0
      /\ \A d \in Client \ {c} : runs'[d] = runs[d]
  BY <1>1 DEF Move, TypeOK
<1>3. Calling[c] = "none" /\ Calling' = [Calling EXCEPT ![c] = "pending"]
  BY <1>1, <1>2, CallingAt DEF CallState
<1>4. Answering' = Answering /\ Service' = Service /\ Service # "ended"
  BY <1>1, ServiceNow DEF Answering, Service, Move
<1>5. Abstract!Invoke(c)
  BY <1>3, <1>4 DEF Abstract!Invoke, Calling, Answering, Service
<1> QED
  BY <1>5 DEF Abstract!Next

LEMMA NoServiceStep ==
  ASSUME CallsInv, NEW c \in Client, DialFails(c)
  PROVE  Abstract!Next
<1>1. /\ UNCHANGED <<at, runs, main>> /\ at[c] = "idle" /\ main = "down"
      /\ got' = [got EXCEPT ![c] = Error] /\ got \in [Client -> (Client \X Tag) \cup {Error}]
  BY DEF CallsInv, IInv, TypeOK, DialFails
<1>2. Calling' = Calling /\ Calling[c] = "none"
  BY <1>1, CallingSame DEF Calling, CallState
<1>3. Answering' = [Answering EXCEPT ![c] = "error"]
  BY <1>1 DEF Answering
<1>4. Service' = Service /\ Service = "ended"
  BY <1>1, ServiceNow DEF Service
<1>5. Abstract!NoService(c)
  BY <1>2, <1>3, <1>4 DEF Abstract!NoService, Calling, Answering, Service
<1> QED
  BY <1>5 DEF Abstract!Next

(* A goroutine takes its lock, encodes, gives the lock back: nobody sees. *)
LEMMA HiddenStep ==
  ASSUME CallsInv, NEW c \in Client,
         Lock(c) \/ Reject(c) \/ Encode(c) \/ EncodeFails(c) \/ Unlock(c)
  PROVE  UNCHANGED Abstract!vars
<1>1. TypeOK /\ UNCHANGED <<got, main, runs>>
  BY DEF CallsInv, IInv, Lock, Reject, Encode, EncodeFails, Unlock
<1>2. Answering' = Answering /\ Service' = Service
  BY <1>1 DEF Answering, Service
<1>3. PICK from \in {"arrived", "returned"} \cup Critical,
           to \in {"arrived", "returned"} \cup Critical : Move(c, from, to)
  BY DEF Lock, Reject, Encode, EncodeFails, Unlock, Critical
<1>4. at[c] # "idle" /\ at'[c] # "idle"
  BY <1>1, <1>3 DEF Move, TypeOK, Critical
<1>5. CallState(c)' = CallState(c)
  BY <1>1, <1>4 DEF CallState
<1>6. Calling' = [Calling EXCEPT ![c] = Calling[c]]
  BY <1>1, <1>3, <1>5, CallingAt
<1>7. Calling' = Calling
  BY <1>6 DEF Calling
<1> QED
  BY <1>2, <1>7, UnseenStep DEF Unseen

(* The handler runs before the finalizer: it holds the mutex that the      *)
(* finalizer keeps.                                                        *)
LEMMA ExecuteStep ==
  ASSUME CallsInv, NEW c \in Client, Handle(c)
  PROVE  Abstract!Next
<1>1. /\ TypeOK /\ Move(c, "locked", "handled") /\ UNCHANGED <<got, main>>
      /\ runs' = [runs EXCEPT ![c] = @ + 1]
  BY DEF CallsInv, IInv, Handle
<1>2. /\ at[c] = "locked" /\ at'[c] = "handled" /\ runs[c] = 0 /\ runs'[c] # 0
      /\ \A d \in Client \ {c} : runs'[d] = runs[d]
  BY <1>1 DEF CallsInv, IInv, LockInv, RunsOnce, Move, TypeOK
<1>3. Calling[c] = "pending" /\ Calling' = [Calling EXCEPT ![c] = "executed"]
  BY <1>1, <1>2, CallingAt DEF CallState
<1>4. main # "down" /\ main # "finalized"
  BY <1>1, HolderAssumption DEF CallsInv, IInv, LockInv, LockHeld, Critical, Move
<1>5. Answering' = Answering /\ Service' = Service /\ Service = "open"
  BY <1>1, <1>4, ServiceNow DEF Answering, Service
<1>6. Abstract!Execute(c)
  BY <1>3, <1>5 DEF Abstract!Execute, Calling, Answering, Service
<1> QED
  BY <1>6 DEF Abstract!Next

(* An answer with a value is a reply, and there is one only after the      *)
(* handler has run.                                                        *)
LEMMA AnswerStep ==
  ASSUME CallsInv, NEW c \in Client, Send(c)
  PROVE  Abstract!Next
<1> DEFINE sent == IF ret[c] = Error THEN Error ELSE bytes[ret[c]]
<1>1. /\ TypeOK /\ Move(c, "returned", "idle") /\ UNCHANGED <<main, runs>> /\ main # "down"
      /\ got' = [got EXCEPT ![c] = sent]
  BY DEF CallsInv, IInv, Send, Move
<1>2. at[c] = "returned" /\ at'[c] = "idle"
  BY <1>1 DEF Move, TypeOK
<1>3. Calling[c] \in {"pending", "executed"} /\ Calling' = [Calling EXCEPT ![c] = "none"]
  BY <1>1, <1>2, CallingAt DEF CallState
<1>4. Service' = Service /\ Service # "ended"
  BY <1>1, ServiceNow DEF Service
<1>5. sent # Error => Calling[c] = "executed"
  BY <1>1, <1>2, CallingAt DEF CallsInv, RanFirst, CallState
<1> HIDE DEF sent
<1>6. CASE sent = Error
  <2>1. Answering' = [Answering EXCEPT ![c] = "error"]
    BY <1>1, <1>6 DEF Answering, TypeOK
  <2>2. Abstract!Reject(c) \/ Abstract!Fail(c)
    BY <1>3, <1>4, <2>1
    DEF Abstract!Reject, Abstract!Fail, Abstract!Answer, Calling, Answering, Service
  <2> QED
    BY <2>2 DEF Abstract!Next
<1>7. CASE sent # Error
  <2>1. Answering' = [Answering EXCEPT ![c] = "value"]
    BY <1>1, <1>7 DEF Answering, TypeOK
  <2>2. Abstract!Return(c)
    BY <1>3, <1>4, <1>5, <1>7, <2>1
    DEF Abstract!Return, Abstract!Answer, Calling, Answering, Service
  <2> QED
    BY <2>2 DEF Abstract!Next
<1> QED
  BY <1>6, <1>7

LEMMA EndStep ==
  ASSUME CallsInv, main # "down", Ends
  PROVE  Abstract!Next
<1>1. TypeOK
  BY DEF CallsInv, IInv
<1>2. /\ main' = "down" /\ at' = [d \in Client |-> "idle"]
      /\ got' = [d \in Client |-> IF at[d] = "idle" THEN got[d] ELSE Error]
  BY DEF Ends
<1>3. Calling' = [d \in Client |-> "none"]
  BY <1>2 DEF Calling, CallState
<1>4. \A d \in Client : Calling[d] = "none" <=> at[d] = "idle"
  BY DEF Calling, CallState
<1>5. Answering' = [d \in Client |-> IF Calling[d] = "none" THEN Answering[d] ELSE "error"]
  BY <1>2, <1>4 DEF Answering
<1>6. Service # "ended" /\ Service' = "ended"
  BY <1>2, ServiceNow DEF Service
<1>7. Abstract!End
  BY <1>3, <1>5, <1>6 DEF Abstract!End, Calling, Answering, Service
<1> QED
  BY <1>7 DEF Abstract!Next

LEMMA MainStep ==
  ASSUME CallsInv, Receive \/ Interrupt \/ Finalize \/ Exit \/ UNCHANGED vars
  PROVE  [Abstract!Next]_(Abstract!vars)
<1>1. CASE Receive \/ Interrupt \/ UNCHANGED vars
  <2>1. /\ UNCHANGED <<at, runs, got>>
        /\ main' = main \/ {main, main'} \subseteq {"notified", "serving", "interrupted"}
    BY <1>1 DEF Receive, Interrupt, vars
  <2>2. Unseen
    BY <2>1, CallingSame DEF Unseen, Answering, Service
  <2> QED
    BY <2>2, UnseenStep
<1>2. CASE Finalize
  <2>1. UNCHANGED <<at, runs, got>> /\ main = "interrupted" /\ main' = "finalized"
    BY <1>2 DEF Finalize
  <2>2. Calling' = Calling /\ Answering' = Answering /\ Service = "open" /\ Service' = "saved"
    BY <2>1, CallingSame DEF Answering, Service
  <2>3. Abstract!Save
    BY <2>2 DEF Abstract!Save, Calling, Answering, Service
  <2> QED
    BY <2>3 DEF Abstract!Next
<1>3. CASE Exit
  BY <1>3, EndStep DEF Exit
<1> QED
  BY <1>1, <1>2, <1>3

LEMMA NextCalls ==
  ASSUME CallsInv, [Next]_vars
  PROVE  [Abstract!Next]_(Abstract!vars)
<1>1. ASSUME NEW c \in Client, HandlerExits(c) PROVE Abstract!Next
  BY <1>1, EndStep DEF HandlerExits
<1> QED
  BY <1>1, InvokeStep, NoServiceStep, HiddenStep, ExecuteStep, AnswerStep, MainStep
  DEF Next, Serve

LEMMA InitCalls == Init => Abstract!Init
  BY DEF Init, Abstract!Init, CallState

(* rpc/server.go:70-78, rpc/client.go:46-52: for any number of clients, a  *)
(* call is executed once at most, before the finalizer, at one moment      *)
(* between its start and its answer, and a value means that it was.        *)
THEOREM CallsRefined == Spec => CallsSafety
<1>1. CallsInv /\ [Next]_vars => [Abstract!Next]_(Abstract!vars)
  BY NextCalls
<1> QED
  BY CallsInvariance, InitCalls, <1>1, PTL DEF Spec, CallsSafety
=============================================================================
