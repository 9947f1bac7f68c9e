------------------------------- MODULE Calls --------------------------------
(***************************************************************************)
(* What lib/support/rpc promises a client and the server's main, without   *)
(* goroutines, locks and buffers: a call is executed at most once, at one  *)
(* moment between its start and its answer; an answer with a value means   *)
(* that it was; an error can mean either; and what the finalizer saves is  *)
(* what every execution there will be has left.                            *)
(***************************************************************************)
CONSTANT Client

VARIABLES
  call,    \* call[c]: "none", "pending", "executed"
  answer,  \* answer[c]: how c's last call ended, "value" or "error"
  service  \* "open", "saved", "ended"

vars == <<call, answer, service>>

Init ==
  /\ call = [c \in Client |-> "none"]
  /\ answer = [c \in Client |-> "error"]
  /\ service = "open"

Invoke(c) ==
  /\ service # "ended" /\ call[c] = "none"
  /\ call' = [call EXCEPT ![c] = "pending"]
  /\ UNCHANGED <<answer, service>>

Execute(c) ==
  /\ service = "open" /\ call[c] = "pending"
  /\ call' = [call EXCEPT ![c] = "executed"]
  /\ UNCHANGED <<answer, service>>

Answer(c, from, a) ==
  /\ service # "ended" /\ call[c] = from
  /\ call' = [call EXCEPT ![c] = "none"]
  /\ answer' = [answer EXCEPT ![c] = a]
  /\ UNCHANGED service

Return(c) == Answer(c, "executed", "value")
Reject(c) == Answer(c, "pending", "error")

\* Executed, but what it returned cannot be sent.
Fail(c) == Answer(c, "executed", "error")

NoService(c) ==
  /\ service = "ended" /\ call[c] = "none"
  /\ answer' = [answer EXCEPT ![c] = "error"]
  /\ UNCHANGED <<call, service>>

Save == service = "open" /\ service' = "saved" /\ UNCHANGED <<call, answer>>

\* A call that was executed may get an error for an answer.
End ==
  /\ service # "ended"
  /\ service' = "ended"
  /\ call' = [c \in Client |-> "none"]
  /\ answer' = [c \in Client |-> IF call[c] = "none" THEN answer[c] ELSE "error"]

Next ==
  \/ \E c \in Client : Invoke(c) \/ Execute(c) \/ Return(c) \/ Reject(c) \/ Fail(c) \/ NoService(c)
  \/ Save \/ End

\* A call that was started is settled in the end.
Settle(c) == call[c] # "none" /\ (Return(c) \/ Reject(c) \/ Fail(c) \/ End)

Spec == Init /\ [][Next]_vars /\ \A c \in Client : WF_vars(Settle(c))
=============================================================================
