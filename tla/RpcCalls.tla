------------------------------ MODULE RpcCalls ------------------------------
(* The RPC server of module RpcServer implements Calls. *)
EXTENDS RpcServer

CallState(c) ==
  IF at[c] = "idle" THEN "none" ELSE IF runs[c] = 0 THEN "pending" ELSE "executed"

Abstract == INSTANCE Calls WITH
  call <- [c \in Client |-> CallState(c)],
  answer <- [c \in Client |-> IF got[c] = Error THEN "error" ELSE "value"],
  service <- CASE main = "finalized" -> "saved" [] main = "down" -> "ended"
               [] OTHER -> "open"

(* rpc/server.go:70-78 and rpc/client.go:46-52: whatever requests are in   *)
(* flight when SIGINT comes, each call is executed once at most and before *)
(* the finalizer or not at all, an answer with a value follows its         *)
(* execution, and every call is answered.                                  *)
ImplementsCalls == Abstract!Spec

\* The same without the last: the initial state and each step are those of Calls.
CallsSafety == Abstract!Init /\ [][Abstract!Next]_(Abstract!vars)
=============================================================================
