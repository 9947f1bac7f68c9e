------------------------------ MODULE Registry ------------------------------
(***************************************************************************)
(* The start of a server: main registers handlers and a finalizer and runs *)
(* the server.  RegisterHandler looks through the types of each handler's  *)
(* result and arguments, which may refer to one another in circles.        *)
(*                                                                         *)
(* A type is a kind, allowed or not, and its parts: the element of a slice *)
(* or array, key and element of a map, the fields of a struct.             *)
(***************************************************************************)
EXTENDS Naturals, Sequences

CONSTANTS
  Type,     \* types a program declares
  MaxParts, \* bound: parts of a type
  Name,     \* names of methods
  Func      \* what main may register

SeqUpTo(S, n) == UNION {[1 .. k -> S] : k \in 0 .. n}

FuncType == [name : Name, isFunc : BOOLEAN, variadic : BOOLEAN,
             outs : Seq(Type), ins : Seq(Type)]

ASSUME RegistryAssumption == MaxParts \in Nat /\ Func \subseteq FuncType

VARIABLES
  kinds,    \* the types of an allowed kind (validKinds)
  parts,    \* parts[t]: the types that an allowed type t consists of
  pc,       \* "main", "checking" a handler, "refused" (RegisterHandler has
            \* panicked), "panic" (elsewhere), "serving", "ended"
  func,     \* the function registered last
  types,    \* its types validType has yet to be called for
  m,        \* validTypeHelper's map: the types seen
  stack,    \* the types its open calls have yet to visit, in order
  handlers, \* the functions registered
  finalizer \* a finalizer is registered

vars == <<kinds, parts, pc, func, types, m, stack, handlers, finalizer>>
program == <<kinds, parts>>

Init ==
  /\ kinds \in SUBSET Type
  /\ parts \in [kinds -> SeqUpTo(Type, MaxParts)]
  /\ pc = "main"
  /\ func \in Func      \* none yet: any value
  /\ types = <<>> /\ m = {} /\ stack = <<>>
  /\ handlers = {}
  /\ finalizer = FALSE

-----------------------------------------------------------------------------
(* RegisterHandler and getHandler. *)

Misfit(f) == ~f.isFunc \/ Len(f.outs) > 1 \/ f.variadic
NameTaken(f) == \E g \in handlers : g.name = f.name

\* The types of a function, its result first.
TypesOf(f) == f.outs \o f.ins

RegisterHandler(f) ==
  /\ pc = "main"
  /\ func' = f
  /\ IF NameTaken(f) \/ Misfit(f)
     THEN pc' = "refused" /\ UNCHANGED types
     ELSE pc' = "checking" /\ types' = TypesOf(f)
  /\ UNCHANGED <<program, m, stack, handlers, finalizer>>

\* validType begins with an empty map.
validType ==
  /\ pc = "checking" /\ stack = <<>> /\ types # <<>>
  /\ m' = {}
  /\ stack' = <<Head(types)>>
  /\ types' = Tail(types)
  /\ UNCHANGED <<program, pc, func, handlers, finalizer>>

\* Slip: types are not marked as seen.
VisitAgain(t) ==
  /\ t \notin m /\ t \in kinds
  /\ m' = m
  /\ stack' = parts[t] \o Tail(stack)
  /\ UNCHANGED pc

\* Slip: of a map, only the key is looked at.
VisitFirstPart(t) ==
  /\ t \notin m /\ t \in kinds
  /\ m' = m \cup {t}
  /\ stack' = SubSeq(parts[t], 1, IF parts[t] = <<>> THEN 0 ELSE 1) \o Tail(stack)
  /\ UNCHANGED pc

\* The parts of a type that was not seen before are visited next.
Visit(t) ==
  /\ t \notin m /\ t \in kinds
  /\ m' = m \cup {t}
  /\ stack' = parts[t] \o Tail(stack)
  /\ UNCHANGED pc

Seen(t) ==
  /\ t \in m
  /\ stack' = Tail(stack)
  /\ UNCHANGED <<m, pc>>

\* Slip: a type met a second time is taken for a bad one.
RefusedOrSeen(t) ==
  /\ t \in m \/ t \notin kinds
  /\ m' = m \cup {t}
  /\ pc' = "refused"
  /\ UNCHANGED stack

\* "cannot handle type": the error goes through all open calls and panics.
Refused(t) ==
  /\ t \notin m /\ t \notin kinds
  /\ m' = m \cup {t}
  /\ pc' = "refused"
  /\ UNCHANGED stack

validTypeHelper ==
  /\ pc = "checking" /\ stack # <<>>
  /\ Visit(Head(stack)) \/ Seen(Head(stack)) \/ Refused(Head(stack))
  /\ UNCHANGED <<program, func, types, handlers, finalizer>>

Registered ==
  /\ pc = "checking" /\ stack = <<>> /\ types = <<>>
  /\ handlers' = handlers \cup {func}
  /\ pc' = "main"
  /\ UNCHANGED <<program, func, types, m, stack, finalizer>>

-----------------------------------------------------------------------------
RegisterFinalizer ==
  /\ pc = "main"
  /\ IF finalizer THEN pc' = "panic" /\ UNCHANGED finalizer
                  ELSE finalizer' = TRUE /\ UNCHANGED pc
  /\ UNCHANGED <<program, func, types, m, stack, handlers>>

\* Listening may fail, and main then ends as well.
RunServer ==
  /\ pc = "main"
  /\ pc' \in IF finalizer THEN {"serving", "ended"} ELSE {"panic"}
  /\ UNCHANGED <<program, func, types, m, stack, handlers, finalizer>>

Check == validType \/ validTypeHelper \/ Registered

Next ==
  \/ \E f \in Func : RegisterHandler(f)
  \/ Check \/ RegisterFinalizer \/ RunServer

Spec == Init /\ [][Next]_vars /\ WF_vars(Check)

-----------------------------------------------------------------------------
(* A type is transportable if it lies in a set of allowed types that holds *)
(* the parts of its members.                                               *)
Closed(S) == \A t \in S : \A i \in DOMAIN parts[t] : parts[t][i] \in S
Transportable(t) == \E S \in SUBSET kinds : t \in S /\ Closed(S)
AllTransportable(f) == \A i \in DOMAIN TypesOf(f) : Transportable(TypesOf(f)[i])

(* rpc/server.go:35-42: what is registered cannot contain a pointer, a     *)
(* function, an interface or a channel, however deep, although a type seen *)
(* before is not looked at again.                                          *)
OnlyTransportable == \A f \in handlers : AllTransportable(f)

(* rpc/server.go:25-42: a function that meets the requirements is not      *)
(* refused; in particular, types that contain themselves are not.          *)
OnlyMisfitsRefused ==
  pc = "refused" => NameTaken(func) \/ Misfit(func) \/ ~AllTransportable(func)

(* reflect.go:120-153: the recursion ends, also for types that contain     *)
(* themselves: looking through a handler comes to an answer.               *)
ChecksEnd == pc = "checking" ~> pc # "checking"
=============================================================================
