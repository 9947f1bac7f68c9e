--------------------------- MODULE RegistryProofs ---------------------------
(***************************************************************************)
(* Proofs about module Registry, for any types, however they refer to one  *)
(* another, and any functions: looking a type up once is enough.           *)
(***************************************************************************)
EXTENDS Registry, SequenceTheorems, TLAPS

Elems(s) == {s[i] : i \in DOMAIN s}

RegistryType ==
  /\ kinds \subseteq Type
  /\ parts \in [kinds -> Seq(Type)]
  /\ pc \in {"main", "checking", "refused", "panic", "serving", "ended"}
  /\ func \in Func
  /\ types \in Seq(Type) /\ stack \in Seq(Type)
  /\ handlers \subseteq Func

(* What is seen is allowed, and its parts are seen or will be visited.     *)
SeenOrWaiting ==
  /\ m \subseteq kinds
  /\ \A t \in m : Elems(parts[t]) \subseteq m \cup Elems(stack)

(* Each type of the function is known to be transportable, or its search   *)
(* is under way, or still to come.                                         *)
NoneForgotten ==
  \A t \in Elems(TypesOf(func)) :
    Transportable(t) \/ t \in m \cup Elems(stack) \cup Elems(types)

(* Only types that the function consists of are looked at.                 *)
NothingElse ==
  AllTransportable(func) =>
    \A t \in Elems(stack) \cup Elems(types) : Transportable(t)

\* Between two searches the last one's map is left as it was.
Searching ==
  /\ pc \in {"main", "checking"} => SeenOrWaiting
  /\ pc = "main" => stack = <<>>
  /\ pc = "checking" => NoneForgotten /\ NothingElse

RegistryInv == RegistryType /\ Searching /\ OnlyTransportable /\ OnlyMisfitsRefused

-----------------------------------------------------------------------------
(* The elements of sequences. *)

LEMMA ElemsSplit ==
  ASSUME NEW s \in Seq(Type), s # <<>>
  PROVE  /\ Head(s) \in Type /\ Tail(s) \in Seq(Type)
         /\ Elems(s) = {Head(s)} \cup Elems(Tail(s))
<1>1. /\ Len(s) \in Nat /\ Len(s) > 0 /\ DOMAIN s = 1 .. Len(s)
      /\ \A i \in 1 .. Len(s) : s[i] \in Type
  BY EmptySeq
<1>2. /\ Head(s) = s[1] /\ Tail(s) \in Seq(Type) /\ Len(Tail(s)) = Len(s) - 1
      /\ \A i \in 1 .. Len(s) - 1 : Tail(s)[i] = s[i + 1]
      /\ DOMAIN Tail(s) = 1 .. Len(Tail(s))
  BY HeadTailProperties
<1>3. ASSUME NEW x \in Elems(s) PROVE x = Head(s) \/ x \in Elems(Tail(s))
  <2>1. PICK i \in 1 .. Len(s) : x = s[i]
    BY <1>1 DEF Elems
  <2>2. CASE i # 1
    <3>1. i - 1 \in DOMAIN Tail(s) /\ Tail(s)[i - 1] = x
      BY <1>1, <1>2, <2>1, <2>2
    <3> QED
      BY <3>1 DEF Elems
  <2> QED
    BY <1>2, <2>1, <2>2
<1>4. ASSUME NEW x \in Elems(Tail(s)) PROVE x \in Elems(s)
  <2>1. PICK i \in 1 .. Len(s) - 1 : x = Tail(s)[i]
    BY <1>2 DEF Elems
  <2>2. i + 1 \in DOMAIN s /\ s[i + 1] = x
    BY <1>1, <1>2, <2>1
  <2> QED
    BY <2>2 DEF Elems
<1>5. Head(s) \in Elems(s)
  BY <1>1, <1>2 DEF Elems
<1> QED
  BY <1>1, <1>2, <1>3, <1>4, <1>5

LEMMA ElemsConcat ==
  ASSUME NEW s \in Seq(Type), NEW t \in Seq(Type)
  PROVE  s \o t \in Seq(Type) /\ Elems(s \o t) = Elems(s) \cup Elems(t)
<1>1. /\ Len(s) \in Nat /\ Len(t) \in Nat /\ DOMAIN s = 1 .. Len(s) /\ DOMAIN t = 1 .. Len(t)
      /\ s \o t \in Seq(Type) /\ DOMAIN (s \o t) = 1 .. Len(s) + Len(t)
      /\ \A i \in 1 .. Len(s) + Len(t) :
           (s \o t)[i] = IF i <= Len(s) THEN s[i] ELSE t[i - Len(s)]
  BY ConcatProperties
<1> DEFINE c == s \o t
<1> HIDE DEF c
<1>2. ASSUME NEW x \in Elems(c) PROVE x \in Elems(s) \cup Elems(t)
  <2>1. PICK i \in 1 .. Len(s) + Len(t) : x = c[i]
    BY <1>1 DEF Elems, c
  <2>2. \/ i \in DOMAIN s /\ x = s[i]
        \/ i - Len(s) \in DOMAIN t /\ x = t[i - Len(s)]
    BY <1>1, <2>1 DEF c
  <2> QED
    BY <2>2 DEF Elems
<1>3. ASSUME NEW x \in Elems(s) PROVE x \in Elems(c)
  <2>1. PICK i \in DOMAIN s : x = s[i]
    BY DEF Elems
  <2>2. i \in DOMAIN c /\ x = c[i]
    BY <1>1, <2>1 DEF c
  <2> QED
    BY <2>2 DEF Elems
<1>4. ASSUME NEW x \in Elems(t) PROVE x \in Elems(c)
  <2>1. PICK i \in DOMAIN t : x = t[i]
    BY DEF Elems
  <2>2. i + Len(s) \in DOMAIN c /\ x = c[i + Len(s)]
    BY <1>1, <2>1 DEF c
  <2> QED
    BY <2>2 DEF Elems
<1>5. Elems(c) = Elems(s) \cup Elems(t)
  BY <1>2, <1>3, <1>4
<1> QED
  BY <1>1, <1>5 DEF c

LEMMA ElemsNone == Elems(<<>>) = {}
  BY DEF Elems

LEMMA ElemsOne ==
  ASSUME NEW t \in Type
  PROVE  <<t>> \in Seq(Type) /\ Elems(<<t>>) = {t}
  BY DEF Elems

-----------------------------------------------------------------------------
(* Transportable types. *)

LEMMA AllElems ==
  ASSUME NEW f
  PROVE  AllTransportable(f) <=> \A t \in Elems(TypesOf(f)) : Transportable(t)
  BY DEF AllTransportable, Elems

LEMMA TypesOfType ==
  ASSUME NEW f \in Func
  PROVE  TypesOf(f) \in Seq(Type)
<1>1. f.outs \in Seq(Type) /\ f.ins \in Seq(Type)
  BY RegistryAssumption DEF FuncType
<1> QED
  BY <1>1, ElemsConcat DEF TypesOf

LEMMA PartsTransportable ==
  ASSUME NEW t, Transportable(t)
  PROVE  t \in kinds /\ \A x \in Elems(parts[t]) : Transportable(x)
<1>1. PICK S \in SUBSET kinds : t \in S /\ Closed(S)
  BY DEF Transportable
<1>2. \A x \in Elems(parts[t]) : x \in S
  BY <1>1 DEF Closed, Elems
<1> QED
  BY <1>1, <1>2 DEF Transportable

(* With nothing left to visit, all that was seen is transportable. *)
LEMMA SearchDone ==
  ASSUME SeenOrWaiting, stack = <<>>
  PROVE  \A t \in m : Transportable(t)
<1>1. \A t \in m : Elems(parts[t]) \subseteq m
  BY ElemsNone DEF SeenOrWaiting
<1>2. m \in SUBSET kinds /\ Closed(m)
  BY <1>1 DEF SeenOrWaiting, Closed, Elems
<1> QED
  BY <1>2 DEF Transportable

(* The types of a program do not change while it runs. *)
LEMMA SameProgram ==
  ASSUME UNCHANGED program
  PROVE  /\ kinds' = kinds /\ parts' = parts
         /\ \A t : Transportable(t)' <=> Transportable(t)
         /\ \A f : AllTransportable(f)' <=> AllTransportable(f)
<1>1. kinds' = kinds /\ parts' = parts
  BY DEF program
<1>2. \A t : Transportable(t)' <=> Transportable(t)
  BY <1>1 DEF Transportable, Closed
<1> QED
  BY <1>1, <1>2 DEF AllTransportable

-----------------------------------------------------------------------------
(* The steps of a search. *)

LEMMA RegisterStep ==
  ASSUME RegistryInv, NEW f \in Func, RegisterHandler(f)
  PROVE  RegistryInv'
<1>1. /\ UNCHANGED program /\ m' = m /\ stack' = stack /\ handlers' = handlers
      /\ pc = "main" /\ func' = f
  BY DEF RegisterHandler
<1>2. /\ SeenOrWaiting /\ stack = <<>> /\ RegistryType /\ OnlyTransportable
  BY <1>1 DEF RegistryInv, Searching
<1>3. SeenOrWaiting'
  BY <1>1, <1>2, SameProgram DEF SeenOrWaiting
<1>4. OnlyTransportable'
  BY <1>1, <1>2, SameProgram DEF OnlyTransportable
<1>5. CASE (NameTaken(f) \/ Misfit(f)) /\ pc' = "refused" /\ UNCHANGED types
  <2>1. RegistryType'
    BY <1>1, <1>2, <1>5, SameProgram DEF RegistryType
  <2>2. OnlyMisfitsRefused'
    BY <1>1, <1>5 DEF OnlyMisfitsRefused, NameTaken, Misfit
  <2> QED
    BY <1>4, <1>5, <2>1, <2>2 DEF RegistryInv, Searching
<1>6. CASE pc' = "checking" /\ types' = TypesOf(f)
  <2>1. RegistryType'
    BY <1>1, <1>2, <1>6, SameProgram, TypesOfType DEF RegistryType
  <2>2. NoneForgotten'
    BY <1>1, <1>6 DEF NoneForgotten, TypesOf
  <2>3. NothingElse'
    <3>1. Elems(stack') = {}
      BY <1>1, <1>2, ElemsNone
    <3>2. AllTransportable(func)' <=> \A t \in Elems(TypesOf(f)) : Transportable(t)'
      BY <1>1, SameProgram, AllElems DEF AllTransportable, TypesOf
    <3> QED
      BY <1>6, <3>1, <3>2 DEF NothingElse
  <2> QED
    BY <1>3, <1>4, <1>6, <2>1, <2>2, <2>3
    DEF RegistryInv, Searching, OnlyMisfitsRefused
<1> QED
  BY <1>5, <1>6 DEF RegisterHandler

LEMMA BeginStep ==
  ASSUME RegistryInv, validType
  PROVE  RegistryInv'
<1>1. /\ UNCHANGED program /\ func' = func /\ handlers' = handlers
      /\ pc = "checking" /\ pc' = pc /\ stack = <<>> /\ types # <<>>
      /\ m' = {} /\ stack' = <<Head(types)>> /\ types' = Tail(types)
  BY DEF validType
<1>2. /\ SeenOrWaiting /\ NoneForgotten /\ NothingElse
      /\ RegistryType /\ OnlyTransportable
  BY <1>1 DEF RegistryInv, Searching
<1>3. /\ Tail(types) \in Seq(Type) /\ stack' \in Seq(Type)
      /\ Elems(types) = Elems(stack') \cup Elems(types')
  <2>1. types \in Seq(Type)
    BY <1>2 DEF RegistryType
  <2>2. /\ Head(types) \in Type /\ Tail(types) \in Seq(Type)
        /\ Elems(types) = {Head(types)} \cup Elems(Tail(types))
    BY <1>1, <2>1, ElemsSplit
  <2> QED
    BY <1>1, <2>2, ElemsOne
<1>4. RegistryType'
  BY <1>1, <1>2, <1>3, SameProgram DEF RegistryType
<1>5. SeenOrWaiting'
  BY <1>1 DEF SeenOrWaiting
<1>6. NoneForgotten'
  <2>1. \A t \in m : Transportable(t)
    BY <1>1, <1>2, SearchDone
  <2>2. \A t \in Elems(TypesOf(func)) :
          Transportable(t) \/ t \in Elems(stack') \cup Elems(types')
    BY <1>1, <1>2, <1>3, <2>1, ElemsNone DEF NoneForgotten
  <2>3. \A t \in Elems(TypesOf(func)) :
          Transportable(t)' \/ t \in Elems(stack') \cup Elems(types')
    BY <1>1, <2>2, SameProgram
  <2> QED
    BY <1>1, <2>3 DEF NoneForgotten, TypesOf
<1>7. NothingElse'
  <2>1. AllTransportable(func) =>
          \A t \in Elems(stack') \cup Elems(types') : Transportable(t)
    BY <1>2, <1>3 DEF NothingElse
  <2> QED
    BY <1>1, <2>1, SameProgram DEF NothingElse, AllTransportable, TypesOf
<1>8. OnlyTransportable'
  BY <1>1, <1>2, SameProgram DEF OnlyTransportable
<1> QED
  BY <1>1, <1>4, <1>5, <1>6, <1>7, <1>8 DEF RegistryInv, Searching, OnlyMisfitsRefused

(* The search goes on: what is waiting or seen is t or was so before, and  *)
(* the parts of t if t was not seen before.                                *)
LEMMA GoOn ==
  ASSUME RegistryInv, pc = "checking", UNCHANGED <<program, func, types, handlers, pc>>,
         stack' \in Seq(Type), SeenOrWaiting',
         m \cup Elems(stack) \subseteq m' \cup Elems(stack'),
         AllTransportable(func) => \A t \in Elems(stack') : Transportable(t)
  PROVE  RegistryInv'
<1>1. RegistryType /\ NoneForgotten /\ NothingElse /\ OnlyTransportable
  BY DEF RegistryInv, Searching
<1>2. UNCHANGED program /\ func' = func /\ types' = types /\ handlers' = handlers /\ pc' = pc
  OBVIOUS
<1>3. RegistryType'
  BY <1>1, <1>2, SameProgram DEF RegistryType
<1>4. NoneForgotten'
  <2>1. \A t \in Elems(TypesOf(func)) :
          Transportable(t)' \/ t \in m' \cup Elems(stack') \cup Elems(types)
    BY <1>1, <1>2, SameProgram DEF NoneForgotten
  <2> QED
    BY <1>2, <2>1 DEF NoneForgotten, TypesOf
<1>5. NothingElse'
  <2>1. AllTransportable(func) =>
          \A t \in Elems(stack') \cup Elems(types) : Transportable(t)
    BY <1>1 DEF NothingElse
  <2> QED
    BY <1>2, <2>1, SameProgram DEF NothingElse, AllTransportable, TypesOf
<1>6. OnlyTransportable'
  BY <1>1, <1>2, SameProgram DEF OnlyTransportable
<1> QED
  BY <1>2, <1>3, <1>4, <1>5, <1>6 DEF RegistryInv, Searching, OnlyMisfitsRefused

LEMMA HelperStep ==
  ASSUME RegistryInv, validTypeHelper
  PROVE  RegistryInv'
<1> DEFINE t == Head(stack)
<1>1. /\ UNCHANGED <<program, func, types, handlers>> /\ pc = "checking" /\ stack # <<>>
      /\ Visit(t) \/ Seen(t) \/ Refused(t)
  BY DEF validTypeHelper
<1>2. RegistryType /\ SeenOrWaiting /\ NoneForgotten /\ NothingElse /\ OnlyTransportable
  BY <1>1 DEF RegistryInv, Searching
<1>3. /\ t \in Type /\ Tail(stack) \in Seq(Type)
      /\ Elems(stack) = {t} \cup Elems(Tail(stack))
  BY <1>1, <1>2, ElemsSplit DEF RegistryType
<1>4. kinds' = kinds /\ parts' = parts
  BY <1>1, SameProgram
<1>5. AllTransportable(func) =>
        \A x \in {t} \cup Elems(Tail(stack)) : Transportable(x)
  BY <1>2, <1>3 DEF NothingElse
<1> HIDE DEF t
<1>6. CASE Visit(t)
  <2>1. /\ t \in kinds /\ m' = m \cup {t} /\ stack' = parts[t] \o Tail(stack) /\ pc' = pc
    BY <1>6 DEF Visit
  <2>2. stack' \in Seq(Type) /\ Elems(stack') = Elems(parts[t]) \cup Elems(Tail(stack))
    <3>1. parts[t] \in Seq(Type)
      BY <1>2, <2>1 DEF RegistryType
    <3> QED
      BY <1>3, <2>1, <3>1, ElemsConcat
  <2>3. SeenOrWaiting'
    <3>1. m' \subseteq kinds
      BY <1>2, <2>1 DEF SeenOrWaiting
    <3>2. \A x \in m' : Elems(parts[x]) \subseteq m' \cup Elems(stack')
      BY <1>2, <1>3, <2>1, <2>2 DEF SeenOrWaiting
    <3> QED
      BY <1>4, <3>1, <3>2 DEF SeenOrWaiting
  <2>4. AllTransportable(func) => \A x \in Elems(stack') : Transportable(x)
    BY <1>5, <2>2, PartsTransportable
  <2>5. m \cup Elems(stack) \subseteq m' \cup Elems(stack')
    BY <1>3, <2>1, <2>2
  <2> QED
    BY <1>1, <2>1, <2>2, <2>3, <2>4, <2>5, GoOn
<1>7. CASE Seen(t)
  <2>1. t \in m /\ m' = m /\ stack' = Tail(stack) /\ pc' = pc
    BY <1>7 DEF Seen
  <2>2. SeenOrWaiting'
    <3>1. \A x \in m' : Elems(parts[x]) \subseteq m' \cup Elems(stack')
      BY <1>2, <1>3, <2>1 DEF SeenOrWaiting
    <3> QED
      BY <1>2, <1>4, <2>1, <3>1 DEF SeenOrWaiting
  <2>3. AllTransportable(func) => \A x \in Elems(stack') : Transportable(x)
    BY <1>5, <2>1
  <2> QED
    BY <1>1, <1>3, <2>1, <2>2, <2>3, GoOn
<1>8. CASE Refused(t)
  <2>1. t \notin kinds /\ pc' = "refused" /\ stack' = stack
    BY <1>8 DEF Refused
  <2>2. ~AllTransportable(func)
    BY <1>5, <2>1, PartsTransportable
  <2>3. OnlyMisfitsRefused'
    BY <1>1, <2>2, SameProgram DEF OnlyMisfitsRefused, AllTransportable, TypesOf
  <2>4. RegistryType'
    BY <1>1, <1>2, <1>4, <2>1 DEF RegistryType
  <2>5. OnlyTransportable'
    BY <1>1, <1>2, SameProgram DEF OnlyTransportable
  <2> QED
    BY <2>1, <2>3, <2>4, <2>5 DEF RegistryInv, Searching
<1> QED
  BY <1>1, <1>6, <1>7, <1>8

LEMMA EndStep ==
  ASSUME RegistryInv, Registered
  PROVE  RegistryInv'
<1>1. /\ UNCHANGED program /\ func' = func /\ types' = types /\ m' = m /\ stack' = stack
      /\ pc = "checking" /\ stack = <<>> /\ types = <<>>
      /\ handlers' = handlers \cup {func} /\ pc' = "main"
  BY DEF Registered
<1>2. RegistryType /\ SeenOrWaiting /\ NoneForgotten /\ OnlyTransportable
  BY <1>1 DEF RegistryInv, Searching
<1>3. \A t \in Elems(TypesOf(func)) : Transportable(t)
  BY <1>1, <1>2, SearchDone, ElemsNone DEF NoneForgotten
<1>4. AllTransportable(func)
  BY <1>3, AllElems
<1>5. OnlyTransportable'
  BY <1>1, <1>2, <1>4, SameProgram DEF OnlyTransportable
<1>6. SeenOrWaiting'
  BY <1>1, <1>2, SameProgram DEF SeenOrWaiting
<1>7. RegistryType'
  BY <1>1, <1>2, SameProgram DEF RegistryType
<1> QED
  BY <1>1, <1>5, <1>6, <1>7 DEF RegistryInv, Searching, OnlyMisfitsRefused

(* The rest of main does not look at types. *)
LEMMA MainStep ==
  ASSUME RegistryInv, RegisterFinalizer \/ RunServer \/ UNCHANGED vars
  PROVE  RegistryInv'
<1>1. /\ UNCHANGED program /\ func' = func /\ types' = types /\ m' = m /\ stack' = stack
      /\ handlers' = handlers
      /\ pc' = pc \/ pc' \in {"panic", "serving", "ended"}
  BY DEF RegisterFinalizer, RunServer, vars, program
<1>2. RegistryType'
  BY <1>1, SameProgram DEF RegistryInv, RegistryType
<1>3. OnlyTransportable'
  BY <1>1, SameProgram DEF RegistryInv, OnlyTransportable
<1>4. SeenOrWaiting => SeenOrWaiting'
  BY <1>1, SameProgram DEF SeenOrWaiting
<1>5. NoneForgotten => NoneForgotten'
  BY <1>1, SameProgram DEF NoneForgotten, TypesOf
<1>6. NothingElse => NothingElse'
  BY <1>1, SameProgram DEF NothingElse, AllTransportable, TypesOf
<1>7. OnlyMisfitsRefused'
  BY <1>1, SameProgram
  DEF RegistryInv, OnlyMisfitsRefused, NameTaken, Misfit, AllTransportable, TypesOf
<1>8. Searching'
  BY <1>1, <1>4, <1>5, <1>6 DEF RegistryInv, Searching
<1> QED
  BY <1>2, <1>3, <1>7, <1>8 DEF RegistryInv

-----------------------------------------------------------------------------
LEMMA InitRegistry == Init => RegistryInv
<1> SUFFICES ASSUME Init PROVE RegistryInv
  OBVIOUS
<1>1. parts \in [kinds -> Seq(Type)]
  <2>1. SeqUpTo(Type, MaxParts) \subseteq Seq(Type)
    <3> SUFFICES ASSUME NEW k \in 0 .. MaxParts, NEW s \in [1 .. k -> Type]
                 PROVE  s \in Seq(Type)
      BY DEF SeqUpTo
    <3>1. k \in Nat
      BY RegistryAssumption
    <3> QED
      BY <3>1
  <2> QED
    BY <2>1 DEF Init
<1>2. RegistryType
  BY <1>1, EmptySeq DEF Init, RegistryType
<1>3. Searching
  BY DEF Init, Searching, SeenOrWaiting
<1> QED
  BY <1>2, <1>3 DEF Init, RegistryInv, OnlyTransportable, OnlyMisfitsRefused

LEMMA Invariance == Spec => []RegistryInv
<1>1. RegistryInv /\ [Next]_vars => RegistryInv'
  BY RegisterStep, BeginStep, HelperStep, EndStep, MainStep DEF Next, Check
<1> QED
  BY InitRegistry, <1>1, PTL DEF Spec

(* rpc/server.go:35-42: what is registered is transportable through and    *)
(* through, although no type is looked at twice.                           *)
THEOREM RegisteredTransportable == Spec => []OnlyTransportable
<1>1. RegistryInv => OnlyTransportable
  BY DEF RegistryInv
<1> QED
  BY Invariance, <1>1, PTL

(* No function that meets the requirements is refused, whatever circles    *)
(* its types make.                                                         *)
THEOREM RefusedRightly == Spec => []OnlyMisfitsRefused
<1>1. RegistryInv => OnlyMisfitsRefused
  BY DEF RegistryInv
<1> QED
  BY Invariance, <1>1, PTL
=============================================================================
