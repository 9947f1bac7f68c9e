------------------------------- MODULE Paths -------------------------------
(***************************************************************************)
(* Absolute, cleaned paths below ./userfs, and the two string tests the    *)
(* server makes on them.  A path is a non-empty sequence of names whose    *)
(* first element is the user's own directory:                              *)
(*     ./userfs/alice/Shared_with_me/f  =  <<alice, Shared_with_me, f>>    *)
(* ./userfs itself is the empty sequence.                                  *)
(***************************************************************************)
EXTENDS Naturals, Sequences

CONSTANTS
  Name,             \* names of directory entries (no "/", ".", ".." or "")
  User,             \* user names; each is also the name of a home directory
  SharedName,       \* the string "Shared_with_me"
  StartsWith(_, _), \* StartsWith(a, b): string a begins with string b
  Numbered(_, _)    \* Numbered(i, n): the string strconv.Itoa(i) + n

\* Of strings: each begins with itself, and of two that a third begins with,
\* one begins with the other.
ASSUME NameAssumption ==
  /\ User \subseteq Name
  /\ SharedName \in Name
  /\ \A n \in Name : StartsWith(n, n)
  /\ \A n \in Name, u, w \in User :
       StartsWith(n, u) /\ StartsWith(n, w) => StartsWith(u, w) \/ StartsWith(w, u)

Path == Seq(Name) \ {<<>>}

Root(u) == <<u>>
SharedDir(u) == <<u, SharedName>>
Parent(p) == SubSeq(p, 1, Len(p) - 1)
Base(p) == p[Len(p)]

\* strings.HasPrefix on two cleaned absolute paths: whole names up to the
\* last one of q, and a string prefix there.
HasPrefix(p, q) ==
  /\ Len(q) <= Len(p)
  /\ \A i \in 1 .. Len(q) - 1 : p[i] = q[i]
  /\ StartsWith(p[Len(q)], q[Len(q)])

\* Slip: a handler that forgets the check.
anypath(p, u) == TRUE
checkpath(p, u) == HasPrefix(p, Root(u))

\* No name of the users us begins with another one's.  Nothing in the code
\* keeps it so: alice and alice2 may both sign up, and then checkpath takes
\* all that is alice2's for alice's too.
NamesApart(us) == \A u, w \in us : StartsWith(u, w) => u = w

\* Slip: the directory is guarded, what is in it is not.
IsSharedDir(p, u) == p = SharedDir(u)

\* The guard against Shared_with_me, made with the same prefix test.
InShared(p, u) == HasPrefix(p, SharedDir(u))

\* The i-th name tried for a shared file: the plain name, then 1n, 2n, ...
Candidate(i, n) == IF i = 0 THEN n ELSE Numbered(i, n)
=============================================================================
