------------------------------ MODULE MCClients ------------------------------
(* Instances of Clients for TLC. *)
EXTENDS MCDropbox, ClientClaims

Here(n) == [abs |-> FALSE, ups |-> 0, names |-> n]
Up(k, n) == [abs |-> FALSE, ups |-> k, names |-> n]
Slash(n) == [abs |-> TRUE, ups |-> 0, names |-> n]

\* A place beside the homes, which bob may name but not alice and at which
\* the user bobby, too, would have a home, and where alice receives what is there.
AllUsers == {"alice", "bob", "bobby"}
LengthOfAll == [u \in AllUsers |-> MCNameLength[u]]
BesideTyped == {Up(1, <<"bobby">>), Up(1, <<"alice", "Shared_with_me", "bobby">>)}
ClientSymmetry == Permutations(Client)

\* One name, typed in every way.
OneTyped == {Here(<<"d">>), Slash(<<"d">>), Up(1, <<>>)}
OneUser == {"alice"}
LengthOfOne == [u \in OneUser |-> MCNameLength[u]]
=============================================================================
