----------------------------- MODULE MCDropbox -----------------------------
(***************************************************************************)
(* Instances of Dropbox for TLC.  Names are strings, so that the prefix    *)
(* test and the renaming of shared files are computed as the code does;    *)
(* file contents are model values and interchangeable.                     *)
(***************************************************************************)
EXTENDS DropboxClaims, TLC

MCStartsWith(a, b) == Len(b) <= Len(a) /\ SubSeq(a, 1, Len(b)) = b
MCNumbered(i, n) == ToString(i) \o n
PlainName == {"alice", "alice2", "bob", "bobby", "david", "d", "f", "1f", "Shared_with_me", "Shared_with_me2"}
MCName == PlainName \cup {MCNumbered(i, n) : i \in {1, 2}, n \in PlainName}
BodySymmetry == Permutations(Body)

TwoUsers == {"alice", "bob"}
ThreeUsers == {"alice", "bob", "david"}
MCNameLength == "alice" :> 5 @@ "alice2" :> 6 @@ "bob" :> 3 @@ "bobby" :> 5 @@ "david" :> 5
LengthOfTwo == [u \in TwoUsers |-> MCNameLength[u]]
LengthOfThree == [u \in ThreeUsers |-> MCNameLength[u]]

\* Two users of whom one has a name that begins with the other's.
LikeUsers == {"alice", "alice2"}
LengthOfLike == [u \in LikeUsers |-> MCNameLength[u]]
MoreUsers == {"alice", "alice2", "bob"}
LengthOfMore == [u \in MoreUsers |-> MCNameLength[u]]
BesidePaths == {<<"alice2">>, <<"alice2", "f">>, <<"bob", "Shared_with_me", "f">>}
LikePaths == {<<"alice", "f">>, <<"alice2", "f">>}

\* Two owners whose files may have the same content, one of them shared.
DedupPaths == {<<"alice", "f">>, <<"bob", "f">>, <<"bob", "Shared_with_me", "f">>}

\* One file, its owner, and two sharees.
SharingPaths ==
  {<<"alice", "f">>, <<"bob", "Shared_with_me", "f">>, <<"david", "Shared_with_me", "f">>}

\* Directories, files in them, and two shared files of the same name.
TreePaths ==
  {<<"alice">>, <<"alice", "f">>, <<"alice", "d">>, <<"alice", "d", "f">>,
   <<"bob", "Shared_with_me">>, <<"bob", "Shared_with_me", "f">>,
   <<"bob", "Shared_with_me", "1f">>, <<"bob", "Shared_with_me2">>}

\* A received file's place and one below Shared_with_me that is not.
ReceivedPaths ==
  {<<"alice", "f">>, <<"bob", "Shared_with_me", "f">>, <<"bob", "Shared_with_me", "d">>}
=============================================================================
