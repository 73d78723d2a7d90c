----------------------------- MODULE MCFileForest -----------------------------
(* Instances of FileForest for TLC.                                        *)
EXTENDS FileForest, TLC

Abs(s) == [abs |-> TRUE, steps |-> s]
Rel(s) == [abs |-> FALSE, steps |-> s]
Type(c, paths) == {[cmd |-> c, path |-> p] : p \in paths}

Ana == [s1 |-> {"ana"}, s2 |-> {}]            \* one session alone
Twice == [s1 |-> {"ana"}, s2 |-> {"ana"}]     \* one user with two sessions
Both == [s1 |-> {"ana"}, s2 |-> {"bob"}]      \* two users
Rivals == [s1 |-> {"ana", "bob"}, s2 |-> {"bob"}]

Turns == [s1 |-> {"ana", "bob"}, s2 |-> {}]   \* two users, one after the other

AllWorlds == {Ana, Turns, Twice, Both, Rivals}
JustBoth == {Both}

Rows == Ana :> 3 @@ Turns :> 3 @@ Twice :> 2 @@ Both :> 2 @@ Rivals :> 0
Failures == Ana :> 1 @@ Turns :> 0 @@ Twice :> 0 @@ Both :> 0 @@ Rivals :> 1
NoFailures == Both :> 0
FourRows == Both :> 4

\* A name may be the wildcard "%" of LIKE, and a path have "..", or two slashes in a row.
All == Type("cd", {Rel(<<".", "a">>), Rel(<<"..">>)})
       \cup Type("mkdir", {Rel(<<"%">>), Rel(<<"a", "a">>)})
       \cup Type("rmdir", {Rel(<<>>), Abs(<<"a", "a">>)})
       \cup Type("remove", {Abs(<<"a">>), Abs(<<"a", "a">>), Abs(<<"%">>)})
       \cup Type("puts", {Rel(<<"a">>), Abs(<<"a", "..", "", "b">>)})
       \cup Type("gets", {Rel(<<"a">>)})

Removals == Type("mkdir", {Abs(<<"a", "b">>)}) \cup Type("remove", {Abs(<<"a">>)})
===============================================================================
