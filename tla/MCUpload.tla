------------------------------ MODULE MCUpload -------------------------------
(***************************************************************************)
(* Instances of Upload for TLC.                                            *)
(***************************************************************************)
EXTENDS Upload, TLC

CONSTANTS s1, s2, s3, n1, n2, h1, h2, i1, i2, i3, i4, i5

\* A content of two blocks, alone and beside an empty one.
OneSize == h1 :> 2
EmptyAndTwo == (h1 :> 0) @@ (h2 :> 2)

\* Every session has names of its own, or all sessions share one.
OwnNames == (s1 :> {n1}) @@ (s2 :> {n2})
SharedName == [s \in Session |-> {n1}]

\* Clients that overwrite, and clients that do not while the server may be killed.
CarefulOrNot == {[overwrites |-> TRUE, crashes |-> FALSE], [overwrites |-> FALSE, crashes |-> TRUE]}
Careful == {[overwrites |-> FALSE, crashes |-> FALSE]}
Overwriting == {[overwrites |-> TRUE, crashes |-> FALSE]}

\* With names of their own the sessions may be exchanged, if the names are.
Exchange == {p \in Permutations(Session \cup Name) :
               \A s \in Session : /\ p[s] \in Session
                                  /\ NamesOf[p[s]] = {p[n] : n \in NamesOf[s]}}
=============================================================================
