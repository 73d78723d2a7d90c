--------------------------- MODULE FileForestProofs ---------------------------
(***************************************************************************)
(* FileForest for every set of sessions, users and commands.  The lemmas   *)
(* of the first part are about the table and the record of a session alone *)
(* (f is the table, n the number of failed queries, r a session), those of *)
(* the others about the steps.                                             *)
(***************************************************************************)
EXTENDS FileForest, SequenceTheorems, FiniteSetTheorems, WellFoundedInduction, TLAPS

Text == Seq(STRING)

\* A root directory has the name "/".
Name == STRING \cup {"/"}

Row == [name : Name, user : User, pdir : Int, path : Text, type : {"dir", "reg"},
        alive : BOOLEAN]

Registering == {"account", "root", "home", "enter"}

\* Where the directory of the command has been found.
Chosen == {"parent", "count", "rmdir", "info", "self", "below", "place", "insert", "mkdir"}

Places == Registering \cup Chosen \cup {"idle", "top", "walk", "mkpath", "find"}

Record == [at : Places, user : User \cup {Nobody}, cwd : Nat,
           cmd : {"none", "cd", "mkdir", "rmdir", "remove", "puts", "gets", "create"},
           abs : BOOLEAN, cur : Nat, todo : Text, text : Text,
           name : STRING \cup User \cup {Nobody}]

IsRoot(f, i) == f[i].pdir = -1
IsDir(f, d, u) == d \in DOMAIN f /\ f[d].user = u /\ f[d].type = "dir"

\* The path of a row is that of its directory, followed by its name.
Below(f, d, p, n) == p = Append(f[d].path, n)

RowOK(f, i) ==
  /\ f[i].type = "dir" => Plain(f[i].path)
  /\ IsRoot(f, i) => f[i].alive /\ f[i].type = "dir" /\ f[i].path = <<>>
  /\ ~ IsRoot(f, i) => /\ f[i].pdir \in 1..(i - 1) /\ IsDir(f, f[i].pdir, f[i].user)
                       /\ Plain(f[i].path) => Below(f, f[i].pdir, f[i].path, f[i].name)

Table == {f \in Seq(Row) : \A i \in DOMAIN f : RowOK(f, i)}

\* A later table: no row has gone, only marks have changed.
Grown(f, g) ==
  /\ DOMAIN f \subseteq DOMAIN g
  /\ \A i \in DOMAIN f : /\ g[i].name = f[i].name /\ g[i].user = f[i].user
                         /\ g[i].pdir = f[i].pdir /\ g[i].path = f[i].path
                         /\ g[i].type = f[i].type

\* Whose session it is, and which directories it works in.
InTree(f, n, r) ==
  /\ r.cwd = 0 \/ IsDir(f, r.cwd, r.user)
  /\ r.cur = 0 \/ IsDir(f, r.cur, r.user)
  /\ r.user # Nobody /\ r.cwd = 0 => n > 0
  /\ r.at \in Registering => r.user = Nobody /\ r.name \in User
  /\ r.user = Nobody => r.at \in Registering \cup {"idle"}
  /\ r.at \in Registering \cup {"idle"} <=> r.cmd = "none"
  /\ r.at = "home" => \E i \in DOMAIN f : IsRoot(f, i) /\ f[i].user = r.name
  /\ r.at \in Chosen => r.cur # 0
  /\ r.at \in {"count", "rmdir", "info", "self"} => ~ IsRoot(f, r.cur)

\* Directories: what mkdir is about to make and remove to take.
ForDirs(f, r) ==
  /\ r.cmd = "mkdir" => ~ Contains(r.todo, "..")
  /\ r.at \in {"mkpath", "mkdir"} => r.cmd = "mkdir" /\ r.todo # <<>> /\ Head(r.todo) \notin Skipped
  /\ r.at = "mkdir" => Below(f, r.cur, r.text, Head(r.todo))
  /\ r.at \in {"parent", "count", "rmdir", "info", "self", "below"} =>
       r.cmd \in {"rmdir", "remove"}
  /\ r.at \in {"self", "below"} => r.text = f[r.cur].path

\* Files: what is left of the path and the directory reached make the path again.
ForFiles(f, r) ==
  /\ r.cmd \in {"puts", "gets", "create"} => r.name \in STRING
  /\ r.at \in {"place", "find"} => r.cmd \in {"puts", "gets"}
  /\ r.at = "insert" => r.cmd = "create"
  /\ \/ r.at = "find"
     \/ r.at \in {"top", "walk"} /\ r.cmd = "puts" /\ r.abs
     \/ r.at = "top" /\ r.cmd = "create"
     => r.text # <<>> /\ r.name = Last(r.text)
  /\ r.at = "top" /\ r.cmd = "create" => r.todo = Front(r.text)
  /\ r.at = "walk" /\ r.cmd = "create" /\ Plain(r.text) =>
       r.cur # 0 /\ r.text = Append(f[r.cur].path \o r.todo, r.name)
  /\ r.at = "insert" /\ Plain(r.text) => Below(f, r.cur, r.text, r.name)

Ready(f, n, r) == InTree(f, n, r) /\ ForDirs(f, r) /\ ForFiles(f, r)

-----------------------------------------------------------------------------
(* Sequences.                                                              *)

LEMMA TextParts ==
  ASSUME NEW p \in Text, p # <<>>
  PROVE  /\ Head(p) \in STRING /\ Tail(p) \in Text
         /\ Front(p) \in Text /\ Last(p) \in STRING /\ p = Append(Front(p), Last(p))
  BY DEF Text, Front, Last

LEMMA OneAppend ==
  ASSUME NEW S, NEW p \in Seq(S), NEW q \in Seq(S), NEW a \in S, NEW b \in S,
         Append(p, a) = Append(q, b)
  PROVE  p = q /\ a = b
  BY AppendInjective

LEMMA FrontOfAppend ==
  ASSUME NEW S, NEW p \in Seq(S), NEW a \in S
  PROVE  Front(Append(p, a)) = p /\ Last(Append(p, a)) = a
<1> DEFINE q == Append(p, a)
<1>1. q \in Seq(S) /\ q # <<>>
  BY AppendProperties
<1>2. Front(q) \in Seq(S) /\ Last(q) \in S /\ Append(Front(q), Last(q)) = Append(p, a)
  BY <1>1 DEF Front, Last
<1> QED  BY <1>2, OneAppend

LEMMA TextFacts ==
  ASSUME NEW p \in Text, NEW q \in Text, NEW a \in STRING
  PROVE  /\ <<>> \in Text /\ Append(p, a) \in Text /\ Append(p, a) # <<>>
         /\ Front(Append(p, a)) = p /\ Last(Append(p, a)) = a
         /\ p \o <<>> = p /\ p \o q \in Text
<1>1. <<>> \in Text /\ p \o q \in Text
  BY DEF Text
<1>2. Append(p, a) \in Text /\ Append(p, a) # <<>>
  BY AppendProperties DEF Text
<1>3. p \o <<>> = p
  BY ConcatEmptySeq DEF Text
<1>4. Front(Append(p, a)) = p /\ Last(Append(p, a)) = a
  BY FrontOfAppend, Zenon DEF Text
<1> QED  BY <1>1, <1>2, <1>3, <1>4

LEMMA Shift ==
  ASSUME NEW p \in Text, NEW t \in Text, t # <<>>
  PROVE  p \o t = Append(p, Head(t)) \o Tail(t)
  BY DEF Text

LEMMA PlainAppend ==
  ASSUME NEW p \in Text, NEW a \in STRING
  PROVE  Plain(Append(p, a)) <=> Plain(p) /\ a # "." /\ a # "" /\ a # ".."
<1>1. \A e : Contains(Append(p, a), e) <=> Contains(p, e) \/ a = e
  <2> TAKE e
  <2>1. /\ Len(Append(p, a)) = Len(p) + 1 /\ Len(p) \in Nat
        /\ \A i \in 1..Len(p) : Append(p, a)[i] = p[i]
        /\ Append(p, a)[Len(p) + 1] = a
    BY AppendProperties DEF Text
  <2>2. \A i : i \in 1..(Len(p) + 1) <=> i \in 1..Len(p) \/ i = Len(p) + 1
    BY <2>1
  <2> QED  BY <2>1, <2>2 DEF Contains
<1> QED  BY <1>1 DEF Plain

LEMMA PlainConcat ==
  ASSUME NEW p \in Text, NEW t \in Text
  PROVE  Plain(p \o t) <=> Plain(p) /\ Plain(t)
<1>1. ASSUME NEW e  PROVE Contains(p \o t, e) <=> Contains(p, e) \/ Contains(t, e)
  <2>1. /\ Len(p) \in Nat /\ Len(t) \in Nat /\ Len(p \o t) = Len(p) + Len(t)
        /\ \A i \in 1..(Len(p) + Len(t)) :
             (p \o t)[i] = IF i <= Len(p) THEN p[i] ELSE t[i - Len(p)]
    BY DEF Text
  <2>2. Contains(p \o t, e) => Contains(p, e) \/ Contains(t, e)
    <3> SUFFICES ASSUME NEW i \in 1..(Len(p) + Len(t)), (p \o t)[i] = e
                 PROVE  Contains(p, e) \/ Contains(t, e)
      BY <2>1 DEF Contains
    <3>1. CASE i <= Len(p)
      BY <3>1, <2>1 DEF Contains
    <3>2. CASE ~ (i <= Len(p))
      <4>1. i - Len(p) \in 1..Len(t) /\ t[i - Len(p)] = e
        BY <3>2, <2>1
      <4> QED  BY <4>1 DEF Contains
    <3> QED  BY <3>1, <3>2
  <2>3. Contains(p, e) => Contains(p \o t, e)
    <3> SUFFICES ASSUME NEW i \in 1..Len(p), p[i] = e  PROVE Contains(p \o t, e)
      BY DEF Contains
    <3>1. i \in 1..Len(p \o t) /\ (p \o t)[i] = e
      BY <2>1
    <3> QED  BY <3>1 DEF Contains
  <2>4. Contains(t, e) => Contains(p \o t, e)
    <3> SUFFICES ASSUME NEW i \in 1..Len(t), t[i] = e  PROVE Contains(p \o t, e)
      BY DEF Contains
    <3>1. i + Len(p) \in 1..Len(p \o t) /\ (p \o t)[i + Len(p)] = e
      BY <2>1
    <3> QED  BY <3>1 DEF Contains
  <2> QED  BY <2>2, <2>3, <2>4
<1> QED  BY <1>1 DEF Plain

LEMMA ContainsTail ==
  ASSUME NEW t \in Text, t # <<>>, NEW e
  PROVE  Contains(t, e) <=> Head(t) = e \/ Contains(Tail(t), e)
<1>1. /\ Len(Tail(t)) = Len(t) - 1 /\ Len(t) \in Nat /\ Len(t) > 0 /\ Head(t) = t[1]
      /\ \A i \in 1..(Len(t) - 1) : Tail(t)[i] = t[i + 1]
  BY DEF Text
<1>2. Contains(t, e) => Head(t) = e \/ Contains(Tail(t), e)
  <2> SUFFICES ASSUME NEW i \in 1..Len(t), t[i] = e, i # 1  PROVE \E j \in 1..Len(Tail(t)) : Tail(t)[j] = e
    BY <1>1 DEF Contains
  <2>1. i - 1 \in 1..Len(Tail(t)) /\ Tail(t)[i - 1] = t[(i - 1) + 1]
    BY <1>1
  <2> QED  BY <2>1
<1>3. Head(t) = e => Contains(t, e)
  BY <1>1 DEF Contains
<1>4. Contains(Tail(t), e) => Contains(t, e)
  <2> SUFFICES ASSUME NEW i \in 1..Len(Tail(t)), Tail(t)[i] = e  PROVE \E j \in 1..Len(t) : t[j] = e
    BY DEF Contains
  <2>1. i + 1 \in 1..Len(t) /\ Tail(t)[i] = t[i + 1]
    BY <1>1
  <2> QED  BY <2>1
<1> QED  BY <1>2, <1>3, <1>4

-----------------------------------------------------------------------------
(* The record of a session.                                                *)

LEMMA ElementOfRow ==
  ASSUME NEW f \in Seq(Row), NEW i \in DOMAIN f
  PROVE  f[i] \in Row /\ f[i].path \in Text /\ i \in Nat /\ i > 0
<1>1. DOMAIN f = 1..Len(f) /\ Len(f) \in Nat
  OBVIOUS
<1>2. f[i] \in Row
  BY <1>1
<1> QED  BY <1>1, <1>2 DEF Row

LEMMA ReadyStays ==
  ASSUME NEW f \in Seq(Row), NEW g \in Seq(Row), Grown(f, g),
         NEW n \in Nat, NEW m \in Nat, n <= m, NEW r \in Record, Ready(f, n, r)
  PROVE  Ready(g, m, r)
<1>1. InTree(g, m, r)
  BY DEF Ready, InTree, Grown, IsDir, IsRoot, Record, Registering, Chosen
<1>2. ForDirs(g, r) /\ ForFiles(g, r)
  <2>1. r.cur # 0 => r.cur \in DOMAIN f /\ f[r.cur].path = g[r.cur].path
    BY DEF Ready, InTree, Grown, IsDir
  <2>2. r.at \in {"mkdir", "self", "below", "insert"} => r.cur # 0
    BY DEF Ready, InTree, Chosen
  <2> QED  BY <2>1, <2>2 DEF Ready, ForDirs, ForFiles, Below
<1> QED  BY <1>1, <1>2 DEF Ready

LEMMA FinishReady ==
  ASSUME NEW f \in Seq(Row), NEW n \in Nat, NEW r \in Record, Ready(f, n, r)
  PROVE  Finish(r) \in Record /\ Ready(f, n, Finish(r))
<1>1. Finish(r) \in Record
  BY DEF Finish, Idle, Record, Places, Text
<1>2. Ready(f, n, Finish(r))
  BY DEF Finish, Idle, Ready, InTree, ForDirs, ForFiles, Record, Registering, Chosen
<1> QED  BY <1>1, <1>2

LEMMA OnwardReady ==
  ASSUME NEW f \in Table, NEW n \in Nat, NEW r \in Record, Ready(f, n, r)
  PROVE  /\ Onward(r) \in Record /\ Ready(f, n, Onward(r))
         /\ Onward(r).at = "walk" => Onward(r).todo # <<>>
<1> DEFINE q == Onward(r)
<1>0. f \in Seq(Row)
  BY DEF Table
<1>1. CASE r.at # "walk" \/ r.todo # <<>>
  BY <1>1 DEF Onward
<1> SUFFICES ASSUME r.at = "walk", r.todo = <<>>
             PROVE  q \in Record /\ Ready(f, n, q) /\ q.at # "walk"
  BY <1>1
<1>2. CASE r.cur = 0 \/ r.cmd = "mkdir"
  <2>1. q = Finish(r) /\ q.at = "idle"
    BY <1>2 DEF Onward, Finish, Idle
  <2> QED  BY <2>1, <1>0, FinishReady
<1> SUFFICES ASSUME r.cur # 0, r.cmd # "mkdir"
             PROVE  q \in Record /\ Ready(f, n, q) /\ q.at # "walk"
  BY <1>2
<1>u. r.user # Nobody
  BY DEF Ready, InTree, Registering
<1>3. CASE r.cmd = "cd"
  <2>1. q = Idle(r.user, r.cur) /\ q.at = "idle"
    BY <1>3 DEF Onward, Idle
  <2>2. q \in Record
    BY <2>1 DEF Idle, Record, Places, Text
  <2>3. Ready(f, n, q)
    BY <2>1 DEF Idle, Ready, InTree, ForDirs, ForFiles, Record, Registering, Chosen
  <2> QED  BY <2>1, <2>2, <2>3
<1>4. ASSUME NEW l \in {"parent", "find", "insert", "place"}, q = [r EXCEPT !.at = l],
             l = "find" => r.cmd = "puts" /\ r.abs, l = "insert" <=> r.cmd = "create",
             l = "place" => r.cmd \in {"puts", "gets"},
             l = "parent" => r.cmd \in {"rmdir", "remove"}
      PROVE  q \in Record /\ Ready(f, n, q) /\ q.at # "walk"
  <2>1. q \in Record /\ q.at = l
    BY <1>4 DEF Record, Places, Chosen
  <2>2. /\ q.cur = r.cur /\ q.user = r.user /\ q.cwd = r.cwd /\ q.todo = r.todo
        /\ q.cmd = r.cmd /\ q.abs = r.abs /\ q.text = r.text /\ q.name = r.name
    BY <1>4 DEF Record
  <2>3. InTree(f, n, q)
    BY <2>1, <2>2, <1>4, <1>u DEF Ready, InTree, Registering
  <2>4. ForDirs(f, q)
    BY <2>1, <2>2, <1>4 DEF Ready, ForDirs
  <2>5. f[r.cur].path \in Text
    <3>1. r.cur \in DOMAIN f
      BY DEF Ready, InTree, IsDir
    <3> QED  BY <3>1, <1>0, ElementOfRow
  <2>6. ForFiles(f, q)
    <3>1. f[r.cur].path \o r.todo = f[r.cur].path
      BY <2>5, TextFacts
    <3> QED  BY <2>1, <2>2, <1>4, <3>1 DEF Ready, ForFiles, Below
  <2> QED  BY <2>1, <2>3, <2>4, <2>6 DEF Ready
<1>5. CASE r.cmd \in {"rmdir", "remove"}
  BY <1>5, <1>4 DEF Onward
<1>6. CASE r.cmd = "puts" /\ r.abs
  BY <1>6, <1>4 DEF Onward
<1>7. CASE r.cmd = "create"
  BY <1>7, <1>4 DEF Onward
<1>8. CASE r.cmd \notin {"cd", "rmdir", "remove", "create"} /\ ~ (r.cmd = "puts" /\ r.abs)
  <2>1. q = [r EXCEPT !.at = "place"]
    BY <1>8 DEF Onward
  <2>2. r.cmd \in {"puts", "gets"}
    BY <1>8 DEF Ready, InTree, Registering, Record
  <2> QED  BY <2>1, <2>2, <1>8, <1>4
<1> QED  BY <1>3, <1>5, <1>6, <1>7, <1>8
-----------------------------------------------------------------------------
(* Trees with a root each, and sessions that work in their own.            *)

Types == /\ accounts \in [User -> Nat]
         /\ uses \in World /\ failures \in 0..MaxFailures[uses]

SessionsOK ==
  /\ sess \in [Session -> Record]
  /\ \A s \in Session : Ready(rows, failures, sess[s]) /\ (At(s, "walk") => sess[s].todo # <<>>)

Trees == Types /\ rows \in Table /\ SessionsOK

Queried == \E ok \in Chance : Query(ok)

LEMMA Asked ==
  ASSUME Trees, NEW ok \in Chance, Query(ok), uses' = uses
  PROVE  /\ ok \in BOOLEAN /\ failures \in Nat /\ failures' \in Nat /\ failures <= failures'
         /\ failures' \in 0..MaxFailures[uses]
         /\ (ok => failures' = failures) /\ (~ ok => failures' > 0)
<1>1. MaxFailures[uses] \in Nat
  BY BoundsAssumption DEF Trees, Types
<1>2. failures \in 0..MaxFailures[uses]
  BY DEF Trees, Types
<1>3. CASE failures < MaxFailures[uses]
  BY <1>1, <1>2, <1>3 DEF Chance, Query
<1>4. CASE ~ (failures < MaxFailures[uses])
  BY <1>1, <1>2, <1>4 DEF Chance, Query
<1> QED  BY <1>3, <1>4

LEMMA Step ==
  ASSUME Trees, NEW s \in Session, NEW q \in Record, Become(s, q),
         rows' \in Table, Grown(rows, rows'),
         failures' \in Nat, failures <= failures', Ready(rows', failures', q)
  PROVE  SessionsOK'
<1>1. Onward(q) \in Record /\ Ready(rows', failures', Onward(q))
      /\ (Onward(q).at = "walk" => Onward(q).todo # <<>>)
  BY OnwardReady
<1>2. failures \in Nat /\ rows \in Seq(Row) /\ rows' \in Seq(Row)
  BY BoundsAssumption DEF Trees, Types, Table
<1>3. sess' \in [Session -> Record]
  BY <1>1 DEF Trees, SessionsOK, Become
<1>4. ASSUME NEW t \in Session
      PROVE  Ready(rows', failures', sess'[t]) /\ (sess'[t].at = "walk" => sess'[t].todo # <<>>)
  <2>1. CASE t = s
    BY <2>1, <1>1 DEF Trees, SessionsOK, Become
  <2>2. CASE t # s
    <3>1. sess'[t] = sess[t] /\ sess[t] \in Record /\ Ready(rows, failures, sess[t])
          /\ (sess[t].at = "walk" => sess[t].todo # <<>>)
      BY <2>2 DEF Trees, SessionsOK, Become, At
    <3> QED  BY <3>1, <1>2, ReadyStays
  <2> QED  BY <2>1, <2>2
<1> QED  BY <1>3, <1>4 DEF SessionsOK, At

\* A step that changes no row.
LEMMA Reads ==
  ASSUME Trees, NEW s \in Session, NEW q \in Record, Become(s, q), UNCHANGED rows,
         accounts' \in [User -> Nat], UNCHANGED uses, failures' = failures \/ Queried,
         Ready(rows, failures, q) \/ Ready(rows, failures', q)
  PROVE  Trees'
<1>1. MaxFailures[uses] \in Nat /\ failures \in 0..MaxFailures[uses] /\ rows \in Seq(Row)
  BY BoundsAssumption DEF Trees, Types, Table
<1>2. failures' \in Nat /\ failures <= failures' /\ failures' \in 0..MaxFailures[uses']
  BY <1>1, Asked DEF Queried
<1>3. Grown(rows, rows') /\ rows' \in Table
  BY DEF Grown, Trees
<1>4. Ready(rows', failures', q)
  BY <1>1, <1>2, <1>3, ReadyStays
<1>5. SessionsOK'
  BY <1>2, <1>3, <1>4, Step
<1> QED  BY <1>2, <1>3, <1>5 DEF Trees, Types

LEMMA OneSession ==
  ASSUME Trees, NEW s \in Session
  PROVE  /\ sess[s] \in Record /\ Ready(rows, failures, sess[s])
         /\ (At(s, "walk") => sess[s].todo # <<>>)
         /\ failures \in Nat /\ rows \in Table /\ rows \in Seq(Row)
         /\ accounts \in [User -> Nat]
         /\ Finish(sess[s]) \in Record /\ Ready(rows, failures, Finish(sess[s]))
<1>1. /\ sess[s] \in Record /\ Ready(rows, failures, sess[s])
      /\ (At(s, "walk") => sess[s].todo # <<>>)
      /\ failures \in Nat /\ rows \in Table /\ rows \in Seq(Row)
      /\ accounts \in [User -> Nat]
  BY BoundsAssumption DEF Trees, Types, SessionsOK, Table
<1> QED  BY <1>1, FinishReady

\* A command that gives up.
LEMMA Stops ==
  ASSUME Trees, NEW s \in Session, Stop(s), UNCHANGED rows,
         accounts' \in [User -> Nat], UNCHANGED uses, failures' = failures \/ Queried
  PROVE  Trees'
  BY OneSession, Reads DEF Stop

LEMMA RegisterTrees ==
  ASSUME Trees, NEW s \in Session, NEW u \in User, Register(s, u) \/ Login(s, u)
  PROVE  Trees'
<1> DEFINE r == sess[s]
<1>1. PICK l \in {"account", "enter"} : Become(s, [r EXCEPT !.at = l, !.name = u])
  BY DEF Register, Login
<1> DEFINE q == [r EXCEPT !.at = l, !.name = u]
<1>2. r \in Record /\ Ready(rows, failures, r) /\ r.at = "idle" /\ r.user = Nobody
  BY OneSession DEF Register, Login, Free, At
<1>3. q \in Record /\ q.at = l /\ q.name = u
      /\ q.cur = r.cur /\ q.user = r.user /\ q.cwd = r.cwd /\ q.todo = r.todo
      /\ q.cmd = r.cmd /\ q.abs = r.abs /\ q.text = r.text
  BY <1>2 DEF Record, Places, Registering
<1>4. InTree(rows, failures, q) /\ ForDirs(rows, q)
  BY <1>2, <1>3 DEF Ready, InTree, ForDirs, Registering, Chosen
<1>5. r.cmd = "none"
  BY <1>2 DEF Ready, InTree
<1>6. ForFiles(rows, q)
  BY <1>2, <1>3, <1>5 DEF Ready, ForFiles
<1> QED  BY <1>1, <1>3, <1>4, <1>6, Reads, OneSession DEF Register, Login, Queried, Ready

LEMMA InsertAccountTrees ==
  ASSUME Trees, NEW s \in Session, InsertAccount(s)
  PROVE  Trees'
<1> DEFINE r == sess[s]
           q == [r EXCEPT !.at = "root"]
<1>1. r \in Record /\ Ready(rows, failures, r) /\ r.at = "account" /\ accounts \in [User -> Nat]
  BY OneSession DEF InsertAccount, At
<1>2. q \in Record /\ q.at = "root" /\ q.name = r.name
      /\ q.cur = r.cur /\ q.user = r.user /\ q.cwd = r.cwd /\ q.todo = r.todo
      /\ q.cmd = r.cmd /\ q.abs = r.abs /\ q.text = r.text
  BY <1>1 DEF Record, Places, Registering
<1>3. Ready(rows, failures, q)
  BY <1>1, <1>2 DEF Ready, InTree, ForDirs, ForFiles, Registering, Chosen
<1>4. r.name \in User
  BY <1>1 DEF Ready, InTree, Registering
<1>5. CASE accounts' = [accounts EXCEPT ![r.name] = @ + 1] /\ Become(s, q)
  BY <1>1, <1>2, <1>3, <1>4, <1>5, Reads DEF InsertAccount, Queried
<1>6. CASE Stop(s) /\ UNCHANGED accounts
  BY <1>1, <1>6, Stops DEF InsertAccount, Queried
<1> QED  BY <1>5, <1>6 DEF InsertAccount

\* A step that adds a row.
LEMMA AppendRow ==
  ASSUME NEW f \in Table, NEW x \in Row, x.type = "dir" => Plain(x.path),
         \/ x.pdir = -1 /\ x.alive /\ x.type = "dir" /\ x.path = <<>>
         \/ /\ IsDir(f, x.pdir, x.user)
            /\ Plain(x.path) => Below(f, x.pdir, x.path, x.name)
  PROVE  /\ Append(f, x) \in Table /\ Grown(f, Append(f, x))
         /\ Append(f, x)[Len(f) + 1] = x /\ DOMAIN Append(f, x) = DOMAIN f \cup {Len(f) + 1}
         /\ Len(f) + 1 \in Nat /\ Len(f) + 1 # 0
         /\ \A i \in DOMAIN f : Append(f, x)[i] = f[i]
<1> DEFINE g == Append(f, x)
<1>1. /\ f \in Seq(Row) /\ DOMAIN f = 1..Len(f) /\ Len(f) \in Nat
      /\ g \in Seq(Row) /\ Len(g) = Len(f) + 1 /\ DOMAIN g = 1..(Len(f) + 1)
      /\ g[Len(f) + 1] = x /\ \A i \in 1..Len(f) : g[i] = f[i]
  BY AppendProperties DEF Table
<1>2. DOMAIN g = DOMAIN f \cup {Len(f) + 1}
  BY <1>1
<1>3. Grown(f, g)
  BY <1>1, <1>2 DEF Grown
<1>4. ASSUME NEW i \in DOMAIN f  PROVE RowOK(g, i)
  <2>1. RowOK(f, i) /\ g[i] = f[i] /\ i \in DOMAIN f
    BY <1>1 DEF Table
  <2>2. ~ IsRoot(f, i) => f[i].pdir \in DOMAIN f /\ g[f[i].pdir] = f[f[i].pdir]
    BY <1>1, <2>1 DEF RowOK, IsDir
  <2> QED  BY <2>1, <2>2, <1>2 DEF RowOK, IsRoot, IsDir, Below
<1>5. RowOK(g, Len(f) + 1)
  <2>1. CASE x.pdir = -1 /\ x.alive /\ x.type = "dir" /\ x.path = <<>>
    BY <2>1, <1>1 DEF RowOK, IsRoot
  <2>2. CASE IsDir(f, x.pdir, x.user) /\ (Plain(x.path) => Below(f, x.pdir, x.path, x.name))
    <3>1. x.pdir \in 1..Len(f) /\ g[x.pdir] = f[x.pdir] /\ x.pdir # -1
          /\ x.pdir \in 1..((Len(f) + 1) - 1) /\ x.pdir \in DOMAIN g
      BY <2>2, <1>1 DEF IsDir
    <3> QED  BY <2>2, <3>1, <1>1 DEF RowOK, IsRoot, IsDir, Below
  <2> QED  BY <2>1, <2>2
<1> QED  BY <1>1, <1>2, <1>3, <1>4, <1>5 DEF Table

LEMMA RowAdded ==
  ASSUME NEW m \in Name, NEW u \in User, NEW d \in Int, NEW p \in Text,
         NEW t \in {"dir", "reg"}
  PROVE  LET x == NewRow(m, u, d, p, t)
         IN x \in Row /\ x.name = m /\ x.user = u /\ x.pdir = d /\ x.path = p /\ x.type = t
            /\ x.alive
<1>1. PICK b \in BOOLEAN : b = TRUE
  OBVIOUS
<1> DEFINE x == [name |-> m, user |-> u, pdir |-> d, path |-> p, type |-> t, alive |-> b]
<1>2. NewRow(m, u, d, p, t) = x
  BY <1>1 DEF NewRow
<1>3. x \in Row /\ x.name = m /\ x.user = u /\ x.pdir = d /\ x.path = p /\ x.type = t /\ x.alive = b
  BY DEF Row
<1> QED  BY <1>1, <1>2, <1>3

LEMMA InsertRootTrees ==
  ASSUME Trees, NEW s \in Session, InsertRoot(s)
  PROVE  Trees'
<1> DEFINE r == sess[s]
           q == [r EXCEPT !.at = "home"]
           x == NewRow("/", r.name, -1, <<>>, "dir")
<1>1. /\ r \in Record /\ Ready(rows, failures, r) /\ r.at = "root" /\ accounts \in [User -> Nat]
      /\ rows \in Table /\ rows \in Seq(Row) /\ failures \in Nat
  BY OneSession DEF InsertRoot, At
<1>2. CASE Stop(s) /\ UNCHANGED rows
  BY <1>1, <1>2, Stops DEF InsertRoot, Queried
<1>3. CASE rows' = Append(rows, x) /\ Become(s, q)
  <2>1. q \in Record /\ q.at = "home" /\ q.name = r.name
        /\ q.cur = r.cur /\ q.user = r.user /\ q.cwd = r.cwd /\ q.todo = r.todo
        /\ q.cmd = r.cmd /\ q.abs = r.abs /\ q.text = r.text
    BY <1>1 DEF Record, Places, Registering
  <2>2. r.name \in User
    BY <1>1 DEF Ready, InTree, Registering
  <2>3. x \in Row /\ x.pdir = -1 /\ x.alive /\ x.type = "dir" /\ x.path = <<>> /\ x.user = r.name
    <3>1. PICK m \in Name : m = "/"
      BY DEF Name
    <3>2. PICK p \in Text : p = <<>>
      <4>1. <<>> \in Text
        BY DEF Text
      <4> QED  BY <4>1
    <3>3. PICK u \in User : u = r.name
      BY <2>2
    <3>4. PICK t \in {"dir", "reg"} : t = "dir"
      OBVIOUS
    <3>5. x = NewRow(m, u, -1, p, t)
      BY <3>1, <3>2, <3>3, <3>4
    <3>6. -1 \in Int
      OBVIOUS
    <3>7. PICK y : y = NewRow(m, u, -1, p, t)
      OBVIOUS
    <3>8. y \in Row /\ y.pdir = -1 /\ y.alive /\ y.type = t /\ y.path = p /\ y.user = u
      BY <3>6, <3>7, RowAdded
    <3>9. y = x
      BY <3>5, <3>7
    <3> HIDE DEF x, r, q
    <3> QED  BY <3>2, <3>3, <3>4, <3>8, <3>9
  <2>4. Plain(<<>>)
    BY DEF Plain, Contains
  <2>5. /\ rows' \in Table /\ Grown(rows, rows')
        /\ rows'[Len(rows) + 1] = x /\ Len(rows) + 1 \in DOMAIN rows'
    BY <1>1, <1>3, <2>3, <2>4, AppendRow
  <2>6. PICK ok \in Chance : Query(ok)
    BY DEF InsertRoot
  <2>7. UNCHANGED <<accounts, uses>> /\ failures' \in Nat /\ failures <= failures'
        /\ failures' \in 0..MaxFailures[uses]
    BY <2>6, Asked DEF InsertRoot
  <2>8. rows' \in Seq(Row) /\ Ready(rows', failures', r)
    BY <1>1, <2>5, <2>7, ReadyStays DEF Table
  <2>9. \E i \in DOMAIN rows' : IsRoot(rows', i) /\ rows'[i].user = q.name
    BY <2>1, <2>3, <2>5 DEF IsRoot
  <2>10. Ready(rows', failures', q)
    BY <2>1, <2>8, <2>9, <1>1 DEF Ready, InTree, ForDirs, ForFiles, Registering, Chosen
  <2>11. SessionsOK'
    BY <1>3, <2>1, <2>5, <2>7, <2>10, Step
  <2> QED  BY <2>5, <2>7, <2>11 DEF Trees, Types
<1> QED  BY <1>2, <1>3 DEF InsertRoot

LEMMA IdleFacts ==
  ASSUME NEW u \in User \cup {Nobody}, NEW d \in Nat
  PROVE  Idle(u, d) \in Record
  BY DEF Idle, Record, Places, Text

LEMMA IdleReady ==
  ASSUME NEW f \in Seq(Row), NEW n \in Nat, NEW u \in User \cup {Nobody}, NEW d \in Nat,
         d = 0 \/ IsDir(f, d, u), u # Nobody /\ d = 0 => n > 0
  PROVE  Ready(f, n, Idle(u, d))
  BY DEF Idle, Ready, InTree, ForDirs, ForFiles, Registering, Chosen

\* What a query for the root directory finds.
LEMMA RootFound ==
  ASSUME Trees, NEW u, NEW d \in OneOf(RootsOf(u))
  PROVE  /\ d \in Nat
         /\ d # 0 => IsDir(rows, d, u) /\ rows[d].path = <<>>
         /\ d = 0 => ~ \E i \in DOMAIN rows : IsRoot(rows, i) /\ rows[i].user = u
<1>1. rows \in Table /\ rows \in Seq(Row)
  BY DEF Trees, Table
<1>2. \A i \in RootsOf(u) : i \in DOMAIN rows /\ IsDir(rows, i, u) /\ rows[i].path = <<>>
  BY DEF RootsOf, Alive, IsDir
<1>3. \A i \in DOMAIN rows : IsRoot(rows, i) /\ rows[i].user = u => i \in RootsOf(u)
  BY <1>1 DEF Table, RowOK, RootsOf, Alive
<1>4. \A i \in DOMAIN rows : i \in Nat /\ i # 0
  BY <1>1, ElementOfRow
<1> QED  BY <1>2, <1>3, <1>4 DEF OneOf

LEMMA HomeTrees ==
  ASSUME Trees, NEW s \in Session, Home(s)
  PROVE  Trees'
<1> DEFINE r == sess[s]
<1>1. /\ r \in Record /\ Ready(rows, failures, r) /\ r.at = "home" /\ accounts \in [User -> Nat]
      /\ rows \in Table /\ rows \in Seq(Row) /\ failures \in Nat
  BY OneSession DEF Home, At
<1>2. PICK ok \in Chance, d \in OneOf(RootsOf(r.name)) :
        Query(ok) /\ Become(s, Idle(r.name, IF ok THEN d ELSE 0))
  BY DEF Home
<1> DEFINE e == IF ok THEN d ELSE 0
<1>3. /\ ok \in BOOLEAN /\ failures' \in Nat /\ failures <= failures' /\ (~ ok => failures' > 0)
      /\ UNCHANGED <<accounts, rows, uses>>
  BY <1>2, Asked DEF Home
<1>4. r.name \in User /\ \E i \in DOMAIN rows : IsRoot(rows, i) /\ rows[i].user = r.name
  BY <1>1 DEF Ready, InTree, Registering
<1>5. d # 0 /\ d \in Nat /\ IsDir(rows, d, r.name)
  BY <1>2, <1>4, RootFound
<1>6. e \in Nat /\ (e = 0 \/ IsDir(rows, e, r.name)) /\ (e = 0 => failures' > 0)
  BY <1>3, <1>5
<1>7. Idle(r.name, e) \in Record /\ Ready(rows, failures', Idle(r.name, e))
  BY <1>1, <1>3, <1>4, <1>6, IdleFacts, IdleReady
<1> HIDE DEF e
<1> QED  BY <1>1, <1>2, <1>3, <1>7, Reads DEF Queried, e

LEMMA EnterTrees ==
  ASSUME Trees, NEW s \in Session, Enter(s)
  PROVE  Trees'
<1> DEFINE r == sess[s]
<1>1. /\ r \in Record /\ Ready(rows, failures, r) /\ r.at = "enter" /\ accounts \in [User -> Nat]
      /\ rows \in Table /\ rows \in Seq(Row) /\ failures \in Nat
  BY OneSession DEF Enter, At
<1>2. PICK ok \in Chance, d \in OneOf(RootsOf(r.name)) :
        Query(ok) /\ IF ok /\ d # 0 THEN Become(s, Idle(r.name, d)) ELSE Stop(s)
  BY DEF Enter
<1>3. UNCHANGED <<accounts, rows, uses>> /\ Queried
  BY <1>2 DEF Enter, Queried
<1>4. CASE Stop(s)
  BY <1>1, <1>3, <1>4, Stops
<1>5. CASE d # 0 /\ Become(s, Idle(r.name, d))
  <2>1. d \in Nat /\ IsDir(rows, d, r.name) /\ r.name \in User
    BY <1>1, <1>5, RootFound DEF Ready, InTree, Registering
  <2>2. Idle(r.name, d) \in Record /\ Ready(rows, failures, Idle(r.name, d))
    BY <1>1, <1>5, <2>1, IdleFacts, IdleReady
  <2> QED  BY <1>1, <1>3, <1>5, <2>2, Reads
<1> QED  BY <1>2, <1>4, <1>5

LEMMA DisconnectTrees ==
  ASSUME Trees, NEW s \in Session, Disconnect(s)
  PROVE  Trees'
<1>1. Idle(Nobody, 0) \in Record /\ Ready(rows, failures, Idle(Nobody, 0))
  BY OneSession, IdleFacts, IdleReady
<1> QED  BY <1>1, OneSession, Reads DEF Disconnect

-----------------------------------------------------------------------------
(* Paths are resolved.                                                     *)

LEMMA CommandTrees ==
  ASSUME Trees, NEW s \in Session, NEW t \in Typed, Command(s, t.cmd, t.path)
  PROVE  Trees'
<1> DEFINE r == sess[s]  c == t.cmd  p == t.path
<1>1. /\ r \in Record /\ Ready(rows, failures, r) /\ r.at = "idle" /\ r.user # Nobody
      /\ accounts \in [User -> Nat]
  BY OneSession DEF Command, At
<1>2. /\ c \in {"cd", "mkdir", "rmdir", "remove", "puts", "gets"}
      /\ p.abs \in BOOLEAN /\ p.steps \in Text
      /\ c = "mkdir" => ~ Contains(p.steps, "..")
      /\ c \in Files \cup {"mkdir"} => p.steps # <<>>
  BY TypedAssumption DEF Command, Accepts, Text
<1> DEFINE at == IF p.abs THEN "top" ELSE "walk"
           todo == DirsOf(c, p)
           cur == Base(s, c, p)
           text == IF c = "puts" /\ p.abs THEN p.steps ELSE <<>>
           name == IF c \in Files THEN Last(p.steps) ELSE Nobody
           q == [r EXCEPT !.at = at, !.cmd = c, !.abs = p.abs, !.todo = todo, !.cur = cur,
                          !.text = text, !.name = name]
<1>3. todo \in Text /\ (c = "mkdir" => todo = p.steps)
  BY <1>2, TextParts DEF DirsOf, Files
<1>4. cur \in Nat /\ (cur = 0 \/ cur = r.cwd)
  BY <1>1 DEF Base, Record
<1>5. text \in Text /\ (c = "puts" /\ p.abs => text = p.steps)
  <2>1. <<>> \in Text
    BY DEF Text
  <2> QED  BY <1>2, <2>1, Zenon
<1>6. name \in STRING \cup {Nobody} /\ (c \in Files => name = Last(p.steps) /\ name \in STRING)
  BY <1>2, TextParts
<1>7. at \in {"top", "walk"}
  OBVIOUS
<1>8. UNCHANGED <<accounts, rows, uses, failures>> /\ Become(s, q)
  BY DEF Command
<1> HIDE DEF at, todo, cur, text, name
<1>a. at \in Places
  BY <1>7 DEF Places
<1>b. c \in {"none", "cd", "mkdir", "rmdir", "remove", "puts", "gets", "create"}
  BY <1>2
<1>c. name \in STRING \cup User \cup {Nobody}
  BY <1>6
<1>9. /\ q \in Record
      /\ q.at = at /\ q.cmd = c /\ q.abs = p.abs /\ q.todo = todo /\ q.cur = cur
      /\ q.text = text /\ q.name = name /\ q.user = r.user /\ q.cwd = r.cwd
  BY <1>1, <1>2, <1>3, <1>4, <1>5, <1>a, <1>b, <1>c DEF Record
<1>10. InTree(rows, failures, q)
  BY <1>1, <1>2, <1>4, <1>7, <1>9 DEF Ready, InTree, Registering, Chosen
<1>11. ForDirs(rows, q)
  BY <1>2, <1>3, <1>7, <1>9 DEF ForDirs
<1>12. ForFiles(rows, q)
  BY <1>2, <1>5, <1>6, <1>7, <1>9 DEF ForFiles, Files
<1> HIDE DEF q
<1> QED  BY <1>1, <1>8, <1>9, <1>10, <1>11, <1>12, Reads DEF Ready

LEMMA TopTrees ==
  ASSUME Trees, NEW s \in Session, Top(s)
  PROVE  Trees'
<1> DEFINE r == sess[s]
<1>1. /\ r \in Record /\ Ready(rows, failures, r) /\ r.at = "top" /\ accounts \in [User -> Nat]
      /\ rows \in Table /\ rows \in Seq(Row)
  BY OneSession DEF Top, At
<1>2. PICK ok \in Chance, d \in OneOf(RootsOf(r.user)) :
        Query(ok) /\ IF ok /\ d # 0 THEN Become(s, [r EXCEPT !.at = "walk", !.cur = d]) ELSE Stop(s)
  BY DEF Top
<1>3. UNCHANGED <<accounts, rows, uses>> /\ Queried
  BY <1>2 DEF Top, Queried
<1>4. CASE Stop(s)
  BY <1>1, <1>3, <1>4, Stops
<1> DEFINE q == [r EXCEPT !.at = "walk", !.cur = d]
<1>5. CASE d # 0 /\ Become(s, q)
  <2>1. d \in Nat /\ IsDir(rows, d, r.user) /\ rows[d].path = <<>>
    BY <1>5, RootFound
  <2>2. q \in Record /\ q.at = "walk" /\ q.cur = d /\ q.name = r.name
        /\ q.user = r.user /\ q.cwd = r.cwd /\ q.todo = r.todo
        /\ q.cmd = r.cmd /\ q.abs = r.abs /\ q.text = r.text
    BY <1>1, <2>1 DEF Record, Places
  <2>3. InTree(rows, failures, q) /\ ForDirs(rows, q)
    BY <1>1, <2>1, <2>2 DEF Ready, InTree, ForDirs, Registering, Chosen
  <2>4. r.cmd # "create" => ForFiles(rows, q)
    BY <1>1, <2>2 DEF Ready, ForFiles
  <2>5. ASSUME r.cmd = "create"  PROVE ForFiles(rows, q)
    <3>1. r.text # <<>> /\ r.name = Last(r.text) /\ r.todo = Front(r.text) /\ r.text \in Text
          /\ r.name \in STRING
      BY <1>1, <2>5 DEF Ready, ForFiles, Record
    <3>2. <<>> \o r.todo = r.todo /\ r.text = Append(r.todo, r.name)
      BY <3>1, TextParts, ConcatEmptySeq DEF Text
    <3>3. q.text = Append(rows[q.cur].path \o q.todo, q.name) /\ q.cur # 0 /\ q.at = "walk"
          /\ q.cmd = "create" /\ q.name \in STRING
      BY <2>1, <2>2, <2>5, <3>1, <3>2, <1>5
    <3> HIDE DEF q
    <3> QED  BY <3>3 DEF ForFiles
  <2>6. Ready(rows, failures, q)
    BY <2>3, <2>4, <2>5 DEF Ready
  <2> QED  BY <1>1, <1>3, <1>5, <2>2, <2>6, Reads
<1> QED  BY <1>2, <1>4, <1>5

\* The rest of a plain path is plain.
LEMMA PlainRest ==
  ASSUME Trees, NEW s \in Session, At(s, "walk"), sess[s].cmd = "create", Plain(sess[s].text)
  PROVE  Head(sess[s].todo) \notin Skipped /\ Head(sess[s].todo) # ".."
<1> DEFINE r == sess[s]
<1>1. /\ r \in Record /\ Ready(rows, failures, r) /\ r.todo # <<>> /\ rows \in Table
      /\ rows \in Seq(Row)
  BY OneSession
<1>2. /\ r.cur # 0 /\ r.text = Append(rows[r.cur].path \o r.todo, r.name)
      /\ r.cur \in DOMAIN rows /\ r.name \in STRING /\ r.todo \in Text
  BY <1>1 DEF Ready, ForFiles, InTree, IsDir, At, Record
<1>3. rows[r.cur].path \in Text /\ rows[r.cur].path \o r.todo \in Text
  BY <1>1, <1>2, ElementOfRow, TextFacts
<1>4. Plain(rows[r.cur].path \o r.todo)
  BY <1>2, <1>3, PlainAppend
<1>5. Plain(r.todo)
  BY <1>2, <1>3, <1>4, PlainConcat
<1> QED  BY <1>1, <1>2, <1>5, ContainsTail DEF Plain, Skipped

\* The session goes to the directory d, or stays, and is done with a component.
LEMMA Walks ==
  ASSUME Trees, NEW s \in Session, At(s, "walk"), NEW d \in Nat,
         d = 0 \/ IsDir(rows, d, sess[s].user),
         sess[s].cmd = "create" /\ Plain(sess[s].text) =>
           d # 0 /\ Below(rows, sess[s].cur, rows[d].path, Head(sess[s].todo))
  PROVE  LET q == [sess[s] EXCEPT !.cur = d, !.todo = Tail(@)]
         IN q \in Record /\ Ready(rows, failures, q)
<1> DEFINE r == sess[s]
           q == [r EXCEPT !.cur = d, !.todo = Tail(@)]
<1>1. /\ r \in Record /\ Ready(rows, failures, r) /\ r.at = "walk" /\ r.todo # <<>>
      /\ rows \in Table /\ rows \in Seq(Row) /\ r.todo \in Text
  BY OneSession DEF At, Record
<1>2. Tail(r.todo) \in Text
  BY <1>1, TextParts
<1>3. q \in Record /\ q.at = "walk" /\ q.cur = d /\ q.name = r.name
      /\ q.user = r.user /\ q.cwd = r.cwd /\ q.todo = Tail(r.todo)
      /\ q.cmd = r.cmd /\ q.abs = r.abs /\ q.text = r.text
  BY <1>1, <1>2 DEF Record
<1>4. InTree(rows, failures, q)
  BY <1>1, <1>3 DEF Ready, InTree, Registering, Chosen
<1>5. ForDirs(rows, q)
  BY <1>1, <1>3, ContainsTail DEF Ready, ForDirs
<1>6. ForFiles(rows, q)
  <2>1. CASE ~ (r.cmd = "create" /\ Plain(r.text))
    BY <1>1, <1>3, <2>1 DEF Ready, ForFiles
  <2>2. CASE r.cmd = "create" /\ Plain(r.text)
    <3>1. r.cur # 0 /\ r.text = Append(rows[r.cur].path \o r.todo, r.name)
          /\ r.cur \in DOMAIN rows
      BY <1>1, <2>2 DEF Ready, ForFiles, InTree, IsDir
    <3>2. rows[r.cur].path \in Text
      BY <1>1, <3>1, ElementOfRow
    <3>3. rows[r.cur].path \o r.todo = rows[d].path \o Tail(r.todo)
      BY <1>1, <2>2, <3>2, Shift DEF Below
    <3> QED  BY <1>1, <1>3, <2>2, <3>1, <3>3 DEF Ready, ForFiles
  <2> QED  BY <2>1, <2>2
<1> QED  BY <1>3, <1>4, <1>5, <1>6 DEF Ready

LEMMA StayTrees ==
  ASSUME Trees, NEW s \in Session, Stay(s)
  PROVE  Trees'
<1> DEFINE r == sess[s]
           q == [r EXCEPT !.cur = r.cur, !.todo = Tail(@)]
<1>1. r \in Record /\ Ready(rows, failures, r) /\ accounts \in [User -> Nat] /\ At(s, "walk")
  BY OneSession DEF Stay
<1>2. r.cur \in Nat /\ (r.cur = 0 \/ IsDir(rows, r.cur, r.user))
  BY <1>1 DEF Ready, InTree, Record
<1>3. ~ (r.cmd = "create" /\ Plain(r.text))
  BY <1>1, PlainRest DEF Stay
<1>4. q \in Record /\ Ready(rows, failures, q)
  BY <1>1, <1>2, <1>3, Walks
<1>5. q = [r EXCEPT !.todo = Tail(@)]
  BY <1>1 DEF Record
<1> QED  BY <1>1, <1>4, <1>5, Reads DEF Stay

LEMMA UpTrees ==
  ASSUME Trees, NEW s \in Session, Up(s)
  PROVE  Trees'
<1> DEFINE r == sess[s]
<1>1. /\ r \in Record /\ Ready(rows, failures, r) /\ accounts \in [User -> Nat] /\ At(s, "walk")
      /\ rows \in Table /\ rows \in Seq(Row)
  BY OneSession DEF Up
<1>2. PICK ok \in Chance :
        LET parent == IF ok THEN ParentOf(r.cur) ELSE -1
        IN /\ Query(ok)
           /\ Become(s, [r EXCEPT !.cur = IF parent = -1 THEN @ ELSE parent, !.todo = Tail(@)])
  BY DEF Up
<1> DEFINE parent == IF ok THEN ParentOf(r.cur) ELSE -1
           d == IF parent = -1 THEN r.cur ELSE parent
           q == [r EXCEPT !.cur = d, !.todo = Tail(@)]
<1>3. r.cur \in Nat /\ (r.cur = 0 \/ IsDir(rows, r.cur, r.user))
  BY <1>1 DEF Ready, InTree, Record
<1>4. d \in Nat /\ (d = 0 \/ IsDir(rows, d, r.user))
  <2>1. CASE parent = -1
    BY <2>1, <1>3
  <2>2. CASE parent # -1
    <3>1. r.cur \in Alive /\ parent = rows[r.cur].pdir /\ ~ IsRoot(rows, r.cur)
      BY <2>2 DEF ParentOf, IsRoot
    <3>2. r.cur \in DOMAIN rows /\ RowOK(rows, r.cur) /\ r.cur # 0
      BY <3>1, <1>1, ElementOfRow DEF Alive, Table
    <3>3. IsDir(rows, parent, rows[r.cur].user) /\ rows[r.cur].user = r.user /\ parent \in Nat
      BY <1>3, <3>1, <3>2 DEF RowOK, IsDir
    <3> QED  BY <2>2, <3>3
  <2> QED  BY <2>1, <2>2
<1>5. ~ (r.cmd = "create" /\ Plain(r.text))
  BY <1>1, PlainRest DEF Up
<1>6. Become(s, q)
  BY <1>2
<1> HIDE DEF d
<1>7. q \in Record /\ Ready(rows, failures, q)
  BY <1>1, <1>4, <1>5, Walks
<1> QED  BY <1>1, <1>2, <1>6, <1>7, Reads DEF Up, Queried

\* What a query for a directory of a name finds.
LEMMA SubdirFound ==
  ASSUME Trees, NEW u, NEW c \in Nat, NEW m, NEW d \in OneOf(SubdirsOf(u, c, m)), d # 0
  PROVE  /\ d \in Nat /\ IsDir(rows, d, u) /\ d \in Alive /\ ~ IsRoot(rows, d)
         /\ Below(rows, c, rows[d].path, m)
<1>1. rows \in Table /\ rows \in Seq(Row)
  BY DEF Trees, Table
<1>2. d \in Alive /\ rows[d].user = u /\ rows[d].pdir = c /\ rows[d].name = m
      /\ rows[d].type = "dir" /\ d \in DOMAIN rows
  BY DEF OneOf, SubdirsOf, Alive
<1>3. ~ IsRoot(rows, d)
  BY <1>2 DEF IsRoot
<1>4. Below(rows, c, rows[d].path, m)
  BY <1>1, <1>2, <1>3 DEF Table, RowOK, Below
<1> QED  BY <1>1, <1>2, <1>3, <1>4, ElementOfRow DEF IsDir

LEMMA DownTrees ==
  ASSUME Trees, NEW s \in Session, Down(s)
  PROVE  Trees'
<1> DEFINE r == sess[s]
<1>1. /\ r \in Record /\ accounts \in [User -> Nat] /\ At(s, "walk") /\ r.cur \in Nat
  BY OneSession DEF Down, Record
<1>2. PICK ok \in Chance, d \in Subdir(s) :
        /\ Query(ok)
        /\ IF ok /\ d # 0 THEN Become(s, [r EXCEPT !.cur = d, !.todo = Tail(@)]) ELSE Stop(s)
  BY DEF Down
<1>3. UNCHANGED <<accounts, rows, uses>> /\ Queried
  BY <1>2 DEF Down, Queried
<1>4. CASE Stop(s)
  BY <1>1, <1>3, <1>4, Stops
<1> DEFINE q == [r EXCEPT !.cur = d, !.todo = Tail(@)]
<1>5. CASE d # 0 /\ Become(s, q)
  <2>1. d \in Nat /\ IsDir(rows, d, r.user) /\ Below(rows, r.cur, rows[d].path, Head(r.todo))
    BY <1>1, <1>5, SubdirFound DEF Subdir
  <2>2. q \in Record /\ Ready(rows, failures, q)
    BY <1>1, <1>5, <2>1, Walks
  <2> QED  BY <1>1, <1>3, <1>5, <2>2, Reads
<1> QED  BY <1>2, <1>4, <1>5

LEMMA MakeTrees ==
  ASSUME Trees, NEW s \in Session, Make(s)
  PROVE  Trees'
<1> DEFINE r == sess[s]
           m == [r EXCEPT !.at = "mkpath"]
<1>1. /\ r \in Record /\ accounts \in [User -> Nat] /\ At(s, "walk") /\ r.cur \in Nat
      /\ r.at = "walk" /\ r.cmd = "mkdir" /\ r.todo # <<>> /\ Head(r.todo) \notin Skipped
      /\ Ready(rows, failures, r)
  BY OneSession DEF Make, Record, At
<1>2. PICK ok \in Chance, d \in Subdir(s) :
        /\ Query(ok)
        /\ Become(s, IF ok /\ d # 0 THEN [r EXCEPT !.cur = d, !.todo = Tail(@)] ELSE m)
  BY DEF Make
<1>3. UNCHANGED <<accounts, rows, uses>> /\ Queried
  BY <1>2 DEF Make, Queried
<1>4. CASE Become(s, m)
  <2>1. m \in Record /\ m.at = "mkpath" /\ m.cur = r.cur /\ m.name = r.name
        /\ m.user = r.user /\ m.cwd = r.cwd /\ m.todo = r.todo
        /\ m.cmd = r.cmd /\ m.abs = r.abs /\ m.text = r.text
    BY <1>1 DEF Record, Places
  <2>2. Ready(rows, failures, m)
    BY <1>1, <2>1 DEF Ready, InTree, ForDirs, ForFiles, Registering, Chosen
  <2> QED  BY <1>1, <1>3, <1>4, <2>1, <2>2, Reads
<1> DEFINE q == [r EXCEPT !.cur = d, !.todo = Tail(@)]
<1>5. CASE d # 0 /\ Become(s, q)
  <2>1. d \in Nat /\ IsDir(rows, d, r.user)
    BY <1>1, <1>5, SubdirFound DEF Subdir
  <2>2. q \in Record /\ Ready(rows, failures, q)
    BY <1>1, <2>1, Walks
  <2> QED  BY <1>1, <1>3, <1>5, <2>2, Reads
<1> QED  BY <1>2, <1>4, <1>5

LEMMA MkPathTrees ==
  ASSUME Trees, NEW s \in Session, MkPath(s)
  PROVE  Trees'
<1> DEFINE r == sess[s]
           x == Append(rows[r.cur].path, Head(r.todo))
           q == [r EXCEPT !.at = "mkdir", !.text = x]
<1>1. /\ r \in Record /\ Ready(rows, failures, r) /\ r.at = "mkpath"
      /\ accounts \in [User -> Nat] /\ rows \in Seq(Row)
  BY OneSession DEF MkPath, At
<1>2. UNCHANGED <<accounts, rows, uses>> /\ Queried
  BY DEF MkPath, Queried
<1>3. CASE Stop(s)
  BY <1>1, <1>2, <1>3, Stops
<1>4. CASE HasPath(r.cur) /\ Become(s, q)
  <2>1. r.cur \in DOMAIN rows /\ r.cur # 0 /\ r.todo # <<>> /\ r.todo \in Text
    BY <1>1, <1>4, ElementOfRow DEF HasPath, Alive, Ready, ForDirs, Record
  <2>2. x \in Text
    BY <1>1, <2>1, ElementOfRow, TextParts, TextFacts
  <2>3. "mkdir" \in Places
    BY DEF Places, Chosen
  <2>4. /\ q \in Record /\ q.at = "mkdir" /\ q.text = x
        /\ q.cur = r.cur /\ q.user = r.user /\ q.cwd = r.cwd /\ q.todo = r.todo
        /\ q.cmd = r.cmd /\ q.abs = r.abs /\ q.name = r.name
    <3> HIDE DEF x
    <3> QED  BY <1>1, <2>2, <2>3 DEF Record
  <2>5. Ready(rows, failures, q)
    BY <1>1, <2>1, <2>4 DEF Ready, InTree, ForDirs, ForFiles, Registering, Chosen, Below
  <2> QED  BY <1>1, <1>2, <1>4, <2>4, <2>5, Reads
<1> QED  BY <1>3, <1>4 DEF MkPath

LEMMA MkdirTrees ==
  ASSUME Trees, NEW s \in Session, Mkdir(s)
  PROVE  Trees'
<1> DEFINE r == sess[s]
           x == NewRow(Head(r.todo), r.user, r.cur, r.text, "dir")
           q == [r EXCEPT !.at = "walk", !.todo = Tail(@), !.cur = Len(rows) + 1]
<1>1. /\ r \in Record /\ Ready(rows, failures, r) /\ r.at = "mkdir" /\ accounts \in [User -> Nat]
      /\ rows \in Table /\ rows \in Seq(Row) /\ failures \in Nat
  BY OneSession DEF Mkdir, At
<1>2. PICK ok \in Chance : Query(ok)
  BY DEF Mkdir
<1>3. CASE Stop(s) /\ UNCHANGED rows
  BY <1>1, <1>2, <1>3, Stops DEF Mkdir, Queried
<1>4. CASE rows' = Append(rows, x) /\ Become(s, q)
  <2>1. /\ r.cur # 0 /\ IsDir(rows, r.cur, r.user) /\ r.user # Nobody /\ r.user \in User
        /\ r.cmd = "mkdir" /\ r.todo # <<>> /\ Head(r.todo) \notin Skipped /\ ~ Contains(r.todo, "..")
        /\ Below(rows, r.cur, r.text, Head(r.todo)) /\ r.text \in Text /\ r.todo \in Text
        /\ r.cur \in Nat
    BY <1>1 DEF Ready, InTree, ForDirs, Record, Registering, Chosen
  <2>2. Head(r.todo) \in STRING /\ Tail(r.todo) \in Text /\ Head(r.todo) # ".."
        /\ ~ Contains(Tail(r.todo), "..")
    BY <2>1, TextParts, ContainsTail
  <2>3. Plain(r.text)
    <3>1. RowOK(rows, r.cur) /\ rows[r.cur].path \in Text
      BY <1>1, <2>1, ElementOfRow DEF Table, IsDir
    <3>2. Plain(rows[r.cur].path)
      BY <2>1, <3>1 DEF RowOK, IsDir
    <3>3. Plain(Append(rows[r.cur].path, Head(r.todo)))
      BY <2>1, <2>2, <3>1, <3>2, PlainAppend DEF Skipped
    <3> QED  BY <2>1, <3>3 DEF Below
  <2>4. /\ x \in Row /\ x.name = Head(r.todo) /\ x.user = r.user /\ x.pdir = r.cur
        /\ x.path = r.text /\ x.type = "dir"
    <3>1. Head(r.todo) \in Name /\ r.cur \in Int
      BY <2>1, <2>2 DEF Name
    <3> QED  BY <2>1, <3>1, RowAdded
  <2>5. /\ rows' \in Table /\ Grown(rows, rows')
        /\ rows'[Len(rows) + 1] = x /\ Len(rows) + 1 \in DOMAIN rows'
        /\ Len(rows) + 1 \in Nat /\ Len(rows) + 1 # 0
    <3> HIDE DEF x
    <3> QED  BY <1>1, <1>4, <2>1, <2>3, <2>4, AppendRow
  <2>6. UNCHANGED <<accounts, uses>> /\ failures' \in Nat /\ failures <= failures'
        /\ failures' \in 0..MaxFailures[uses]
    BY <1>2, Asked DEF Mkdir
  <2>7. rows' \in Seq(Row) /\ Ready(rows', failures', r)
    BY <1>1, <2>5, <2>6, ReadyStays DEF Table
  <2>8. q \in Record /\ q.at = "walk" /\ q.cur = Len(rows) + 1 /\ q.name = r.name
        /\ q.user = r.user /\ q.cwd = r.cwd /\ q.todo = Tail(r.todo)
        /\ q.cmd = r.cmd /\ q.abs = r.abs /\ q.text = r.text
    BY <1>1, <2>2, <2>5 DEF Record, Places
  <2>9. IsDir(rows', q.cur, q.user)
    BY <2>4, <2>5, <2>8 DEF IsDir
  <2>10. InTree(rows', failures', q)
    BY <2>1, <2>7, <2>8, <2>9, <1>1 DEF Ready, InTree, Registering, Chosen
  <2>11. ForDirs(rows', q) /\ ForFiles(rows', q)
    BY <2>1, <2>2, <2>8 DEF ForDirs, ForFiles
  <2>12. SessionsOK'
    <3>1. Ready(rows', failures', q)
      BY <2>10, <2>11 DEF Ready
    <3> QED  BY <1>4, <2>5, <2>6, <2>8, <3>1, Step
  <2> QED  BY <2>5, <2>6, <2>12 DEF Trees, Types
<1> QED  BY <1>3, <1>4 DEF Mkdir

-----------------------------------------------------------------------------
(* Directories are removed.                                                *)

LEMMA MarkRows ==
  ASSUME NEW f \in Table, NEW g \in Seq(Row), Grown(f, g), DOMAIN g = DOMAIN f,
         \A i \in DOMAIN f : IsRoot(f, i) => g[i].alive
  PROVE  g \in Table
<1> SUFFICES ASSUME NEW i \in DOMAIN g  PROVE RowOK(g, i)
  BY DEF Table
<1>1. RowOK(f, i) /\ i \in DOMAIN f
  BY DEF Table
<1>2. ~ IsRoot(f, i) => f[i].pdir \in DOMAIN f
  BY <1>1 DEF RowOK, IsDir
<1> QED  BY <1>1, <1>2 DEF RowOK, IsRoot, IsDir, Below, Grown

LEMMA MarkRow ==
  ASSUME NEW f \in Table, NEW c \in DOMAIN f, ~ IsRoot(f, c)
  PROVE  LET g == [f EXCEPT ![c].alive = FALSE]
         IN /\ g \in Table /\ Grown(f, g) /\ DOMAIN g = DOMAIN f
            /\ ~ g[c].alive /\ \A i \in DOMAIN f \ {c} : g[i] = f[i]
<1> DEFINE g == [f EXCEPT ![c].alive = FALSE]
<1>1. f \in Seq(Row) /\ DOMAIN f = 1..Len(f) /\ Len(f) \in Nat /\ f[c] \in Row
  BY ElementOfRow DEF Table
<1>2. PICK x \in Row : x = [f[c] EXCEPT !.alive = FALSE]
  BY <1>1 DEF Row
<1>3. x.name = f[c].name /\ x.user = f[c].user /\ x.pdir = f[c].pdir /\ x.path = f[c].path
      /\ x.type = f[c].type
  BY <1>1, <1>2 DEF Row
<1>4. g = [f EXCEPT ![c] = x]
  BY <1>2
<1>5. g \in Seq(Row) /\ DOMAIN g = DOMAIN f
  BY <1>1, <1>4, ExceptSeq
<1>6. g[c] = x /\ ~ x.alive /\ \A i \in DOMAIN f \ {c} : g[i] = f[i]
  BY <1>1, <1>2, <1>4 DEF Row
<1>7. Grown(f, g)
  BY <1>3, <1>5, <1>6 DEF Grown
<1>8. \A i \in DOMAIN f : IsRoot(f, i) => g[i].alive
  BY <1>6 DEF Table, RowOK
<1> HIDE DEF g
<1> QED  BY <1>5, <1>6, <1>7, <1>8, MarkRows DEF g

\* The table after the removal by path.
Swept(f, p, ok) ==
  [i \in DOMAIN f |-> [f[i] EXCEPT !.alive = @ /\ ~ (ok /\ Like(p, f[i].path))]]

LEMMA MarkBelow ==
  ASSUME NEW f \in Table, NEW p \in Text, NEW ok \in BOOLEAN
  PROVE  LET g == Swept(f, p, ok)
         IN /\ g \in Table /\ Grown(f, g) /\ DOMAIN g = DOMAIN f
            /\ \A i \in DOMAIN f : g[i].alive <=> f[i].alive /\ ~ (ok /\ Like(p, f[i].path))
<1> DEFINE g == [i \in DOMAIN f |-> [f[i] EXCEPT !.alive = @ /\ ~ (ok /\ Like(p, f[i].path))]]
<1>1. f \in Seq(Row) /\ DOMAIN f = 1..Len(f) /\ Len(f) \in Nat
  BY DEF Table
<1>2. ASSUME NEW i \in DOMAIN f
      PROVE  /\ g[i] \in Row /\ g[i].name = f[i].name /\ g[i].user = f[i].user
             /\ g[i].pdir = f[i].pdir /\ g[i].path = f[i].path /\ g[i].type = f[i].type
             /\ IsRoot(f, i) => g[i].alive
             /\ g[i].alive <=> f[i].alive /\ ~ (ok /\ Like(p, f[i].path))
  <2>1. f[i] \in Row /\ RowOK(f, i)
    BY ElementOfRow, <1>1 DEF Table
  <2>2. PICK b \in BOOLEAN : b = (f[i].alive /\ ~ (ok /\ Like(p, f[i].path)))
    OBVIOUS
  <2>3. g[i] = [f[i] EXCEPT !.alive = b]
    BY <2>2
  <2>4. IsRoot(f, i) => b
    <3> SUFFICES ASSUME IsRoot(f, i)  PROVE ~ Like(p, f[i].path) /\ f[i].alive
      BY <2>2
    <3>1. f[i].path = <<>> /\ f[i].alive
      BY <2>1 DEF RowOK
    <3>2. Len(p) \in Nat /\ Len(<<>>) = 0
      BY DEF Text
    <3>3. ~ LikeEach(p, <<>>)
      BY <3>2 DEF LikeEach
    <3>4. ~ LikeAcross(p, <<>>)
      BY <3>2 DEF LikeAcross
    <3> QED  BY <3>1, <3>3, <3>4 DEF Like
  <2> HIDE DEF g
  <2>5. g[i] \in Row /\ g[i].name = f[i].name /\ g[i].user = f[i].user
        /\ g[i].pdir = f[i].pdir /\ g[i].path = f[i].path /\ g[i].type = f[i].type /\ g[i].alive = b
    BY <2>1, <2>3 DEF Row
  <2> QED  BY <2>2, <2>4, <2>5
<1>3. DOMAIN g = DOMAIN f
  OBVIOUS
<1> HIDE DEF g
<1>4. g \in Seq(Row)
  <2>1. g = [i \in 1..Len(f) |-> g[i]]
    BY <1>1 DEF g
  <2> QED  BY <1>1, <1>2, <2>1
<1>5. Grown(f, g) /\ \A i \in DOMAIN f : IsRoot(f, i) => g[i].alive
  BY <1>2, <1>3 DEF Grown
<1>6. g \in Table
  BY <1>3, <1>4, <1>5, MarkRows
<1>7. \A i \in DOMAIN f : g[i].alive <=> f[i].alive /\ ~ (ok /\ Like(p, f[i].path))
  BY <1>2
<1> QED  BY <1>3, <1>5, <1>6, <1>7 DEF g, Swept

\* Only the place in the course of the command changes.
LEMMA ParentTrees ==
  ASSUME Trees, NEW s \in Session, Parent(s)
  PROVE  Trees'
<1> DEFINE r == sess[s]
<1>1. /\ r \in Record /\ Ready(rows, failures, r) /\ r.at = "parent"
      /\ accounts \in [User -> Nat] /\ rows \in Seq(Row)
  BY OneSession DEF Parent, At
<1>2. UNCHANGED <<accounts, rows, uses>> /\ Queried
  BY DEF Parent, Queried
<1>3. CASE Stop(s)
  BY <1>1, <1>2, <1>3, Stops
<1>4. CASE /\ ParentOf(r.cur) # -1
           /\ Become(s, [r EXCEPT !.at = IF r.cmd = "rmdir" THEN "count" ELSE "info"])
  <2>1. PICK l \in {"count", "info"} : Become(s, [r EXCEPT !.at = l])
    BY <1>4
  <2> DEFINE q == [r EXCEPT !.at = l]
  <2>2. ~ IsRoot(rows, r.cur)
    BY <1>4 DEF ParentOf, IsRoot
  <2>3. q \in Record /\ q.at = l
        /\ q.cur = r.cur /\ q.user = r.user /\ q.cwd = r.cwd /\ q.todo = r.todo
        /\ q.cmd = r.cmd /\ q.abs = r.abs /\ q.text = r.text /\ q.name = r.name
    BY <1>1 DEF Record, Places, Chosen
  <2>4. Ready(rows, failures, q)
    BY <1>1, <2>2, <2>3 DEF Ready, InTree, ForDirs, ForFiles, Registering, Chosen
  <2> QED  BY <1>1, <1>2, <2>1, <2>3, <2>4, Reads
<1> QED  BY <1>3, <1>4 DEF Parent

LEMMA CountTrees ==
  ASSUME Trees, NEW s \in Session, Count(s)
  PROVE  Trees'
<1> DEFINE r == sess[s]
           q == [r EXCEPT !.at = "rmdir"]
<1>1. /\ r \in Record /\ Ready(rows, failures, r) /\ r.at = "count"
      /\ accounts \in [User -> Nat] /\ rows \in Seq(Row)
  BY OneSession DEF Count, At
<1>2. UNCHANGED <<accounts, rows, uses>> /\ Queried
  BY DEF Count, Queried
<1>3. CASE Stop(s)
  BY <1>1, <1>2, <1>3, Stops
<1>4. CASE Become(s, q)
  <2>1. q \in Record /\ q.at = "rmdir"
        /\ q.cur = r.cur /\ q.user = r.user /\ q.cwd = r.cwd /\ q.todo = r.todo
        /\ q.cmd = r.cmd /\ q.abs = r.abs /\ q.text = r.text /\ q.name = r.name
    BY <1>1 DEF Record, Places, Chosen
  <2>2. Ready(rows, failures, q)
    BY <1>1, <2>1 DEF Ready, InTree, ForDirs, ForFiles, Registering, Chosen
  <2> QED  BY <1>1, <1>2, <1>4, <2>1, <2>2, Reads
<1> QED  BY <1>3, <1>4 DEF Count

LEMMA InfoTrees ==
  ASSUME Trees, NEW s \in Session, Info(s)
  PROVE  Trees'
<1> DEFINE r == sess[s]
           x == rows[r.cur].path
           q == [r EXCEPT !.at = "self", !.text = x]
<1>1. /\ r \in Record /\ Ready(rows, failures, r) /\ r.at = "info"
      /\ accounts \in [User -> Nat] /\ rows \in Seq(Row)
  BY OneSession DEF Info, At
<1>2. UNCHANGED <<accounts, rows, uses>> /\ Queried
  BY DEF Info, Queried
<1>3. CASE Stop(s)
  BY <1>1, <1>2, <1>3, Stops
<1>4. CASE r.cur \in Alive /\ Become(s, q)
  <2>1. x \in Text
    BY <1>1, <1>4, ElementOfRow DEF Alive
  <2>2. /\ q \in Record /\ q.at = "self" /\ q.text = x
        /\ q.cur = r.cur /\ q.user = r.user /\ q.cwd = r.cwd /\ q.todo = r.todo
        /\ q.cmd = r.cmd /\ q.abs = r.abs /\ q.name = r.name
    <3> HIDE DEF x
    <3> QED  BY <1>1, <2>1 DEF Record, Places, Chosen
  <2>3. Ready(rows, failures, q)
    BY <1>1, <2>2 DEF Ready, InTree, ForDirs, ForFiles, Registering, Chosen
  <2> QED  BY <1>1, <1>2, <1>4, <2>2, <2>3, Reads
<1> QED  BY <1>3, <1>4 DEF Info

\* A step that marks rows.
LEMMA Marks ==
  ASSUME Trees, NEW s \in Session, NEW q \in Record, Become(s, q), Queried,
         UNCHANGED <<accounts, uses>>, rows' \in Table, Grown(rows, rows'),
         Ready(rows, failures, q) \/ Ready(rows', failures', q)
  PROVE  Trees'
<1>1. failures \in Nat /\ failures' \in Nat /\ failures <= failures'
      /\ failures' \in 0..MaxFailures[uses]
  BY Asked DEF Queried
<1>2. rows \in Seq(Row) /\ rows' \in Seq(Row)
  BY DEF Trees, Table
<1>3. Ready(rows', failures', q)
  BY <1>1, <1>2, ReadyStays
<1>4. SessionsOK'
  BY <1>1, <1>3, Step
<1> QED  BY <1>1, <1>4 DEF Trees, Types

LEMMA RmdirTrees ==
  ASSUME Trees, NEW s \in Session, Rmdir(s)
  PROVE  Trees'
<1> DEFINE r == sess[s]
<1>1. /\ r \in Record /\ Ready(rows, failures, r) /\ r.at = "rmdir"
      /\ accounts \in [User -> Nat] /\ rows \in Seq(Row) /\ rows \in Table
      /\ Finish(r) \in Record /\ Ready(rows, failures, Finish(r))
  BY OneSession DEF Rmdir, At
<1>2. r.cur \in DOMAIN rows /\ ~ IsRoot(rows, r.cur)
  BY <1>1 DEF Ready, InTree, Chosen, IsDir
<1>3. rows' \in Table /\ Grown(rows, rows')
  <2>1. CASE rows' = rows
    BY <2>1, <1>1 DEF Grown
  <2>2. CASE rows' = [rows EXCEPT ![r.cur].alive = FALSE]
    BY <2>2, <1>1, <1>2, MarkRow
  <2> QED  BY <2>1, <2>2 DEF Rmdir
<1> QED  BY <1>1, <1>3, Marks DEF Rmdir, Stop, Queried

LEMMA RemoveSelfTrees ==
  ASSUME Trees, NEW s \in Session, RemoveSelf(s)
  PROVE  Trees'
<1> DEFINE r == sess[s]
           q == [r EXCEPT !.at = "below"]
<1>1. /\ r \in Record /\ Ready(rows, failures, r) /\ r.at = "self"
      /\ accounts \in [User -> Nat] /\ rows \in Seq(Row) /\ rows \in Table
  BY OneSession DEF RemoveSelf, At
<1>2. r.cur \in DOMAIN rows /\ ~ IsRoot(rows, r.cur)
  BY <1>1 DEF Ready, InTree, Chosen, IsDir
<1>3. UNCHANGED <<accounts, uses>> /\ Queried
  BY DEF RemoveSelf, Queried
<1>4. CASE Stop(s) /\ UNCHANGED rows
  BY <1>1, <1>3, <1>4, Stops
<1>5. CASE rows' = [rows EXCEPT ![r.cur].alive = FALSE] /\ Become(s, q)
  <2>1. rows' \in Table /\ Grown(rows, rows')
    BY <1>1, <1>2, <1>5, MarkRow
  <2>2. /\ q \in Record /\ q.at = "below" /\ q.text = r.text
        /\ q.cur = r.cur /\ q.user = r.user /\ q.cwd = r.cwd /\ q.todo = r.todo
        /\ q.cmd = r.cmd /\ q.abs = r.abs /\ q.name = r.name
    BY <1>1 DEF Record, Places, Chosen
  <2>3. Ready(rows, failures, q)
    BY <1>1, <2>2 DEF Ready, InTree, ForDirs, ForFiles, Registering, Chosen
  <2> QED  BY <1>3, <1>5, <2>1, <2>2, <2>3, Marks
<1> QED  BY <1>4, <1>5 DEF RemoveSelf

LEMMA RemoveBelowTrees ==
  ASSUME Trees, NEW s \in Session, RemoveBelow(s)
  PROVE  Trees'
<1> DEFINE r == sess[s]
<1>1. /\ r \in Record /\ rows \in Table /\ r.text \in Text
      /\ Finish(r) \in Record /\ Ready(rows, failures, Finish(r))
  BY OneSession DEF Record
<1>2. PICK ok \in Chance : Query(ok) /\ rows' = Swept(rows, r.text, ok)
  BY DEF RemoveBelow, Swept
<1>3. ok \in BOOLEAN
  BY <1>2, Asked DEF RemoveBelow
<1>4. rows' \in Table /\ Grown(rows, rows')
  BY <1>1, <1>2, <1>3, MarkBelow
<1> QED  BY <1>1, <1>2, <1>4, Marks DEF RemoveBelow, Stop, Queried

-----------------------------------------------------------------------------
(* Files.                                                                  *)

LEMMA PlaceTrees ==
  ASSUME Trees, NEW s \in Session, Place(s)
  PROVE  Trees'
<1> DEFINE r == sess[s]
           At1(i) == [r EXCEPT !.at = "find", !.text = Append(rows[i].path, r.name)]
<1>1. /\ r \in Record /\ Ready(rows, failures, r) /\ r.at = "place"
      /\ accounts \in [User -> Nat] /\ rows \in Seq(Row)
  BY OneSession DEF Place, At
<1>2. UNCHANGED <<accounts, rows, uses>> /\ Queried
  BY DEF Place, Queried
<1>3. CASE Stop(s)
  BY <1>1, <1>2, <1>3, Stops
<1>4. ASSUME NEW i \in DOMAIN rows, Become(s, At1(i))  PROVE Trees'
  <2> DEFINE x == Append(rows[i].path, r.name)
             q == [r EXCEPT !.at = "find", !.text = x]
  <2>1. r.cmd \in {"puts", "gets"} /\ r.name \in STRING
    BY <1>1 DEF Ready, ForFiles
  <2>2. x \in Text /\ x # <<>> /\ Last(x) = r.name
    BY <1>1, <2>1, ElementOfRow, TextFacts
  <2>3. /\ q \in Record /\ q.at = "find" /\ q.text = x
        /\ q.cur = r.cur /\ q.user = r.user /\ q.cwd = r.cwd /\ q.todo = r.todo
        /\ q.cmd = r.cmd /\ q.abs = r.abs /\ q.name = r.name
    <3> HIDE DEF x
    <3> QED  BY <1>1, <2>2 DEF Record, Places
  <2> HIDE DEF x
  <2>4. Ready(rows, failures, q)
    BY <1>1, <2>1, <2>2, <2>3 DEF Ready, InTree, ForDirs, ForFiles, Registering, Chosen
  <2> QED  BY <1>1, <1>2, <1>4, <2>3, <2>4, Reads DEF x
<1>5. CASE HasPath(r.cur) /\ Become(s, At1(r.cur))
  BY <1>4, <1>5 DEF HasPath, Alive
<1>6. CASE \E i \in {j \in DOMAIN rows : rows[j].type = "dir"} : Become(s, At1(i))
  BY <1>4, <1>6
<1> HIDE DEF At1
<1>7. \/ HasPath(r.cur) /\ Become(s, At1(r.cur))
      \/ Stop(s)
      \/ \E i \in {j \in DOMAIN rows : rows[j].type = "dir"} : Become(s, At1(i))
  BY DEF Place, At1
<1> QED  BY <1>3, <1>5, <1>6, <1>7

LEMMA FindTrees ==
  ASSUME Trees, NEW s \in Session, Find(s)
  PROVE  Trees'
<1> DEFINE r == sess[s]
           t == Front(r.text)
           q == [r EXCEPT !.at = "top", !.cmd = "create", !.todo = t]
<1>1. /\ r \in Record /\ Ready(rows, failures, r) /\ r.at = "find"
      /\ accounts \in [User -> Nat] /\ rows \in Seq(Row)
  BY OneSession DEF Find, At
<1>2. UNCHANGED <<accounts, rows, uses>> /\ Queried
  BY DEF Find, Queried
<1>3. CASE Stop(s)
  BY <1>1, <1>2, <1>3, Stops
<1>4. CASE Become(s, q)
  <2>1. r.cmd \in {"puts", "gets"} /\ r.name \in STRING /\ r.text # <<>> /\ r.name = Last(r.text)
        /\ r.text \in Text
    BY <1>1 DEF Ready, ForFiles, Record
  <2>2. t \in Text
    BY <2>1, TextParts
  <2>3. /\ q \in Record /\ q.at = "top" /\ q.cmd = "create" /\ q.todo = t
        /\ q.cur = r.cur /\ q.user = r.user /\ q.cwd = r.cwd
        /\ q.text = r.text /\ q.abs = r.abs /\ q.name = r.name
    <3> HIDE DEF t
    <3> QED  BY <1>1, <2>2 DEF Record, Places
  <2>4. Ready(rows, failures, q)
    BY <1>1, <2>1, <2>3 DEF Ready, InTree, ForDirs, ForFiles, Registering, Chosen
  <2> QED  BY <1>1, <1>2, <1>4, <2>3, <2>4, Reads
<1> QED  BY <1>3, <1>4 DEF Find

LEMMA InsertFileTrees ==
  ASSUME Trees, NEW s \in Session, InsertFile(s)
  PROVE  Trees'
<1> DEFINE r == sess[s]
           x == NewRow(r.name, r.user, r.cur, r.text, "reg")
<1>1. /\ r \in Record /\ Ready(rows, failures, r) /\ r.at = "insert"
      /\ rows \in Table
      /\ Finish(r) \in Record /\ Ready(rows, failures, Finish(r))
  BY OneSession DEF InsertFile, At
<1>2. /\ r.cur # 0 /\ IsDir(rows, r.cur, r.user) /\ r.user \in User /\ r.name \in STRING
      /\ Plain(r.text) => Below(rows, r.cur, r.text, r.name)
      /\ r.text \in Text /\ r.cur \in Nat
  BY <1>1 DEF Ready, InTree, ForFiles, Record, Registering, Chosen
<1>3. /\ x \in Row /\ x.name = r.name /\ x.user = r.user /\ x.pdir = r.cur
      /\ x.path = r.text /\ x.type = "reg"
  <2>1. r.name \in Name /\ r.cur \in Int
    BY <1>2 DEF Name
  <2> QED  BY <1>2, <2>1, RowAdded
<1>4. CASE rows' = Append(rows, x)
  <2>1. rows' \in Table /\ Grown(rows, rows')
    <3> HIDE DEF x
    <3> QED  BY <1>1, <1>2, <1>3, <1>4, AppendRow
  <2> QED  BY <1>1, <2>1, Marks DEF InsertFile, Stop, Queried
<1>5. CASE rows' = rows
  BY <1>1, <1>5, Stops DEF InsertFile, Queried, Trees, Types
<1> QED  BY <1>4, <1>5 DEF InsertFile

-----------------------------------------------------------------------------
LEMMA InitTrees == Init => Trees
<1> SUFFICES ASSUME Init  PROVE Trees
  OBVIOUS
<1>1. Types
  BY BoundsAssumption DEF Init, Types
<1>2. rows \in Table
  BY DEF Init, Table
<1>3. \A s \in Session : sess[s] = Idle(Nobody, 0) /\ Idle(Nobody, 0) \in Record
                         /\ Ready(rows, failures, Idle(Nobody, 0))
  BY <1>2, IdleFacts, IdleReady DEF Init, Table
<1>4. SessionsOK
  BY <1>3 DEF Init, SessionsOK, At, Idle
<1> QED  BY <1>1, <1>2, <1>4 DEF Trees

LEMMA NextTrees == Trees /\ [Next]_vars => Trees'
<1> SUFFICES ASSUME Trees, [Next]_vars  PROVE Trees'
  OBVIOUS
<1>1. CASE UNCHANGED vars
  BY <1>1 DEF vars, Trees, Types, SessionsOK, At
<1>2. ASSUME NEW s \in Session, NEW u \in User, Register(s, u) \/ Login(s, u)  PROVE Trees'
  BY <1>2, RegisterTrees
<1>3. ASSUME NEW s \in Session, NEW t \in Typed, Command(s, t.cmd, t.path)  PROVE Trees'
  BY <1>3, CommandTrees
<1>4. ASSUME NEW s \in Session, \/ InsertAccount(s) \/ InsertRoot(s) \/ Home(s) \/ Enter(s)
                                \/ Disconnect(s)
      PROVE  Trees'
  BY <1>4, InsertAccountTrees, InsertRootTrees, HomeTrees, EnterTrees, DisconnectTrees
<1>5. ASSUME NEW s \in Session, \/ Top(s) \/ Up(s) \/ Stay(s) \/ Down(s) \/ Make(s) \/ MkPath(s)
                                \/ Mkdir(s)
      PROVE  Trees'
  BY <1>5, TopTrees, UpTrees, StayTrees, DownTrees, MakeTrees, MkPathTrees, MkdirTrees
<1>6. ASSUME NEW s \in Session, \/ Parent(s) \/ Count(s) \/ Rmdir(s) \/ Info(s) \/ RemoveSelf(s)
                                \/ RemoveBelow(s) \/ Place(s) \/ Find(s) \/ InsertFile(s)
      PROVE  Trees'
  BY <1>6, ParentTrees, CountTrees, RmdirTrees, InfoTrees, RemoveSelfTrees, RemoveBelowTrees,
     PlaceTrees, FindTrees, InsertFileTrees
<1> QED  BY <1>1, <1>2, <1>3, <1>4, <1>5, <1>6 DEF Next

LEMMA TreesAlways == Spec => []Trees
  BY InitTrees, NextTrees, PTL DEF Spec

(* Whatever the sessions do at once and whichever queries fail, rows, ids  *)
(* and paths tell the same trees, and the root directories stay.           *)
THEOREM TreesConsistentAlways == Spec => []TreesConsistent
<1>1. Trees => TreesConsistent
  <2> SUFFICES ASSUME Trees  PROVE TreesConsistent
    OBVIOUS
  <2>1. rows \in Seq(Row) /\ rows \in Table /\ DOMAIN rows = 1..Len(rows) /\ Len(rows) \in Nat
    BY DEF Trees, Table
  <2>2. \A i \in DOMAIN rows : rows[i] \in Row /\ RowOK(rows, i)
    BY <2>1, ElementOfRow DEF Table
  <2>3. \A s \in Session : /\ sess[s] \in Record /\ InTree(rows, failures, sess[s])
    BY DEF Trees, SessionsOK, Ready
  <2>4. TypeOK
    <3>1. \A s \in Session : /\ sess[s].user \in User \cup {Nobody}
                             /\ sess[s].cwd \in 0..Len(rows) /\ sess[s].cur \in 0..Len(rows)
      BY <2>1, <2>3 DEF Record, InTree, IsDir
    <3>2. \A i \in DOMAIN rows : /\ rows[i].user \in User /\ rows[i].alive \in BOOLEAN
                                 /\ rows[i].type \in {"dir", "reg"}
      BY <2>2 DEF Row
    <3> QED  BY <3>1, <3>2 DEF TypeOK, Trees, Types
  <2>5. RootsStay
    BY <2>2 DEF RootsStay, RowOK, IsRoot
  <2>6. PathsFollowParents
    BY <2>2 DEF PathsFollowParents, RowOK, IsRoot, IsDir, Below
  <2> QED  BY <2>4, <2>5, <2>6 DEF TreesConsistent
<1> QED  BY <1>1, TreesAlways, PTL

(* A session works in a directory of its own user, and only a failed query *)
(* of its registration leaves it without one.                              *)
THEOREM WorksInOwnTreeAlways == Spec => []WorksInOwnTree
<1>1. Trees => WorksInOwnTree
  BY DEF Trees, SessionsOK, Ready, InTree, IsDir, WorksInOwnTree, Dirs
<1> QED  BY <1>1, TreesAlways, PTL

-----------------------------------------------------------------------------
(* Accounts, rows without a twin and rows without a parent.                *)

\* The users of a session are among those of the world.
InUse(s, r) == /\ r.user = Nobody \/ r.user \in uses[s]
               /\ r.at \in Registering => r.name \in uses[s]

Belongs == \A s \in Session : InUse(s, sess[s])

Orderly == Separate /\ failures = 0
Calm == Alone /\ failures = 0

Rooted(f, u) == \E i \in DOMAIN f : IsRoot(f, i) /\ f[i].user = u

\* A root directory and its account come once, the account first.
Once ==
  UniqueNames \/ Orderly =>
    /\ \A i, j \in DOMAIN rows :
         IsRoot(rows, i) /\ IsRoot(rows, j) /\ rows[i].user = rows[j].user => i = j
    /\ \A u \in User : Rooted(rows, u) => accounts[u] > 0
    /\ \A s \in Session : At(s, "root") => accounts[sess[s].name] > 0 /\ ~ Rooted(rows, sess[s].name)
    /\ \A s, t \in Session :
         At(s, "root") /\ At(t, "root") /\ sess[s].name = sess[t].name => s = t

\* Nobody takes a name while it is being registered.
Fresh == Orderly => \A s \in Session : At(s, "account") => accounts[sess[s].name] = 0

Stranded == failures = 0 => \A u \in User : accounts[u] > 0 =>
              Rooted(rows, u) \/ \E s \in Session : At(s, "root") /\ sess[s].name = u

AccountsOK == Belongs /\ Once /\ Fresh /\ Stranded

\* What a session is about to make is not there yet.
Clear(f, r) ==
  \A i \in DOMAIN f : f[i].alive /\ f[i].user = r.user =>
    /\ r.at \in {"mkpath", "mkdir"} /\ f[i].type = "dir" =>
         f[i].pdir # r.cur \/ f[i].name # Head(r.todo)
    /\ r.cmd = "create" /\ f[i].type = "reg" => f[i].path # r.text

Twins ==
  Orderly =>
    /\ \A i, j \in Alive : i # j /\ rows[i].user = rows[j].user =>
         /\ rows[i].type = "dir" /\ rows[j].type = "dir" =>
              rows[i].pdir # rows[j].pdir \/ rows[i].name # rows[j].name
         /\ rows[i].type = "reg" /\ rows[j].type = "reg" => rows[i].path # rows[j].path
    /\ \A s \in Session : Clear(rows, sess[s])

\* The directory a session works in is there, and empty where it must be; once
\* a removal has taken it, its user has no other of that path.
Firm(f, r) ==
  /\ \/ r.at \in {"mkdir", "insert", "count", "rmdir", "self"}
     \/ r.at = "walk" /\ r.cmd = "create"
     => r.cur \in DOMAIN f /\ f[r.cur].alive
  /\ r.at = "rmdir" => \A i \in DOMAIN f : f[i].alive => f[i].pdir # r.cur
  /\ r.at = "below" => \A i \in DOMAIN f :
       f[i].alive /\ f[i].user = r.user /\ f[i].type = "dir" => f[i].path # r.text

Held(i) == \/ rows[i].pdir \in Alive
           \/ \E s \in Session : At(s, "below") /\ sess[s].cur = rows[i].pdir

Orphans ==
  Calm =>
    /\ \A i \in Alive : Plain(rows[i].path) /\ ~ IsRoot(rows, i) => Held(i)
    /\ \A i, j \in Alive : /\ i # j /\ rows[i].user = rows[j].user
                           /\ rows[i].type = "dir" /\ rows[j].type = "dir"
                           => rows[i].path # rows[j].path
    /\ \A s \in Session : Firm(rows, sess[s])

Careful == AccountsOK /\ Twins /\ Orphans

-----------------------------------------------------------------------------
\* What a command does when its path is resolved.
LEMMA OnwardForms ==
  ASSUME NEW q \in Record
  PROVE  /\ Onward(q) \in Record
         /\ \/ Onward(q) = q
            \/ q.at = "walk" /\ Onward(q).at = "idle" /\ Onward(q).cmd = "none"
               /\ Onward(q).user = q.user
            \/ \E l \in {"parent", "find", "insert", "place"} :
                 q.at = "walk" /\ (l = "insert" => q.cmd = "create") /\ Onward(q) = [q EXCEPT !.at = l]
<1>1. ASSUME NEW d \in Nat
      PROVE  Idle(q.user, d) \in Record /\ Idle(q.user, d).at = "idle"
             /\ Idle(q.user, d).cmd = "none" /\ Idle(q.user, d).user = q.user
  <2>1. q.user \in User \cup {Nobody}
    BY DEF Record
  <2> QED  BY <2>1, IdleFacts DEF Idle
<1>2. q.cur \in Nat /\ q.cwd \in Nat
  BY DEF Record
<1>3. \A l \in {"parent", "find", "insert", "place"} : [q EXCEPT !.at = l] \in Record
  BY DEF Record, Places, Chosen
<1> DEFINE w == Onward(q)
<1>4. CASE q.at # "walk" \/ q.todo # <<>>
  BY <1>4 DEF Onward
<1> SUFFICES ASSUME q.at = "walk", q.todo = <<>>
             PROVE  /\ w \in Record
                    /\ \/ w.at = "idle" /\ w.cmd = "none" /\ w.user = q.user
                       \/ \E l \in {"parent", "find", "insert", "place"} :
                            (l = "insert" => q.cmd = "create") /\ w = [q EXCEPT !.at = l]
  BY <1>4
<1>5. CASE q.cur = 0 \/ q.cmd = "mkdir"
  <2>1. w = Idle(q.user, q.cwd)
    BY <1>5 DEF Onward, Finish
  <2> QED  BY <2>1, <1>1, <1>2
<1>6. CASE q.cur # 0 /\ q.cmd = "cd"
  <2>1. w = Idle(q.user, q.cur)
    BY <1>6 DEF Onward
  <2> QED  BY <2>1, <1>1, <1>2
<1>7. CASE q.cur # 0 /\ q.cmd \notin {"cd", "mkdir"}
  <2>1. \E l \in {"parent", "find", "insert", "place"} :
          (l = "insert" => q.cmd = "create") /\ w = [q EXCEPT !.at = l]
    BY <1>7 DEF Onward
  <2> QED  BY <2>1, <1>3
<1> QED  BY <1>5, <1>6, <1>7

LEMMA OnwardUse ==
  ASSUME NEW s \in Session, NEW q \in Record, InUse(s, q)
  PROVE  /\ InUse(s, Onward(q)) /\ Onward(q) \in Record
         /\ \A l \in Registering \cup {"below"} : Onward(q).at = l => Onward(q) = q
<1>1. CASE Onward(q) = q
  BY <1>1
<1>2. CASE q.at = "walk" /\ Onward(q).at = "idle" /\ Onward(q).user = q.user
  BY <1>2, OnwardForms DEF InUse, Registering
<1>3. ASSUME NEW l \in {"parent", "find", "insert", "place"}, Onward(q) = [q EXCEPT !.at = l]
      PROVE  Onward(q).at = l /\ Onward(q).user = q.user
  BY <1>3 DEF Record
<1> QED  BY <1>1, <1>2, <1>3, OnwardForms DEF InUse, Registering

LEMMA OnwardClear ==
  ASSUME NEW f, NEW q \in Record, Clear(f, q)
  PROVE  Clear(f, Onward(q))
<1>1. CASE Onward(q) = q
  BY <1>1
<1>2. CASE Onward(q).at = "idle" /\ Onward(q).cmd = "none"
  BY <1>2 DEF Clear
<1>3. ASSUME NEW l \in {"parent", "find", "insert", "place"}, Onward(q) = [q EXCEPT !.at = l]
      PROVE  Clear(f, Onward(q))
  <2>1. Onward(q).at = l /\ Onward(q).user = q.user /\ Onward(q).cmd = q.cmd
        /\ Onward(q).text = q.text
    BY <1>3 DEF Record
  <2> QED  BY <2>1 DEF Clear
<1> QED  BY <1>1, <1>2, <1>3, OnwardForms

LEMMA OnwardFirm ==
  ASSUME NEW f, NEW q \in Record, Firm(f, q)
  PROVE  Firm(f, Onward(q))
<1>1. CASE Onward(q) = q
  BY <1>1
<1>2. CASE Onward(q).at = "idle" /\ Onward(q).cmd = "none"
  BY <1>2 DEF Firm
<1>3. ASSUME NEW l \in {"parent", "find", "insert", "place"}, Onward(q) = [q EXCEPT !.at = l],
             q.at = "walk", l = "insert" => q.cmd = "create"
      PROVE  Firm(f, Onward(q))
  <2>1. Onward(q).at = l /\ Onward(q).cur = q.cur
    BY <1>3 DEF Record
  <2> QED  BY <2>1, <1>3 DEF Firm
<1> QED  BY <1>1, <1>2, <1>3, OnwardForms

\* No session is in use but the one that works.
LEMMA OthersIdle ==
  ASSUME Trees, Belongs, Alone, NEW s \in Session, uses[s] # {}, NEW t \in Session, t # s
  PROVE  sess[t].at = "idle" /\ sess[t].cmd = "none"
<1>1. uses[t] = {}
  BY DEF Alone
<1>2. Ready(rows, failures, sess[t]) /\ InUse(t, sess[t])
  BY OneSession DEF Belongs
<1> QED  BY <1>1, <1>2 DEF InUse, Ready, InTree

LEMMA Separated ==
  ASSUME Alone
  PROVE  Separate
  BY DEF Alone, Separate

-----------------------------------------------------------------------------
\* A step of the session s, which then is w; no account or root directory comes.
LEMMA AccountsKept ==
  ASSUME Trees, AccountsOK, NEW s \in Session, NEW w \in Record, sess' = [sess EXCEPT ![s] = w],
         UNCHANGED <<accounts, uses>>, failures' \in Nat, failures <= failures',
         Grown(rows, rows'), \A i \in DOMAIN rows' : i \in DOMAIN rows \/ ~ IsRoot(rows', i),
         InUse(s, w), w.at \notin {"account", "root"}, At(s, "root") => failures' > 0
  PROVE  AccountsOK'
<1>1. /\ failures \in Nat /\ accounts \in [User -> Nat] /\ sess \in [Session -> Record]
      /\ sess' \in [Session -> Record]
  BY OneSession DEF Trees, SessionsOK
<1>2. sess'[s] = w /\ \A t \in Session \ {s} : sess'[t] = sess[t]
  BY <1>1
<1>3. failures' = 0 => failures = 0
  BY <1>1
<1>4. (Orderly' => Orderly)
  BY <1>3 DEF Orderly, Separate
<1>5. Belongs'
  BY <1>2 DEF AccountsOK, Belongs, InUse
<1>6. \A i \in DOMAIN rows' : IsRoot(rows', i) =>
        i \in DOMAIN rows /\ IsRoot(rows, i) /\ rows'[i].user = rows[i].user
  BY DEF Grown, IsRoot
<1>7. \A i \in DOMAIN rows : IsRoot(rows, i) =>
        i \in DOMAIN rows' /\ IsRoot(rows', i) /\ rows'[i].user = rows[i].user
  BY DEF Grown, IsRoot
<1>8. \A u : Rooted(rows', u) <=> Rooted(rows, u)
  BY <1>6, <1>7 DEF Rooted
<1>9. \A t \in Session : At(t, "root")' => At(t, "root") /\ sess'[t] = sess[t]
  BY <1>2 DEF At
<1>10. Once'
  <2> SUFFICES ASSUME UniqueNames \/ Orderly'  PROVE Once!2'
    BY DEF Once
  <2>1. Once!2
    BY <1>4 DEF AccountsOK, Once
  <2>2. \A i, j \in DOMAIN rows' :
          IsRoot(rows', i) /\ IsRoot(rows', j) /\ rows'[i].user = rows'[j].user => i = j
    BY <2>1, <1>6
  <2>3. \A u \in User : Rooted(rows', u) => accounts'[u] > 0
    BY <2>1, <1>8
  <2>4. \A t \in Session : At(t, "root")' => accounts'[sess'[t].name] > 0 /\ ~ Rooted(rows', sess'[t].name)
    BY <2>1, <1>8, <1>9
  <2>5. \A t, v \in Session : At(t, "root")' /\ At(v, "root")' /\ sess'[t].name = sess'[v].name => t = v
    BY <2>1, <1>9
  <2> QED  BY <2>2, <2>3, <2>4, <2>5
<1>11. Fresh'
  <2>1. \A t \in Session : At(t, "account")' => At(t, "account") /\ sess'[t] = sess[t]
    BY <1>2 DEF At
  <2> QED  BY <2>1, <1>4 DEF AccountsOK, Fresh
<1>12. Stranded'
  <2> SUFFICES ASSUME failures' = 0, NEW u \in User, accounts'[u] > 0
               PROVE  Rooted(rows', u) \/ \E t \in Session : At(t, "root")' /\ sess'[t].name = u
    BY DEF Stranded
  <2>1. Rooted(rows, u) \/ \E t \in Session : At(t, "root") /\ sess[t].name = u
    BY <1>3 DEF AccountsOK, Stranded
  <2>2. \A t \in Session : At(t, "root") => At(t, "root")' /\ sess'[t] = sess[t]
    BY <1>2 DEF At
  <2> QED  BY <2>1, <2>2, <1>8
<1> QED  BY <1>5, <1>10, <1>11, <1>12 DEF AccountsOK

\* What nobody has, nobody has once rows are marked.
LEMMA ClearKept ==
  ASSUME NEW r, Clear(rows, r), Grown(rows, rows'), DOMAIN rows' = DOMAIN rows,
         \A i \in DOMAIN rows : rows'[i].alive => rows[i].alive
  PROVE  Clear(rows', r)
  BY DEF Clear, Grown

\* Rows are marked, or none: no twin comes.
LEMMA TwinsKept ==
  ASSUME Trees, Twins, NEW s \in Session, NEW w \in Record, sess' = [sess EXCEPT ![s] = w],
         UNCHANGED uses, failures' \in Nat, failures <= failures',
         Grown(rows, rows'), DOMAIN rows' = DOMAIN rows,
         \A i \in DOMAIN rows : rows'[i].alive => rows[i].alive,
         Orderly' => Clear(rows, w)
  PROVE  Twins'
<1> SUFFICES ASSUME Orderly'  PROVE Twins!2'
  BY DEF Twins
<1>1. failures \in Nat /\ sess \in [Session -> Record]
  BY OneSession DEF Trees, SessionsOK
<1>2. Orderly
  BY <1>1 DEF Orderly, Separate
<1>3. Alive' \subseteq Alive
  BY DEF Alive
<1>4. \A i \in Alive' : i \in Alive /\ rows'[i].name = rows[i].name /\ rows'[i].user = rows[i].user
        /\ rows'[i].pdir = rows[i].pdir /\ rows'[i].path = rows[i].path /\ rows'[i].type = rows[i].type
  BY <1>3 DEF Grown, Alive
<1>5. \A t \in Session : Clear(rows, sess'[t])
  BY <1>1, <1>2 DEF Twins
<1>6. \A t \in Session : Clear(rows', sess'[t])
  BY <1>5, ClearKept
<1> QED  BY <1>2, <1>4, <1>6 DEF Twins

\* No row changes: none loses its parent.
LEMMA OrphansKept ==
  ASSUME Trees, Orphans, NEW s \in Session, NEW w \in Record, sess' = [sess EXCEPT ![s] = w],
         UNCHANGED <<rows, uses>>, failures' \in Nat, failures <= failures',
         ~ At(s, "below"), Calm' => Firm(rows, w)
  PROVE  Orphans'
<1> SUFFICES ASSUME Calm'  PROVE Orphans!2'
  BY DEF Orphans
<1>1. failures \in Nat /\ sess \in [Session -> Record]
  BY OneSession DEF Trees, SessionsOK
<1>2. Calm
  BY <1>1 DEF Calm, Alone
<1>3. \A t \in Session : At(t, "below") => At(t, "below")' /\ sess'[t] = sess[t]
  BY <1>1 DEF At
<1>4. \A i : Held(i) => Held(i)'
  BY <1>3 DEF Held, Alive
<1>5. \A t \in Session : Firm(rows, sess'[t])
  BY <1>1, <1>2 DEF Orphans
<1>6. Alive' = Alive
  BY DEF Alive
<1> QED  BY <1>2, <1>4, <1>5, <1>6 DEF Orphans

\* A step that changes no row and starts no registration.
LEMMA CarefulReads ==
  ASSUME Trees, Careful, NEW s \in Session, NEW q \in Record, Become(s, q),
         UNCHANGED <<accounts, rows, uses>>, failures' = failures \/ Queried,
         InUse(s, q), q.at \notin {"account", "root"}, At(s, "root") => failures' > 0,
         ~ At(s, "below"), Orderly' => Clear(rows, q), Calm' => Firm(rows, q)
  PROVE  Careful'
<1> DEFINE w == Onward(q)
<1>1. failures' \in Nat /\ failures <= failures'
  BY OneSession, Asked DEF Queried
<1>2. w \in Record /\ InUse(s, w) /\ w.at \notin {"account", "root"}
  BY OnwardUse DEF Registering
<1>3. (Orderly' => Clear(rows, w)) /\ (Calm' => Firm(rows, w))
  BY OnwardClear, OnwardFirm
<1>4. sess' = [sess EXCEPT ![s] = w]
  BY DEF Become
<1>5. Grown(rows, rows') /\ DOMAIN rows' = DOMAIN rows /\ rows' = rows
  BY DEF Grown
<1> HIDE DEF w
<1>6. AccountsOK'
  BY <1>1, <1>2, <1>4, <1>5, AccountsKept DEF Careful
<1>7. Twins'
  BY <1>1, <1>2, <1>3, <1>4, <1>5, TwinsKept DEF Careful
<1>8. Orphans'
  BY <1>1, <1>2, <1>3, <1>4, <1>5, OrphansKept DEF Careful
<1> QED  BY <1>6, <1>7, <1>8 DEF Careful

\* A command that gives up.
LEMMA CarefulStops ==
  ASSUME Trees, Careful, NEW s \in Session, Stop(s),
         UNCHANGED <<accounts, rows, uses>>, failures' = failures \/ Queried,
         At(s, "root") => failures' > 0, ~ At(s, "below")
  PROVE  Careful'
<1> DEFINE q == Finish(sess[s])
<1>1. q \in Record /\ q.at = "idle" /\ q.cmd = "none" /\ q.user = sess[s].user /\ Become(s, q)
  BY OneSession DEF Finish, Idle, Stop
<1>2. InUse(s, q)
  BY <1>1 DEF Careful, AccountsOK, Belongs, InUse, Registering
<1>3. Clear(rows, q) /\ Firm(rows, q)
  BY <1>1 DEF Clear, Firm
<1> QED  BY <1>1, <1>2, <1>3, CarefulReads

\* A step of a command, for the same user.
LEMMA CarefulWorks ==
  ASSUME Trees, Careful, NEW s \in Session, NEW q \in Record, Become(s, q),
         UNCHANGED <<accounts, rows, uses>>, failures' = failures \/ Queried,
         q.user = sess[s].user, q.at \notin Registering,
         sess[s].at \notin Registering \cup {"below"},
         Orderly' => Clear(rows, q), Calm' => Firm(rows, q)
  PROVE  Careful'
<1>1. InUse(s, q)
  BY DEF Careful, AccountsOK, Belongs, InUse
<1> QED  BY <1>1, CarefulReads DEF Registering, At

LEMMA EnterCareful ==
  ASSUME Trees, Careful, NEW s \in Session,
         (\E u \in User : Login(s, u)) \/ Home(s) \/ Enter(s) \/ Disconnect(s)
  PROVE  Careful'
<1> DEFINE r == sess[s]
<1>1. r \in Record /\ Ready(rows, failures, r) /\ failures \in Nat /\ InUse(s, r)
  BY OneSession DEF Careful, AccountsOK, Belongs
<1>2. ASSUME NEW u \in User, Login(s, u)  PROVE Careful'
  <2> DEFINE q == [r EXCEPT !.at = "enter", !.name = u]
  <2>1. q \in Record /\ q.at = "enter" /\ q.name = u /\ q.user = r.user /\ q.cmd = r.cmd
    BY <1>1 DEF Record, Places, Registering
  <2>2. r.at = "idle" /\ r.user = Nobody /\ u \in uses[s] /\ r.cmd = "none"
    BY <1>1, <1>2 DEF Login, Free, At, Ready, InTree
  <2>3. InUse(s, q) /\ Clear(rows, q) /\ Firm(rows, q)
    BY <2>1, <2>2 DEF InUse, Clear, Firm
  <2>4. Become(s, q) /\ UNCHANGED <<accounts, rows, uses, failures>>
    BY <1>2 DEF Login
  <2> HIDE DEF q
  <2> QED  BY <2>1, <2>2, <2>3, <2>4, CarefulReads DEF At
<1>3. ASSUME NEW u \in User \cup {Nobody}, NEW d \in Nat, Become(s, Idle(u, d)),
             u = Nobody \/ u \in uses[s], ~ At(s, "root"), ~ At(s, "below"),
             UNCHANGED <<accounts, rows, uses>>, failures' = failures \/ Queried
      PROVE  Careful'
  <2> DEFINE q == Idle(u, d)
  <2>1. q \in Record /\ q.at = "idle" /\ q.cmd = "none" /\ q.user = u
    BY IdleFacts DEF Idle
  <2>2. InUse(s, q) /\ Clear(rows, q) /\ Firm(rows, q)
    BY <1>3, <2>1 DEF InUse, Clear, Firm, Registering
  <2> HIDE DEF q
  <2>3. Become(s, q)
    BY <1>3 DEF q
  <2> QED  BY <1>3, <2>1, <2>2, <2>3, CarefulReads
<1>4. r.at \in Registering => r.name \in User /\ r.name \in uses[s]
  BY <1>1 DEF InUse, Ready, InTree
<1>5. CASE Home(s)
  <2>1. PICK ok \in Chance, d \in OneOf(RootsOf(r.name)) :
          Query(ok) /\ Become(s, Idle(r.name, IF ok THEN d ELSE 0))
    BY <1>5 DEF Home
  <2>2. PICK e \in Nat : e = IF ok THEN d ELSE 0
    BY <2>1, RootFound
  <2> QED  BY <1>3, <1>4, <1>5, <2>1, <2>2 DEF Home, At, Registering, Queried
<1>6. CASE Enter(s)
  <2>1. PICK ok \in Chance, d \in OneOf(RootsOf(r.name)) :
          Query(ok) /\ IF ok /\ d # 0 THEN Become(s, Idle(r.name, d)) ELSE Stop(s)
    BY <1>6 DEF Enter
  <2>2. d \in Nat
    BY <2>1, RootFound
  <2>3. r.at = "enter" /\ UNCHANGED <<accounts, rows, uses>> /\ Queried
    BY <1>6 DEF Enter, At, Queried
  <2>4. CASE Stop(s)
    BY <2>3, <2>4, CarefulStops DEF At
  <2>5. CASE Become(s, Idle(r.name, d))
    BY <1>3, <1>4, <2>2, <2>3, <2>5 DEF At, Registering
  <2> QED  BY <2>1, <2>4, <2>5
<1>7. CASE Disconnect(s)
  BY <1>3, <1>7 DEF Disconnect, At
<1> QED  BY <1>2, <1>5, <1>6, <1>7

LEMMA RegisterCareful ==
  ASSUME Trees, Careful, NEW s \in Session, NEW u \in User, Register(s, u)
  PROVE  Careful'
<1> DEFINE r == sess[s]
           q == [r EXCEPT !.at = "account", !.name = u]
<1>1. /\ r \in Record /\ Ready(rows, failures, r) /\ failures \in Nat /\ InUse(s, r)
      /\ r.at = "idle" /\ r.user = Nobody /\ u \in uses[s]
      /\ accounts \in [User -> Nat] /\ sess \in [Session -> Record]
  BY OneSession DEF Careful, AccountsOK, Belongs, Register, Free, At, Trees, SessionsOK
<1>2. q \in Record /\ q.at = "account" /\ q.name = u /\ q.user = Nobody /\ q.cmd = "none"
  <2>1. r.cmd = "none"
    BY <1>1 DEF Ready, InTree
  <2> QED  BY <1>1, <2>1 DEF Record, Places, Registering
<1>3. PICK ok \in Chance : ~ (ok /\ Taken(u)) /\ Query(ok)
  BY DEF Register
<1>4. ok \in BOOLEAN /\ failures' \in Nat /\ failures <= failures' /\ (~ ok => failures' > 0)
  BY <1>3, Asked DEF Register
<1>5. UNCHANGED <<accounts, rows, uses>> /\ Become(s, q)
  BY DEF Register
<1>6. sess' = [sess EXCEPT ![s] = q]
  BY <1>2, <1>5 DEF Become, Onward
<1> HIDE DEF q
<1>7. sess'[s] = q /\ \A t \in Session \ {s} : sess'[t] = sess[t]
  BY <1>1, <1>6
<1>8. \A t \in Session : /\ At(t, "root")' <=> At(t, "root")
                         /\ At(t, "root") => sess'[t] = sess[t]
  BY <1>1, <1>2, <1>7 DEF At
<1>9. (Orderly' => Orderly) /\ (failures' = 0 => failures = 0 /\ ok)
  BY <1>1, <1>4, <1>5 DEF Orderly, Separate
<1>10. Belongs'
  BY <1>1, <1>2, <1>5, <1>7 DEF Careful, AccountsOK, Belongs, InUse
<1>11. Once'
  BY <1>5, <1>8, <1>9 DEF Careful, AccountsOK, Once
<1>12. Fresh'
  <2> SUFFICES ASSUME Orderly', NEW t \in Session, At(t, "account")'
               PROVE  accounts[sess'[t].name] = 0
    BY <1>5 DEF Fresh
  <2>1. CASE t = s
    <3>1. ok /\ ~ Taken(u)
      BY <1>3, <1>9 DEF Orderly
    <3> QED  BY <2>1, <3>1, <1>1, <1>2, <1>7 DEF Taken
  <2>2. CASE t # s
    BY <2>2, <1>7, <1>9 DEF Careful, AccountsOK, Fresh, At
  <2> QED  BY <2>1, <2>2
<1>13. Stranded'
  BY <1>5, <1>8, <1>9 DEF Careful, AccountsOK, Stranded
<1>14. Clear(rows, q) /\ Firm(rows, q)
  BY <1>2 DEF Clear, Firm
<1>15. Grown(rows, rows') /\ DOMAIN rows' = DOMAIN rows /\ rows' = rows /\ ~ At(s, "below")
  BY <1>1, <1>5 DEF Grown, At
<1>16. Twins'
  BY <1>2, <1>4, <1>5, <1>6, <1>14, <1>15, TwinsKept DEF Careful
<1>17. Orphans'
  BY <1>2, <1>4, <1>5, <1>6, <1>14, <1>15, OrphansKept DEF Careful
<1> QED  BY <1>10, <1>11, <1>12, <1>13, <1>16, <1>17 DEF Careful, AccountsOK

LEMMA InsertAccountCareful ==
  ASSUME Trees, Careful, NEW s \in Session, InsertAccount(s)
  PROVE  Careful'
<1> DEFINE r == sess[s]
           q == [r EXCEPT !.at = "root"]
           u == r.name
<1>1. /\ r \in Record /\ Ready(rows, failures, r) /\ failures \in Nat /\ InUse(s, r)
      /\ r.at = "account" /\ accounts \in [User -> Nat] /\ sess \in [Session -> Record]
  BY OneSession DEF Careful, AccountsOK, Belongs, InsertAccount, At, Trees, SessionsOK
<1>2. PICK ok \in Chance :
        /\ Query(ok)
        /\ \/ /\ ok /\ ~ (UniqueNames /\ Taken(u))
              /\ accounts' = [accounts EXCEPT ![u] = @ + 1] /\ Become(s, q)
           \/ Stop(s) /\ UNCHANGED accounts
  BY DEF InsertAccount
<1>3. /\ ok \in BOOLEAN /\ failures' \in Nat /\ failures <= failures' /\ UNCHANGED <<rows, uses>>
      /\ (ok => failures' = failures)
  BY <1>2, Asked DEF InsertAccount
<1>4. CASE Stop(s) /\ UNCHANGED accounts
  BY <1>1, <1>2, <1>3, <1>4, CarefulStops DEF At, Queried
<1>5. CASE /\ ok /\ ~ (UniqueNames /\ Taken(u))
           /\ accounts' = [accounts EXCEPT ![u] = @ + 1] /\ Become(s, q)
  <2>1. q \in Record /\ q.at = "root" /\ q.name = u /\ q.user = Nobody /\ q.cmd = "none"
        /\ u \in User /\ u \in uses[s]
    <3>1. r.cmd = "none" /\ r.user = Nobody /\ u \in User /\ u \in uses[s]
      BY <1>1 DEF Ready, InTree, Registering, InUse
    <3> QED  BY <1>1, <3>1 DEF Record, Places, Registering
  <2>2. sess' = [sess EXCEPT ![s] = q]
    BY <1>5, <2>1 DEF Become, Onward
  <2> HIDE DEF q
  <2>3. sess'[s] = q /\ \A t \in Session \ {s} : sess'[t] = sess[t]
    BY <1>1, <2>2
  <2>4. accounts'[u] = accounts[u] + 1 /\ accounts[u] \in Nat
        /\ \A v \in User \ {u} : accounts'[v] = accounts[v]
    BY <1>1, <1>5, <2>1
  <2>5. (Orderly' <=> Orderly) /\ failures' = failures
    BY <1>3, <1>5 DEF Orderly, Separate
  <2>6. UniqueNames \/ Orderly => accounts[u] = 0
    BY <1>1, <1>5, <2>4 DEF Taken, Careful, AccountsOK, Fresh, At
  <2>7. Belongs'
    BY <1>1, <2>1, <1>3, <2>3 DEF Careful, AccountsOK, Belongs, InUse
  <2>8. \A t \in Session \ {s} : At(t, "root")' <=> At(t, "root")
    BY <2>3 DEF At
  <2>9. Once'
    <3> SUFFICES ASSUME UniqueNames \/ Orderly'  PROVE Once!2'
      BY DEF Once
    <3>1. Once!2 /\ accounts[u] = 0
      BY <2>5, <2>6 DEF Careful, AccountsOK, Once
    <3>2. ~ Rooted(rows, u) /\ \A t \in Session : At(t, "root") => sess[t].name # u
      BY <3>1, <2>1
    <3>3. \A v \in User : Rooted(rows', v) => accounts'[v] > 0
      BY <3>1, <2>4, <1>3
    <3>4. \A t \in Session : At(t, "root")' =>
            accounts'[sess'[t].name] > 0 /\ ~ Rooted(rows', sess'[t].name)
      <4> TAKE t \in Session
      <4>1. CASE t = s
        BY <4>1, <3>1, <3>2, <2>1, <2>3, <2>4, <1>3
      <4>2. CASE t # s
        <5>1. At(t, "root")' => sess[t].name \in User
          BY <4>2, <2>8, OneSession DEF Ready, InTree, Registering, At
        <5> QED  BY <4>2, <5>1, <3>1, <3>2, <2>3, <2>4, <2>8, <1>3
      <4> QED  BY <4>1, <4>2
    <3>5. \A t, v \in Session :
            At(t, "root")' /\ At(v, "root")' /\ sess'[t].name = sess'[v].name => t = v
      BY <3>1, <3>2, <2>1, <2>3, <2>8
    <3>6. \A i, j \in DOMAIN rows' :
            IsRoot(rows', i) /\ IsRoot(rows', j) /\ rows'[i].user = rows'[j].user => i = j
      BY <3>1, <1>3
    <3> QED  BY <3>3, <3>4, <3>5, <3>6
  <2>10. Fresh'
    <3> SUFFICES ASSUME Orderly', NEW t \in Session, At(t, "account")'
                 PROVE  accounts'[sess'[t].name] = 0
      BY DEF Fresh
    <3>1. t # s /\ sess'[t] = sess[t] /\ At(t, "account")
      BY <2>1, <2>3 DEF At
    <3>2. sess[t].name \in uses[t] /\ sess[t].name \in User
      BY <3>1, OneSession DEF Careful, AccountsOK, Belongs, InUse, Ready, InTree, Registering, At
    <3>3. sess[t].name # u
      BY <3>1, <3>2, <2>1, <2>5 DEF Orderly, Separate
    <3> QED  BY <3>1, <3>2, <3>3, <2>4, <2>5 DEF Careful, AccountsOK, Fresh
  <2>11. Stranded'
    <3> SUFFICES ASSUME failures' = 0, NEW v \in User, accounts'[v] > 0
                 PROVE  Rooted(rows', v) \/ \E t \in Session : At(t, "root")' /\ sess'[t].name = v
      BY DEF Stranded
    <3>1. CASE v = u
      BY <3>1, <2>1, <2>3 DEF At
    <3>2. CASE v # u
      <4>1. Rooted(rows, v) \/ \E t \in Session : At(t, "root") /\ sess[t].name = v
        BY <3>2, <2>4, <2>5 DEF Careful, AccountsOK, Stranded
      <4>2. ~ At(s, "root")
        BY <1>1 DEF At
      <4> QED  BY <4>1, <4>2, <2>3, <2>8, <1>3
    <3> QED  BY <3>1, <3>2
  <2>12. Clear(rows, q) /\ Firm(rows, q)
    BY <2>1 DEF Clear, Firm
  <2>13. Grown(rows, rows') /\ DOMAIN rows' = DOMAIN rows /\ rows' = rows /\ ~ At(s, "below")
    BY <1>1, <1>3 DEF Grown, At
  <2>14. Twins'
    BY <1>3, <2>1, <2>2, <2>12, <2>13, TwinsKept DEF Careful
  <2>15. Orphans'
    BY <1>3, <2>1, <2>2, <2>12, <2>13, OrphansKept DEF Careful
  <2> QED  BY <2>7, <2>9, <2>10, <2>11, <2>14, <2>15 DEF Careful, AccountsOK
<1> QED  BY <1>2, <1>4, <1>5

-----------------------------------------------------------------------------
(* Rows are added.                                                         *)

Added(f, g, x) ==
  LET n == Len(f) + 1
  IN /\ Grown(f, g) /\ DOMAIN g = DOMAIN f \cup {n} /\ n \notin DOMAIN f
     /\ g[n] = x /\ x \in Row /\ x.alive /\ \A i \in DOMAIN f : g[i] = f[i]

LEMMA AppendAdds ==
  ASSUME NEW f \in Table, NEW x \in Row, x.alive
  PROVE  Added(f, Append(f, x), x)
<1> DEFINE g == Append(f, x)
<1>1. /\ DOMAIN f = 1..Len(f) /\ Len(f) \in Nat /\ DOMAIN g = 1..(Len(f) + 1)
      /\ g[Len(f) + 1] = x /\ \A i \in 1..Len(f) : g[i] = f[i]
  BY AppendProperties DEF Table
<1>2. DOMAIN g = DOMAIN f \cup {Len(f) + 1} /\ Len(f) + 1 \notin DOMAIN f
  BY <1>1
<1> HIDE DEF g
<1> QED  BY <1>1, <1>2 DEF Added, Grown, g

LEMMA TwinsAdded ==
  ASSUME Trees, Belongs, Twins, NEW s \in Session, NEW w \in Record, sess' = [sess EXCEPT ![s] = w],
         UNCHANGED uses, failures' \in Nat, failures <= failures',
         NEW x, Added(rows, rows', x), x.user \in uses[s],
         Orderly => \A i \in Alive : rows[i].user = x.user =>
           /\ rows[i].type = "dir" /\ x.type = "dir" =>
                rows[i].pdir # x.pdir \/ rows[i].name # x.name
           /\ rows[i].type = "reg" /\ x.type = "reg" => rows[i].path # x.path,
         w.at \notin {"mkpath", "mkdir"}, w.cmd # "create"
  PROVE  Twins'
<1> SUFFICES ASSUME Orderly'  PROVE Twins!2'
  BY DEF Twins
<1>1. failures \in Nat /\ sess \in [Session -> Record]
  BY OneSession DEF Trees, SessionsOK
<1>2. Orderly
  BY <1>1 DEF Orderly, Separate
<1> DEFINE n == Len(rows) + 1
<1>3. rows'[n] = x /\ \A i \in Alive' : (i \in Alive /\ rows'[i] = rows[i]) \/ i = n
  BY DEF Added, Alive
<1>4. ASSUME NEW i \in Alive', NEW j \in Alive', i # j, rows'[i].user = rows'[j].user
      PROVE  /\ rows'[i].type = "dir" /\ rows'[j].type = "dir" =>
                  rows'[i].pdir # rows'[j].pdir \/ rows'[i].name # rows'[j].name
             /\ rows'[i].type = "reg" /\ rows'[j].type = "reg" => rows'[i].path # rows'[j].path
  <2>1. CASE i # n /\ j # n
    BY <2>1, <1>2, <1>3, <1>4 DEF Twins
  <2>2. CASE i = n \/ j = n
    <3> HIDE DEF n
    <3> QED  BY <2>2, <1>2, <1>3, <1>4
  <2> QED  BY <2>1, <2>2
<1>5. ASSUME NEW t \in Session  PROVE Clear(rows', sess'[t])
  <2>1. CASE t = s
    BY <2>1, <1>1 DEF Clear
  <2>2. CASE t # s
    <3>1. sess'[t] = sess[t] /\ Clear(rows, sess[t])
      BY <2>2, <1>1, <1>2 DEF Twins
    <3>2. x.user # sess[t].user
      <4>1. sess[t].user = Nobody \/ sess[t].user \in uses[t]
        BY DEF Belongs, InUse
      <4>2. x.user \in User
        BY DEF Added, Row
      <4> QED  BY <2>2, <4>1, <4>2, <1>2, NobodyAssumption DEF Orderly, Separate
    <3>3. \A i \in DOMAIN rows' : rows'[i].user = sess[t].user => i \in DOMAIN rows /\ rows'[i] = rows[i]
      BY <3>2 DEF Added
    <3> QED  BY <3>1, <3>3 DEF Clear
  <2> QED  BY <2>1, <2>2
<1> QED  BY <1>4, <1>5

LEMMA OrphansAdded ==
  ASSUME Trees, Belongs, Orphans, NEW s \in Session, NEW w \in Record,
         sess' = [sess EXCEPT ![s] = w], ~ At(s, "below"),
         UNCHANGED uses, failures' \in Nat, failures <= failures',
         NEW x, Added(rows, rows', x), x.user \in uses[s],
         Calm => /\ x.pdir # -1 => x.pdir \in Alive
                 /\ x.type = "dir" => \A i \in Alive : rows[i].user = x.user /\ rows[i].type = "dir" =>
                                        rows[i].path # x.path,
         w.at \in {"idle", "walk", "home"}, w.cmd # "create"
  PROVE  Orphans'
<1> SUFFICES ASSUME Calm'  PROVE Orphans!2'
  BY DEF Orphans
<1>1. failures \in Nat /\ sess \in [Session -> Record]
  BY OneSession DEF Trees, SessionsOK
<1>2. Calm
  BY <1>1 DEF Calm, Alone
<1> DEFINE n == Len(rows) + 1
<1>3. /\ rows'[n] = x /\ \A i \in Alive' : (i \in Alive /\ rows'[i] = rows[i]) \/ i = n
      /\ Alive \subseteq Alive'
  BY DEF Added, Alive
<1>4. \A t \in Session : At(t, "below") => At(t, "below")' /\ sess'[t] = sess[t]
  BY <1>1 DEF At
<1>5. ASSUME NEW i \in Alive', Plain(rows'[i].path), ~ IsRoot(rows', i)  PROVE Held(i)'
  <2>1. CASE i \in Alive /\ rows'[i] = rows[i]
    <3>1. Held(i)
      BY <2>1, <1>2, <1>5 DEF Orphans, IsRoot
    <3> QED  BY <2>1, <3>1, <1>3, <1>4 DEF Held
  <2>2. CASE i = n
    BY <2>2, <1>2, <1>3, <1>5 DEF Held, IsRoot
  <2> QED  BY <2>1, <2>2, <1>3
<1>6. ASSUME NEW i \in Alive', NEW j \in Alive', i # j, rows'[i].user = rows'[j].user,
             rows'[i].type = "dir", rows'[j].type = "dir"
      PROVE  rows'[i].path # rows'[j].path
  <2>1. CASE i # n /\ j # n
    BY <2>1, <1>2, <1>3, <1>6 DEF Orphans
  <2>2. CASE i = n \/ j = n
    <3> HIDE DEF n
    <3> QED  BY <2>2, <1>2, <1>3, <1>6
  <2> QED  BY <2>1, <2>2
<1>7. ASSUME NEW t \in Session  PROVE Firm(rows', sess'[t])
  <2>1. CASE t = s
    BY <2>1, <1>1 DEF Firm
  <2>2. CASE t # s
    <3>1. sess'[t] = sess[t] /\ sess[t].at = "idle"
      BY <2>2, <1>1, <1>2, OthersIdle DEF Calm
    <3> QED  BY <3>1 DEF Firm
  <2> QED  BY <2>1, <2>2
<1> QED  BY <1>5, <1>6, <1>7

\* A row below a directory of the session's user.
LEMMA CarefulAdds ==
  ASSUME Trees, Careful, NEW s \in Session, NEW q \in Record, Become(s, q),
         UNCHANGED <<accounts, uses>>, failures' \in Nat, failures <= failures',
         NEW x, Added(rows, rows', x), x.pdir # -1, x.user = sess[s].user,
         q.user = sess[s].user, q.at \in {"walk", "idle"}, q.cmd # "create",
         sess[s].at \notin Registering \cup {"below"},
         Orderly => \A i \in Alive : rows[i].user = x.user =>
           /\ rows[i].type = "dir" /\ x.type = "dir" =>
                rows[i].pdir # x.pdir \/ rows[i].name # x.name
           /\ rows[i].type = "reg" /\ x.type = "reg" => rows[i].path # x.path,
         Calm => /\ x.pdir # -1 => x.pdir \in Alive
                 /\ x.type = "dir" => \A i \in Alive : rows[i].user = x.user /\ rows[i].type = "dir" =>
                                        rows[i].path # x.path,
         Onward(q).at \in {"walk", "idle"}
  PROVE  Careful'
<1> DEFINE w == Onward(q)
<1>1. /\ Belongs /\ InUse(s, q) /\ x.user \in uses[s]
  <2>1. Belongs /\ InUse(s, sess[s])
    BY DEF Careful, AccountsOK, Belongs
  <2>2. x.user \in User
    BY DEF Added, Row
  <2> QED  BY <2>1, <2>2, NobodyAssumption DEF InUse, Registering
<1>2. w \in Record /\ InUse(s, w) /\ w.at \in {"walk", "idle"}
  BY <1>1, OnwardUse
<1>3. w.cmd # "create"
  BY <1>2, OnwardForms DEF Record
<1>4. sess' = [sess EXCEPT ![s] = w]
  BY DEF Become
<1> HIDE DEF w
<1>5. AccountsOK'
  <2>1. Grown(rows, rows') /\ \A i \in DOMAIN rows' : i \in DOMAIN rows \/ ~ IsRoot(rows', i)
    BY DEF Added, IsRoot
  <2> QED  BY <1>2, <1>4, <2>1, AccountsKept DEF Careful, At, Registering
<1>6. Twins'
  BY <1>1, <1>2, <1>3, <1>4, TwinsAdded DEF Careful
<1>7. Orphans'
  BY <1>1, <1>2, <1>3, <1>4, OrphansAdded DEF Careful, At
<1> QED  BY <1>5, <1>6, <1>7 DEF Careful

LEMMA InsertRootCareful ==
  ASSUME Trees, Careful, NEW s \in Session, InsertRoot(s)
  PROVE  Careful'
<1> DEFINE r == sess[s]
           q == [r EXCEPT !.at = "home"]
           u == r.name
           x == NewRow("/", u, -1, <<>>, "dir")
<1>1. /\ r \in Record /\ Ready(rows, failures, r) /\ failures \in Nat /\ InUse(s, r)
      /\ r.at = "root" /\ accounts \in [User -> Nat] /\ sess \in [Session -> Record]
      /\ rows \in Table /\ Belongs
  BY OneSession DEF Careful, AccountsOK, Belongs, InsertRoot, At, Trees, SessionsOK
<1>2. PICK ok \in Chance :
        /\ Query(ok)
        /\ \/ ok /\ rows' = Append(rows, x) /\ Become(s, q)
           \/ ~ ok /\ Stop(s) /\ UNCHANGED rows
  BY DEF InsertRoot
<1>3. /\ ok \in BOOLEAN /\ failures' \in Nat /\ failures <= failures'
      /\ UNCHANGED <<accounts, uses>>
      /\ (ok => failures' = failures) /\ (~ ok => failures' > 0)
  BY <1>2, Asked DEF InsertRoot
<1>4. CASE ~ ok /\ Stop(s) /\ UNCHANGED rows
  BY <1>1, <1>2, <1>3, <1>4, CarefulStops DEF At, Queried
<1>5. CASE ok /\ rows' = Append(rows, x) /\ Become(s, q)
  <2>1. r.cmd = "none" /\ r.user = Nobody /\ u \in User /\ u \in uses[s]
    BY <1>1 DEF Ready, InTree, Registering, InUse
  <2>2. q \in Record /\ q.at = "home" /\ q.name = u /\ q.user = Nobody /\ q.cmd = "none"
    BY <1>1, <2>1 DEF Record, Places, Registering
  <2>3. x \in Row /\ x.pdir = -1 /\ x.alive /\ x.type = "dir" /\ x.path = <<>> /\ x.user = u
        /\ x.name = "/"
    <3>1. <<>> \in Text /\ "/" \in Name /\ -1 \in Int /\ "dir" \in {"dir", "reg"}
      BY DEF Text, Name
    <3> QED  BY <2>1, <3>1, RowAdded
  <2>4. sess' = [sess EXCEPT ![s] = q]
    BY <1>5, <2>2 DEF Become, Onward
  <2>5. Added(rows, rows', x)
    <3> HIDE DEF x
    <3> QED  BY <1>1, <1>5, <2>3, AppendAdds
  <2> DEFINE n == Len(rows) + 1
  <2>6. /\ DOMAIN rows' = DOMAIN rows \cup {n} /\ rows'[n].pdir = -1 /\ rows'[n].user = u
        /\ \A i \in DOMAIN rows : rows'[i] = rows[i]
    BY <2>3, <2>5 DEF Added
  <2> HIDE DEF q, x, n
  <2>7. sess'[s] = q /\ \A t \in Session \ {s} : sess'[t] = sess[t]
    BY <1>1, <2>4
  <2>8. (Orderly' <=> Orderly) /\ failures' = failures
    BY <1>3, <1>5 DEF Orderly, Separate
  <2>9. \A v : Rooted(rows', v) <=> Rooted(rows, v) \/ v = u
    BY <2>6 DEF Rooted, IsRoot
  <2>10. \A t \in Session : At(t, "root")' => t # s /\ At(t, "root") /\ sess'[t] = sess[t]
    BY <2>2, <2>7 DEF At
  <2>11. Belongs'
    BY <1>1, <1>3, <2>1, <2>2, <2>7 DEF Belongs, InUse
  <2>12. UniqueNames \/ Orderly => Once!2 /\ ~ Rooted(rows, u)
    BY <1>1 DEF Careful, AccountsOK, Once, At
  <2>13. Once'
    <3> SUFFICES ASSUME UniqueNames \/ Orderly'  PROVE Once!2'
      BY DEF Once
    <3>1. Once!2 /\ ~ Rooted(rows, u)
      BY <2>8, <2>12
    <3>2. accounts[u] > 0
      BY <3>1, <1>1 DEF At
    <3>3. \A i, j \in DOMAIN rows' :
            IsRoot(rows', i) /\ IsRoot(rows', j) /\ rows'[i].user = rows'[j].user => i = j
      BY <3>1, <2>6 DEF Rooted, IsRoot
    <3>4. \A v \in User : Rooted(rows', v) => accounts'[v] > 0
      BY <3>1, <3>2, <2>9, <1>3
    <3>5. \A t \in Session : At(t, "root")' =>
            accounts'[sess'[t].name] > 0 /\ ~ Rooted(rows', sess'[t].name)
      <4> TAKE t \in Session
      <4>1. At(t, "root")' => sess[t].name # u
        BY <3>1, <2>10, <1>1 DEF At
      <4> QED  BY <4>1, <3>1, <2>9, <2>10, <1>3
    <3>6. \A t, v \in Session :
            At(t, "root")' /\ At(v, "root")' /\ sess'[t].name = sess'[v].name => t = v
      BY <3>1, <2>10
    <3> QED  BY <3>3, <3>4, <3>5, <3>6
  <2>14. Fresh'
    <3>1. \A t \in Session : At(t, "account")' => At(t, "account") /\ sess'[t] = sess[t]
      BY <2>2, <2>7 DEF At
    <3> QED  BY <3>1, <2>8, <1>3 DEF Careful, AccountsOK, Fresh
  <2>15. Stranded'
    <3> SUFFICES ASSUME failures' = 0, NEW v \in User, accounts'[v] > 0
                 PROVE  Rooted(rows', v) \/ \E t \in Session : At(t, "root")' /\ sess'[t].name = v
      BY DEF Stranded
    <3>1. Rooted(rows, v) \/ \E t \in Session : At(t, "root") /\ sess[t].name = v
      BY <2>8, <1>3 DEF Careful, AccountsOK, Stranded
    <3>2. \A t \in Session \ {s} : At(t, "root") => At(t, "root")' /\ sess'[t] = sess[t]
      BY <2>7 DEF At
    <3> QED  BY <3>1, <3>2, <2>9
  <2>16. Orderly => \A i \in Alive : rows[i].user = x.user =>
           /\ rows[i].type = "dir" /\ x.type = "dir" =>
                rows[i].pdir # x.pdir \/ rows[i].name # x.name
           /\ rows[i].type = "reg" /\ x.type = "reg" => rows[i].path # x.path
    BY <2>3, <2>12 DEF Alive, Rooted, IsRoot
  <2>17. Twins'
    BY <1>1, <1>3, <2>1, <2>2, <2>3, <2>4, <2>5, <2>16, TwinsAdded DEF Careful
  <2>18. Calm => \A i \in Alive : rows[i].user = x.user /\ rows[i].type = "dir" =>
                   rows[i].path # x.path
    <3> SUFFICES ASSUME Calm, NEW i \in Alive, rows[i].user = u, rows[i].type = "dir",
                        rows[i].path = <<>>
                 PROVE  FALSE
      BY <2>3
    <3>1. i \in DOMAIN rows /\ RowOK(rows, i) /\ rows \in Seq(Row)
      BY <1>1 DEF Alive, Table
    <3>2. IsRoot(rows, i)
      <4> SUFFICES ASSUME ~ IsRoot(rows, i)  PROVE FALSE
        OBVIOUS
      <4>1. /\ rows[i].path = Append(rows[rows[i].pdir].path, rows[i].name)
            /\ rows[i].pdir \in DOMAIN rows
        BY <3>1 DEF RowOK, IsDir, Below
      <4>2. rows[rows[i].pdir].path \in Text
        BY <3>1, <4>1, ElementOfRow
      <4> QED  BY <4>1, <4>2 DEF Text
    <3>3. Orderly
      BY Separated DEF Calm, Orderly
    <3> QED  BY <3>1, <3>2, <3>3, <2>12 DEF Rooted
  <2>19. Orphans'
    BY <1>1, <1>3, <2>1, <2>2, <2>3, <2>4, <2>5, <2>18, OrphansAdded DEF Careful, At
  <2> QED  BY <2>11, <2>13, <2>14, <2>15, <2>17, <2>19 DEF Careful, AccountsOK
<1> QED  BY <1>2, <1>4, <1>5

\* A directory has a path of its own, the root the empty one.
LEMMA PathOfDir ==
  ASSUME Trees, NEW i \in DOMAIN rows, rows[i].type = "dir",
         NEW p \in Text, NEW m \in STRING, rows[i].path = Append(p, m)
  PROVE  /\ ~ IsRoot(rows, i) /\ rows[i].pdir \in DOMAIN rows
         /\ rows[rows[i].pdir].path = p /\ rows[i].name = m
         /\ rows[rows[i].pdir].type = "dir" /\ rows[rows[i].pdir].user = rows[i].user
<1>1. rows \in Seq(Row) /\ RowOK(rows, i)
  BY DEF Trees, Table
<1>2. ~ IsRoot(rows, i)
  BY <1>1, TextFacts DEF RowOK
<1>3. /\ rows[i].pdir \in DOMAIN rows /\ rows[i].path = Append(rows[rows[i].pdir].path, rows[i].name)
      /\ rows[rows[i].pdir].type = "dir" /\ rows[rows[i].pdir].user = rows[i].user
  BY <1>1, <1>2 DEF RowOK, IsDir, Below
<1>4. rows[rows[i].pdir].path \in Seq(Name) /\ rows[i].name \in Name /\ p \in Seq(Name) /\ m \in Name
  <2>1. rows[rows[i].pdir].path \in Text /\ rows[i] \in Row
    BY <1>1, <1>3, ElementOfRow
  <2>2. STRING \subseteq Name
    BY DEF Name
  <2>3. Text \subseteq Seq(Name)
    BY <2>2, SeqMonotonic DEF Text
  <2> QED  BY <2>1, <2>2, <2>3 DEF Row
<1>5. rows[rows[i].pdir].path = p /\ rows[i].name = m
  <2>1. Append(rows[rows[i].pdir].path, rows[i].name) = Append(p, m)
    BY <1>3
  <2>2. PICK p0 \in Seq(Name) : p0 = rows[rows[i].pdir].path
    BY <1>4
  <2>3. PICK m0 \in Name : m0 = rows[i].name
    BY <1>4
  <2>4. Append(p0, m0) = Append(p, m)
    BY <2>1, <2>2, <2>3
  <2>5. p0 = p /\ m0 = m
    BY <1>4, <2>4, OneAppend
  <2> QED  BY <2>2, <2>3, <2>5
<1> QED  BY <1>2, <1>3, <1>5

LEMMA MkdirCareful ==
  ASSUME Trees, Careful, NEW s \in Session, Mkdir(s)
  PROVE  Careful'
<1> DEFINE r == sess[s]
           x == NewRow(Head(r.todo), r.user, r.cur, r.text, "dir")
           q == [r EXCEPT !.at = "walk", !.todo = Tail(@), !.cur = Len(rows) + 1]
<1>1. /\ r \in Record /\ Ready(rows, failures, r) /\ r.at = "mkdir" /\ At(s, "mkdir")
      /\ rows \in Table /\ rows \in Seq(Row) /\ failures \in Nat /\ Belongs
  BY OneSession DEF Mkdir, At, Careful, AccountsOK
<1>2. PICK ok \in Chance : Query(ok)
  BY DEF Mkdir
<1>3. UNCHANGED <<accounts, uses>> /\ failures' \in Nat /\ failures <= failures'
  BY <1>2, Asked DEF Mkdir
<1>4. CASE Stop(s) /\ UNCHANGED rows
  BY <1>1, <1>2, <1>3, <1>4, CarefulStops DEF At, Queried
<1>5. CASE rows' = Append(rows, x) /\ Become(s, q)
  <2>1. /\ r.cur # 0 /\ IsDir(rows, r.cur, r.user) /\ r.user # Nobody /\ r.user \in User
        /\ r.cmd = "mkdir" /\ r.todo # <<>> /\ r.text = Append(rows[r.cur].path, Head(r.todo))
        /\ r.text \in Text /\ r.todo \in Text /\ r.cur \in Nat
    BY <1>1 DEF Ready, InTree, ForDirs, Record, Registering, Chosen, Below
  <2>2. Head(r.todo) \in STRING /\ Tail(r.todo) \in Text /\ rows[r.cur].path \in Text
    BY <1>1, <2>1, TextParts, ElementOfRow DEF IsDir
  <2>3. /\ x \in Row /\ x.name = Head(r.todo) /\ x.user = r.user /\ x.pdir = r.cur
        /\ x.path = r.text /\ x.type = "dir" /\ x.alive
    <3>1. PICK m \in Name : m = Head(r.todo)
      BY <2>2 DEF Name
    <3>2. x = NewRow(m, r.user, r.cur, r.text, "dir") /\ r.cur \in Int
      BY <2>1, <3>1
    <3>3. r.user \in User /\ r.text \in Text
      BY <2>1
    <3> HIDE DEF x, r
    <3> QED  BY <3>1, <3>2, <3>3, RowAdded
  <2> HIDE DEF x
  <2>4. Added(rows, rows', x)
    BY <1>1, <1>5, <2>3, AppendAdds
  <2>5. q \in Record /\ q.at = "walk" /\ q.user = r.user /\ q.cmd = "mkdir"
    <3>1. Len(rows) + 1 \in Nat
      BY <1>1
    <3> QED  BY <1>1, <2>1, <2>2, <3>1 DEF Record, Places
  <2>6. Onward(q).at \in {"walk", "idle"}
    <3> HIDE DEF q
    <3> QED  BY <2>5 DEF Onward, Finish, Idle
  <2>7. Orderly => \A i \in Alive : rows[i].user = r.user /\ rows[i].type = "dir" =>
          rows[i].pdir # r.cur \/ rows[i].name # Head(r.todo)
    BY <1>1 DEF Careful, Twins, Clear, Alive
  <2>8. ASSUME Calm, NEW i \in Alive, rows[i].user = r.user, rows[i].type = "dir",
               rows[i].path = r.text
        PROVE  FALSE
    <3>1. i \in DOMAIN rows /\ RowOK(rows, i) /\ r.cur \in Alive
      BY <1>1, <2>8 DEF Alive, Table, Careful, Orphans, Firm
    <3>2. /\ ~ IsRoot(rows, i) /\ rows[i].name = Head(r.todo)
          /\ rows[rows[i].pdir].path = rows[r.cur].path /\ rows[rows[i].pdir].type = "dir"
          /\ rows[rows[i].pdir].user = r.user
      <4>1. PICK m \in STRING : m = Head(r.todo)
        BY <2>2
      <4>2. PICK p \in Text : p = rows[r.cur].path
        BY <2>2
      <4>3. rows[i].path = Append(p, m) /\ i \in DOMAIN rows /\ rows[i].type = "dir"
            /\ rows[i].user = r.user
        BY <2>1, <2>8, <3>1, <4>1, <4>2
      <4>4. /\ ~ IsRoot(rows, i) /\ rows[rows[i].pdir].path = p /\ rows[i].name = m
            /\ rows[rows[i].pdir].type = "dir" /\ rows[rows[i].pdir].user = rows[i].user
        <5> HIDE DEF r
        <5>1. rows[i].path = Append(p, m) /\ i \in DOMAIN rows /\ rows[i].type = "dir"
          BY <4>3
        <5>2. m \in STRING /\ p \in Text
          BY <4>1, <4>2
        <5> QED  BY <5>1, <5>2, PathOfDir
      <4> HIDE DEF r
      <4> QED  BY <4>1, <4>2, <4>3, <4>4
    <3>3. uses[s] # {}
      BY <1>1, <2>1 DEF Belongs, InUse
    <3>4. Held(i) /\ \A t \in Session : ~ At(t, "below")
      <4>1. Held(i)
        BY <2>8, <3>1, <3>2 DEF Careful, Orphans, RowOK
      <4>2. \A t \in Session \ {s} : ~ At(t, "below")
        BY <1>1, <2>8, <3>3, OthersIdle DEF At, Calm
      <4> QED  BY <4>1, <4>2, <1>1 DEF At
    <3>5. rows[i].pdir \in Alive
      BY <3>4 DEF Held
    <3>6. rows[i].pdir = r.cur
      BY <2>1, <2>8, <3>1, <3>2, <3>5 DEF Careful, Orphans, IsDir
    <3>7. Orderly
      BY <2>8, Separated DEF Calm, Orderly
    <3> QED  BY <2>7, <2>8, <3>2, <3>6, <3>7
  <2>9. Calm => r.cur \in Alive
    BY <1>1 DEF Careful, Orphans, Firm, Alive
  <2>10. x.pdir # -1
    <3>1. r.cur \in Nat /\ x.pdir = r.cur
      BY <2>1, <2>3
    <3> HIDE DEF x, r
    <3> QED  BY <3>1
  <2>11. Orderly => \A i \in Alive : rows[i].user = x.user =>
           /\ rows[i].type = "dir" /\ x.type = "dir" =>
                rows[i].pdir # x.pdir \/ rows[i].name # x.name
           /\ rows[i].type = "reg" /\ x.type = "reg" => rows[i].path # x.path
    BY <2>3, <2>7
  <2>12. Calm => /\ x.pdir # -1 => x.pdir \in Alive
                 /\ x.type = "dir" => \A i \in Alive : rows[i].user = x.user /\ rows[i].type = "dir" =>
                                        rows[i].path # x.path
    BY <2>3, <2>8, <2>9
  <2> HIDE DEF q
  <2>13. r.at \notin Registering \cup {"below"}
    BY <1>1 DEF Registering
  <2> QED  BY <1>3, <1>5, <2>3, <2>4, <2>5, <2>6, <2>10, <2>11, <2>12, <2>13, CarefulAdds
<1> QED  BY <1>4, <1>5 DEF Mkdir

LEMMA InsertFileCareful ==
  ASSUME Trees, Careful, NEW s \in Session, InsertFile(s)
  PROVE  Careful'
<1> DEFINE r == sess[s]
           x == NewRow(r.name, r.user, r.cur, r.text, "reg")
           q == Finish(r)
<1>1. /\ r \in Record /\ Ready(rows, failures, r) /\ r.at = "insert" /\ At(s, "insert")
      /\ rows \in Table /\ failures \in Nat /\ q \in Record
  BY OneSession DEF InsertFile, At
<1>2. PICK ok \in Chance : Query(ok)
  BY DEF InsertFile
<1>3. /\ UNCHANGED <<accounts, uses>> /\ failures' \in Nat /\ failures <= failures'
      /\ Stop(s)
  BY <1>2, Asked DEF InsertFile
<1>4. CASE UNCHANGED rows
  BY <1>1, <1>2, <1>3, <1>4, CarefulStops DEF At, Queried
<1>5. CASE rows' = Append(rows, x)
  <2>1. /\ r.cur # 0 /\ r.user \in User /\ r.name \in STRING /\ r.cmd = "create"
        /\ r.text \in Text /\ r.cur \in Nat
    BY <1>1 DEF Ready, InTree, ForFiles, Record, Registering, Chosen
  <2>2. /\ x \in Row /\ x.name = r.name /\ x.user = r.user /\ x.pdir = r.cur
        /\ x.path = r.text /\ x.type = "reg" /\ x.alive
    <3>1. r.name \in Name /\ r.cur \in Int
      BY <2>1 DEF Name
    <3> QED  BY <2>1, <3>1, RowAdded
  <2> HIDE DEF x
  <2>3. Added(rows, rows', x)
    BY <1>1, <1>5, <2>2, AppendAdds
  <2>4. q.at = "idle" /\ q.user = r.user /\ q.cmd = "none" /\ Onward(q).at = "idle" /\ Become(s, q)
    BY <1>3 DEF Finish, Idle, Onward, Stop
  <2>5. Orderly => \A i \in Alive : rows[i].user = x.user =>
           /\ rows[i].type = "dir" /\ x.type = "dir" =>
                rows[i].pdir # x.pdir \/ rows[i].name # x.name
           /\ rows[i].type = "reg" /\ x.type = "reg" => rows[i].path # x.path
    BY <2>1, <2>2 DEF Careful, Twins, Clear, Alive
  <2>6. Calm => r.cur \in Alive
    BY <1>1 DEF Careful, Orphans, Firm, Alive
  <2>7. Calm => /\ x.pdir # -1 => x.pdir \in Alive
                /\ x.type = "dir" => \A i \in Alive : rows[i].user = x.user /\ rows[i].type = "dir" =>
                                       rows[i].path # x.path
    BY <2>2, <2>6
  <2>8. x.pdir # -1 /\ r.at \notin Registering \cup {"below"}
    BY <1>1, <2>1, <2>2 DEF Registering
  <2> HIDE DEF q
  <2> QED  BY <1>1, <1>3, <2>2, <2>3, <2>4, <2>5, <2>7, <2>8, CarefulAdds
<1> QED  BY <1>4, <1>5 DEF InsertFile

-----------------------------------------------------------------------------
(* Rows are marked.                                                        *)

LEMMA CarefulMarks ==
  ASSUME Trees, Careful, NEW s \in Session, NEW q \in Record, Become(s, q),
         UNCHANGED <<accounts, uses>>, Queried,
         Grown(rows, rows'), DOMAIN rows' = DOMAIN rows,
         \A i \in DOMAIN rows : rows'[i].alive => rows[i].alive,
         q.at \in {"idle", "below"}, q.cmd # "create", q.user = sess[s].user,
         sess[s].user # Nobody,
         Calm' => \A i \in Alive' : Plain(rows[i].path) /\ ~ IsRoot(rows, i) =>
                    rows[i].pdir \in Alive' \/ (q.at = "below" /\ q.cur = rows[i].pdir),
         Calm' /\ q.at = "below" => \A i \in Alive' :
                    rows[i].user = q.user /\ rows[i].type = "dir" => rows[i].path # q.text
  PROVE  Careful'
<1>1. failures \in Nat /\ failures' \in Nat /\ failures <= failures' /\ sess \in [Session -> Record]
  BY Asked DEF Queried, Trees, SessionsOK
<1>2. Belongs /\ InUse(s, q) /\ uses[s] # {} /\ ~ At(s, "root")
  BY OneSession DEF Careful, AccountsOK, Belongs, InUse, Registering, Ready, InTree, At
<1>3. sess' = [sess EXCEPT ![s] = q] /\ sess'[s] = q /\ \A t \in Session \ {s} : sess'[t] = sess[t]
  BY <1>1 DEF Become, Onward
<1>4. AccountsOK'
  BY <1>1, <1>2, <1>3, AccountsKept DEF Careful
<1>5. Clear(rows, q)
  BY DEF Clear
<1>6. Twins'
  BY <1>1, <1>3, <1>5, TwinsKept DEF Careful
<1>7. Orphans'
  <2> SUFFICES ASSUME Calm'  PROVE Orphans!2'
    BY DEF Orphans
  <2>1. Calm
    BY <1>1 DEF Calm, Alone
  <2>2. \A i \in Alive' : i \in Alive /\ rows'[i].user = rows[i].user /\ rows'[i].pdir = rows[i].pdir
          /\ rows'[i].path = rows[i].path /\ rows'[i].type = rows[i].type
    BY DEF Alive, Grown
  <2>3. \A i \in Alive' : Plain(rows'[i].path) /\ ~ IsRoot(rows', i) => Held(i)'
    BY <1>3, <2>2 DEF Held, IsRoot, At
  <2>4. \A i, j \in Alive' : /\ i # j /\ rows'[i].user = rows'[j].user
                             /\ rows'[i].type = "dir" /\ rows'[j].type = "dir"
                             => rows'[i].path # rows'[j].path
    BY <2>1, <2>2 DEF Careful, Orphans
  <2>5. \A t \in Session : Firm(rows', sess'[t])
    <3>1. \A t \in Session \ {s} : sess'[t].at = "idle"
      BY <1>2, <1>3, <2>1, OthersIdle DEF Calm
    <3>2. Firm(rows', q)
      <4>1. \A i \in DOMAIN rows' : rows'[i].alive => i \in Alive'
        BY DEF Alive
      <4> QED  BY <2>2, <4>1 DEF Firm
    <3> QED  BY <1>3, <3>1, <3>2 DEF Firm
  <2> QED  BY <2>3, <2>4, <2>5
<1> QED  BY <1>4, <1>6, <1>7 DEF Careful

\* With no failure, a live row below another session's removal does not occur.
LEMMA ParentAlive ==
  ASSUME Trees, Careful, NEW s \in Session, sess[s].user # Nobody, ~ At(s, "below"), Calm,
         NEW i \in Alive, Plain(rows[i].path), ~ IsRoot(rows, i)
  PROVE  rows[i].pdir \in Alive
<1>1. Held(i)
  BY DEF Careful, Orphans
<1>2. Belongs /\ uses[s] # {}
  BY DEF Careful, AccountsOK, Belongs, InUse
<1>3. \A t \in Session : ~ At(t, "below")
  BY <1>2, OthersIdle DEF At, Calm
<1> QED  BY <1>1, <1>3 DEF Held

LEMMA RmdirCareful ==
  ASSUME Trees, Careful, NEW s \in Session, Rmdir(s)
  PROVE  Careful'
<1> DEFINE r == sess[s]
           q == Finish(r)
<1>1. /\ r \in Record /\ Ready(rows, failures, r) /\ r.at = "rmdir" /\ At(s, "rmdir")
      /\ rows \in Table /\ rows \in Seq(Row) /\ q \in Record
  BY OneSession DEF Rmdir, At
<1>2. PICK ok \in Chance :
        Query(ok) /\ rows' = IF ok THEN [rows EXCEPT ![r.cur].alive = FALSE] ELSE rows
  BY DEF Rmdir
<1>3. Stop(s) /\ UNCHANGED <<accounts, uses>> /\ Queried
  BY <1>2 DEF Rmdir, Queried
<1>4. CASE UNCHANGED rows
  BY <1>1, <1>3, <1>4, CarefulStops DEF At
<1>5. CASE rows' = [rows EXCEPT ![r.cur].alive = FALSE]
  <2>1. r.cur \in DOMAIN rows /\ ~ IsRoot(rows, r.cur) /\ r.user # Nobody
    BY <1>1 DEF Ready, InTree, Chosen, Registering, IsDir
  <2>2. /\ Grown(rows, rows') /\ DOMAIN rows' = DOMAIN rows /\ ~ rows'[r.cur].alive
        /\ \A i \in DOMAIN rows \ {r.cur} : rows'[i] = rows[i]
    BY <1>1, <1>5, <2>1, MarkRow
  <2>3. q.at = "idle" /\ q.cmd = "none" /\ q.user = r.user /\ Become(s, q)
    BY <1>3 DEF Finish, Idle, Stop
  <2>4. \A i \in DOMAIN rows : rows'[i].alive => rows[i].alive
    BY <2>1, <2>2
  <2>5. ASSUME Calm', NEW i \in Alive', Plain(rows[i].path), ~ IsRoot(rows, i)
        PROVE  rows[i].pdir \in Alive'
    <3>1. Calm
      BY <2>5, <1>2, <1>3, Asked DEF Calm, Alone
    <3>2. i \in Alive
      BY <2>2, <2>4 DEF Alive
    <3>3. rows[i].pdir \in Alive
      BY <1>1, <2>1, <2>5, <3>1, <3>2, ParentAlive DEF At
    <3>4. rows[i].pdir # r.cur
      BY <1>1, <3>1, <3>2 DEF Careful, Orphans, Firm, Alive
    <3> QED  BY <2>2, <3>3, <3>4 DEF Alive
  <2> HIDE DEF q
  <2> QED  BY <1>1, <1>3, <2>1, <2>2, <2>3, <2>4, <2>5, CarefulMarks
<1> QED  BY <1>2, <1>4, <1>5

LEMMA RemoveSelfCareful ==
  ASSUME Trees, Careful, NEW s \in Session, RemoveSelf(s)
  PROVE  Careful'
<1> DEFINE r == sess[s]
           q == [r EXCEPT !.at = "below"]
<1>1. /\ r \in Record /\ Ready(rows, failures, r) /\ r.at = "self" /\ At(s, "self")
      /\ rows \in Table /\ rows \in Seq(Row)
  BY OneSession DEF RemoveSelf, At
<1>2. PICK ok \in Chance : Query(ok)
  BY DEF RemoveSelf
<1>3. UNCHANGED <<accounts, uses>> /\ Queried
  BY <1>2 DEF RemoveSelf, Queried
<1>4. CASE Stop(s) /\ UNCHANGED rows
  BY <1>1, <1>3, <1>4, CarefulStops DEF At
<1>5. CASE rows' = [rows EXCEPT ![r.cur].alive = FALSE] /\ Become(s, q)
  <2>1. r.cur \in DOMAIN rows /\ ~ IsRoot(rows, r.cur) /\ r.user # Nobody /\ r.cmd # "create"
    BY <1>1 DEF Ready, InTree, ForDirs, Chosen, Registering, IsDir
  <2>2. /\ Grown(rows, rows') /\ DOMAIN rows' = DOMAIN rows /\ ~ rows'[r.cur].alive
        /\ \A i \in DOMAIN rows \ {r.cur} : rows'[i] = rows[i]
    BY <1>1, <1>5, <2>1, MarkRow
  <2>3. /\ q \in Record /\ q.at = "below" /\ q.cmd # "create" /\ q.user = r.user /\ q.cur = r.cur
    BY <1>1, <2>1 DEF Record, Places, Chosen
  <2>4. \A i \in DOMAIN rows : rows'[i].alive => rows[i].alive
    BY <2>1, <2>2
  <2>5. ASSUME Calm', NEW i \in Alive', Plain(rows[i].path), ~ IsRoot(rows, i)
        PROVE  rows[i].pdir \in Alive' \/ rows[i].pdir = r.cur
    <3>1. Calm
      BY <2>5, <1>2, <1>3, Asked DEF Calm, Alone
    <3>2. i \in Alive
      BY <2>2, <2>4 DEF Alive
    <3>3. rows[i].pdir \in Alive
      BY <1>1, <2>1, <2>5, <3>1, <3>2, ParentAlive DEF At
    <3> QED  BY <2>2, <3>3 DEF Alive
  <2>6. ASSUME Calm', NEW i \in Alive', rows[i].user = r.user, rows[i].type = "dir"
        PROVE  rows[i].path # r.text
    <3>1. Calm
      BY <2>6, <1>2, <1>3, Asked DEF Calm, Alone
    <3>2. i \in Alive /\ i # r.cur
      BY <2>2, <2>4 DEF Alive
    <3>3. r.cur \in Alive
      BY <1>1, <3>1 DEF Careful, Orphans, Firm, Alive
    <3>4. rows[r.cur].user = r.user /\ rows[r.cur].type = "dir" /\ r.text = rows[r.cur].path
      BY <1>1 DEF Ready, InTree, ForDirs, Chosen, IsDir
    <3> QED  BY <2>6, <3>1, <3>2, <3>3, <3>4 DEF Careful, Orphans
  <2>7. q.text = r.text
    BY <1>1 DEF Record
  <2> HIDE DEF q
  <2>8. Calm' => \A i \in Alive' : rows[i].user = q.user /\ rows[i].type = "dir" =>
                   rows[i].path # q.text
    BY <2>3, <2>6, <2>7
  <2> QED  BY <1>1, <1>3, <1>5, <2>1, <2>2, <2>3, <2>4, <2>5, <2>8, CarefulMarks
<1> QED  BY <1>4, <1>5 DEF RemoveSelf

\* The pattern of a removal takes the children of what it takes, and of the
\* directory itself.
LEMMA LikeBelow ==
  ASSUME NEW p \in Text, NEW q \in Text, NEW m, q = p \/ Like(p, q), Append(q, m) \in Text
  PROVE  Like(p, Append(q, m))
<1>1. /\ Len(Append(q, m)) = Len(q) + 1 /\ Len(q) \in Nat /\ Len(p) \in Nat
      /\ \A i \in 1..Len(q) : Append(q, m)[i] = q[i]
      /\ DOMAIN p = 1..Len(p)
  BY DEF Text
<1>2. CASE q = p
  <2>1. \A i \in DOMAIN p : p[i] = Append(q, m)[i]
    BY <1>1, <1>2
  <2> QED  BY <1>1, <1>2, <2>1 DEF Like, LikeEach, LikeName
<1>3. CASE LikeEach(p, q)
  BY <1>1, <1>3 DEF Like, LikeEach
<1>4. CASE LikeAcross(p, q)
  <2>1. PICK ends \in [0..Len(p) -> 0..Len(q)] :
          /\ ends[0] = 0 /\ ends[Len(p)] < Len(q)
          /\ \A i \in 1..Len(p) :
               /\ ends[i - 1] < ends[i]
               /\ p[i] \in Many \/ (ends[i] = ends[i - 1] + 1 /\ LikeName(p[i], q[ends[i]]))
    BY <1>4 DEF LikeAcross
  <2>2. ends \in [0..Len(p) -> 0..Len(Append(q, m))] /\ ends[Len(p)] < Len(Append(q, m))
    BY <1>1, <2>1
  <2>3. ASSUME NEW i \in 1..Len(p), p[i] \notin Many
        PROVE  ends[i] = ends[i - 1] + 1 /\ LikeName(p[i], Append(q, m)[ends[i]])
    <3>1. ends[i - 1] \in 0..Len(q) /\ ends[i] \in 0..Len(q)
      BY <1>1, <2>1
    <3>2. ends[i] \in 1..Len(q)
      BY <1>1, <2>1, <2>3, <3>1
    <3> QED  BY <1>1, <2>1, <2>3, <3>2
  <2>4. \A i \in 1..Len(p) :
          /\ ends[i - 1] < ends[i]
          /\ p[i] \in Many \/ (ends[i] = ends[i - 1] + 1 /\ LikeName(p[i], Append(q, m)[ends[i]]))
    BY <2>1, <2>3
  <2>5. \E i \in DOMAIN p : p[i] \in Many
    BY <1>4 DEF LikeAcross
  <2>6. LikeAcross(p, Append(q, m))
    BY <2>1, <2>2, <2>4, <2>5 DEF LikeAcross
  <2> QED  BY <2>6 DEF Like
<1> QED  BY <1>2, <1>3, <1>4 DEF Like

LEMMA RemoveBelowCareful ==
  ASSUME Trees, Careful, NEW s \in Session, RemoveBelow(s)
  PROVE  Careful'
<1> DEFINE r == sess[s]
           q == Finish(r)
<1>1. /\ r \in Record /\ Ready(rows, failures, r) /\ r.at = "below" /\ At(s, "below")
      /\ rows \in Table /\ rows \in Seq(Row) /\ q \in Record /\ r.text \in Text
  BY OneSession DEF RemoveBelow, At, Record
<1>2. PICK ok \in Chance : Query(ok) /\ rows' = Swept(rows, r.text, ok)
  BY DEF RemoveBelow, Swept
<1>3. /\ Stop(s) /\ UNCHANGED <<accounts, uses>> /\ Queried /\ ok \in BOOLEAN
      /\ (~ ok => failures' > 0)
  BY <1>2, Asked DEF RemoveBelow, Queried
<1>4. /\ Grown(rows, rows') /\ DOMAIN rows' = DOMAIN rows
      /\ \A i \in DOMAIN rows :
           rows'[i].alive <=> rows[i].alive /\ ~ (ok /\ Like(r.text, rows[i].path))
  BY <1>1, <1>2, <1>3, MarkBelow
<1>5. r.cur \in DOMAIN rows /\ r.user # Nobody /\ r.text = rows[r.cur].path
  BY <1>1 DEF Ready, InTree, ForDirs, Chosen, Registering, IsDir
<1>6. q.at = "idle" /\ q.cmd = "none" /\ q.user = r.user /\ Become(s, q)
  BY <1>3 DEF Finish, Idle, Stop
<1>7. ASSUME Calm', NEW i \in Alive', Plain(rows[i].path), ~ IsRoot(rows, i)
      PROVE  rows[i].pdir \in Alive'
  <2>1. Calm /\ ok
    BY <1>7, <1>2, <1>3, Asked DEF Calm, Alone
  <2>2. i \in Alive /\ i \in DOMAIN rows /\ ~ Like(r.text, rows[i].path)
    BY <1>4, <2>1 DEF Alive
  <2>3. /\ rows[i].pdir \in DOMAIN rows
        /\ rows[i].path = Append(rows[rows[i].pdir].path, rows[i].name)
        /\ rows[i].path \in Text
    BY <1>1, <1>7, <2>2, ElementOfRow DEF Table, RowOK, IsDir, Below
  <2>4. rows[rows[i].pdir].path \in Text
    BY <1>1, <2>3, ElementOfRow
  <2>5. rows[rows[i].pdir].path # r.text /\ ~ Like(r.text, rows[rows[i].pdir].path)
    BY <1>1, <2>2, <2>3, <2>4, LikeBelow
  <2>6. rows[i].pdir \in Alive
    <3>1. Held(i)
      BY <1>7, <2>1, <2>2 DEF Careful, Orphans
    <3>2. \A t \in Session \ {s} : ~ At(t, "below")
      <4>1. Belongs /\ uses[s] # {}
        BY <1>5 DEF Careful, AccountsOK, Belongs, InUse
      <4> QED  BY <2>1, <4>1, OthersIdle DEF At, Calm
    <3> QED  BY <1>5, <2>5, <3>1, <3>2 DEF Held
  <2> QED  BY <1>4, <2>3, <2>5, <2>6 DEF Alive
<1>8. \A i \in DOMAIN rows : rows'[i].alive => rows[i].alive
  BY <1>4
<1> HIDE DEF q
<1> QED  BY <1>1, <1>3, <1>4, <1>5, <1>6, <1>7, <1>8, CarefulMarks

-----------------------------------------------------------------------------
(* Rows are read.                                                          *)

\* Where a command is that reads only: its session is in use.
LEMMA AtWork ==
  ASSUME Trees, Careful, NEW s \in Session, sess[s].at \notin Registering \cup {"idle"}
  PROVE  /\ sess[s] \in Record /\ Ready(rows, failures, sess[s]) /\ sess[s].user # Nobody
         /\ (Orderly => Clear(rows, sess[s])) /\ (Calm => Firm(rows, sess[s]))
         /\ rows \in Table /\ rows \in Seq(Row) /\ failures \in Nat
         /\ (UNCHANGED uses /\ (failures' = failures \/ Queried) =>
               (Orderly' => Orderly) /\ (Calm' => Calm))
<1>1. sess[s] \in Record /\ Ready(rows, failures, sess[s]) /\ sess[s].user # Nobody
      /\ rows \in Table /\ rows \in Seq(Row) /\ failures \in Nat
  BY OneSession DEF Ready, InTree
<1>2. (Orderly => Clear(rows, sess[s])) /\ (Calm => Firm(rows, sess[s]))
  BY DEF Careful, Twins, Orphans
<1>3. ASSUME UNCHANGED uses, failures' = failures \/ Queried
      PROVE  (Orderly' => Orderly) /\ (Calm' => Calm)
  BY <1>1, <1>3, Asked DEF Queried, Orderly, Calm, Separate, Alone
<1> QED  BY <1>1, <1>2, <1>3

LEMMA CommandCareful ==
  ASSUME Trees, Careful, NEW s \in Session, NEW t \in Typed, Command(s, t.cmd, t.path)
  PROVE  Careful'
<1> DEFINE r == sess[s]  c == t.cmd  p == t.path
           todo == DirsOf(c, p)  cur == Base(s, c, p)
           text == IF c = "puts" /\ p.abs THEN p.steps ELSE <<>>
           name == IF c \in Files THEN Last(p.steps) ELSE Nobody
           at == IF p.abs THEN "top" ELSE "walk"
           q == [r EXCEPT !.at = at, !.cmd = c, !.abs = p.abs, !.todo = todo, !.cur = cur,
                          !.text = text, !.name = name]
<1>1. /\ r \in Record /\ r.at = "idle" /\ r.user # Nobody
  BY OneSession DEF Command, At
<1>2. /\ c \in {"cd", "mkdir", "rmdir", "remove", "puts", "gets"}
      /\ p.abs \in BOOLEAN /\ p.steps \in Text
      /\ c \in Files => p.steps # <<>>
  BY TypedAssumption DEF Command, Accepts, Text
<1>3. todo \in Text
  BY <1>2, TextParts DEF DirsOf
<1>4. cur \in Nat
  BY <1>1 DEF Base, Record
<1>5. text \in Text
  <2>1. <<>> \in Text
    BY DEF Text
  <2> QED  BY <1>2, <2>1, Zenon
<1>6. name \in STRING \cup User \cup {Nobody}
  BY <1>2, TextParts
<1>7. at \in {"top", "walk"} /\ at \in Places
  BY DEF Places
<1>8. UNCHANGED <<accounts, rows, uses, failures>> /\ Become(s, q)
  BY DEF Command
<1>9. c \in {"none", "cd", "mkdir", "rmdir", "remove", "puts", "gets", "create"} /\ c # "create"
  BY <1>2
<1> HIDE DEF at, todo, cur, text, name
<1>10. q \in Record /\ q.at = at /\ q.cmd = c /\ q.user = r.user
  BY <1>1, <1>2, <1>3, <1>4, <1>5, <1>6, <1>7, <1>9 DEF Record
<1>11. Clear(rows, q) /\ Firm(rows, q) /\ q.at \notin Registering
       /\ r.at \notin Registering \cup {"below"}
  BY <1>1, <1>7, <1>9, <1>10 DEF Clear, Firm, Registering
<1> HIDE DEF q
<1> QED  BY <1>8, <1>10, <1>11, CarefulWorks

LEMMA TopCareful ==
  ASSUME Trees, Careful, NEW s \in Session, Top(s)
  PROVE  Careful'
<1> DEFINE r == sess[s]
<1>1. r.at = "top" /\ r.at \notin Registering \cup {"idle", "below"} /\ ~ At(s, "root") /\ ~ At(s, "below")
  BY DEF Top, At, Registering
<1>2. PICK ok \in Chance, d \in OneOf(RootsOf(r.user)) :
        Query(ok) /\ IF ok /\ d # 0 THEN Become(s, [r EXCEPT !.at = "walk", !.cur = d]) ELSE Stop(s)
  BY DEF Top
<1>3. UNCHANGED <<accounts, rows, uses>> /\ Queried
  BY <1>2 DEF Top, Queried
<1>4. CASE Stop(s)
  BY <1>1, <1>3, <1>4, CarefulStops
<1> DEFINE q == [r EXCEPT !.at = "walk", !.cur = d]
<1>5. CASE d # 0 /\ Become(s, q)
  <2>1. d \in Nat /\ d \in Alive
    BY <1>5, RootFound DEF OneOf, RootsOf
  <2>2. q \in Record /\ q.at = "walk" /\ q.cur = d /\ q.user = r.user /\ q.cmd = r.cmd
        /\ q.text = r.text
    BY <1>1, <2>1, AtWork DEF Record, Places
  <2>3. (Orderly' => Clear(rows, q)) /\ (Calm' => Firm(rows, q)) /\ q.at \notin Registering
    BY <1>1, <1>3, <2>1, <2>2, AtWork DEF Clear, Firm, Alive, Registering
  <2> HIDE DEF q
  <2> QED  BY <1>1, <1>3, <1>5, <2>2, <2>3, CarefulWorks
<1> QED  BY <1>2, <1>4, <1>5

\* The session goes to the directory d, or stays, and is done with a component.
LEMMA WalksCareful ==
  ASSUME Trees, Careful, NEW s \in Session, At(s, "walk"), NEW d \in Nat,
         UNCHANGED <<accounts, rows, uses>>, failures' = failures \/ Queried,
         Become(s, [sess[s] EXCEPT !.cur = d, !.todo = Tail(@)]),
         Calm /\ sess[s].cmd = "create" => d \in Alive
  PROVE  Careful'
<1> DEFINE r == sess[s]
           q == [r EXCEPT !.cur = d, !.todo = Tail(@)]
<1>1. r.at = "walk" /\ r.at \notin Registering \cup {"idle", "below"}
  BY DEF At, Registering
<1>2. Tail(r.todo) \in Text
  BY OneSession, TextParts DEF Record
<1>3. q \in Record /\ q.at = "walk" /\ q.cur = d /\ q.user = r.user /\ q.cmd = r.cmd
      /\ q.text = r.text
  BY <1>1, <1>2, AtWork DEF Record
<1>4. (Orderly' => Clear(rows, q)) /\ (Calm' => Firm(rows, q)) /\ q.at \notin Registering
  BY <1>1, <1>3, AtWork DEF Clear, Firm, Alive, Registering
<1>5. Become(s, q)
  OBVIOUS
<1> HIDE DEF q
<1> QED  BY <1>1, <1>3, <1>4, <1>5, CarefulWorks

LEMMA StayCareful ==
  ASSUME Trees, Careful, NEW s \in Session, Stay(s)
  PROVE  Careful'
<1> DEFINE r == sess[s]
<1>1. r.at = "walk" /\ r.at \notin Registering \cup {"idle"} /\ At(s, "walk")
  BY DEF Stay, At, Registering
<1>2. r \in Record /\ r.cur \in Nat /\ (Calm /\ r.cmd = "create" => r.cur \in Alive)
  BY <1>1, AtWork DEF Record, Firm, Alive
<1>3. [r EXCEPT !.cur = r.cur, !.todo = Tail(@)] = [r EXCEPT !.todo = Tail(@)]
  BY <1>2 DEF Record
<1> QED  BY <1>1, <1>2, <1>3, WalksCareful DEF Stay

LEMMA UpCareful ==
  ASSUME Trees, Careful, NEW s \in Session, Up(s)
  PROVE  Careful'
<1> DEFINE r == sess[s]
<1>1. r.at = "walk" /\ r.at \notin Registering \cup {"idle"} /\ At(s, "walk") /\ ~ At(s, "below")
  BY DEF Up, At, Registering
<1>2. /\ r \in Record /\ r.cur \in Nat /\ (Calm /\ r.cmd = "create" => r.cur \in Alive)
      /\ Ready(rows, failures, r) /\ rows \in Table /\ rows \in Seq(Row) /\ r.user # Nobody
  BY <1>1, AtWork DEF Record, Firm, Alive
<1>3. PICK ok \in Chance :
        LET parent == IF ok THEN ParentOf(r.cur) ELSE -1
        IN /\ Query(ok)
           /\ Become(s, [r EXCEPT !.cur = IF parent = -1 THEN @ ELSE parent, !.todo = Tail(@)])
  BY DEF Up
<1> DEFINE parent == IF ok THEN ParentOf(r.cur) ELSE -1
           d == IF parent = -1 THEN r.cur ELSE parent
<1>4. parent = -1 \/ /\ r.cur \in Alive /\ parent = rows[r.cur].pdir /\ ~ IsRoot(rows, r.cur)
                     /\ RowOK(rows, r.cur) /\ r.cur # 0
  BY <1>2, ElementOfRow DEF ParentOf, IsRoot, Alive, Table
<1>5. d \in Nat
  BY <1>2, <1>4 DEF RowOK
<1>6. Calm /\ r.cmd = "create" => d \in Alive
  <2> SUFFICES ASSUME Calm, parent # -1  PROVE parent \in Alive
    BY <1>2
  <2>1. rows[r.cur].type = "dir"
    BY <1>2, <1>4 DEF Ready, InTree, IsDir
  <2>2. Plain(rows[r.cur].path)
    BY <1>4, <2>1 DEF RowOK
  <2> HIDE DEF parent
  <2> QED  BY <1>1, <1>2, <1>4, <2>2, ParentAlive
<1>7. Become(s, [r EXCEPT !.cur = d, !.todo = Tail(@)]) /\ Queried
      /\ UNCHANGED <<accounts, rows, uses>>
  BY <1>3 DEF Queried, Up
<1> HIDE DEF d
<1> QED  BY <1>1, <1>5, <1>6, <1>7, WalksCareful

LEMMA DownCareful ==
  ASSUME Trees, Careful, NEW s \in Session, Down(s)
  PROVE  Careful'
<1> DEFINE r == sess[s]
<1>1. r.at = "walk" /\ r.at \notin Registering \cup {"idle"} /\ At(s, "walk") /\ ~ At(s, "below")
      /\ ~ At(s, "root")
  BY DEF Down, At, Registering
<1>2. r.cur \in Nat
  BY <1>1, AtWork DEF Record
<1>3. PICK ok \in Chance, d \in Subdir(s) :
        /\ Query(ok)
        /\ IF ok /\ d # 0 THEN Become(s, [r EXCEPT !.cur = d, !.todo = Tail(@)]) ELSE Stop(s)
  BY DEF Down
<1>4. UNCHANGED <<accounts, rows, uses>> /\ Queried
  BY <1>3 DEF Down, Queried
<1>5. CASE Stop(s)
  BY <1>1, <1>4, <1>5, CarefulStops
<1>6. CASE d # 0 /\ Become(s, [r EXCEPT !.cur = d, !.todo = Tail(@)])
  <2>1. d \in Nat /\ d \in Alive
    BY <1>2, <1>6, SubdirFound DEF Subdir
  <2> QED  BY <1>1, <1>4, <1>6, <2>1, WalksCareful
<1> QED  BY <1>3, <1>5, <1>6

LEMMA MakeCareful ==
  ASSUME Trees, Careful, NEW s \in Session, Make(s)
  PROVE  Careful'
<1> DEFINE r == sess[s]
           q == [r EXCEPT !.at = "mkpath"]
<1>1. /\ r.at = "walk" /\ r.at \notin Registering \cup {"idle", "below"} /\ At(s, "walk")
      /\ r.cmd = "mkdir"
  BY DEF Make, At, Registering
<1>2. r \in Record /\ r.cur \in Nat /\ rows \in Seq(Row) /\ failures \in Nat
  BY <1>1, AtWork DEF Record
<1>3. PICK ok \in Chance, d \in Subdir(s) :
        /\ Query(ok)
        /\ \/ d # 0 /\ Become(s, [r EXCEPT !.cur = d, !.todo = Tail(@)])
           \/ ~ (ok /\ d # 0) /\ Become(s, q)
  BY DEF Make
<1>4. UNCHANGED <<accounts, rows, uses>> /\ Queried
  BY <1>3 DEF Make, Queried
<1>5. CASE d # 0 /\ Become(s, [r EXCEPT !.cur = d, !.todo = Tail(@)])
  <2>1. d \in Nat
    BY <1>2, <1>5, SubdirFound DEF Subdir
  <2> QED  BY <1>1, <1>4, <1>5, <2>1, WalksCareful
<1>6. CASE ~ (ok /\ d # 0) /\ Become(s, q)
  <2>1. q \in Record /\ q.at = "mkpath" /\ q.cur = r.cur /\ q.user = r.user /\ q.cmd = r.cmd
        /\ q.todo = r.todo
    BY <1>2 DEF Record, Places
  <2>2. Orderly' => SubdirsOf(r.user, r.cur, Head(r.todo)) = {}
    <3> SUFFICES ASSUME Orderly'  PROVE SubdirsOf(r.user, r.cur, Head(r.todo)) = {}
      OBVIOUS
    <3>1. ok
      BY <1>3, <1>4, Asked DEF Orderly
    <3>2. d = 0 /\ \A i \in DOMAIN rows : i # 0
      BY <1>2, <1>6, <3>1, ElementOfRow
    <3> QED  BY <3>2 DEF Subdir, OneOf, SubdirsOf, Alive
  <2>3. (Orderly' => Clear(rows, q)) /\ Firm(rows, q) /\ q.at \notin Registering
    BY <1>1, <2>1, <2>2 DEF Clear, Firm, SubdirsOf, Alive, Registering
  <2> HIDE DEF q
  <2> QED  BY <1>1, <1>4, <1>6, <2>1, <2>3, CarefulWorks
<1> QED  BY <1>3, <1>5, <1>6

LEMMA MkPathCareful ==
  ASSUME Trees, Careful, NEW s \in Session, MkPath(s)
  PROVE  Careful'
<1> DEFINE r == sess[s]
           x == Append(rows[r.cur].path, Head(r.todo))
           q == [r EXCEPT !.at = "mkdir", !.text = x]
<1>1. /\ r.at = "mkpath" /\ r.at \notin Registering \cup {"idle", "below"} /\ ~ At(s, "below")
      /\ ~ At(s, "root")
  BY DEF MkPath, At, Registering
<1>2. r \in Record /\ r.cmd = "mkdir" /\ r.todo \in Text /\ r.todo # <<>> /\ rows \in Seq(Row)
  BY <1>1, AtWork DEF Record, Ready, ForDirs
<1>3. UNCHANGED <<accounts, rows, uses>> /\ Queried
  BY DEF MkPath, Queried
<1>4. CASE Stop(s)
  BY <1>1, <1>3, <1>4, CarefulStops
<1>5. CASE HasPath(r.cur) /\ Become(s, q)
  <2>1. r.cur \in Alive /\ x \in Text
    <3>1. r.cur \in Alive /\ r.cur \in DOMAIN rows
      BY <1>5 DEF HasPath, Alive
    <3> QED  BY <1>2, <3>1, ElementOfRow, TextParts, TextFacts
  <2> HIDE DEF x
  <2>2. q \in Record /\ q.at = "mkdir" /\ q.cur = r.cur /\ q.user = r.user /\ q.cmd = "mkdir"
        /\ q.todo = r.todo
    BY <1>2, <2>1 DEF Record, Places, Chosen
  <2>3. (Orderly' => Clear(rows, q)) /\ Firm(rows, q) /\ q.at \notin Registering
    BY <1>1, <1>3, <2>1, <2>2, AtWork DEF Clear, Firm, Alive, Registering
  <2>4. Become(s, q)
    BY <1>5 DEF x
  <2> HIDE DEF q
  <2> QED  BY <1>1, <1>3, <2>2, <2>3, <2>4, CarefulWorks
<1> QED  BY <1>4, <1>5 DEF MkPath

LEMMA ParentCareful ==
  ASSUME Trees, Careful, NEW s \in Session, Parent(s)
  PROVE  Careful'
<1> DEFINE r == sess[s]
<1>1. /\ r.at = "parent" /\ r.at \notin Registering \cup {"idle", "below"} /\ ~ At(s, "below")
      /\ ~ At(s, "root")
  BY DEF Parent, At, Registering
<1>2. r \in Record /\ r.cmd # "create"
  BY <1>1, AtWork DEF Record, Ready, ForDirs
<1>3. UNCHANGED <<accounts, rows, uses>> /\ Queried
  BY DEF Parent, Queried
<1>4. CASE Stop(s)
  BY <1>1, <1>3, <1>4, CarefulStops
<1>5. CASE /\ ParentOf(r.cur) # -1
           /\ Become(s, [r EXCEPT !.at = IF r.cmd = "rmdir" THEN "count" ELSE "info"])
  <2>1. PICK l \in {"count", "info"} : Become(s, [r EXCEPT !.at = l])
    BY <1>5
  <2> DEFINE q == [r EXCEPT !.at = l]
  <2>2. r.cur \in Alive
    BY <1>5 DEF ParentOf
  <2>3. q \in Record /\ q.at = l /\ q.cur = r.cur /\ q.user = r.user /\ q.cmd = r.cmd
    BY <1>2 DEF Record, Places, Chosen
  <2>4. Clear(rows, q) /\ Firm(rows, q) /\ q.at \notin Registering
    BY <1>2, <2>2, <2>3 DEF Clear, Firm, Alive, Registering
  <2>5. Become(s, q)
    BY <2>1
  <2> HIDE DEF q
  <2> QED  BY <1>1, <1>3, <2>3, <2>4, <2>5, CarefulWorks
<1> QED  BY <1>4, <1>5 DEF Parent

LEMMA CountCareful ==
  ASSUME Trees, Careful, NEW s \in Session, Count(s)
  PROVE  Careful'
<1> DEFINE r == sess[s]
           q == [r EXCEPT !.at = "rmdir"]
<1>1. /\ r.at = "count" /\ r.at \notin Registering \cup {"idle", "below"} /\ ~ At(s, "below")
      /\ ~ At(s, "root")
  BY DEF Count, At, Registering
<1>2. r \in Record /\ r.cmd # "create"
  BY <1>1, AtWork DEF Record, Ready, ForDirs
<1>3. UNCHANGED <<accounts, rows, uses>> /\ Queried
  BY DEF Count, Queried
<1>4. CASE Stop(s)
  BY <1>1, <1>3, <1>4, CarefulStops
<1>5. CASE Empty(r.cur) /\ Become(s, q)
  <2>1. q \in Record /\ q.at = "rmdir" /\ q.cur = r.cur /\ q.user = r.user /\ q.cmd = r.cmd
    BY <1>2 DEF Record, Places, Chosen
  <2>2. Clear(rows, q) /\ (Calm' => Firm(rows, q)) /\ q.at \notin Registering
    BY <1>1, <1>2, <1>3, <1>5, <2>1, AtWork DEF Clear, Firm, Empty, Alive, Registering
  <2> HIDE DEF q
  <2> QED  BY <1>1, <1>3, <1>5, <2>1, <2>2, CarefulWorks
<1> QED  BY <1>4, <1>5 DEF Count

LEMMA InfoCareful ==
  ASSUME Trees, Careful, NEW s \in Session, Info(s)
  PROVE  Careful'
<1> DEFINE r == sess[s]
           x == rows[r.cur].path
           q == [r EXCEPT !.at = "self", !.text = x]
<1>1. /\ r.at = "info" /\ r.at \notin Registering \cup {"idle", "below"} /\ ~ At(s, "below")
      /\ ~ At(s, "root")
  BY DEF Info, At, Registering
<1>2. r \in Record /\ r.cmd # "create" /\ rows \in Seq(Row)
  BY <1>1, AtWork DEF Record, Ready, ForDirs
<1>3. UNCHANGED <<accounts, rows, uses>> /\ Queried
  BY DEF Info, Queried
<1>4. CASE Stop(s)
  BY <1>1, <1>3, <1>4, CarefulStops
<1>5. CASE r.cur \in Alive /\ Become(s, q)
  <2>1. x \in Text
    BY <1>2, <1>5, ElementOfRow DEF Alive
  <2> HIDE DEF x
  <2>2. q \in Record /\ q.at = "self" /\ q.user = r.user /\ q.cmd = r.cmd /\ q.cur = r.cur
    BY <1>2, <2>1 DEF Record, Places, Chosen
  <2>3. Clear(rows, q) /\ Firm(rows, q) /\ q.at \notin Registering
    BY <1>2, <1>5, <2>2 DEF Clear, Firm, Registering, Alive
  <2>4. Become(s, q)
    BY <1>5 DEF x
  <2> HIDE DEF q
  <2> QED  BY <1>1, <1>3, <2>2, <2>3, <2>4, CarefulWorks
<1> QED  BY <1>4, <1>5 DEF Info

LEMMA PlaceCareful ==
  ASSUME Trees, Careful, NEW s \in Session, Place(s)
  PROVE  Careful'
<1> DEFINE r == sess[s]
           AtRow(i) == [r EXCEPT !.at = "find", !.text = Append(rows[i].path, r.name)]
<1>1. /\ r.at = "place" /\ r.at \notin Registering \cup {"idle", "below"} /\ ~ At(s, "below")
      /\ ~ At(s, "root")
  BY DEF Place, At, Registering
<1>2. /\ r \in Record /\ r.cmd # "create" /\ rows \in Seq(Row) /\ r.name \in STRING
  BY <1>1, AtWork DEF Record, Ready, ForFiles
<1>3. UNCHANGED <<accounts, rows, uses>> /\ Queried
  BY DEF Place, Queried
<1>4. CASE Stop(s)
  BY <1>1, <1>3, <1>4, CarefulStops
<1>5. ASSUME NEW i \in DOMAIN rows, Become(s, AtRow(i))  PROVE Careful'
  <2> DEFINE x == Append(rows[i].path, r.name)
             q == [r EXCEPT !.at = "find", !.text = x]
  <2>1. x \in Text
    BY <1>2, ElementOfRow, TextFacts
  <2>2. Become(s, q)
    BY <1>5
  <2> HIDE DEF x
  <2>3. q \in Record /\ q.at = "find" /\ q.user = r.user /\ q.cmd = r.cmd
    BY <1>2, <2>1 DEF Record, Places
  <2>4. Clear(rows, q) /\ Firm(rows, q) /\ q.at \notin Registering
    BY <1>2, <2>3 DEF Clear, Firm, Registering
  <2> HIDE DEF q
  <2> QED  BY <1>1, <1>3, <2>2, <2>3, <2>4, CarefulWorks
<1>6. CASE HasPath(r.cur) /\ Become(s, AtRow(r.cur))
  BY <1>5, <1>6 DEF HasPath, Alive
<1>7. CASE \E i \in {j \in DOMAIN rows : rows[j].type = "dir"} : Become(s, AtRow(i))
  BY <1>5, <1>7
<1> HIDE DEF AtRow
<1>8. \/ HasPath(r.cur) /\ Become(s, AtRow(r.cur))
      \/ Stop(s)
      \/ \E i \in {j \in DOMAIN rows : rows[j].type = "dir"} : Become(s, AtRow(i))
  BY DEF Place, AtRow
<1> QED  BY <1>4, <1>6, <1>7, <1>8

LEMMA FindCareful ==
  ASSUME Trees, Careful, NEW s \in Session, Find(s)
  PROVE  Careful'
<1> DEFINE r == sess[s]
           t == Front(r.text)
           q == [r EXCEPT !.at = "top", !.cmd = "create", !.todo = t]
<1>1. /\ r.at = "find" /\ r.at \notin Registering \cup {"idle", "below"} /\ ~ At(s, "below")
      /\ ~ At(s, "root")
  BY DEF Find, At, Registering
<1>2. r \in Record /\ r.text \in Text /\ r.text # <<>> /\ failures \in Nat
  BY <1>1, AtWork DEF Record, Ready, ForFiles
<1>3. PICK ok \in Chance :
        /\ Query(ok)
        /\ \/ Stop(s)
           \/ ~ (ok /\ FilesAt(r.user, r.text) # {}) /\ Become(s, q)
  BY DEF Find
<1>4. UNCHANGED <<accounts, rows, uses>> /\ Queried
  BY <1>3 DEF Find, Queried
<1>5. CASE Stop(s)
  BY <1>1, <1>4, <1>5, CarefulStops
<1>6. CASE ~ (ok /\ FilesAt(r.user, r.text) # {}) /\ Become(s, q)
  <2>1. t \in Text
    BY <1>2, TextParts
  <2> HIDE DEF t
  <2>2. q \in Record /\ q.at = "top" /\ q.user = r.user /\ q.text = r.text
    BY <1>2, <2>1 DEF Record, Places
  <2>3. Orderly' => FilesAt(r.user, r.text) = {}
    BY <1>3, <1>4, <1>6, Asked DEF Orderly
  <2>4. (Orderly' => Clear(rows, q)) /\ Firm(rows, q) /\ q.at \notin Registering
    BY <2>2, <2>3 DEF Clear, Firm, FilesAt, Alive, Registering
  <2>5. Become(s, q)
    BY <1>6 DEF t
  <2> HIDE DEF q
  <2> QED  BY <1>1, <1>4, <2>2, <2>4, <2>5, CarefulWorks
<1> QED  BY <1>3, <1>5, <1>6

-----------------------------------------------------------------------------
LEMMA InitCareful == Init => Careful
<1> SUFFICES ASSUME Init  PROVE Careful
  OBVIOUS
<1>1. /\ accounts = [u \in User |-> 0] /\ rows = <<>> /\ DOMAIN rows = {} /\ Alive = {}
      /\ \A s \in Session : sess[s] = Idle(Nobody, 0)
  BY DEF Init, Alive
<1>2. AccountsOK
  BY <1>1 DEF AccountsOK, Belongs, InUse, Once, Fresh, Stranded, Rooted, At, Idle, Registering
<1>3. Twins
  BY <1>1 DEF Twins, Clear, Idle
<1>4. Orphans
  BY <1>1 DEF Orphans, Firm, Idle
<1> QED  BY <1>2, <1>3, <1>4 DEF Careful

LEMMA NextCareful == Trees /\ Careful /\ [Next]_vars => Careful'
<1> SUFFICES ASSUME Trees, Careful, [Next]_vars  PROVE Careful'
  OBVIOUS
<1>1. CASE UNCHANGED vars
  <2>1. UNCHANGED <<accounts, rows, sess, uses, failures, Alive>>
    BY <1>1 DEF vars, Alive
  <2>2. AccountsOK'
    BY <2>1 DEF Careful, AccountsOK, Belongs, InUse, Once, Fresh, Stranded, At, Orderly, Separate
  <2>3. Twins'
    BY <2>1 DEF Careful, Twins, Orderly, Separate
  <2>4. Orphans'
    BY <2>1 DEF Careful, Orphans, Held, At, Calm, Alone
  <2> QED  BY <2>2, <2>3, <2>4 DEF Careful
<1>2. ASSUME NEW s \in Session, NEW u \in User, Register(s, u) \/ Login(s, u)  PROVE Careful'
  BY <1>2, RegisterCareful, EnterCareful
<1>3. ASSUME NEW s \in Session, NEW t \in Typed, Command(s, t.cmd, t.path)  PROVE Careful'
  BY <1>3, CommandCareful
<1>4. ASSUME NEW s \in Session, \/ InsertAccount(s) \/ InsertRoot(s) \/ Home(s) \/ Enter(s)
                                \/ Disconnect(s)
      PROVE  Careful'
  BY <1>4, InsertAccountCareful, InsertRootCareful, EnterCareful
<1>5. ASSUME NEW s \in Session, \/ Top(s) \/ Up(s) \/ Stay(s) \/ Down(s) \/ Make(s) \/ MkPath(s)
                                \/ Mkdir(s)
      PROVE  Careful'
  BY <1>5, TopCareful, UpCareful, StayCareful, DownCareful, MakeCareful, MkPathCareful,
     MkdirCareful
<1>6. ASSUME NEW s \in Session, \/ Parent(s) \/ Count(s) \/ Rmdir(s) \/ Info(s) \/ RemoveSelf(s)
                                \/ RemoveBelow(s) \/ Place(s) \/ Find(s) \/ InsertFile(s)
      PROVE  Careful'
  BY <1>6, ParentCareful, CountCareful, RmdirCareful, InfoCareful, RemoveSelfCareful,
     RemoveBelowCareful, PlaceCareful, FindCareful, InsertFileCareful
<1> QED  BY <1>1, <1>2, <1>3, <1>4, <1>5, <1>6 DEF Next

LEMMA CarefulAlways == Spec => [](Trees /\ Careful)
<1>1. Init => Trees /\ Careful
  BY InitTrees, InitCareful
<1>2. Trees /\ Careful /\ [Next]_vars => Trees' /\ Careful'
  BY NextTrees, NextCareful
<1> QED  BY <1>1, <1>2, PTL DEF Spec

\* The query for root directories finds just those.
LEMMA RootsFound ==
  ASSUME Trees, NEW u
  PROVE  RootsOf(u) = {i \in DOMAIN rows : IsRoot(rows, i) /\ rows[i].user = u}
<1> SUFFICES ASSUME NEW i \in DOMAIN rows
             PROVE  i \in RootsOf(u) <=> IsRoot(rows, i) /\ rows[i].user = u
  BY DEF RootsOf, Alive
<1>1. rows \in Table /\ rows \in Seq(Row) /\ RowOK(rows, i)
  BY DEF Trees, Table
<1>2. rows[i].type = "dir" /\ rows[i].path = <<>> => IsRoot(rows, i)
  <2> SUFFICES ASSUME ~ IsRoot(rows, i), rows[i].type = "dir", rows[i].path = <<>>  PROVE FALSE
    OBVIOUS
  <2>1. rows[i].pdir \in DOMAIN rows /\ rows[i].path = Append(rows[rows[i].pdir].path, rows[i].name)
    BY <1>1 DEF RowOK, IsDir, Below
  <2>2. rows[rows[i].pdir].path \in Text
    BY <1>1, <2>1, ElementOfRow
  <2> QED  BY <2>1, <2>2 DEF Text
<1> QED  BY <1>1, <1>2 DEF RootsOf, Alive, RowOK

(* With a key on the names a user never has two root directories, however  *)
(* the registrations interleave, and has one with the account unless a     *)
(* query failed.                                                           *)
THEOREM OneRootEach == Spec => []AccountsHaveOneRoot
<1>1. Trees /\ Careful => AccountsHaveOneRoot
  <2> SUFFICES ASSUME Trees, Careful, UniqueNames, NEW u \in User
               PROVE  /\ Cardinality(RootsOf(u)) <= 1
                      /\ failures = 0 /\ accounts[u] > 0 /\ RootsOf(u) = {} =>
                           \E s \in Session : At(s, "root") /\ sess[s].name = u
    BY DEF AccountsHaveOneRoot
  <2>1. \A i, j \in RootsOf(u) : i = j
    BY RootsFound DEF Careful, AccountsOK, Once
  <2>2. Cardinality(RootsOf(u)) <= 1
    <3>1. CASE RootsOf(u) = {}
      BY <3>1, FS_EmptySet
    <3>2. CASE RootsOf(u) # {}
      <4>1. PICK i : RootsOf(u) = {i}
        BY <2>1, <3>2
      <4> QED  BY <4>1, FS_Singleton
    <3> QED  BY <3>1, <3>2
  <2>3. RootsOf(u) = {} => ~ Rooted(rows, u)
    BY RootsFound DEF Rooted
  <2> QED  BY <2>2, <2>3 DEF Careful, AccountsOK, Stranded
<1> QED  BY <1>1, CarefulAlways, PTL

(* One session to a user, and nothing failing, no directory or file comes  *)
(* twice, and of a user alone no two directories have one path.            *)
THEOREM NoTwinsAlways == Spec => []NoTwins
<1>1. Trees /\ Careful => NoTwins
  <2> SUFFICES ASSUME Trees, Careful, Separate, failures = 0, NEW i \in Alive, NEW j \in Alive,
                      i # j, rows[i].type = rows[j].type, rows[i].user = rows[j].user
               PROVE  /\ rows[i].type = "dir" =>
                           <<rows[i].pdir, rows[i].name>> # <<rows[j].pdir, rows[j].name>>
                      /\ rows[i].type = "reg" \/ Alone => rows[i].path # rows[j].path
    BY DEF NoTwins
  <2>1. rows[i].type \in {"dir", "reg"}
    BY ElementOfRow DEF Trees, Table, Alive, Row
  <2>2. /\ rows[i].type = "dir" => rows[i].pdir # rows[j].pdir \/ rows[i].name # rows[j].name
        /\ rows[i].type = "reg" => rows[i].path # rows[j].path
    BY DEF Careful, Twins, Orderly
  <2>3. Alone /\ rows[i].type = "dir" => rows[i].path # rows[j].path
    BY DEF Careful, Orphans, Calm
  <2> QED  BY <2>1, <2>2, <2>3
<1> QED  BY <1>1, CarefulAlways, PTL

(* Alone, and with nothing failing, a user never leaves a live row below a *)
(* removed directory, once the removal is over.                            *)
THEOREM NoOrphansAlways == Spec => []NoOrphans
<1>1. Careful => NoOrphans
  BY DEF Careful, Orphans, Calm, Held, IsRoot, NoOrphans
<1> QED  BY <1>1, CarefulAlways, PTL

-----------------------------------------------------------------------------
(* What a removal takes.  The ancestors of a row are a recursive function  *)
(* of the table: it exists since parents are older rows, and what is said  *)
(* of it is proved for the first row that would contradict it.             *)

LEMMA Least ==
  ASSUME NEW T \in SUBSET Nat, T # {}
  PROVE  \E m \in T : \A k \in T : m <= k
<1>1. IsWellFoundedOn(OpToRel(<, Nat), Nat)
  BY NatLessThanWellFounded
<1>2. PICK m \in T : \A k \in T : ~ (<<k, m>> \in OpToRel(<, Nat))
  BY <1>1, WFMin
<1>3. ASSUME NEW k \in T  PROVE m <= k
  <2>1. k \in Nat /\ m \in Nat
    OBVIOUS
  <2>2. <<k, m>> \in OpToRel(<, Nat) <=> k < m
    BY <2>1, Zenon DEF OpToRel
  <2>3. ~ (k < m)
    BY <1>2, <2>2
  <2> QED  BY <2>1, <2>3
<1> QED  BY <1>3

\* The function up of Above, as far as the row m.
AboveTo(up, m) == up = [j \in {-1} \cup 1..m |->
                         IF j = -1 THEN {} ELSE {j} \cup up[rows[j].pdir]]

LEMMA AboveGrows ==
  ASSUME rows \in Table, NEW m \in 1..Len(rows), NEW up, AboveTo(up, m - 1)
  PROVE  \E w : AboveTo(w, m)
<1> DEFINE w == [j \in {-1} \cup 1..m |->
                   IF j = m THEN {m} \cup up[rows[m].pdir] ELSE up[j]]
<1>1. rows \in Seq(Row) /\ m \in Nat /\ m # -1 /\ m \in DOMAIN rows
  BY DEF Table
<1>2. ASSUME NEW j \in 1..m  PROVE rows[j].pdir \in {-1} \cup 1..(j - 1)
  <2>1. j \in DOMAIN rows /\ RowOK(rows, j)
    BY <1>1 DEF Table
  <2> QED  BY <2>1 DEF RowOK, IsRoot
<1>3. ASSUME NEW j \in {-1} \cup 1..m
      PROVE  w[j] = IF j = -1 THEN {} ELSE {j} \cup w[rows[j].pdir]
  <2>1. CASE j = -1
    <3>1. up[-1] = {}
      BY DEF AboveTo
    <3> QED  BY <1>1, <2>1, <3>1
  <2>2. CASE j = m
    <3>1. rows[m].pdir \in {-1} \cup 1..m /\ rows[m].pdir # m
      BY <1>1, <1>2, <2>2
    <3>2. w[rows[m].pdir] = up[rows[m].pdir]
      BY <3>1
    <3> QED  BY <1>1, <2>2, <3>2
  <2>3. CASE j \in 1..(m - 1)
    <3>1. rows[j].pdir \in {-1} \cup 1..m /\ rows[j].pdir # m /\ j # m /\ j # -1
      BY <1>1, <1>2, <2>3
    <3>2. w[rows[j].pdir] = up[rows[j].pdir] /\ w[j] = up[j]
      BY <3>1
    <3>3. up[j] = {j} \cup up[rows[j].pdir]
      BY <2>3, <3>1 DEF AboveTo
    <3> QED  BY <3>1, <3>2, <3>3
  <2> QED  BY <1>1, <2>1, <2>2, <2>3
<1>4. w = [j \in {-1} \cup 1..m |-> IF j = -1 THEN {} ELSE {j} \cup w[rows[j].pdir]]
  <2>1. w = [j \in {-1} \cup 1..m |-> w[j]]
    OBVIOUS
  <2> HIDE DEF w
  <2> QED  BY <1>3, <2>1
<1> HIDE DEF w
<1> QED  BY <1>4 DEF AboveTo

LEMMA AboveExists ==
  ASSUME rows \in Table
  PROVE  \E up : AboveTo(up, Len(rows))
<1> DEFINE T == {m \in 0..Len(rows) : ~ \E up : AboveTo(up, m)}
<1>1. Len(rows) \in Nat
  BY DEF Table
<1> SUFFICES ASSUME T # {}  PROVE FALSE
  BY <1>1
<1>2. PICK m \in T : \A k \in T : m <= k
  <2>1. T \in SUBSET Nat
    BY <1>1
  <2> HIDE DEF T
  <2> QED  BY <2>1, Least
<1>3. m \in 0..Len(rows) /\ ~ \E up : AboveTo(up, m)
  OBVIOUS
<1>4. m # 0
  <2> DEFINE w == [j \in {-1} |-> {}]
  <2>1. w = [j \in {-1} \cup 1..0 |-> IF j = -1 THEN {} ELSE {j} \cup w[rows[j].pdir]]
    OBVIOUS
  <2> HIDE DEF w
  <2> QED  BY <1>3, <2>1 DEF AboveTo
<1>5. m \in 1..Len(rows) /\ m - 1 \in 0..Len(rows) /\ ~ (m <= m - 1)
  BY <1>1, <1>3, <1>4
<1>6. PICK up : AboveTo(up, m - 1)
  BY <1>2, <1>5
<1> QED  BY <1>3, <1>5, <1>6, AboveGrows

\* Above follows the parents.
LEMMA AboveIs ==
  ASSUME rows \in Table, NEW i \in DOMAIN rows
  PROVE  Above(i) = {i} \cup (IF IsRoot(rows, i) THEN {} ELSE Above(rows[i].pdir))
<1> DEFINE Is(u) == u = [j \in {-1} \cup DOMAIN rows |->
                           IF j = -1 THEN {} ELSE {j} \cup u[rows[j].pdir]]
           w == CHOOSE u : Is(u)
<1>1. rows \in Seq(Row) /\ DOMAIN rows = 1..Len(rows) /\ i # -1
  BY DEF Table
<1>2. Is(w)
  <2>1. PICK u : AboveTo(u, Len(rows))
    BY AboveExists
  <2>2. Is(u)
    BY <1>1, <2>1 DEF AboveTo
  <2> HIDE DEF Is
  <2> QED  BY <2>2
<1>3. \A k : Above(k) = w[k]
  BY DEF Above
<1>4. w[i] = {i} \cup w[rows[i].pdir] /\ w[-1] = {}
  BY <1>1, <1>2
<1> HIDE DEF w, Is
<1> QED  BY <1>3, <1>4 DEF IsRoot

\* Where the path follows the parents, a directory is above another row only if
\* the pattern made of its path takes the row.
LEMMA BelowIsLike ==
  ASSUME rows \in Table, NEW i \in DOMAIN rows, NEW d \in DOMAIN rows, rows[d].type = "dir",
         d \in Above(i), d # i, Plain(rows[i].path)
  PROVE  Like(rows[d].path, rows[i].path)
<1> DEFINE T == {j \in DOMAIN rows : /\ d \in Above(j) /\ d # j /\ Plain(rows[j].path)
                                     /\ ~ Like(rows[d].path, rows[j].path)}
<1>1. rows \in Seq(Row) /\ T \in SUBSET Nat
  BY DEF Table
<1> SUFFICES ASSUME T # {}  PROVE FALSE
  OBVIOUS
<1>2. PICK m \in T : \A k \in T : m <= k
  <2> HIDE DEF T
  <2> QED  BY <1>1, Least
<1>3. /\ m \in DOMAIN rows /\ d \in Above(m) /\ d # m /\ Plain(rows[m].path)
      /\ ~ Like(rows[d].path, rows[m].path)
  OBVIOUS
<1> DEFINE p == rows[m].pdir
<1>4. ~ IsRoot(rows, m) /\ d \in Above(p)
  BY <1>3, AboveIs
<1>5. /\ p \in DOMAIN rows /\ p \in 1..(m - 1) /\ rows[p].type = "dir" /\ Plain(rows[p].path)
      /\ rows[m].path = Append(rows[p].path, rows[m].name)
  BY <1>3, <1>4 DEF Table, RowOK, IsDir, Below
<1>6. rows[m].path \in Text /\ rows[p].path \in Text /\ rows[d].path \in Text
  BY <1>1, <1>3, <1>5, ElementOfRow
<1>7. p = d \/ Like(rows[d].path, rows[p].path)
  <2>1. p \notin T
    <3>1. m \in Nat /\ p \in Nat /\ ~ (m <= p)
      BY <1>1, <1>3, <1>5
    <3> HIDE DEF T, p
    <3> QED  BY <1>2, <3>1
  <2> QED  BY <1>4, <1>5, <2>1
<1>8. Like(rows[d].path, rows[m].path)
  BY <1>5, <1>6, <1>7, LikeBelow
<1> QED  BY <1>3, <1>8

\* Of a path without wildcards the pattern takes the paths it begins.
LEMMA LikeBegins ==
  ASSUME NEW p \in Text, NEW q \in Text, \A k \in DOMAIN p : p[k] \notin Wild, Like(p, q)
  PROVE  Len(p) < Len(q) /\ \A k \in 1..Len(p) : p[k] = q[k]
<1>1. DOMAIN p = 1..Len(p)
  BY DEF Text
<1>2. LikeEach(p, q)
  BY WildAssumption DEF Like, LikeAcross
<1> QED  BY <1>1, <1>2, WildAssumption DEF LikeEach, LikeName

\* A path that begins the path of a row is that of its directory, or begins it.
LEMMA BeginsParent ==
  ASSUME NEW p \in Text, NEW q \in Text, NEW a, Append(q, a) \in Text,
         Len(p) < Len(Append(q, a)), \A k \in 1..Len(p) : p[k] = Append(q, a)[k]
  PROVE  q = p \/ (Len(p) < Len(q) /\ \A k \in 1..Len(p) : p[k] = q[k])
<1>1. /\ Len(Append(q, a)) = Len(q) + 1 /\ Len(q) \in Nat /\ Len(p) \in Nat
      /\ \A k \in 1..Len(q) : Append(q, a)[k] = q[k]
  BY DEF Text
<1>2. \A k \in 1..Len(p) : p[k] = q[k]
  BY <1>1
<1>3. CASE Len(p) < Len(q)
  BY <1>2, <1>3
<1>4. CASE Len(p) = Len(q)
  <2>1. p = q
    BY <1>2, <1>4 DEF Text
  <2> QED  BY <2>1
<1> QED  BY <1>1, <1>3, <1>4

\* While nothing else happens, what a removal takes of its user is below the
\* directory: on the way up from the row everything is alive, up to the one
\* that the removal has already taken.
LEMMA LikeIsBelow ==
  ASSUME Trees, Careful, Calm, NEW s \in Session, At(s, "below"),
         \A k \in DOMAIN sess[s].text : sess[s].text[k] \notin Wild,
         NEW i \in Alive, rows[i].user = sess[s].user, Plain(rows[i].path),
         Like(sess[s].text, rows[i].path)
  PROVE  sess[s].cur \in Above(i)
<1> DEFINE r == sess[s]
           Begins(q) == Len(r.text) < Len(q) /\ \A k \in 1..Len(r.text) : r.text[k] = q[k]
           T == {j \in Alive : /\ rows[j].user = r.user /\ Plain(rows[j].path)
                               /\ Begins(rows[j].path) /\ r.cur \notin Above(j)}
<1>1. /\ r \in Record /\ Ready(rows, failures, r) /\ r.at = "below" /\ r.text \in Text
      /\ rows \in Table /\ rows \in Seq(Row) /\ r.user # Nobody /\ Len(r.text) \in Nat
  <2>1. /\ r \in Record /\ Ready(rows, failures, r) /\ r.at = "below"
        /\ rows \in Table /\ rows \in Seq(Row)
    BY OneSession DEF At
  <2>2. r.text \in Text
    BY <2>1 DEF Record
  <2>3. r.user # Nobody
    BY <2>1 DEF Ready, InTree, Registering
  <2>4. Len(r.text) \in Nat
    BY <2>2 DEF Text
  <2> QED  BY <2>1, <2>2, <2>3, <2>4
<1>2. \A j \in Alive : j \in DOMAIN rows /\ j \in Nat
  BY <1>1 DEF Alive
<1> SUFFICES ASSUME T # {}  PROVE FALSE
  <2>1. rows[i].path \in Text
    BY <1>1, <1>2, ElementOfRow
  <2>2. Begins(rows[i].path)
    BY <1>1, <2>1, LikeBegins
  <2> HIDE DEF Begins
  <2> QED  BY <2>2
<1>3. PICK m \in T : \A k \in T : m <= k
  <2>1. T \in SUBSET Nat
    BY <1>2
  <2> HIDE DEF T
  <2> QED  BY <2>1, Least
<1>4. /\ m \in Alive /\ rows[m].user = r.user /\ Plain(rows[m].path)
      /\ Begins(rows[m].path) /\ r.cur \notin Above(m) /\ m \in DOMAIN rows
  BY <1>2
<1> DEFINE p == rows[m].pdir
<1>5. ~ IsRoot(rows, m)
  <2>1. IsRoot(rows, m) => Len(rows[m].path) = 0
    BY <1>1, <1>4 DEF Table, RowOK
  <2> QED  BY <1>1, <1>4, <2>1
<1>6. /\ p \in DOMAIN rows /\ p \in 1..(m - 1) /\ rows[p].type = "dir" /\ Plain(rows[p].path)
      /\ rows[p].user = r.user /\ rows[m].path = Append(rows[p].path, rows[m].name)
  BY <1>1, <1>4, <1>5 DEF Table, RowOK, IsDir, Below
<1>7. rows[m].path \in Text /\ rows[p].path \in Text
  BY <1>1, <1>4, <1>6, ElementOfRow
<1>8. rows[p].path = r.text \/ Begins(rows[p].path)
  <2> DEFINE q == rows[p].path
             a == rows[m].name
  <2>1. Append(q, a) \in Text /\ Begins(Append(q, a)) /\ q \in Text
    BY <1>4, <1>6, <1>7
  <2> HIDE DEF q, a, T
  <2>2. q = r.text \/ Begins(q)
    BY <1>1, <2>1, BeginsParent
  <2> QED  BY <2>2 DEF q
<1>9. r.cur \notin Above(p) /\ p \in Above(p)
  <2>1. Above(m) = {m} \cup Above(p)
    BY <1>1, <1>4, <1>5, AboveIs
  <2>2. p \in Above(p)
    BY <1>1, <1>6, AboveIs
  <2> QED  BY <1>4, <2>1, <2>2
<1>10. p \in Alive
  <2>1. Held(m)
    BY <1>4, <1>5 DEF Careful, Orphans
  <2>2. \A t \in Session \ {s} : ~ At(t, "below")
    <3>1. Belongs /\ uses[s] # {}
      BY <1>1 DEF Careful, AccountsOK, Belongs, InUse
    <3> QED  BY <3>1, OthersIdle DEF At, Calm
  <2> QED  BY <1>9, <2>1, <2>2 DEF Held
<1>11. rows[p].path # r.text
  BY <1>1, <1>6, <1>10 DEF Careful, Orphans, Firm, Alive
<1>12. p \in T
  BY <1>6, <1>8, <1>9, <1>10, <1>11
<1>13. m \in Nat /\ p \in Nat /\ ~ (m <= p)
  BY <1>2, <1>4, <1>6
<1> HIDE DEF T, p
<1> QED  BY <1>3, <1>12, <1>13

\* A step of another session, or one that begins elsewhere, removes nothing.
LEMMA OnlyRemoveBelow ==
  ASSUME Trees, Next, NEW s \in Session, Removes(s)
  PROVE  RemoveBelow(s)
<1>1. sess \in [Session -> Record] /\ sess[s].at = "below" /\ sess'[s].at # "below"
  BY DEF Trees, SessionsOK, Removes, At
<1> DEFINE Elsewhere(t) == sess[t].at # "below" /\ \E q : sess' = [sess EXCEPT ![t] = q]
<1>2. ASSUME NEW t \in Session, Elsewhere(t) \/ RemoveBelow(t)  PROVE RemoveBelow(s)
  <2>1. \E q : sess' = [sess EXCEPT ![t] = q]
    BY <1>2 DEF RemoveBelow, Stop, Become
  <2>2. t = s
    BY <1>1, <2>1
  <2> QED  BY <1>1, <1>2, <2>2
<1>3. ASSUME NEW t \in Session, NEW u \in User, Register(t, u) \/ Login(t, u)  PROVE Elsewhere(t)
  BY <1>3 DEF Register, Login, Free, At, Become
<1>4. ASSUME NEW t \in Session, NEW c \in Typed, Command(t, c.cmd, c.path)  PROVE Elsewhere(t)
  BY <1>4 DEF Command, At, Become
<1>5. ASSUME NEW t \in Session, InsertAccount(t) \/ InsertRoot(t) \/ Home(t) \/ Enter(t) \/ Disconnect(t)
      PROVE  Elsewhere(t)
  BY <1>5 DEF InsertAccount, InsertRoot, Home, Enter, Disconnect, At, Become, Stop
<1>6. ASSUME NEW t \in Session, \/ Top(t) \/ Up(t) \/ Stay(t) \/ Down(t) \/ Make(t) \/ MkPath(t)
                                \/ Mkdir(t)
      PROVE  Elsewhere(t)
  BY <1>6 DEF Top, Up, Stay, Down, Make, MkPath, Mkdir, At, Become, Stop
<1>7. ASSUME NEW t \in Session, \/ Parent(t) \/ Count(t) \/ Rmdir(t) \/ Info(t) \/ RemoveSelf(t)
                                \/ Place(t) \/ Find(t) \/ InsertFile(t)
      PROVE  Elsewhere(t)
  BY <1>7 DEF Parent, Count, Rmdir, Info, RemoveSelf, Place, Find, InsertFile, At, Become, Stop
<1> HIDE DEF Elsewhere
<1> QED  BY <1>2, <1>3, <1>4, <1>5, <1>6, <1>7 DEF Next

LEMMA RemovesBelow ==
  ASSUME Trees, Careful, NEW s \in Session, RemoveBelow(s), Alone, failures' = 0,
         NEW i \in Alive, rows[i].user = sess[s].user, Plain(rows[i].path),
         \A k \in DOMAIN sess[s].text : sess[s].text[k] \notin Wild
  PROVE  ~ rows'[i].alive <=> sess[s].cur \in Above(i)
<1> DEFINE r == sess[s]
<1>1. /\ r \in Record /\ Ready(rows, failures, r) /\ r.at = "below" /\ At(s, "below")
      /\ rows \in Table /\ rows \in Seq(Row) /\ r.text \in Text
  BY OneSession DEF RemoveBelow, At, Record
<1>2. PICK ok \in Chance : Query(ok) /\ rows' = Swept(rows, r.text, ok)
  BY DEF RemoveBelow, Swept
<1>3. ok /\ ok \in BOOLEAN /\ failures = 0
  BY <1>2, Asked DEF RemoveBelow
<1>4. i \in DOMAIN rows /\ rows[i].alive
  BY DEF Alive
<1>5. rows'[i].alive <=> ~ Like(r.text, rows[i].path)
  BY <1>1, <1>2, <1>3, <1>4, MarkBelow
<1>6. Like(r.text, rows[i].path) => r.cur \in Above(i)
  BY <1>1, <1>3, LikeIsBelow DEF Calm
<1>7. r.cur \in Above(i) => Like(r.text, rows[i].path)
  <2>1. /\ r.cur \in DOMAIN rows /\ r.text = rows[r.cur].path /\ rows[r.cur].type = "dir"
        /\ rows[r.cur].user = r.user
    BY <1>1 DEF Ready, InTree, ForDirs, Chosen, Registering, IsDir
  <2>2. r.cur # i
    BY <1>1, <1>3, <1>4, <2>1 DEF Careful, Orphans, Firm, Calm
  <2> QED  BY <1>1, <1>4, <2>1, <2>2, BelowIsLike
<1> QED  BY <1>5, <1>6, <1>7

(* Used by one session alone, with nothing failing and no wildcard in the  *)
(* path, a removal takes from its user's plain rows just those below the   *)
(* directory: the pattern over paths selects as the ids do.                *)
THEOREM RemovesPlainSubtreeAlways == Spec => RemovesPlainSubtree
<1>1. Trees /\ Careful /\ [Next]_vars =>
        [\A s \in Session, i \in Alive :
           /\ Removes(s) /\ Alone /\ failures' = 0
           /\ rows[i].user = sess[s].user /\ Plain(rows[i].path)
           /\ \A k \in DOMAIN sess[s].text : sess[s].text[k] \notin Wild
           => (~ rows'[i].alive <=> sess[s].cur \in Above(i))]_vars
  BY OnlyRemoveBelow, RemovesBelow
<1> QED  BY <1>1, CarefulAlways, PTL DEF Spec, RemovesPlainSubtree
===============================================================================
