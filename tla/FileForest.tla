------------------------------ MODULE FileForest ------------------------------
(***************************************************************************)
(* Accounts and directories of the NetDisk server: the tables user and     *)
(* file_forest, and the commands of the sessions that read and write them  *)
(* (handle_cmd.c, user.c, cmd_set.c, file_forest.c).  Every row of         *)
(* file_forest names its parent by id and also keeps its whole path; most  *)
(* commands follow the ids, the recursive removal selects by the path.     *)
(*                                                                         *)
(* No command holds a transaction: each query is a step, and the other     *)
(* sessions run in between.  A query may fail, as often as MaxFailures     *)
(* says; most callers take that for an empty answer.  ls and pwd only read *)
(* and are left out, hashes and sizes of files are those of Upload.  A     *)
(* stored path is the sequence of its components: /a/b is <<"a", "b">>,    *)
(* /a//b is <<"a", "", "b">>, and the path of a root directory is empty.   *)
(***************************************************************************)
EXTENDS Integers, Sequences, SequencesExt, FiniteSets

CONSTANTS Session, User,
          Wild,        \* names with a wildcard of LIKE in them, taken for any name
          Many,        \* those of them that LIKE takes for any text, slashes and
                       \* nothing included: "%"
          Typed,       \* commands as users type them: a name and a path, of
                       \* which abs says whether it begins with /
          World,       \* who uses which session
          UniqueNames, \* whether the table user has a key on user_name: the
                       \* schema is not in the repository
          MaxRow, MaxFailures, \* bounds, for each world
          Nobody

ASSUME WorldAssumption == World \subseteq [Session -> SUBSET User]
ASSUME BoundsAssumption == MaxRow \in [World -> Nat] /\ MaxFailures \in [World -> Nat]
ASSUME WildAssumption == Many \subseteq Wild
ASSUME NobodyAssumption == Nobody \notin User
ASSUME TypedAssumption ==
  Typed \subseteq [cmd : {"cd", "mkdir", "rmdir", "remove", "puts", "gets"},
                   path : [abs : BOOLEAN, steps : Seq(STRING)]]

VARIABLES
  accounts, \* rows of each user in the table user
  rows,     \* the table file_forest, indexed by id
  sess,     \* the sessions: Session of cmd_set.h, and the command under way
  uses,     \* the member of World that holds
  failures  \* queries that have failed

vars == <<accounts, rows, sess, uses, failures>>

-----------------------------------------------------------------------------
(* The queries.  An operator returns the ids a SELECT finds; OneOf is the  *)
(* first row of the answer, in the order the database chooses, or 0.       *)

Alive == {i \in DOMAIN rows : rows[i].alive}

OneOf(ids) == IF ids = {} THEN {0} ELSE ids

Taken(u) == accounts[u] > 0

RootsOf(u) == {i \in Alive : rows[i].user = u /\ rows[i].path = <<>>
                             /\ rows[i].type = "dir"}

\* A mistake: find_subdir does not look at the type.
SubdirsOfAnyType(u, d, n) ==
  {i \in Alive : rows[i].user = u /\ rows[i].pdir = d /\ rows[i].name = n}

SubdirsOf(u, d, n) == {i \in Alive : rows[i].user = u /\ rows[i].pdir = d
                                     /\ rows[i].name = n /\ rows[i].type = "dir"}

FilesAt(u, p) == {i \in Alive : rows[i].user = u /\ rows[i].path = p
                                /\ rows[i].type = "reg"}

\* The path of a directory can be read.
HasPath(d) == d \in Alive

Empty(d) == \A i \in Alive : rows[i].pdir # d

ParentOf(d) == IF d \in Alive THEN rows[d].pdir ELSE -1

\* A mistake: only the children are removed, not what is below them.
LikeChild(p, q) == Len(q) = Len(p) + 1 /\ SubSeq(q, 1, Len(p)) = p

\* A mistake: the pattern is made of the typed path, which strtok_r has cut
\* after its first component.
LikeCut(p, q) == p # <<>> /\ Len(q) > 1 /\ q[1] = p[1]

\* path LIKE '<p>/%', a name with a wildcard for a name.
LikeName(a, b) == a = b \/ a \in Many \/ (a \in Wild /\ b # "")
LikeEach(p, q) == Len(p) < Len(q) /\ \A i \in DOMAIN p : LikeName(p[i], q[i])

\* The same where some name of p is taken for several: the i-th ends at ends[i].
LikeAcross(p, q) ==
  /\ \E i \in DOMAIN p : p[i] \in Many
  /\ \E ends \in [0..Len(p) -> 0..Len(q)] :
       /\ ends[0] = 0 /\ ends[Len(p)] < Len(q)
       /\ \A i \in 1..Len(p) :
            /\ ends[i - 1] < ends[i]
            /\ p[i] \in Many \/ (ends[i] = ends[i - 1] + 1 /\ LikeName(p[i], q[ends[i]]))

Like(p, q) == LikeEach(p, q) \/ LikeAcross(p, q)

NewRow(n, u, d, p, t) ==
  [name |-> n, user |-> u, pdir |-> d, path |-> p, type |-> t, alive |-> TRUE]

Room == Cardinality({i \in DOMAIN rows : rows[i].pdir # -1}) < MaxRow[uses]

Chance == IF failures < MaxFailures[uses] THEN BOOLEAN ELSE {TRUE}
Query(ok) == failures' = IF ok THEN failures ELSE failures + 1

-----------------------------------------------------------------------------
(* The sessions.  cur and todo are the directory reached and the           *)
(* components left of the path being resolved, text the full path built so *)
(* far; name is the user who registers or logs in, or the file.            *)

Idle(u, d) == [at |-> "idle", user |-> u, cwd |-> d, cmd |-> "none", abs |-> FALSE,
               cur |-> 0, todo |-> <<>>, text |-> <<>>, name |-> Nobody]

Finish(r) == Idle(r.user, r.cwd)

\* What a command does once its path is resolved, without another query.
Onward(r) ==
  IF r.at # "walk" \/ r.todo # <<>> THEN r
  ELSE IF r.cur = 0 \/ r.cmd = "mkdir" THEN Finish(r)
  ELSE CASE r.cmd = "cd" -> Idle(r.user, r.cur)
         [] r.cmd \in {"rmdir", "remove"} -> [r EXCEPT !.at = "parent"]
         [] r.cmd = "puts" /\ r.abs -> [r EXCEPT !.at = "find"]
         [] r.cmd = "create" -> [r EXCEPT !.at = "insert"]
         [] OTHER -> [r EXCEPT !.at = "place"]

Become(s, r) == sess' = [sess EXCEPT ![s] = Onward(r)]
Stop(s) == Become(s, Finish(sess[s]))
At(s, l) == sess[s].at = l

Init ==
  /\ accounts = [u \in User |-> 0]
  /\ rows = <<>>
  /\ sess = [s \in Session |-> Idle(Nobody, 0)]
  /\ uses \in World
  /\ failures = 0

Free(s) == At(s, "idle") /\ sess[s].user = Nobody

\* handle_user, register: the name is looked up, then the two rows follow.
Register(s, u) ==
  /\ Free(s) /\ u \in uses[s]
  /\ \E ok \in Chance :
       /\ ~ (ok /\ Taken(u))
       /\ Query(ok)
  /\ Become(s, [sess[s] EXCEPT !.at = "account", !.name = u])
  /\ UNCHANGED <<accounts, rows, uses>>

\* A mistake: the answer of user_insert is not looked at.
InsertAccountUnchecked(s) ==
  /\ At(s, "account")
  /\ accounts' = [accounts EXCEPT ![sess[s].name] = 1]
  /\ Become(s, [sess[s] EXCEPT !.at = "root"])
  /\ UNCHANGED <<rows, uses, failures>>

InsertAccount(s) ==
  /\ At(s, "account")
  /\ \E ok \in Chance :
       /\ Query(ok)
       /\ IF ok /\ ~ (UniqueNames /\ Taken(sess[s].name))
          THEN /\ accounts' = [accounts EXCEPT ![sess[s].name] = @ + 1]
               /\ Become(s, [sess[s] EXCEPT !.at = "root"])
          ELSE Stop(s) /\ UNCHANGED accounts
  /\ UNCHANGED <<rows, uses>>

InsertRoot(s) ==
  /\ At(s, "root")
  /\ \E ok \in Chance :
       /\ Query(ok)
       /\ IF ok
          THEN /\ rows' = Append(rows, NewRow("/", sess[s].name, -1, <<>>, "dir"))
               /\ Become(s, [sess[s] EXCEPT !.at = "home"])
          ELSE Stop(s) /\ UNCHANGED rows
  /\ UNCHANGED <<accounts, uses>>

\* The root directory is looked up; register goes on without one.
Home(s) ==
  /\ At(s, "home")
  /\ \E ok \in Chance, d \in OneOf(RootsOf(sess[s].name)) :
       Query(ok) /\ Become(s, Idle(sess[s].name, IF ok THEN d ELSE 0))
  /\ UNCHANGED <<accounts, rows, uses>>

\* handle_user, login, with the right password.
Login(s, u) ==
  /\ Free(s) /\ u \in uses[s] /\ Taken(u)
  /\ Become(s, [sess[s] EXCEPT !.at = "enter", !.name = u])
  /\ UNCHANGED <<accounts, rows, uses, failures>>

Enter(s) ==
  /\ At(s, "enter")
  /\ \E ok \in Chance, d \in OneOf(RootsOf(sess[s].name)) :
       /\ Query(ok)
       /\ IF ok /\ d # 0 THEN Become(s, Idle(sess[s].name, d)) ELSE Stop(s)
  /\ UNCHANGED <<accounts, rows, uses>>

Disconnect(s) ==
  /\ At(s, "idle") /\ sess[s].user # Nobody
  /\ Become(s, Idle(Nobody, 0))
  /\ UNCHANGED <<accounts, rows, uses, failures>>

-----------------------------------------------------------------------------
(* A command arrives with its path.                                        *)

Files == {"puts", "gets"}

Accepts(c, p) == /\ c \in {"mkdir", "remove"} => ~ Contains(p.steps, "..")
                 /\ c \in Files \cup {"mkdir"} => p.steps # <<>>
                 /\ c \in Files => Last(p.steps) # ""

\* puts and gets resolve the path up to its last component, and start from
\* the row 0, which does not exist, when it is relative and has several.
DirsOf(c, p) == IF c \in Files THEN Front(p.steps) ELSE p.steps

Base(s, c, p) == IF c \in Files /\ Len(p.steps) > 1 THEN 0 ELSE sess[s].cwd

Command(s, c, p) ==
  /\ At(s, "idle") /\ sess[s].user # Nobody
  /\ Accepts(c, p)
  /\ Become(s, [sess[s] EXCEPT
       !.at = IF p.abs THEN "top" ELSE "walk", !.cmd = c, !.abs = p.abs,
       !.todo = DirsOf(c, p), !.cur = Base(s, c, p),
       !.text = IF c = "puts" /\ p.abs THEN p.steps ELSE <<>>,
       !.name = IF c \in Files THEN Last(p.steps) ELSE Nobody])
  /\ UNCHANGED <<accounts, rows, uses, failures>>

\* An absolute path starts at the root directory of the user.
Top(s) ==
  /\ At(s, "top")
  /\ \E ok \in Chance, d \in OneOf(RootsOf(sess[s].user)) :
       /\ Query(ok)
       /\ IF ok /\ d # 0 THEN Become(s, [sess[s] EXCEPT !.at = "walk", !.cur = d])
                         ELSE Stop(s)
  /\ UNCHANGED <<accounts, rows, uses>>

\* One component of the path.  get_parent_id says -1 for a root directory,
\* for a row that is gone and for a query that failed, and ".." then stays.
Up(s) ==
  /\ At(s, "walk") /\ Head(sess[s].todo) = ".."
  /\ \E ok \in Chance :
       LET parent == IF ok THEN ParentOf(sess[s].cur) ELSE -1
       IN /\ Query(ok)
          /\ Become(s, [sess[s] EXCEPT !.cur = IF parent = -1 THEN @ ELSE parent,
                                       !.todo = Tail(@)])
  /\ UNCHANGED <<accounts, rows, uses>>

\* "." is skipped, and nothing between two slashes is no component to strtok_r.
Skipped == {".", ""}

Stay(s) ==
  /\ At(s, "walk") /\ Head(sess[s].todo) \in Skipped
  /\ Become(s, [sess[s] EXCEPT !.todo = Tail(@)])
  /\ UNCHANGED <<accounts, rows, uses, failures>>

Subdir(s) == OneOf(SubdirsOf(sess[s].user, sess[s].cur, Head(sess[s].todo)))

Down(s) ==
  /\ At(s, "walk") /\ Head(sess[s].todo) \notin Skipped \cup {".."} /\ sess[s].cmd # "mkdir"
  /\ \E ok \in Chance, d \in Subdir(s) :
       /\ Query(ok)
       /\ IF ok /\ d # 0 THEN Become(s, [sess[s] EXCEPT !.cur = d, !.todo = Tail(@)])
                         ELSE Stop(s)
  /\ UNCHANGED <<accounts, rows, uses>>

\* A mistake: mkdir creates every component.
MakeAll(s) ==
  /\ At(s, "walk") /\ Head(sess[s].todo) \notin Skipped /\ sess[s].cmd = "mkdir"
  /\ Become(s, [sess[s] EXCEPT !.at = "mkpath"])
  /\ UNCHANGED <<accounts, rows, uses, failures>>

\* mkdir goes down where it can and makes a directory where it cannot.
Make(s) ==
  /\ At(s, "walk") /\ Head(sess[s].todo) \notin Skipped /\ sess[s].cmd = "mkdir"
  /\ \E ok \in Chance, d \in Subdir(s) :
       /\ Query(ok)
       /\ Become(s, IF ok /\ d # 0 THEN [sess[s] EXCEPT !.cur = d, !.todo = Tail(@)]
                                   ELSE [sess[s] EXCEPT !.at = "mkpath"])
  /\ UNCHANGED <<accounts, rows, uses>>

\* A mistake: the new directory gets the path of the session's directory.
MkPathOfCwd(s) ==
  /\ At(s, "mkpath") /\ sess[s].cwd \in Alive
  /\ Become(s, [sess[s] EXCEPT !.at = "mkdir",
                  !.text = Append(rows[sess[s].cwd].path, Head(sess[s].todo))])
  /\ UNCHANGED <<accounts, rows, uses, failures>>

\* forest_mkdir: the path of the parent, then the insertion.
MkPath(s) ==
  /\ At(s, "mkpath")
  /\ \E ok \in Chance :
       /\ Query(ok)
       /\ IF ok /\ HasPath(sess[s].cur)
          THEN Become(s, [sess[s] EXCEPT !.at = "mkdir",
                 !.text = Append(rows[sess[s].cur].path, Head(sess[s].todo))])
          ELSE Stop(s)
  /\ UNCHANGED <<accounts, rows, uses>>

Mkdir(s) ==
  /\ At(s, "mkdir")
  /\ \E ok \in Chance :
       /\ Query(ok)
       /\ IF ok /\ Room
          THEN /\ rows' = Append(rows, NewRow(Head(sess[s].todo), sess[s].user,
                                              sess[s].cur, sess[s].text, "dir"))
               /\ Become(s, [sess[s] EXCEPT !.at = "walk", !.todo = Tail(@),
                                            !.cur = Len(rows) + 1])
          ELSE Stop(s) /\ UNCHANGED rows
  /\ UNCHANGED <<accounts, uses>>

-----------------------------------------------------------------------------
\* rmdir and remove refuse a directory without a parent.
Parent(s) ==
  /\ At(s, "parent")
  /\ \E ok \in Chance :
       /\ Query(ok)
       /\ IF ok /\ ParentOf(sess[s].cur) # -1
          THEN Become(s, [sess[s] EXCEPT
                 !.at = IF sess[s].cmd = "rmdir" THEN "count" ELSE "info"])
          ELSE Stop(s)
  /\ UNCHANGED <<accounts, rows, uses>>

\* forest_rmdir: the children are counted, then the row is marked.
Count(s) ==
  /\ At(s, "count")
  /\ \E ok \in Chance :
       /\ Query(ok)
       /\ IF ok /\ Empty(sess[s].cur)
          THEN Become(s, [sess[s] EXCEPT !.at = "rmdir"]) ELSE Stop(s)
  /\ UNCHANGED <<accounts, rows, uses>>

Rmdir(s) ==
  /\ At(s, "rmdir")
  /\ \E ok \in Chance :
       /\ Query(ok)
       /\ rows' = IF ok THEN [rows EXCEPT ![sess[s].cur].alive = FALSE] ELSE rows
  /\ Stop(s)
  /\ UNCHANGED <<accounts, uses>>

\* remove: the path is read, the directory marked, then all that is below
\* the path.  Its branch for plain files is never taken, since resolving a
\* path only ever finds directories.
Info(s) ==
  /\ At(s, "info")
  /\ \E ok \in Chance :
       /\ Query(ok)
       /\ IF ok /\ sess[s].cur \in Alive
          THEN Become(s, [sess[s] EXCEPT !.at = "self", !.text = rows[sess[s].cur].path])
          ELSE Stop(s)
  /\ UNCHANGED <<accounts, rows, uses>>

RemoveSelf(s) ==
  /\ At(s, "self")
  /\ \E ok \in Chance :
       /\ Query(ok)
       /\ IF ok THEN /\ rows' = [rows EXCEPT ![sess[s].cur].alive = FALSE]
                     /\ Become(s, [sess[s] EXCEPT !.at = "below"])
                ELSE Stop(s) /\ UNCHANGED rows
  /\ UNCHANGED <<accounts, uses>>

RemoveBelow(s) ==
  /\ At(s, "below")
  /\ \E ok \in Chance :
       /\ Query(ok)
       /\ rows' = [i \in DOMAIN rows |->
                    [rows[i] EXCEPT !.alive = @ /\ ~ (ok /\ Like(sess[s].text, rows[i].path))]]
  /\ Stop(s)
  /\ UNCHANGED <<accounts, uses>>

-----------------------------------------------------------------------------
\* puts of a plain name, and gets, put the path of the directory before the
\* name.  Without it gets gives up; puts goes on with what happens to be in
\* the buffer, here the path of any directory (any other text is refused
\* when the row is to be created).
Place(s) ==
  /\ At(s, "place")
  /\ \E ok \in Chance :
       /\ Query(ok)
       /\ IF ok /\ HasPath(sess[s].cur)
          THEN Become(s, [sess[s] EXCEPT !.at = "find",
                            !.text = Append(rows[sess[s].cur].path, sess[s].name)])
          ELSE \/ Stop(s)
               \/ /\ sess[s].cmd = "puts"
                  /\ \E i \in {j \in DOMAIN rows : rows[j].type = "dir"} :
                       Become(s, [sess[s] EXCEPT !.at = "find",
                                    !.text = Append(rows[i].path, sess[s].name)])
  /\ UNCHANGED <<accounts, rows, uses>>

\* The file is looked up by its path; puts creates the row it does not find,
\* after resolving the directory once more, now by the path.
Find(s) ==
  /\ At(s, "find")
  /\ \E ok \in Chance :
       /\ Query(ok)
       /\ IF sess[s].cmd = "gets" \/ (ok /\ FilesAt(sess[s].user, sess[s].text) # {})
          THEN Stop(s)
          ELSE Become(s, [sess[s] EXCEPT !.at = "top", !.cmd = "create",
                                         !.todo = Front(sess[s].text)])
  /\ UNCHANGED <<accounts, rows, uses>>

InsertFile(s) ==
  /\ At(s, "insert")
  /\ \E ok \in Chance :
       /\ Query(ok)
       /\ rows' = IF ok /\ Room
                  THEN Append(rows, NewRow(sess[s].name, sess[s].user, sess[s].cur,
                                           sess[s].text, "reg"))
                  ELSE rows
  /\ Stop(s)
  /\ UNCHANGED <<accounts, uses>>

Next ==
  \E s \in Session :
    \/ \E u \in User : Register(s, u) \/ Login(s, u)
    \/ InsertAccount(s) \/ InsertRoot(s) \/ Home(s) \/ Enter(s) \/ Disconnect(s)
    \/ \E t \in Typed : Command(s, t.cmd, t.path)
    \/ Top(s) \/ Up(s) \/ Stay(s) \/ Down(s) \/ Make(s) \/ MkPath(s) \/ Mkdir(s)
    \/ Parent(s) \/ Count(s) \/ Rmdir(s) \/ Info(s) \/ RemoveSelf(s) \/ RemoveBelow(s)
    \/ Place(s) \/ Find(s) \/ InsertFile(s)

Spec == Init /\ [][Next]_vars

-----------------------------------------------------------------------------
Dirs(u) == {i \in DOMAIN rows : rows[i].user = u /\ rows[i].type = "dir"}

\* A path without ".", ".." and "//": puts stores an absolute path as it was typed.
Plain(p) == ~ Contains(p, ".") /\ ~ Contains(p, "") /\ ~ Contains(p, "..")

\* Only one session is in use, so that nothing runs between its queries.
Alone == \A s, t \in Session : uses[s] # {} /\ uses[t] # {} => s = t

\* No two sessions belong to the same user.
Separate == \A s, t \in Session : s # t => uses[s] \cap uses[t] = {}

(* Every variable has its type; sessions refer to rows that exist or to 0. *)
TypeOK ==
  /\ DOMAIN accounts = User /\ \A u \in User : accounts[u] \in Nat
  /\ failures \in 0..MaxFailures[uses] /\ uses \in World
  /\ \A i \in DOMAIN rows : /\ rows[i].user \in User /\ rows[i].alive \in BOOLEAN
                            /\ rows[i].type \in {"dir", "reg"}
  /\ \A s \in Session : /\ sess[s].user \in User \cup {Nobody}
                        /\ sess[s].cwd \in 0..Len(rows) /\ sess[s].cur \in 0..Len(rows)

(* No sequence of commands, of however many sessions and with whatever     *)
(* queries failing, takes a user's root directory away: rmdir and remove   *)
(* know it by its parent (cmd_set.c:410, 529), and the pattern of a        *)
(* recursive removal must never fit it.                                    *)
RootsStay == \A i \in DOMAIN rows : rows[i].pdir = -1 => rows[i].alive

(* Ids and paths tell the same tree, which the removal by path relies on:  *)
(* the parent of a row is an older directory of the same user, and its     *)
(* path followed by the name is the path of the row, although the two are  *)
(* read in different queries (file_forest.c:184, 205; cmd_set.c:62, 127).  *)
PathsFollowParents ==
  \A i \in DOMAIN rows :
    LET r == rows[i]
    IN r.pdir # -1 =>
         /\ r.pdir \in 1..(i - 1)
         /\ rows[r.pdir].type = "dir" /\ rows[r.pdir].user = r.user
         /\ Plain(r.path) => r.path = Append(rows[r.pdir].path, r.name)

(* Rows, ids and paths make trees with a root each.                        *)
TreesConsistent == TypeOK /\ RootsStay /\ PathsFollowParents

(* A session works in a directory of its own user, whatever path it took   *)
(* there; it has none only after a query of its registration failed        *)
(* (handle_cmd.c:44).                                                      *)
WorksInOwnTree ==
  \A s \in Session : sess[s].user # Nobody =>
    \/ sess[s].cwd \in Dirs(sess[s].user)
    \/ sess[s].cwd = 0 /\ failures > 0

(* With a key on the names, registrations that race leave one account with *)
(* one root directory, so that login always finds where to begin; only a   *)
(* failed query leaves a name taken without one (handle_cmd.c:33-41).      *)
AccountsHaveOneRoot ==
  UniqueNames =>
    \A u \in User :
      /\ Cardinality(RootsOf(u)) <= 1
      /\ failures = 0 /\ accounts[u] > 0 /\ RootsOf(u) = {} =>
           \E s \in Session : At(s, "root") /\ sess[s].name = u

(* As long as a user has one session, looking a name up and inserting it   *)
(* in two queries (cmd_set.c:493-499, 75-127) makes no second directory of *)
(* one name in a directory and no second file of one path.  Two            *)
(* directories may have one path all the same, if the recursive removal of *)
(* another user took what was above the first; alone they do not.          *)
NoTwins ==
  Separate /\ failures = 0 =>
    \A i, j \in Alive : i # j /\ rows[i].type = rows[j].type /\ rows[i].user = rows[j].user =>
      /\ rows[i].type = "dir" => <<rows[i].pdir, rows[i].name>> # <<rows[j].pdir, rows[j].name>>
      /\ rows[i].type = "reg" \/ Alone => rows[i].path # rows[j].path

(* Used by one session alone, the forest keeps no live row below a removed *)
(* directory: rmdir only takes empty ones, and the removal by path takes   *)
(* everything (file_forest.c:220-264, 395-423).                            *)
NoOrphans ==
  Alone /\ failures = 0 /\ (\A s \in Session : ~ At(s, "below")) =>
    \A i \in Alive : Plain(rows[i].path) /\ rows[i].pdir # -1 => rows[i].pdir \in Alive

\* The directories above a row, itself included.
Above(i) ==
  LET up[j \in {-1} \cup DOMAIN rows] == IF j = -1 THEN {} ELSE {j} \cup up[rows[j].pdir]
  IN up[i]

Removes(s) == At(s, "below") /\ ~ At(s, "below")'

(* A recursive removal takes nothing but what is below the directory.      *)
(* file_forest.h:48 says so: 递归删除目录及其所有子项.                     *)
RemovesItsSubtree ==
  [][\A s \in Session, i \in Alive :
       Removes(s) /\ ~ rows'[i].alive => sess[s].cur \in Above(i)]_vars

(* Where one session is in use, nothing fails and the directory's path has *)
(* no wildcard, the pattern takes from the user's plain rows just those    *)
(* below the directory by their ids.  A pattern knows no user: of another  *)
(* one it takes what has the same path (file_forest.c:418).                *)
RemovesPlainSubtree ==
  [][\A s \in Session, i \in Alive :
       /\ Removes(s) /\ Alone /\ failures' = 0
       /\ rows[i].user = sess[s].user /\ Plain(rows[i].path)
       /\ \A k \in DOMAIN sess[s].text : sess[s].text[k] \notin Wild
       => (~ rows'[i].alive <=> sess[s].cur \in Above(i))]_vars
=============================================================================
