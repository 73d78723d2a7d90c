------------------------------ MODULE Protocol -------------------------------
(***************************************************************************)
(* The conversation between one client program (client/main.c and          *)
(* client/cmd_set.c) and the worker that serves it (worker.c, handle_cmd.c,*)
(* cmd_set.c).  There is no framing: each side knows from the command what *)
(* the other sends next.  A stream is a sequence of items, one for each    *)
(* send, or for several sends that are always made and read together: type *)
(* t, value v and, seen by no code, the number of the command it belongs   *)
(* to.  A recv that waits for a fixed length expects an item of its type;  *)
(* who finds another one there is "lost", since from then on bytes are     *)
(* taken for what they are not, and the model follows it no further.       *)
(* What is found in the database and on either disk is a choice.  Each     *)
(* choice that is a fault, and not an answer, is recorded in occurred, so  *)
(* that the properties can say which faults break the conversation.        *)
(***************************************************************************)
EXTENDS Naturals, Sequences, FiniteSets

CONSTANTS Commands,      \* the commands the user gives once logged in
          MaxCommands,   \* bound: commands of a behaviour
          MaxSize        \* bound: blocks of a file

AllCommands == {"cd", "ls", "pwd", "mkdir", "rmdir", "remove", "puts", "gets"}

ASSUME CommandsKnown == Commands \subseteq AllCommands
ASSUME BoundsNat == MaxCommands \in Nat /\ MaxSize \in Nat

VARIABLES up,       \* what the client has sent and the server not received
          down,     \* what the server has sent and the client not received
          n,        \* number of commands given so far
          client,   \* place in the program, command, size of the file, login
          server,   \* the type the worker waits for, command, its number, ...
          open,     \* the time wheel has not closed the connection
          occurred  \* the faults that have occurred

vars == <<up, down, n, client, server, open, occurred>>

Fault == {"empty", "local", "mute", "missing", "longer", "open", "write",
          "nopath", "split", "input", "expiry"}

\* Exactly the awaited type is read, or one recv takes what is there.
ExactPlaces == {"status", "meta", "offset", "data", "getstatus"}
LoosePlaces == {"login", "reply", "final", "changed", "path"}
ClientWaits == ExactPlaces \cup LoosePlaces
ServerWaits == {"cmd", "name", "password", "meta", "data", "offset"}

Item(t, v, k) == [t |-> t, v |-> v, of |-> k]
Up(t, v) == Item(t, v, n)
Text(v) == down # <<>> /\ Head(down).t = "text" /\ Head(down).v = v

Init == /\ up = <<>> /\ down = <<>> /\ n = 0 /\ open = TRUE /\ occurred = {}
        /\ client = [at |-> "prompt", cmd |-> "none", size |-> 0, logged |-> FALSE]
        /\ server = [at |-> "cmd", cmd |-> "none", of |-> 0, size |-> 0, logged |-> FALSE]

-----------------------------------------------------------------------------
(* The client at its prompt.                                               *)

\* While no command is handled a ping goes before every wait for input.
Ping == /\ client.at = "prompt"
        /\ client' = [client EXCEPT !.at = "select"]
        /\ up' = Append(up, Up("cmd", "ping"))
        /\ UNCHANGED <<down, n, server, open, occurred>>

\* Mutant: a ping goes out although the command has not been answered.
CommandAndPing(cmd) ==
  /\ client.at = "select" /\ client.logged /\ n < MaxCommands
  /\ n' = n + 1
  /\ up' = up \o <<Item("cmd", cmd, n + 1), Item("cmd", "ping", n + 1)>>
             \o (IF cmd \in {"ls", "pwd"} THEN <<>> ELSE <<Item("name", cmd, n + 1)>>)
  /\ client' = [client EXCEPT !.cmd = cmd,
                              !.at = CASE cmd = "cd" -> "changed" [] cmd = "puts" -> "puts"
                                       [] cmd = "gets" -> "getstatus" [] OTHER -> "reply"]
  /\ UNCHANGED <<down, server, open, occurred>>

\* Something can be read at the prompt: it is printed, or it is a notice, or
\* the end of the stream, and the program exits.
SocketEvent ==
  /\ client.at = "select"
  /\ \/ \E k \in 1..Len(down) :
          /\ down' = SubSeq(down, k + 1, Len(down))
          /\ client' = [client EXCEPT !.at = IF \E i \in 1..k : down[i].t = "notice"
                                             THEN "gone" ELSE "prompt"]
     \/ /\ down = <<>> /\ server.at = "closed"
        /\ client' = [client EXCEPT !.at = "gone"] /\ UNCHANGED down
  /\ UNCHANGED <<up, n, server, open, occurred>>

\* The terminal's input ends.  In the main loop the program closes and is gone.
\* Out of the login loop it breaks into the main loop, which sends a ping before
\* it finds the end of the input again; the worker may be waiting for a password.
\* (The further pings of a client that still reads something there change
\* nothing any more.)
Quit == /\ client.at \in {"select", "password"}
        /\ client' = [client EXCEPT !.at = "gone"]
        /\ up' = IF client.logged THEN up ELSE Append(up, Up("cmd", "ping"))
        /\ occurred' = IF client.at = "password" THEN occurred \cup {"input"} ELSE occurred
        /\ UNCHANGED <<down, n, server, open>>

\* A command before the login: its name goes out, then the password is read.
Identify(cmd) ==
  /\ client.at = "select" /\ ~client.logged /\ n < MaxCommands
  /\ n' = n + 1
  /\ up' = up \o <<Item("cmd", cmd, n + 1), Item("name", cmd, n + 1)>>
  /\ client' = [client EXCEPT !.at = "password", !.cmd = cmd]
  /\ UNCHANGED <<down, server, open, occurred>>

\* An empty password is a length of zero and no further byte.
Password(v) ==
  /\ client.at = "password"
  /\ client' = [client EXCEPT !.at = "login"]
  /\ up' = Append(up, Up("password", v))
  /\ occurred' = IF v = "empty" THEN occurred \cup {"empty"} ELSE occurred
  /\ UNCHANGED <<down, n, server, open>>

\* The commands after it; puts and gets go on in functions of their own.
Command(cmd) ==
  /\ client.at = "select" /\ client.logged /\ n < MaxCommands
  /\ n' = n + 1
  /\ up' = up \o <<Item("cmd", cmd, n + 1)>>
             \o (IF cmd \in {"ls", "pwd"} THEN <<>> ELSE <<Item("name", cmd, n + 1)>>)
  /\ client' = [client EXCEPT !.cmd = cmd,
                              !.at = CASE cmd = "cd" -> "changed" [] cmd = "puts" -> "puts"
                                       [] cmd = "gets" -> "getstatus" [] OTHER -> "reply"]
  /\ UNCHANGED <<down, server, open, occurred>>

-----------------------------------------------------------------------------
(* The client inside a command.                                            *)

\* One recv: the item at place p is consumed.
Receives(p) == client.at = p /\ down # <<>> /\ down' = Tail(down)
ReceivesType(p, t) == Receives(p) /\ Head(down).t = t
Goes(p) == client' = [client EXCEPT !.at = p]

\* The answer to register or login; "success" in it ends the login loop.
LoginReply ==
  /\ Receives("login")
  /\ client' = [client EXCEPT !.at = "prompt", !.logged = Text("success")]
  /\ UNCHANGED <<up, n, server, open, occurred>>

\* ls, pwd, mkdir, rmdir and remove read once, and so does the end of puts and
\* of a refused or finished gets.  (What a recv that begins with something stale
\* returns besides it would else be printed at the prompt.)
Reply == /\ \/ Receives("reply") \/ Receives("final")
         /\ Goes("prompt")
         /\ UNCHANGED <<up, n, server, open, occurred>>

\* Of the 8192 bytes of a listing, or of what a gets has left, the one recv may
\* return only the first.
ReplyPart == /\ client.at = "reply" /\ (Text("listing") \/ Text("surplus") \/ Text("rest"))
             /\ down' = <<[Head(down) EXCEPT !.v = "rest"]>> \o Tail(down)
             /\ Goes("prompt")
             /\ occurred' = occurred \cup {"split"}
             /\ UNCHANGED <<up, n, server, open>>

\* cd reads 19 bytes: the sentence of success, or the beginning of another of
\* which it reads the rest up to the end of the line.
Changed == /\ Receives("changed") /\ ~ Text("surplus")
           /\ Goes(IF Text("changed") THEN "path" ELSE "prompt")
           /\ UNCHANGED <<up, n, server, open, occurred>>

\* Without a "/" in the path strrchr returns NULL, and the program crashes.
NewPath == /\ Receives("path")
           /\ Goes(IF Text("nopath") THEN "gone" ELSE "prompt")
           /\ UNCHANGED <<up, n, server, open, occurred>>

\* puts after its command and path: the file has a size and a hash, or cannot
\* be read and the function returns.
PutsMeta == /\ client.at = "puts"
            /\ \E k \in 0..MaxSize : /\ client' = [client EXCEPT !.at = "status", !.size = k]
                                     /\ up' = Append(up, Up("meta", k))
            /\ UNCHANGED <<down, n, server, open, occurred>>

PutsFails == /\ client.at = "puts" /\ Goes("prompt")
             /\ occurred' = occurred \cup {"local"}
             /\ UNCHANGED <<up, down, n, server, open>>

PutsStatus == /\ ReceivesType("status", "status")
              /\ Goes(CASE Head(down).v = "error" -> "final"
                        [] Head(down).v = "seccomp" -> "prompt"
                        [] OTHER -> "offset")
              /\ UNCHANGED <<up, n, server, open, occurred>>

\* From the offset on the file is sent, unless it cannot be opened again or
\* has become shorter or, the program sending whole buffers, longer.
PutsOffset ==
  /\ ReceivesType("offset", "offset")
  /\ LET left == client.size - Head(down).v IN
       \/ /\ up' = up \o [i \in 1..left |-> Up("data", 1)]
          /\ Goes("final") /\ UNCHANGED occurred
       \/ /\ \E k \in 0..left + 1 : k # left /\ up' = up \o [i \in 1..k |-> Up("data", 1)]
          /\ Goes("final") /\ occurred' = occurred \cup {"local"}
       \/ Goes("prompt") /\ occurred' = occurred \cup {"local"} /\ UNCHANGED up
  /\ UNCHANGED <<n, server, open>>

GetsStatus == /\ ReceivesType("getstatus", "status")
              /\ Goes(IF Head(down).v = "notfound" THEN "final" ELSE "meta")
              /\ UNCHANGED <<up, n, server, open, occurred>>

\* Mutant: with a complete local file gets returns without the last message.
GetsMetaNoMessage ==
  /\ ReceivesType("meta", "meta")
  /\ \E have \in 0..MaxSize :
       LET size == Head(down).v
           asked == IF have >= size THEN size ELSE have IN
       /\ up' = Append(up, Up("offset", asked))
       /\ \/ /\ client' = [client EXCEPT !.size = size - asked,
                                         !.at = IF have >= size THEN "prompt" ELSE "data"]
             /\ UNCHANGED occurred
          \/ have < size /\ Goes("prompt") /\ occurred' = occurred \cup {"local"}
  /\ UNCHANGED <<n, server, open>>

\* The size of a local file of that name, at most that of the remote one, is
\* the offset asked for; a file that cannot be opened ends the function.
GetsMeta ==
  /\ ReceivesType("meta", "meta")
  /\ \E have \in 0..MaxSize :
       LET size == Head(down).v
           asked == IF have >= size THEN size ELSE have IN
       /\ up' = Append(up, Up("offset", asked))
       /\ \/ /\ client' = [client EXCEPT !.size = size - asked,
                                         !.at = IF have >= size THEN "final" ELSE "data"]
             /\ UNCHANGED occurred
          \/ have < size /\ Goes("prompt") /\ occurred' = occurred \cup {"local"}
  /\ UNCHANGED <<n, server, open>>

GetsData == /\ ReceivesType("data", "data")
            /\ client' = [client EXCEPT !.size = @ - 1,
                                         !.at = IF client.size = 1 THEN "prompt" ELSE "data"]
            /\ UNCHANGED <<up, n, server, open, occurred>>

\* A recv of fixed length finds something else; so does cd's among the bytes a
\* gets has left.
ClientLost == /\ \/ /\ client.at \in ExactPlaces /\ down # <<>>
                    /\ Head(down).t # (IF client.at = "getstatus" THEN "status" ELSE client.at)
                 \/ client.at = "changed" /\ Text("surplus")
              /\ Goes("lost")
              /\ UNCHANGED <<up, down, n, server, open, occurred>>

\* The server has closed: a command ends, and without a login the program.
ClientEndOfFile ==
  /\ client.at \in ClientWaits /\ down = <<>> /\ server.at = "closed"
  /\ Goes(IF client.at = "login" THEN "gone" ELSE "prompt")
  /\ UNCHANGED <<up, down, n, server, open, occurred>>

ClientStep ==
  \/ Ping \/ SocketEvent \/ Quit
  \/ \E cmd \in {"register", "login"} : Identify(cmd)
  \/ \E v \in {"empty", "some"} : Password(v)
  \/ \E cmd \in Commands : Command(cmd)
  \/ LoginReply \/ Reply \/ ReplyPart \/ Changed \/ NewPath
  \/ PutsMeta \/ PutsFails \/ PutsStatus \/ PutsOffset
  \/ GetsStatus \/ GetsMeta \/ GetsData
  \/ ClientLost \/ ClientEndOfFile

-----------------------------------------------------------------------------
(* The worker.                                                             *)

\* What a recv of the worker takes is the next item, of the awaited type.
Takes(t) == server.at = t /\ up # <<>> /\ Head(up).t = t /\ up' = Tail(up)

\* What the worker sends goes nowhere once the descriptor is closed.
Answers(items) ==
  down' = IF open THEN down \o [i \in 1..Len(items) |->
                                  Item(items[i][1], items[i][2], server.of)]
                  ELSE down
Awaits(t) == server' = [server EXCEPT !.at = t]
Faults(f) == occurred' = occurred \cup f

\* Mutant: the worker takes ls for a command with a path.
ReceiveCommandWithPath ==
  /\ Takes("cmd")
  /\ LET cmd == Head(up).v IN
       server' = IF cmd = "ping" THEN server
                 ELSE [server EXCEPT !.cmd = cmd, !.of = Head(up).of,
                                     !.at = IF cmd = "pwd" THEN "run" ELSE "name"]
  /\ UNCHANGED <<down, n, client, open, occurred>>

\* A ping is all there is of it; after any other command but pwd and ls comes a
\* name.
ReceiveCommand ==
  /\ Takes("cmd")
  /\ LET cmd == Head(up).v IN
       server' = IF cmd = "ping" THEN server
                 ELSE [server EXCEPT !.cmd = cmd, !.of = Head(up).of,
                                     !.at = IF cmd \in {"pwd", "ls"} THEN "run" ELSE "name"]
  /\ UNCHANGED <<down, n, client, open, occurred>>

\* handle_user reads the password first, cmd_puts size and hash.
ReceiveName ==
  /\ Takes("name")
  /\ Awaits(IF ~server.logged THEN "password" ELSE IF server.cmd = "puts" THEN "meta" ELSE "run")
  /\ UNCHANGED <<down, n, client, open, occurred>>

\* Mutant: a login without a root directory leaves the session logged in.
HandleUserKeepingLogin ==
  /\ Takes("password")
  /\ IF Head(up).v = "empty"
     THEN Awaits("cmd") /\ UNCHANGED down
     ELSE \E v \in {"success", "refused", "norootdir"} :
            /\ Answers(<<<<"text", v>>>>)
            /\ server' = [server EXCEPT !.at = "cmd", !.logged = v # "refused"]
  /\ UNCHANGED <<n, client, open, occurred>>

\* recv of no bytes returns 0 and handle_user returns without an answer.
\* Otherwise name and password are right, or wrong, or the root directory is
\* missing.
HandleUser ==
  /\ Takes("password")
  /\ IF Head(up).v = "empty"
     THEN Awaits("cmd") /\ UNCHANGED down
     ELSE \E v \in {"success", "refused", "norootdir"} :
            /\ Answers(<<<<"text", v>>>>)
            /\ server' = [server EXCEPT !.at = "cmd", !.logged = v = "success"]
  /\ UNCHANGED <<n, client, open, occurred>>

\* The commands with an answer that does not depend on the client any more.
Runs(cmd) == server.at = "run" /\ server.cmd = cmd

\* One send: the entries, or what went wrong.
List == /\ Runs("ls") /\ Awaits("cmd")
        /\ \E v \in {"listing", "failed"} : Answers(<<<<"text", v>>>>)
        /\ UNCHANGED <<up, n, client, open, occurred>>

\* The path and its padding, or that there is none.
Pwd == /\ Runs("pwd") /\ Awaits("cmd")
       /\ \E v \in {"path", "failed"} : Answers(<<<<"text", v>>>>)
       /\ UNCHANGED <<up, n, client, open, occurred>>

\* Success is a sentence and a path, or one zero byte if another session has
\* just removed the directory.
Cd == /\ Runs("cd") /\ Awaits("cmd")
      /\ \/ Answers(<<<<"text", "failed">>>>) /\ UNCHANGED occurred
         \/ Answers(<<<<"text", "changed">>, <<"text", "path">>>>) /\ UNCHANGED occurred
         \/ Answers(<<<<"text", "changed">>, <<"text", "nopath">>>>) /\ Faults({"nopath"})
      /\ UNCHANGED <<up, n, client, open>>

\* Mutant: one of the ways to fail is not reported.
ChangeSilently ==
  /\ server.at = "run" /\ server.cmd \in {"mkdir", "rmdir", "remove"} /\ Awaits("cmd")
  /\ \/ \E v \in {"done", "failed"} : Answers(<<<<"text", v>>>>)
     \/ UNCHANGED down
  /\ UNCHANGED <<up, n, client, open, occurred>>

\* Every way through mkdir, rmdir and remove ends in one sentence.
Change ==
  /\ server.at = "run" /\ server.cmd \in {"mkdir", "rmdir", "remove"} /\ Awaits("cmd")
  /\ \E v \in {"done", "failed"} : Answers(<<<<"text", v>>>>)
  /\ UNCHANGED <<up, n, client, open, occurred>>

\* cmd_puts has size and hash: it refuses, needs no data, or asks for them from
\* an offset on (0 unless it resumes).  If the temporary file then cannot be
\* opened, a second status follows and the function returns.
AnswerPuts ==
  /\ Takes("meta")
  /\ \/ /\ Answers(<<<<"status", "error">>, <<"text", "failed">>>>)
        /\ Awaits("cmd") /\ UNCHANGED occurred
     \/ Answers(<<<<"status", "seccomp">>>>) /\ Awaits("cmd") /\ UNCHANGED occurred
     \/ \E k \in 0..Head(up).v :
          \/ /\ Answers(<<<<"status", "go">>, <<"offset", k>>>>)
             /\ server' = [server EXCEPT !.at = "data", !.size = Head(up).v - k]
             /\ UNCHANGED occurred
          \/ /\ Answers(<<<<"status", "go">>, <<"offset", k>>, <<"status", "error">>>>)
             /\ Awaits("cmd") /\ Faults({"open"})
  /\ UNCHANGED <<n, client, open>>

\* A block; if it cannot be written the loop ends, and data are still coming.
ReceiveData ==
  /\ server.size > 0 /\ Takes("data")
  /\ \/ /\ server' = [server EXCEPT !.size = @ - 1] /\ UNCHANGED <<down, occurred>>
     \/ Answers(<<<<"text", "interrupted">>>>) /\ Awaits("cmd") /\ Faults({"write"})
  /\ UNCHANGED <<n, client, open>>

\* All there is to receive has been: rename, record, confirm.
FinishPuts ==
  /\ server.at = "data" /\ server.size = 0
  /\ Answers(<<<<"text", "success">>>>) /\ Awaits("cmd")
  /\ UNCHANGED <<up, n, client, open, occurred>>

\* cmd_gets: no such file, with a sentence or (dead directory, empty file, no
\* hash) without; or size, hash and completeness, and it waits for an offset.
AnswerGets ==
  /\ Runs("gets")
  /\ \/ /\ Answers(<<<<"status", "notfound">>, <<"text", "failed">>>>)
        /\ Awaits("cmd") /\ UNCHANGED occurred
     \/ Answers(<<<<"status", "notfound">>>>) /\ Awaits("cmd") /\ Faults({"mute"})
     \/ \E k \in 1..MaxSize :
          /\ Answers(<<<<"status", "ok">>, <<"meta", k>>>>)
          /\ server' = [server EXCEPT !.at = "offset", !.size = k] /\ UNCHANGED occurred
  /\ UNCHANGED <<up, n, client, open>>

\* The client has all, or the content follows, or instead of (the rest of) it
\* nothing or a sentence, the entity being shorter or gone.  It may be longer too,
\* when the row is that of an unfinished upload and the content is complete under
\* another one: whole buffers are sent, and what is beyond the announced size
\* stays on the stream.
SendContent ==
  /\ Takes("offset") /\ Awaits("cmd")
  /\ LET left == server.size - Head(up).v IN
       IF left <= 0 THEN Answers(<<<<"text", "complete">>>>) /\ UNCHANGED occurred
       ELSE \/ Answers([i \in 1..left |-> <<"data", 1>>]) /\ UNCHANGED occurred
            \/ /\ \E k \in 0..left : k < left /\ Answers([i \in 1..k |-> <<"data", 1>>])
               /\ Faults({"missing"})
            \/ /\ Answers([i \in 1..left |-> <<"data", 1>>] \o <<<<"text", "surplus">>>>)
               /\ Faults({"longer"})
            \/ Answers(<<<<"text", "missing">>>>) /\ Faults({"missing"})
  /\ UNCHANGED <<n, client, open>>

\* A recv of fixed length finds something else.
ServerLost == /\ server.at \in ServerWaits /\ up # <<>> /\ Head(up).t # server.at
              /\ ~(server.at = "data" /\ server.size = 0)
              /\ Awaits("lost")
              /\ UNCHANGED <<up, down, n, client, open, occurred>>

\* The client is gone, or the wheel has closed the descriptor: recv fails
\* (unless it has begun before), and the session ends.
ServerEndOfFile ==
  /\ server.at \in ServerWaits
  /\ (client.at = "gone" /\ up = <<>>) \/ ~open
  /\ Awaits("closed")
  /\ UNCHANGED <<up, down, n, client, open, occurred>>

\* The wheel finds the client idle while the worker waits for it: a notice and
\* close, of which the worker sees nothing before its next call.
Expire == /\ open /\ server.at \in ServerWaits
          /\ ~(server.at = "data" /\ server.size = 0)
          /\ open' = FALSE
          /\ down' = Append(down, Item("notice", "notice", 0))
          /\ Faults({"expiry"})
          /\ UNCHANGED <<up, n, client, server>>

ServerStep ==
  \/ ReceiveCommand \/ ReceiveName \/ HandleUser
  \/ List \/ Pwd \/ Cd \/ Change
  \/ AnswerPuts \/ ReceiveData \/ FinishPuts \/ AnswerGets \/ SendContent
  \/ ServerLost \/ ServerEndOfFile

Next == ClientStep \/ ServerStep \/ Expire

Spec == Init /\ [][Next]_vars

\* Both programs are scheduled.  The user owes nothing (no fairness for what is
\* done at the prompt except the ping) but the password once asked for it, and
\* the wheel need not expire anybody.
Inside == \/ LoginReply \/ Reply \/ ReplyPart \/ Changed \/ NewPath
          \/ PutsMeta \/ PutsFails \/ PutsStatus \/ PutsOffset
          \/ GetsStatus \/ GetsMeta \/ GetsData
          \/ ClientLost \/ ClientEndOfFile
          \/ \E v \in {"empty", "some"} : Password(v)
          \/ client.at = "password" /\ Quit

FairSpec == Spec /\ WF_vars(Ping) /\ WF_vars(Inside) /\ WF_vars(ServerStep)

-----------------------------------------------------------------------------
(* Properties.                                                             *)

InCommand == client.at \notin {"prompt", "select", "gone", "lost"}

\* Type invariant: places, logins, and what each side still expects, which is
\* at most one file.
TypeOK ==
  /\ client.at \in ClientWaits \cup {"prompt", "select", "password", "puts", "gone", "lost"}
  /\ server.at \in ServerWaits \cup {"run", "closed", "lost"}
  /\ client.size \in 0..MaxSize /\ server.size \in 0..MaxSize
  /\ client.logged \in BOOLEAN /\ server.logged \in BOOLEAN /\ open \in BOOLEAN
  /\ n \in 0..MaxCommands /\ server.of \in 0..n
  /\ occurred \subseteq Fault

\* Both sides agree on what comes next: the worker (worker.c:41-56,
\* cmd_set.c:40-42, 209, 333) takes nothing for what it is not unless the client
\* could not read its file or it changed (client/cmd_set.c:85-93, 127, 148-171),
\* the worker stopped receiving (cmd_set.c:187, 213), or the user's input ended at
\* the password (client/main.c:122-125, 158-161: the ping is taken for it).  The
\* client neither, unless the content it was promised is not there or goes on
\* beyond its size (cmd_set.c:346, 381-385), or something was left unread.
InStep ==
  /\ server.at = "lost" => occurred \cap {"local", "open", "write", "input"} # {}
  /\ client.at = "lost" =>
       occurred \cap {"local", "missing", "longer", "split", "expiry"} # {}

\* What a command shows to the user is the answer to that command: a client
\* never takes what an earlier command left on the stream (client/main.c:158 and
\* :173, the flag handling_cmd), unless that command gave up before its answer
\* had come, had read only a part of it, or was a gets that was sent more than
\* announced (cmd_set.c:381-385).
RepliesMatch ==
  [][ (InCommand /\ Len(down') < Len(down)) =>
        Head(down).of = n \/ occurred' \cap {"local", "longer", "split", "expiry"} # {} ]_vars

\* Client and worker never wait for one another with nothing on the way, except
\* after the answers that leave out a message or content: no password
\* (handle_cmd.c:11), NOT_FOUND alone (cmd_set.c:279, :321), content that ends too
\* early, and after the faults that break the conversation.
StandoffOnlyByFault ==
  (InCommand /\ client.at \in ClientWaits /\ up = <<>> /\ down = <<>>
     /\ server.at \in ServerWaits /\ ~(server.at = "data" /\ server.size = 0))
  => occurred \cap {"empty", "mute", "missing", "local", "expiry"} # {}

\* Both have the same idea of whether the user is logged in whenever the client
\* is at its prompt and the conversation is in step (client/main.c:137,
\* handle_cmd.c:45, :70 and :79): otherwise a command would be read as the name
\* of an account, or the other way round.
SameLogin ==
  (client.at \in {"prompt", "select"} /\ server.at = "cmd" /\ "expiry" \notin occurred)
  => client.logged = server.logged

\* Neither side is where the other cannot expect it.
SidesAgree == TypeOK /\ SameLogin

\* A command comes to its end, whatever both sides find on their disks and in the
\* database, unless one of the faults occurs that leave them waiting or lost
\* (client/main.c:196-244: the loop goes on after every command).  Content that
\* goes on too long does not keep it from ending, be it that the client is lost.
CommandsFinish ==
  InCommand ~> (~InCommand \/ occurred \ {"split", "nopath", "longer", "input"} # {})
=============================================================================
