# Verification of the NetDisk server and its companions

This directory models the program logic of the repository in TLA+, checks the
models with TLC on small instances and proves the most important results with
TLAPS for all sizes. `PROJECT.json` lists the runs, the source lines each
definition models, the hazards and the theorems.

## 1. Inventory

The repository collects Linux programming exercises. Most of it is notes
(`*.md`), pictures and daily exercises that repeat one another. The program with
a logic of its own is **NetDisk** (`src/5.Project/1.NetDisk`): a network disk
with a multi-threaded server and a terminal client. A few stand-alone programs
(`src/3.独立文件`) have interesting concurrency, or an algorithm of their own.

### NetDisk server (`server/`)

| component | state | operations | interacts with |
|---|---|---|---|
| main loop (`main.c`, `epoll.c`, `socket.c`) | epoll set, pipe from the parent | poll once a second, tick, accept, stop | wheel, pool, parent process |
| thread pool (`thread_pool.c`, `task.c`, `worker.c:7-23`) | queue of descriptors, exit flag, mutex, condition | enqueue and signal, wait, take, leave, broadcast, join | main loop, sessions |
| time wheel (`timewheel.c`) | ring of slots, map of descriptors, current slot, last tick | add, refresh, delete, tick, destroy | main loop adds and ticks, workers refresh and delete |
| session (`worker.c:25-80`) | descriptor, login, directory, upload in progress | receive a command, dispatch, close | handlers, wheel |
| accounts (`handle_cmd.c`, `user.c`, `hash.c`) | user rows | register, login | database, forest |
| commands (`cmd_set.c`) | session, files on disk | cd, ls, puts, gets, remove, pwd, mkdir, rmdir | forest, file store, client |
| file forest (`file_forest.c`) | rows of directories and files | insert, find, resolve, remove | database |
| file store (`file_hash.c`, `file_forest.c:527-598`) | entity files named by hash, temporary files, hash rows | rename, unlink, insert, exists | database, disk |
| database access (`sql.c`) | one `MYSQL*` connection | query, store, insert id | every worker |
| configuration (`configuration.c`, also in `client/`) | hash table of settings | load, put, get, delete, grow | main |
| log, tokens (`log.c`, `partition_token.c`) | log files | append | all |

Connections are named by their descriptor everywhere. The main thread and the
workers share the pool (under its mutex), the wheel (under its own mutex), the
database connection (under none) and the descriptors themselves (which the
kernel reuses).

### NetDisk client (`client/`)

A loop over the terminal and the socket (`main.c`); one command at a time
(`cmd_set.c`), its words taken from the line by `separate_cmd_path.c`, with pings in
between. `puts` and `gets` carry a file with a resume offset.

### Stand-alone programs (`src/3.独立文件`)

| program | what it is |
|---|---|
| 0002 | a lexical analyser for a C-like language (`scanner.c`) |
| 0005 | a ticket seller and a supplier, with a mutex and with a condition variable |
| 0006 | producers and consumers on a bounded linked list |
| 0008 | a chat room, on select and on epoll |
| 0009 | a file server with a thread pool that ends by a flag |
| 0003, 0004, 0007 | sending a file, two processes that signal each other, echo servers |

### What is hard, and what would be correct

* **Wheel.** A node must be chained exactly where its index says; an idle client
  must be disconnected neither early nor late, however late the main loop is.
* **Pool.** No wake-up may be lost between one signal per task and workers that
  come back by themselves; nobody may sleep through the shutdown; a task is
  served once.
* **Connection.** Between accept, queue, session, expiry and close, five places
  hold the same number; the wheel may close it under all of them. A session
  should stay with its client, every descriptor should be closed once, the
  server should end when told.
* **Uploads.** Entity files are shared by hash between users; rows, hash rows and
  files change in separate steps by several sessions, any of which may break
  off. A complete row should have its entity, and the entity its content.
* **Forest.** Checks and insertions are separate queries, any of which may fail or
  be followed by those of another session. Ids and stored paths should tell the same tree,
  a root should stay, a removal should take its own subtree only.
* **Protocol.** Client and server take turns on one stream without framing; a
  message too few or too many leaves both waiting or reads data as commands.
* **Database.** One connection for all workers: a result belongs to whoever
  fetches it first.
* **Programs with condition variables** (0005, 0006, 0009). One condition variable for two
  kinds of waiters; signals nobody waits for; waits under `if`; workers that end.
* **Chat room.** Descriptors are reused while the table keeps every old entry and
  a round of events is half handled.
* **Lexer, configuration, command line.** Sequential: the longest token at its line, the
  map that survives rehashing, the words as typed.

## 2. Modules and how they correspond to the code

    IdleTimer  <--implemented by--  TimeWheel       <-- TimeWheelProofs
        ^
        | INSTANCE (Wheel)
    ConnServer --implements (Pool)--> ThreadPool    <-- ThreadPoolProofs
        ^
    ConnServerProofs

    Upload       puts, many sessions        (handlers of a session,
    FileForest   accounts, directories       which ConnServer leaves
    Protocol     client and one worker       open)
       Upload <-- UploadProofs   FileForest <-- FileForestProofs

       Protocol <-- ProtocolProofs

    ProducerConsumer  Configuration  CommandLine  <--INSTANCE--  SmallPrograms
       ChatServer <-- ChatServerProofs   Lexer, Tickets, FileServer, SmallPrograms <-- ProgramProofs

| module | models | state and actions |
|---|---|---|
| `IdleTimer` | what `timewheel.h` promises, whatever it is built from | `remaining[fd]` steps to live; arm, rearm, disarm, elapse `k` steps |
| `TimeWheel` | `timewheel.c` | `table`, `fd_map`, `current` are the fields of the struct; `elapsed` is `now - tw->last`; `idle` is what the wheel is to measure and no code reads. One action per function, since each holds `tw->mutex` throughout, except `time_wheel_add` for a known descriptor, which gives it up in between (`AddKnown`, `AddKnownRefresh`). A slot is the set of its chain, since only order of insertion is lost by that |
| `ThreadPool` | the pool (`thread_pool.c`, `task.c`, `worker.c:7-23`, `main.c:80-94,105-110`) | `queue`, `exit_flag`, the place of each worker; the waiting set of the condition variable is the set of workers at "waiting". Each critical section is one action, a wait is the end of one and the wake-up the begin of another |
| `ConnServer` | `main.c` from `epoll_wait` to the join, `worker.c` whole | descriptors (`conn`: what the kernel makes of each number), the main thread's place in its loop (`main`, `ready`, `hand`), the workers (`pc`, `fd`, `stage`, `sock`). `owner` and `reading` are seen by no code: they say for whom a session was opened and whose command it has. A `recv` is two steps: the call resolves the number, the return comes when there is data |
| `Upload` | `cmd_puts` of the server whole, `file_hash.c`, the rows of `file_forest.c` it uses | tables `rows` and `hashes`, directory `temp` and `entity`, `data` of inodes, and per session the two fields `upload_file_id` and `upload_received` and the locals of the call. One query or system call is one step. `world` says whether clients overwrite and whether the server may be killed |
| `FileForest` | `handle_cmd.c`, `user.c`, and `cd`, `mkdir`, `rmdir`, `remove` and what `puts` and `gets` look up, with `file_forest.c` | `accounts`, `rows` with id, parent, stored path and user; a session with its directory (a number kept since `cd`) and its place in the command. One query is one step, and may fail `MaxFailures` times; a path is resolved one component, and one query, after the other |
| `Protocol` | client `main.c` and `cmd_set.c`; server `worker.c`, `handle_cmd.c`, `cmd_set.c` as the other side | two streams `up` and `down` of items, the place of client and worker in their programs; what is found in the database or on a disk is a choice, and each choice that is a fault is recorded in `occurred`. Nothing like a frame tells one item from the next: who awaits a fixed length and finds something else is "lost" |
| `Lexer` | 0002, `scanner.c`, `scanner.h`, `main.c` | the text, the position, the line and the tokens; one call of `scanToken` is one step |
| `ProducerConsumer` | 0006 | the linked list with its nodes at addresses, who waits; one critical section is one step |
| `Tickets` | 0005, both variants | tickets, flag, places of seller and supplier; the variant is chosen in `Init` |
| `FileServer` | 0009 | queue, flag, workers, what each client did; a worker that ends inside `send_file`. `exit_flag` may be anything at first: the pool is a variable on the stack and `init_thread_pool` does not set it (NetDisk's copy does). With 1 the workers leave at once, with neither 0 nor 1 they take from an empty queue |
| `ChatServer` | 0008, `2.epoll/server.c` | the table of all connections ever made, descriptors, the events of a round not handled yet |
| `Configuration` | `configuration.c` | the chains, the size, the hash function of the present seed; `map` is what should be in it |
| `CommandLine` | `separate_cmd_path.c` | the line, the command, the paths taken so far |
| `SmallPrograms` | the three of these with an invariant about data: `ProducerConsumer`, `Configuration`, `CommandLine` | an instance of each, side by side; a behaviour (`OneOfThem`) is of one of them (`program`). It adds nothing to them: it is where `QueueConsistent`, `TableIsMap` and `PathsAreWords` are stated once, for the run and for the theorems |

`MC*.tla` and `MC*.cfg` give the instances. Three of them check several programs side by side, which share
no step: a behaviour is of one of them (`program`), and the variables of the others do not move.
`MCThreads` extends `ThreadPool` and has an instance of `Tickets` and of `FileServer`; `MCSockets` extends
`Protocol` and `ChatServer`; `MCPrograms` extends `TimeWheel` and `SmallPrograms` and has an instance of `Lexer`.
Definitions whose comment begins with *Mutant* or *A mistake*
stand beside the definition they falsify: each run property is known to fail if
the named definition is replaced by it. They are not part of any specification.

What is abstracted: file content is the set of blocks written; a hash is the
name of a content, so collisions do not occur; in `ConnServer` a command is its kind
(no path, a path follows, ping); a query is atomic; in `Upload` it succeeds. What is
external: the kernel's reuse of descriptors, `recv` that keeps its connection when
another thread closes the number, inodes that live as long as they are named
or open, and clients where they are not modelled themselves.

## 3. Plan

Done: `IdleTimer` and `TimeWheel`, `ThreadPool`, `ConnServer` over both with their
proofs and refinements; `Upload`, `FileForest` and `Protocol` with proofs; the stand-alone
programs, the table of settings and the command line with proofs. Every safety property
of a passing run is proved for all sizes, except for the part of `TokensAreRight` that is about
the spelling of tokens.

What is left:

1. The chat room on select, which finds clients by their place in the table.
2. A model of strings in `Lexer` in which provers can compare texts (a text as a sequence of numbers).

Abstract specifications: `IdleTimer` for the wheel, `ThreadPool` for what
`ConnServer` does with it; possible, a file store (a map of names to contents) for
`Upload`.

## 4. Runs

Passing runs:

| run | instance | question |
|---|---|---|
| `threads` | `ThreadPool`: 4 workers, 5 connections, spurious wake-ups, stop at any time. `Tickets`: both variants. `FileServer`: 2 workers, 3 clients, any `exit_flag` | of the pool: no wake-up is lost, no task doubled or forgotten, nobody sleeps through the stop, queued tasks are served, the pool stops; with the condition variable seller and supplier end with everything sold; queued clients of 0009 are not left waiting, and it ends when told |
| `programs` | `TimeWheel`: 2 descriptors, 4 slots of 2 s, main loop up to 5 s late. `Lexer`, and the three programs of `SmallPrograms` | of the wheel: chains, map, clock and the current slot agree (`WheelConsistent`); nobody expires early or late; an idle client ends; it is an `IdleTimer`. Tokens are the longest, on their line, with nothing skipped between them and no more than characters; the linked list is the queue; waiters have a reason and are woken; table and words are what was put and typed |
| `sockets` | `Protocol`: 4 commands, files of up to 2 blocks, every fault. `ChatServer`: 3 clients on 2 descriptors | client and worker only fall out of step after a fault listed for it, only wait for each other after one, take no answer for another unless one was cut short or too long, agree on the login, and commands end; reused descriptors of the chat room mean one client, a message is heard once, and who leaves is let go of |
| `conn_active` | 3 connections, 2 descriptors, 2 workers, 2 messages, no expiry | as long as nobody expires: sessions read their own client only, an entry is lost for its own client only, what is open can expire |
| `conn_live` | 3 connections on 1 descriptor, 2 workers, expiry at any poll, clients that leave in the end | whatever the wheel closes under the others, no descriptor is forgotten open and the server still is a `ThreadPool`; everybody who connects is served or the server stops; a stopped server ends |
| `upload` | 2 sessions with a name each, an empty content and one of 2 blocks; one world where clients overwrite, one where they do not and the server may be killed | entities are whole in both; complete rows and known hashes have them where nothing is overwritten; an interrupted upload goes on inside what is stored, or its entity is there |
| `forest` | five worlds: one session alone with a query that fails, two users who take turns at one, one user twice, two users, two rivals for one name | in all of them the rows form trees with a root each whose ids and paths agree, and sessions stay in their own; names are registered once; without rivals no name twice in a directory; alone, no path twice, no orphans, and a removal takes of the user's rows just those below |

Runs that show where the code does not do what it says (each checks one
property TLC finds violated; `findings` in `PROJECT.json` quotes the lines):

| run | what it shows |
|---|---|
| `conn_session` | The wheel closes a descriptor, `accept` hands the number out again, and the next `recv` of the old session reads the new client's commands, in the old client's login (`worker.c:41`) |
| `conn_timeout` | Closing a descriptor does not end the `recv` another thread is in: the worker of a client that was "disconnected due to inactivity" stays with it (`timewheel.c:255`). For the same reason a client that stays silent keeps a server that was told to stop in `pthread_join` (`main.c:87`) |
| `upload_instant` | Uploading a complete file again under the same path first unlinks its entity (`cmd_set.c:110`) and then, since the hash was found before, answers that no transfer is needed |
| `upload_shared` | Two sessions of one user upload the same content to the same name: the one that breaks off after the other has finished writes its own progress to the row and makes it incomplete, so that a file that could be read cannot be read any more (`cmd_set.c:252`) |
| `forest_remove` | A directory is removed recursively by a pattern over paths that names no user: what another user keeps below a path of that name goes with it (`file_forest.c:417`) |

Several properties are conjunctions of named parts, each with a comment of its
own: `WheelConsistent`, `PoolConsistent`, `Accounted`, `StoreConsistent`, `ResumeIsSafe`,
`TreesConsistent`, `SidesAgree`, `TokensAreRight`, `QueueConsistent`, `TableConsistent`,
`TableIsMap`. `MCThreads` and `MCPrograms` state those of the programs they have an instance of under the same
names, for the behaviours of that program. Clients, workers and threads of one kind being alike, some of them are
stated there of one that stands for all (`MCThreads!NobodyIsLeftWaiting`, `MCPrograms!EveryoneIsWoken`, `MCSockets!LeaverIsLetGo`).

### Bounds, and why they are enough

* `TimeWheel`: an interval of 2 and a lag of 5 leave remainders after a tick, make ticks of
  one and of two slots, and leave a bound of `NeverEarly` that is not 0; 2 descriptors can share a slot, be in two, and
  be added while one is refreshed. A pause of more than a whole turn, where the number of steps is cut off
  (`timewheel.c:240`), is left to the proofs, which have no bound; beyond a turn `NeverEarly` promises
  nothing, and the run could not show it violated.
* `ThreadPool`: 4 workers as in `main.c:44`, one task more than workers. The proofs
  have no bound.
* `ConnServer`: a descriptor must be reused while its old holder is in the queue, in
  a session and about to close; that takes 3 connections on 1 descriptor and 2
  workers. `MaxSent` bounds only what clients send: 2 messages make a command and
  its path (`conn_active`); `conn_live` has none, since only the coming and going of
  sessions matters to it, and the proofs cover its safety properties with any
  number. `Budget` 1 lets any poll expire anybody, and 2 steps are not different from 1.
* `Upload`: two sessions; two contents, so that rows can agree or differ in
  their hash; two blocks and a threshold of one, so that there is a progress
  between nothing and all; two rows, one for each name (`MaxRow`); five inodes, which
  are never used up (two entities, two temporary files, one descriptor to an unlinked one).
  Sessions may be exchanged together with their names, which TLC uses as a symmetry;
  in `conn_active` connections, workers and descriptors may be permuted.
* `FileForest`: `MaxRow` 2 or 3 rows besides the roots make a directory, one in it
  and a file; `MaxFailures` 1 lets any one query fail. Paths have at most three components, with
  ".", "..", two slashes in a row, the wildcard "%" and both kinds of beginning among them. Each world costs its own bounds.
* `Protocol`: what a command leaves behind is met by the next one, so that 2 commands
  would do; 4 (`MaxCommands`) let a client register, put, get and look. Blocks
  are two, to stop between them. `mkdir` stands for `rmdir` and `remove`, which are answered alike.
* `Lexer`: every text of three of 13 characters, one of each class and every operator
  among them, and every keyword alone, cut, prefixed and followed; the longest operator has
  two characters, so that the third shows where it ends. `CommandLine`: every line of five of
  five characters, a buffer of 4.
* `ProducerConsumer`: 2 producers, 3 consumers, room for 2: both ends of the list are met with
  more waiting than one signal wakes. `Tickets`: the numbers of the programs. `FileServer`: 3 clients
  and 2 workers, so that all workers can end before the last client. `ChatServer`: 3 clients on 2
  descriptors, so that one is reused; the table is bounded by that. `Configuration`: 3 keys,
  one doubling, every hash function.

The run `upload` gives every session a name of its own (`upload_shared` does not): what `EntitiesWhole` owes to
that is that a row is worked on by one session at a time. Without it three sessions of one
user can put an empty file in place of an entity: one is told to resume at the end of the
temporary file, another renames that file before it is opened, so that `open` makes an empty
one, and a third unlinks the entity to overwrite it (`cmd_set.c:187-231`). The world that
overwrites has no crashes, for a crash between the renaming and the query that
records it (`cmd_set.c:231`, `:238`) leaves a row that promises a temporary file
which is gone; the other world has them, and there the entity is never unlinked.

### Fairness

* `TimeWheel`: the clock goes on, a call in progress returns, and the main loop keeps
  ticking: `epoll_wait` has a timeout of a second (`main.c:63`). The fairness of `Tick` is
  strong because the main thread itself disables it while inside `time_wheel_add`.
* `ThreadPool`: a worker at the mutex gets it, sessions end. That they end is an
  assumption here; `conn_timeout` shows that a client can prevent it.
* `ConnServer`: `FairSpec` schedules the threads only. `PoliteSpec` adds that every client
  leaves in the end; `EveryClientServed` and `ShutdownCompletes` need it, since a
  silent client may hold a worker for ever.
* `Protocol`: both programs are scheduled: a client inside a command, its pings and the
  worker go on where they can. Nothing is assumed of the user.
* `ProducerConsumer`: every thread that can go on does. `ChatServer`: the server is scheduled.
* `FileServer`: of the workers at the mutex some one gets it, no matter which; a client that was accepted sends
  or closes in the end, so that sessions end; the join returns when it can.
* `Tickets`: of the threads at the mutex some one gets it, and a customer who is asked for ever buys (strong
  fairness of `Buy`: the program draws a random number each time), both in the variant with the condition variable only.
  There each thread waits while the other is due, so that no more is needed. In the variant with the mutex alone both
  poll, and nothing promises the mutex to the supplier while the seller takes it again and again; that variant
  has safety properties only (`SoldOut`, `SuppliesWhenLow`).
* The other modules have safety properties only.

## 5. Proofs

TLAPS proves, for all values of the constants that satisfy the named assumptions:

* `TimeWheelProofs` (any number of descriptors and slots, any interval, any delay of
  the main loop): `WheelConsistent`, `NeverLate`, `NeverEarly`, and that the wheel implements
  `IdleTimer`. The inductive invariant is the conjunction of `TypeOK`, `ChainsMatchMap`,
  `CurrentSlotEmpty` and `Punctual`. `Punctual` relates the idle time of a
  node to the way left to its slot; `CurrentSlotEmpty` is needed since a node in
  the current slot is a whole turn away and not due; `ChainsMatchMap` since a tick
  empties chains and `Punctual` speaks of the map. The arithmetic of the ring
  (where a full turn ends, which slots a tick visits, how much nearer a slot comes)
  is in lemmas of its own. The bounds follow from `Punctual` without induction.
  For the refinement, `Tick` is an elapse of `TickSteps` steps: the nodes whose way
  left is at most that are exactly those in the visited slots.
* `ThreadPoolProofs` (any finite set of workers, any tasks): `PoolConsistent` and
  `NoLostWakeup`. The invariant adds `PhasesAgree`, which ties the
  main thread's phase to the flag and a worker's place to its task. The core
  is counting: a submission makes the queue one longer and, if anybody sleeps,
  one more worker ready; a worker that takes a task shortens both.
* `ConnServerProofs` (any clients, descriptors and workers, any budget, any expiry):
  `Accounted`, and that the server implements `ThreadPool` (`ServerImplementsPool`), so that the
  safety results of `ThreadPoolProofs` hold of the server. `NoDescriptorLeak` is not inductive:
  a step that opens, passes on or ends a session keeps it only because a connection is in one place
  (`OnePlace`) and because the hands of the main thread and of the workers are full exactly where the
  code says (`HandsAgree`). `OnlySentArrives` bounds what is left to read by what was sent. In the refinement the
  status of a connection is read off its place; `OnePlace` makes a submission and a take change that of
  one connection only, and whatever the wheel, the kernel and the sessions do is no step of the pool.
  Assumed: `None` is no connection and no descriptor, `MaxSent` is a number, the wheel's `Budget`
  and `Steps` as in the module.
  As long as nothing expires (`NoExpiry`: a step is never the wheel's) three more hold, each an
  assumption of its theorem and not of the model: `SessionOfOneClient`, `OpenIsTracked` and
  `ForgetsOwnClient`. The invariant `Undisturbed` says that whoever holds a descriptor holds the
  connection that is open on it, and that the wheel knows exactly the open ones between `accept` and close.
* `FileForestProofs` (any users, sessions, rows, names and commands, any failures of queries): `TreesConsistent`,
  `WorksInOwnTree`, `AccountsHaveOneRoot`, and, where the world has it, `NoTwins`, `NoOrphans` and `RemovesPlainSubtree`. `Trees`
  is inductive for all worlds: the types, that of each row parent, stored path and user agree with each other
  (`RowOK`), and what a session may rely on between two queries (`Ready`): the directory it works in, the row
  it found, the path it resolved so far were rows of its own user, whether they still exist or not. Row ids are never used
  again, so that a row that vanished makes a later insertion fail or leaves an orphan, and never moves a subtree to somebody else's.
  `Careful` adds what registration and insertion are about to do: `AccountsOK` (a name whose registration
  goes on has no root yet, or the one just made for it), `Twins` (nobody else is about to insert the name
  a session found missing), `Orphans`. Each property names its own condition (`UniqueNames`,
  `Separate`, `Alone`); the theorems add none. The attempt to prove it corrected `NoTwins`. It said at first
  that without rivals no *path* is twice in the table; the run had not contradicted it, and with larger bounds
  it is wrong: another user's recursive removal (the finding of `forest_remove`) can take a directory between its
  resolution and the insertion below it, the new row is an orphan, and when the directory is made again
  so is the row. What holds is that no directory has a name twice and no two files a path, and, for a session alone, that no path is there twice.
  `RemovesPlainSubtree` was corrected in the same way: it spoke of all plain rows, and no run contradicted it, but if two users
  take turns at one session, the removal takes rows of the first that are outside the second's directory, since the pattern knows
  no user (`file_forest.c:418`). It speaks of the user's own rows now, and the world `Turns` has two such users. The
  proof follows the parents of a row upwards (`AboveIs`): what is above it by the ids has a path that
  begins its path (`BelowIsLike`), and, conversely, on the way up from a row the pattern takes
  every row is alive until the directory is met (`LikeIsBelow`), because alone and without failures no orphans are made.
* `ProgramProofs`, six of the smaller programs. `Tickets` (any numbers of tickets): `SoldOut`,
  `SellerIsAnswered`, and `SuppliesWhenLow` unless a wait returns unasked; the invariant balances tickets and
  sales (`Balance`) and says why each of the two may be where it is (`Reasons`). `ProducerConsumer` (any
  threads of which none is of both kinds, any capacity and list): `WaitersHaveReason`, hence `NeverBothWaiting`:
  one condition variable for both kinds cannot make them wait for each other; and `QueueConsistent`
  (below). `FileServer` (any clients, any
  finite set of workers, any `exit_flag` at first): `NoneWaitsBesideClients` and `NobodySleepsAtExit`, by the counting of
  `ThreadPoolProofs`, although here a request may end its worker.
* Also in `ProgramProofs`, what a program's loops compute. The first three theorems are of `OneOfThem`, the
  specification of `SmallPrograms`; each rests on an invariant of its program alone (an `Init` and a `Keeps` lemma),
  which the steps of the two others leave as it is. Four operators of the models are recursive
  functions: the walk along the links of the list, rehashing, the search for the n-th word, and
  `skipWhitespace`. The section *Walks* has what is needed of them without induction over an
  operator: a set of naturals has a least element (`Least`), hence a recursion that stays in a set has a
  solution (`WalkExists`, `RouteExists`), only one (`SameWalk`), and a property that each step hands on holds of all of it.
  * `ProducerConsumer` (any threads, capacity and contents; a finite memory with no node
    at the address 0 that stands for NULL): `QueueConsistent`. `Linked` has the addresses of the nodes in their order: one each, linked to the next,
    with the values of the queue and the last one `tail`. An `Offer` may get an address
    that was freed before, which is why the addresses must be different ones.
  * `Configuration` (any keys and texts, any hash function, any first capacity but 0; NULL is no text): `TableIsMap`. `TableIs` says that each
    entry is in the chain of its hash value modulo the capacity of the moment, that no chain has a key twice, and that
    an entry is in the table just if `map` has it. Replacing and deleting keep it because they find
    the only entry of the key; rehashing because it moves each entry of the old table exactly once (`Moves`) into a table that is empty at first.
  * `CommandLine` (any line over any characters, any size of the buffer but 0): `PathsAreWords`. `LineIInv` relates the buffer to the
    line typed. The words of a line are counted by their beginnings, which the program never does: the n-th
    beginning is the one that n - 1 skips over a word and its blanks arrive at.
  * `Lexer` (any text over any characters): `NothingSkipped`, `LinesCounted` and `Advances`, three of the five parts of `TokensAreRight`.
    `LexInv` adds that the last token ends where the next begins, that `scanner.line` counts the newlines up to
    there, and that there are fewer tokens than characters behind. It holds because no token, of
    errors not even the one a newline ends, contains a newline (`SameLine`), and all but the end are of one character at least.
* `ChatServerProofs` (any clients and descriptors): `TableConsistent` and `HeardOnce`. The
  invariant `Room` says that nobody has two descriptors and who has one is in the room (`Seated`), that the connected
  entries are the open descriptors, one each, whatever old entries for the same number remain (`Listed`), and
  that the events of a round still to be handled are of open descriptors (`Pending`): a descriptor has
  one event in a round and is closed while that is handled or after the round, so no event meets its successor. The
  table has no limit in the model. Assumed is that `Listener` is no
  descriptor of a client and `NoClient` no client.
* `ProtocolProofs` (any commands, any number of them, files of any size): `SidesAgree`,
  `StandoffOnlyByFault`, `InStep` and `RepliesMatch`. `Types` says of both streams what items
  they hold. `Welcome`: nobody is told "success" or believes to be logged in who is not. That alone is one half of
  `SameLogin`; the other needs `Entering`: before the login the client's stream carries only attempts of
  it, at most one password awaits its one answer, and the worker has logged in only who is about to read so.
  For the second, `Talk` holds as long as the client can read and write its own files and the input did not end at the password
  (the ping that then follows is taken for the length of one). `Orderly` decides for
  each item of `up`, from the item before it, what the worker will take it for (`Due`), and what the
  client owes at the end of its stream (`Turn`); `Answered` has for each place of the client what may be on
  `down`, with the sizes both sides compute for a transfer; `Fetching` and `Blocked` are about an offset
  asked for and blocks nobody takes. A worker that is lost, closed or past what the client sends (`Alive`)
  is exempt. `Duty` then says that an awaited answer is there, or has a cause on the way:
  `Owed`, `AllData`, and the path behind the sentence of `cd`. With both streams empty nothing of that is left.
  The other two need `Turns`, which holds as long as nothing was cut short (no "local", "split" or "expiry") and nothing longer than announced: at its prompt the client
  has nothing to read (`Idle`); in a command, all on `down` is of it, and the worker does it or has only pings before it (`Current`);
  an answer on `down` means that nothing is on `up` and the worker is done, or waits for what the client sends next (`Once`); and there is no
  more of it than the client goes on to read (`Counts`). `InStep` of the worker is `Blocked`, of the client
  `Strays`, where `Counts` leaves only content that is missing; `RepliesMatch` is the first half of `Current`.
* `UploadProofs` (any sessions, names, contents, sizes, inodes and rows): `StoreConsistent`, `CompleteHasEntity`
  and `ResumeIsSafe`, assuming `Apart`: no two sessions upload to the same name, and the server
  is not killed in a world in which clients overwrite. Without the first the entity can be replaced by an empty
  file; without the second a crash between the renaming and its record leaves a row that an overwriting session
  can deprive of the entity. Both are the code's own weakness (section 4), so they are assumptions of the theorems
  and not guards of the model;
  what a second session on one row does to what the first finished is the finding of `upload_shared`. None of the three is
  inductive. `IInv` says of each session what it may rely on where it is: `OwnRow` that its row is its own and has
  its hash, `OwnCare` that it has an entity where it uses one and unlinks nothing unless it overwrites, `OwnFile`
  that its descriptor is that of its temporary file, which has what was received, and is whole at "rename". `Files`
  says that names denote files of their own and that an inode without a name is empty, which `Open` needs when it
  creates one. A step is shown to leave other sessions alone (`UntouchedKeeps`, `ActsKeeps`), then what it does
  to its own row (`RowWritten`, `ProgressWritten`) or file (`KeepFiles`, `FileStep`).

Only model-checked:

* Liveness, which is out of the prover's reach: `IdleEnds`, `QueuedIsServed`, `StopsWhenTold`, `EveryClientServed`,
  `ShutdownCompletes`, `CommandsFinish`, `EveryoneIsWoken`, `BothEnd`, `NobodyIsLeftWaiting`, `LeaverIsLetGo`.
* `LongestMatch` and `ErrorsOnlyWhereNothingFits` of the lexer. They compare texts with some seventy spelled-out
  tokens, letter by letter, and to the provers a string is a constant without letters.

## 6. What is not modelled, and why

* A clock that is set back (`time()` is wall-clock time): the wheel would stand still.
* The buckets of `fd_map` and the pointers of chains and queue of the server, memory that runs out.
* Workers that mix up their results on the one connection of `sql.c`: what comes back then is decided inside
  libmysqlclient, which is not here. A query is atomic; in `FileForest` it may fail, in `Upload` it may not. `accept` that fails for lack of
  descriptors.
* The schema of the database is not in the repository; where the code relies
  on a key, `UniqueNames` says whether user names are unique (`AccountsHaveOneRoot` needs it), and
  `hash_insert` is taken to ignore a duplicate, as it does for error 1062.
* Log and token splitting, socket and epoll setup, digests, terminal input and output.
* In `Upload`, the empty file that `open` leaves behind when `lseek` fails after it (`cmd_set.c:195`): the next `open`
  of the name makes or finds an empty file alike.
* The chat room on select; the small programs 0003, 0004, 0007; daily exercises and notes: demonstrations of a single
  call, or earlier versions of what is modelled.

Hazards the properties bound without excluding them, because the code has them: what other sessions of the same user do
between two queries (`NoTwins`, `NoOrphans` say that nothing else makes twins and orphans); a silent client that keeps the server
from ending (`ShutdownCompletes` says that nothing else does); the entry and the connection of a successor that the worker of an expired client
takes away (`OpenIsTracked` and `ForgetsOwnClient` hold while nobody expires; `Accounted` holds always); the add that finds a node and
loses it (`timewheel.c:194`).

Where a comment or a note says something else than the code:

* `server/main.c:46` gives the clients 30 seconds; the wheel made there has a full turn of 60.
* The notes of 0002 (`过程笔记.md:53`) and `scanner.c:268` demand exactly one character between two `'`; the code takes none as well,
  and says so itself (`scanner.c:291`). `Lexer` has it as the code does (`EmptyCharacter`).
* `0000.各个文件简介.md:34` has the supply of 0005 come when fewer than five tickets are left; both programs, and `Tickets`, supply at five.
* `两种实现方式的对比.md:187-230` (0005) says that with the mutex alone the supplier gets in only when the seller has stopped; the
  seller stops only after the supply (`1.纯互斥锁/main.c:18`), so that by that account neither ever would. Nothing is assumed
  or shown about it (see *Fairness*).

Read while modelling, and not the matter of any property:

* `scanner.c:299` composes an error message in a buffer of 50 bytes around a text of any length.
* `configuration.c:142-167` dereferences NULL for an absent key and does not count a deletion; an odd
  number of words in the file ends in `strdup(NULL)`.
* `client/cmd_set.c:75` writes one byte past a full buffer, `:45` takes a "/" in the answer for granted; `ls` may be
  received in part (`:72`), which `Protocol` has as the fault "split".
* An absolute path given to `puts` is stored as it was typed, dots included (`server/cmd_set.c:67`); the invariants about
  paths speak of plain ones for that reason. In a directory that was removed meanwhile the full path is never set (`:62`).
* The chat server dies of SIGPIPE when it writes to a client that reset its connection (`ChatServer` has that as `alive`), takes an error of `recv` for a
  message, and fills a table of 1024 entries for good; the one on select watches descriptors below 100 only.
* 0009: a client that closes without asking leaves the type unread, so that its worker may end (`Refuse`).
