------------------------------- MODULE Upload --------------------------------
(***************************************************************************)
(* Uploads of the NetDisk server (server/cmd_set.c, cmd_puts): a client    *)
(* names a file and its hash; the server finds or creates a row of the     *)
(* table file_forest, resumes or starts a temporary file, and once all the *)
(* data is there gives the file the name of its hash (the entity).  Rows   *)
(* with the same hash, whoever owns them, share one entity.                *)
(*                                                                         *)
(* Between two queries or system calls of a session any other session may  *)
(* run: each of them is a step of its own here.  A query is atomic and     *)
(* does not fail.  A file is an inode with the set of its blocks that have *)
(* been written; opening, renaming and unlinking change only which name    *)
(* denotes which inode, as in the kernel.  Only data of one hash is ever   *)
(* written to one inode, for every name carries the hash.                  *)
(***************************************************************************)
EXTENDS Naturals, Sequences, FiniteSets

CONSTANTS Session,
          Name,       \* files as users name them: a user and a path
          Hash,       \* contents, named by their hash
          Size,       \* blocks of each content
          NamesOf,    \* the names a session uploads to
          Threshold,  \* sync_threshold, in blocks
          MaxRow,     \* rows the table may get: a bound
          Inode,
          Worlds,     \* of [overwrites, crashes]: whether clients upload to names that
                      \* have another content, and whether the server may be killed
          None

ASSUME SizeAssumption == Size \in [Hash -> Nat]
ASSUME NamesAssumption == NamesOf \in [Session -> SUBSET Name]
ASSUME BoundsAssumption == MaxRow \in Nat /\ Threshold \in Nat \ {0}
ASSUME WorldAssumption == Worlds \subseteq [overwrites : BOOLEAN, crashes : BOOLEAN]
ASSUME NoneAssumption == None \notin Hash \cup Inode

VARIABLES
  world,   \* the member of Worlds this behaviour is of
  rows,    \* the table file_forest: a sequence indexed by id
  hashes,  \* the table file_hash
  temp,    \* tmp_<id>_<hash>: the inode of that name, None if there is none
  entity,  \* <hash>: likewise
  data,    \* blocks written of each inode
  sess     \* what each session keeps and where it is

vars == <<world, rows, hashes, temp, entity, data, sess>>

Row == 1..MaxRow
Blocks(h) == 1..Size[h]

\* A session between two commands: upload is upload_file_id of the session,
\* 0 if there is none, received its upload_received; the rest is local to
\* cmd_puts, and forgotten where the code does not read it again.
Idle(id, n) == [at |-> "idle", upload |-> id, received |-> n, synced |-> n,
                name |-> None, hash |-> None, known |-> FALSE, row |-> 0,
                resume |-> FALSE, offset |-> 0, old |-> None, fd |-> None]

At(l) == {s \in Session : sess[s].at = l}

Live(n) == {r \in DOMAIN rows : rows[r].alive /\ rows[r].name = n}

Linked == {temp[k] : k \in DOMAIN temp} \cup {entity[h] : h \in Hash}
            \cup {sess[s].fd : s \in Session}

\* The kernel frees an inode with its last name and its last descriptor.
Keep(blocks) == data' = [i \in Inode |-> IF i \in Linked' THEN blocks[i] ELSE {}]

Goto(s, l) == sess' = [sess EXCEPT ![s].at = l]

RowRecord == [name : Name, hash : Hash, size : Nat, complete : BOOLEAN, alive : BOOLEAN]

SessionRecord ==
  [at : {"idle", "find", "select", "unlink", "reset", "create", "respond", "open", "receive",
         "sync", "rename", "discard", "complete", "insert", "break"},
   upload : 0..MaxRow, received : Nat, synced : Nat,
   name : Name \cup {None}, hash : Hash \cup {None}, known : BOOLEAN,
   row : 0..MaxRow, resume : BOOLEAN, offset : Nat,
   old : Hash \cup {None}, fd : Inode \cup {None}]

TypeOK ==
  /\ world \in Worlds
  /\ rows \in Seq(RowRecord) /\ Len(rows) <= MaxRow
  /\ hashes \subseteq Hash
  /\ temp \in [Row \X Hash -> Inode \cup {None}]
  /\ entity \in [Hash -> Inode \cup {None}]
  /\ data \in [Inode -> SUBSET Nat]
  /\ sess \in [Session -> SessionRecord]
  \* a descriptor is open while data is received, and closed on every way out
  /\ \A s \in Session : sess[s].fd # None <=> sess[s].at \in {"receive", "sync"}

Init ==
  /\ world \in Worlds
  /\ rows = <<>>
  /\ hashes = {}
  /\ temp = [k \in Row \X Hash |-> None]
  /\ entity = [h \in Hash |-> None]
  /\ data = [i \in Inode |-> {}]
  /\ sess = [s \in Session |-> Idle(0, 0)]

-----------------------------------------------------------------------------
(***************************************************************************)
(* The row                                                                 *)
(***************************************************************************)
\* A client that does not overwrite asks for a new file or goes on with one.
Wanted(n, h) == world.overwrites \/ \A r \in Live(n) : rows[r].hash = h /\ ~rows[r].complete

\* hash_exists; the size found with it is the size of that content.
Known(h) == h \in hashes

\* The request arrives, and the server looks the hash up.
Puts(s, n, h) ==
  /\ sess[s].at = "idle" /\ n \in NamesOf[s] /\ Wanted(n, h)
  /\ sess' = [sess EXCEPT ![s].at = "find", ![s].name = n, ![s].hash = h,
                          ![s].known = Known(h)]
  /\ UNCHANGED <<rows, hashes, temp, entity, data>>

\* forest_find_file_by_path: some live row of that name, if there is one.
Find(s) ==
  /\ sess[s].at = "find"
  /\ \/ \E r \in Live(sess[s].name) :
          sess' = [sess EXCEPT ![s].at = "select", ![s].row = r]
     \/ Live(sess[s].name) = {} /\ Goto(s, "create")
  /\ UNCHANGED <<rows, hashes, temp, entity, data>>

\* A row of the same hash that is not complete is resumed at its size; any
\* other is overwritten.
Select(s) ==
  LET r == rows[sess[s].row] IN
  /\ sess[s].at = "select"
  /\ \/ /\ ~r.complete /\ r.hash = sess[s].hash
        /\ sess' = [sess EXCEPT ![s].at = "respond", ![s].resume = TRUE,
                                ![s].offset = r.size]
     \/ /\ r.complete \/ r.hash # sess[s].hash
        /\ sess' = [sess EXCEPT ![s].at = "unlink", ![s].old = r.hash]
  /\ UNCHANGED <<rows, hashes, temp, entity, data>>

\* remove_entity_file(old_hash)
RemoveEntity(s) ==
  /\ sess[s].at = "unlink"
  /\ entity' = [entity EXCEPT ![sess[s].old] = None]
  /\ sess' = [sess EXCEPT ![s].at = "reset", ![s].old = None]
  /\ UNCHANGED <<rows, hashes, temp>> /\ Keep(data)

Reset(s) ==
  /\ sess[s].at = "reset"
  /\ rows' = [rows EXCEPT ![sess[s].row].hash = sess[s].hash,
                          ![sess[s].row].size = 0, ![sess[s].row].complete = FALSE]
  /\ Goto(s, "respond")
  /\ UNCHANGED <<hashes, temp, entity, data>>

\* forest_create_file_record.  That the table is full stands for an insertion
\* that fails: the client is told, and the session goes on as it was.
Create(s) ==
  /\ sess[s].at = "create"
  /\ \/ /\ Len(rows) < MaxRow
        /\ rows' = Append(rows, [name |-> sess[s].name, hash |-> sess[s].hash,
                                 size |-> 0, complete |-> FALSE, alive |-> TRUE])
        /\ sess' = [sess EXCEPT ![s].at = "respond", ![s].row = Len(rows) + 1]
     \/ /\ Len(rows) = MaxRow /\ UNCHANGED rows
        /\ sess' = [sess EXCEPT ![s] = Idle(@.upload, @.received)]
  /\ UNCHANGED <<hashes, temp, entity, data>>

\* Mutant: the hash is inserted before the data has come.
RespondDataInserting(s) ==
  /\ sess[s].at = "respond" /\ (sess[s].resume \/ ~sess[s].known)
  /\ sess' = [sess EXCEPT ![s].at = "open", ![s].upload = sess[s].row,
                          ![s].received = sess[s].offset, ![s].synced = sess[s].offset,
                          ![s].resume = FALSE, ![s].offset = 0]
  /\ hashes' = hashes \cup {sess[s].hash}
  /\ UNCHANGED <<rows, temp, entity, data>>

\* The session notes the upload, and the client is told where to go on.
RespondData(s) ==
  /\ sess[s].at = "respond" /\ (sess[s].resume \/ ~sess[s].known)
  /\ sess' = [sess EXCEPT ![s].at = "open", ![s].upload = sess[s].row,
                          ![s].received = sess[s].offset, ![s].synced = sess[s].offset,
                          ![s].resume = FALSE, ![s].offset = 0]
  /\ UNCHANGED <<rows, hashes, temp, entity, data>>

\* The hash is known: the row is completed at once, nothing is transferred.
RespondInstant(s) ==
  /\ sess[s].at = "respond" /\ ~sess[s].resume /\ sess[s].known
  /\ rows' = [rows EXCEPT ![sess[s].row].hash = sess[s].hash,
                          ![sess[s].row].size = Size[sess[s].hash],
                          ![sess[s].row].complete = TRUE]
  /\ sess' = [sess EXCEPT ![s] = Idle(0, 0)]
  /\ UNCHANGED <<hashes, temp, entity, data>>

-----------------------------------------------------------------------------
(***************************************************************************)
(* The data                                                                *)
(***************************************************************************)
TempName(s) == <<sess[s].row, sess[s].hash>>

\* open with O_CREAT and without O_TRUNC.
Opened(s) ==
  \/ temp[TempName(s)] # None /\ UNCHANGED temp
  \/ /\ temp[TempName(s)] = None /\ Inode \ Linked # {}
     /\ temp' = [temp EXCEPT ![TempName(s)] = CHOOSE i \in Inode : i \notin Linked]

\* Mutant: open with O_TRUNC.
OpenTruncating(s) ==
  /\ sess[s].at = "open" /\ Opened(s)
  /\ sess' = [sess EXCEPT ![s].at = "receive", ![s].fd = temp'[TempName(s)]]
  /\ data' = [data EXCEPT ![temp'[TempName(s)]] = {}]
  /\ UNCHANGED <<rows, hashes, entity>>

\* open, then lseek to the offset.
Open(s) ==
  /\ sess[s].at = "open" /\ Opened(s)
  /\ sess' = [sess EXCEPT ![s].at = "receive", ![s].fd = temp'[TempName(s)]]
  /\ UNCHANGED <<rows, hashes, entity, data>>

\* If open fails, or lseek after it, upload_file_id and upload_received stay as
\* they are.  The empty file that open may have created before lseek failed is not
\* told from none: the next open of the name makes or finds an empty file alike.
OpenFails(s) ==
  /\ sess[s].at = "open"
  /\ sess' = [sess EXCEPT ![s] = Idle(sess[s].upload, sess[s].received)]
  /\ UNCHANGED <<rows, hashes, temp, entity, data>>

\* One turn of the loop: a block is received and written.
Receive(s) ==
  LET n == sess[s].received + 1 IN
  /\ sess[s].at = "receive" /\ n <= Size[sess[s].hash]
  /\ data' = [data EXCEPT ![sess[s].fd] = @ \cup {n}]
  /\ sess' = [sess EXCEPT ![s].received = n,
                          ![s].at = IF n - sess[s].synced >= Threshold THEN "sync" ELSE @]
  /\ UNCHANGED <<rows, hashes, temp, entity>>

\* forest_update_file_progress
Progress(id, n, done) ==
  rows' = [rows EXCEPT ![id].size = n, ![id].complete = done]

Sync(s) ==
  /\ sess[s].at = "sync"
  /\ Progress(sess[s].row, sess[s].received, FALSE)
  /\ sess' = [sess EXCEPT ![s].at = "receive", ![s].synced = sess[s].received]
  /\ UNCHANGED <<hashes, temp, entity, data>>

\* The client breaks off, or write fails: the file is closed, and what was
\* received is noted in the row.
Break(s) ==
  /\ sess[s].at = "receive" /\ sess[s].received < Size[sess[s].hash]
  /\ sess' = [sess EXCEPT ![s].at = "break", ![s].fd = None]
  /\ UNCHANGED <<rows, hashes, temp, entity>> /\ Keep(data)

\* Mutant: the size the client announced is noted, not what was received.
InterruptedAsAnnounced(s) ==
  /\ sess[s].at = "break"
  /\ Progress(sess[s].row, Size[sess[s].hash], FALSE)
  /\ sess' = [sess EXCEPT ![s] = Idle(0, 0)]
  /\ UNCHANGED <<hashes, temp, entity, data>>

Interrupted(s) ==
  /\ sess[s].at = "break"
  /\ Progress(sess[s].row, sess[s].received, FALSE)
  /\ sess' = [sess EXCEPT ![s] = Idle(0, 0)]
  /\ UNCHANGED <<hashes, temp, entity, data>>

\* All is there: close, and see whether the entity exists.
Check(s) ==
  /\ sess[s].at = "receive" /\ sess[s].received = Size[sess[s].hash]
  /\ sess' = [sess EXCEPT ![s].fd = None,
                ![s].at = IF entity[sess[s].hash] = None THEN "rename" ELSE "discard"]
  /\ UNCHANGED <<rows, hashes, temp, entity>> /\ Keep(data)

\* rename fails, which nobody notices, if the temporary file is gone.
Rename(s) ==
  /\ sess[s].at = "rename"
  /\ \/ /\ temp[TempName(s)] # None
        /\ entity' = [entity EXCEPT ![sess[s].hash] = temp[TempName(s)]]
        /\ temp' = [temp EXCEPT ![TempName(s)] = None]
     \/ temp[TempName(s)] = None /\ UNCHANGED <<temp, entity>>
  /\ Goto(s, "complete")
  /\ UNCHANGED <<rows, hashes>> /\ Keep(data)

Discard(s) ==
  /\ sess[s].at = "discard"
  /\ temp' = [temp EXCEPT ![TempName(s)] = None]
  /\ Goto(s, "complete")
  /\ UNCHANGED <<rows, hashes, entity>> /\ Keep(data)

Complete(s) ==
  /\ sess[s].at = "complete"
  /\ Progress(sess[s].row, sess[s].received, TRUE)
  /\ IF sess[s].known THEN sess' = [sess EXCEPT ![s] = Idle(0, 0)] ELSE Goto(s, "insert")
  /\ UNCHANGED <<hashes, temp, entity, data>>

\* hash_insert; a hash that is there already stays.
Insert(s) ==
  /\ sess[s].at = "insert"
  /\ hashes' = hashes \cup {sess[s].hash}
  /\ sess' = [sess EXCEPT ![s] = Idle(0, 0)]
  /\ UNCHANGED <<rows, temp, entity, data>>

-----------------------------------------------------------------------------
(***************************************************************************)
(* The end of a session, of a row and of the server                        *)
(***************************************************************************)
\* The client leaves: an upload that is still noted writes its progress.  The
\* next client of this worker gets a fresh session.
Disconnect(s) ==
  /\ sess[s].at = "idle" /\ sess[s].upload # 0
  /\ Progress(sess[s].upload, sess[s].received, FALSE)
  /\ sess' = [sess EXCEPT ![s] = Idle(0, 0)]
  /\ UNCHANGED <<hashes, temp, entity, data>>

\* forest_remove_dir_recursive: a directory above the file is removed, which
\* any session may do at any time (the query does not ask for the user).
RemoveRow(r) ==
  /\ r \in DOMAIN rows /\ rows[r].alive
  /\ rows' = [rows EXCEPT ![r].alive = FALSE]
  /\ UNCHANGED <<hashes, temp, entity, data, sess>>

\* The server is killed and started again: tables and files stay.
Crash ==
  /\ world.crashes
  /\ sess' = [s \in Session |-> Idle(0, 0)]
  /\ UNCHANGED <<rows, hashes, temp, entity>> /\ Keep(data)

Step(s) ==
  \/ \E n \in Name, h \in Hash : Puts(s, n, h)
  \/ Find(s) \/ Select(s) \/ RemoveEntity(s) \/ Reset(s) \/ Create(s)
  \/ RespondData(s) \/ RespondInstant(s)
  \/ Open(s) \/ OpenFails(s) \/ Receive(s) \/ Sync(s) \/ Break(s) \/ Interrupted(s)
  \/ Check(s) \/ Rename(s) \/ Discard(s) \/ Complete(s) \/ Insert(s)
  \/ Disconnect(s)

Next == \/ \E s \in Session : Step(s) /\ UNCHANGED world
        \/ \E r \in Row : RemoveRow(r) /\ UNCHANGED world
        \/ Crash /\ UNCHANGED world

Spec == Init /\ [][Next]_vars

-----------------------------------------------------------------------------
(***************************************************************************)
(* Properties                                                              *)
(***************************************************************************)
\* All blocks of the content h are under its name.
HasEntity(h) == entity[h] # None /\ data[entity[h]] = Blocks(h)

\* What is found under the name of a hash is all of the content: no upload is
\* renamed before all of its data is there, however it was interrupted or
\* resumed (cmd_set.c:227-235).  This needs names of their own for the sessions:
\* the upload one session resumes may be renamed by another before it is opened,
\* and a third may unlink the entity before it is looked for.
EntitiesWhole == \A h \in Hash : entity[h] # None => HasEntity(h)

\* Tables, directory and sessions agree on what they name, and entities are whole.
StoreConsistent == TypeOK /\ EntitiesWhole

\* A complete row and a known hash have their file: who asks for it gets it,
\* and an upload that skips the transfer loses nothing (cmd_set.c:151-168), as
\* long as nothing is overwritten.
CompleteHasEntity == ~world.overwrites =>
  /\ \A r \in DOMAIN rows : rows[r].alive /\ rows[r].complete => HasEntity(rows[r].hash)
  /\ \A h \in hashes : HasEntity(h)

\* A row that is not complete never promises more than was stored: unless its
\* upload has just moved the file away, the temporary file holds every block
\* up to the size at which the next upload would go on (cmd_set.c:103-106,
\* 194-198).
Moved(r) == \E s \in At("complete") : sess[s].row = r
Stored(r, h) == IF temp[<<r, h>>] = None THEN {} ELSE data[temp[<<r, h>>]]
ResumesInside == ~world.crashes => \A r \in DOMAIN rows :
  ~rows[r].complete =>
    \/ 1..rows[r].size \subseteq Stored(r, rows[r].hash)
    \/ Moved(r)
\* The same where the server may be killed: then the file may have become
\* the entity, and what is received for nothing is thrown away.
ResumesOrHasEntity == ~world.overwrites => \A r \in DOMAIN rows :
  ~rows[r].complete =>
    \/ 1..rows[r].size \subseteq Stored(r, rows[r].hash)
    \/ HasEntity(rows[r].hash)

\* An interrupted upload can go on where its row says.
ResumeIsSafe == ResumesInside /\ ResumesOrHasEntity

\* "上传中断，保留临时文件和数据库进度" (cmd_set.c:251): an upload that breaks off keeps
\* the temporary file and what the table says of the file.  So it never turns a file
\* back into an incomplete one that another session has finished meanwhile.
InterruptionKeepsFinished ==
  [][\A s \in Session, r \in DOMAIN rows :
       Interrupted(s) /\ rows[r].complete => rows'[r].complete]_vars

\* "秒传成功" (cmd_set.h:6): a client told that its upload succeeded without a
\* transfer has its content on the server.
InstantUploadHasFile ==
  \A s \in At("respond") : sess[s].known /\ ~sess[s].resume => HasEntity(sess[s].hash)
=============================================================================
