---------------------------- MODULE UploadProofs -----------------------------
(***************************************************************************)
(* Upload for every number of sessions, names and contents, as long as no  *)
(* two sessions upload to the same name and the server is not killed while *)
(* clients overwrite.                                                      *)
(***************************************************************************)
EXTENDS Upload, TLAPS

Apart == /\ \A s, t \in Session : s # t => NamesOf[s] \cap NamesOf[t] = {}
         /\ \A w \in Worlds : ~(w.overwrites /\ w.crashes)

Kept(h) == world.crashes /\ HasEntity(h)

\* What was received is in the temporary file, or is not needed any more.
Safe(r, h, n) == 1..n \subseteq Stored(r, h) \/ Kept(h)

WithRow == {"select", "unlink", "reset", "respond", "open", "receive", "sync", "rename",
            "discard", "complete", "insert", "break"}
WithHash == {"respond", "open", "receive", "sync", "rename", "discard", "complete", "break"}

\* A session works on a row of its own, which has its hash once it is chosen, and
\* the upload it has still noted when idle is as the row says.
OwnRow(s) ==
  /\ sess[s].at # "idle" => sess[s].name \in NamesOf[s] /\ sess[s].hash \in Hash
  /\ sess[s].at \in WithRow => /\ sess[s].row \in DOMAIN rows
                               /\ rows[sess[s].row].name = sess[s].name
  /\ sess[s].at \in WithHash => /\ rows[sess[s].row].hash = sess[s].hash
                                /\ ~rows[sess[s].row].complete
  /\ sess[s].at \in {"idle", "find", "create"} /\ sess[s].upload # 0 =>
       /\ sess[s].upload \in DOMAIN rows /\ rows[sess[s].upload].name \in NamesOf[s]
       /\ ~rows[sess[s].upload].complete
       /\ rows[sess[s].upload].size = sess[s].received
  /\ sess[s].at \in {"idle", "find", "select", "unlink", "reset", "create"} =>
       sess[s].offset = 0 /\ ~sess[s].resume
  /\ sess[s].at = "respond" => rows[sess[s].row].size = sess[s].offset
  /\ sess[s].at = "open" => /\ rows[sess[s].row].size = sess[s].received
                            /\ sess[s].upload = sess[s].row
  /\ sess[s].at = "unlink" => sess[s].old \in Hash

\* Where nothing is overwritten a session never gets to unlink anything, and has an
\* entity where it relies on one.
OwnCare(s) == ~world.overwrites =>
  /\ sess[s].at \notin {"unlink", "reset"}
  /\ sess[s].at = "find" =>
       \A r \in Live(sess[s].name) : rows[r].hash = sess[s].hash /\ ~rows[r].complete
  /\ sess[s].at = "select" => /\ rows[sess[s].row].hash = sess[s].hash
                              /\ ~rows[sess[s].row].complete
  /\ sess[s].at # "idle" /\ sess[s].known => sess[s].hash \in hashes
  /\ sess[s].at \in {"discard", "complete", "insert"} => HasEntity(sess[s].hash)

\* The descriptor is that of the temporary file, which has what was received.
OwnFile(s) ==
  /\ sess[s].at \in {"receive", "sync"} => sess[s].fd = temp[TempName(s)]
  /\ sess[s].at \in {"receive", "sync", "break"} =>
       Safe(sess[s].row, sess[s].hash, sess[s].received)
  /\ sess[s].at = "rename" => /\ temp[TempName(s)] # None
                              /\ data[temp[TempName(s)]] = Blocks(sess[s].hash)

\* Names denote files of their own, a temporary file has blocks of its content only,
\* and a file without a name is empty.
Files ==
  /\ \A k, l \in Row \X Hash : temp[k] = temp[l] /\ temp[k] # None => k = l
  /\ \A g, h \in Hash : entity[g] = entity[h] /\ entity[g] # None => g = h
  /\ \A k \in Row \X Hash, h \in Hash : temp[k] # None => temp[k] # entity[h]
  /\ \A r \in Row, h \in Hash : temp[<<r, h>>] # None => data[temp[<<r, h>>]] \subseteq Blocks(h)
  /\ \A i \in Inode : i \notin Linked => data[i] = {}

Resumable ==
  \A r \in DOMAIN rows : ~rows[r].complete => Safe(r, rows[r].hash, rows[r].size) \/ Moved(r)

Own(s) == OwnRow(s) /\ OwnCare(s) /\ OwnFile(s)

OwnAll == \A s \in Session : Own(s)

IInv == TypeOK /\ OwnAll /\ Files /\ EntitiesWhole /\ Resumable /\ CompleteHasEntity
-----------------------------------------------------------------------------
(***************************************************************************)
(* What a step leaves alone                                                *)
(***************************************************************************)
\* A step that touches no file.
Quiet == UNCHANGED <<world, temp, entity, data>> /\ \A t \in Session : sess'[t].fd = sess[t].fd

\* A session that a step leaves alone: its rows, up to being removed, their
\* temporary files and the entities it may rely on.
Untouched(t) ==
  /\ sess'[t] = sess[t]
  /\ \A r \in DOMAIN rows : rows[r].name \in NamesOf[t] =>
       /\ r \in DOMAIN rows' /\ rows'[r].name = rows[r].name /\ rows'[r].hash = rows[r].hash
       /\ rows'[r].size = rows[r].size /\ (rows'[r].complete <=> rows[r].complete)
       /\ (rows'[r].alive => rows[r].alive)
       /\ \A h \in Hash : temp'[<<r, h>>] = temp[<<r, h>>] /\ Stored(r, h)' = Stored(r, h)
  /\ \A r \in DOMAIN rows' : rows'[r].name \in NamesOf[t] =>
       r \in DOMAIN rows /\ rows[r].name = rows'[r].name

\* Tables and entities only grow where nothing is overwritten.
Grows == /\ world' = world /\ hashes \subseteq hashes'
         /\ ~world.overwrites => \A h \in Hash : HasEntity(h) => HasEntity(h)'

LEMMA RowsOfTheTable ==
  ASSUME TypeOK
  PROVE  /\ DOMAIN rows = 1..Len(rows) /\ DOMAIN rows \subseteq Row
         /\ \A r \in DOMAIN rows : rows[r] \in RowRecord
         /\ \A r \in DOMAIN rows : rows[r].hash \in Hash /\ rows[r].size \in Nat
<1>1. rows \in Seq(RowRecord) /\ Len(rows) <= MaxRow /\ MaxRow \in Nat
  BY BoundsAssumption DEF TypeOK
<1>2. DOMAIN rows = 1..Len(rows) /\ Len(rows) \in Nat
  BY <1>1
<1>3. DOMAIN rows \subseteq Row
  BY <1>1, <1>2 DEF Row
<1>4. \A r \in DOMAIN rows : rows[r] \in RowRecord
  BY <1>1
<1> QED BY <1>2, <1>3, <1>4 DEF RowRecord

LEMMA SessionsAreTyped ==
  ASSUME TypeOK, NEW t \in Session
  PROVE  /\ sess[t] \in SessionRecord /\ sess[t].upload \in Nat /\ sess[t].received \in Nat
         /\ sess[t].fd # None <=> sess[t].at \in {"receive", "sync"}
         /\ sess[t].at \in WithRow => sess[t].at # "idle"
         /\ sess[t].at \in WithHash => sess[t].at \in WithRow
BY DEF TypeOK, SessionRecord, WithRow, WithHash

LEMMA UntouchedKeeps ==
  ASSUME Apart, TypeOK, NEW t \in Session, Own(t), Untouched(t), Grows
  PROVE  Own(t)'
<1>1. sess'[t] = sess[t] /\ world' = world /\ hashes \subseteq hashes' /\ world \in Worlds
  BY DEF Untouched, Grows, TypeOK
<1>2. sess[t].at \in WithRow => sess[t].at # "idle" /\ sess[t].name \in NamesOf[t]
        /\ sess[t].row \in DOMAIN rows /\ rows[sess[t].row].name = sess[t].name
        /\ sess[t].hash \in Hash
  BY DEF Own, OwnRow, WithRow
<1>3. sess[t].at \in WithHash => sess[t].at \in WithRow
  BY DEF WithRow, WithHash
<1>4. sess[t].at \in WithRow =>
         LET r == sess[t].row IN
         /\ r \in DOMAIN rows' /\ rows'[r].name = rows[r].name /\ rows'[r].hash = rows[r].hash
         /\ rows'[r].size = rows[r].size /\ (rows'[r].complete <=> rows[r].complete)
         /\ temp'[<<r, sess[t].hash>>] = temp[<<r, sess[t].hash>>]
         /\ Stored(r, sess[t].hash)' = Stored(r, sess[t].hash)
  BY <1>2 DEF Untouched
<1>5. OwnRow(t)'
  <2>1. (sess[t].at # "idle" => sess[t].name \in NamesOf[t] /\ sess[t].hash \in Hash)'
    BY <1>1 DEF Own, OwnRow
  <2>2. (sess[t].at \in WithRow => /\ sess[t].row \in DOMAIN rows
                                   /\ rows[sess[t].row].name = sess[t].name)'
    BY <1>1, <1>2, <1>4
  <2>3. (sess[t].at \in WithHash => /\ rows[sess[t].row].hash = sess[t].hash
                                   /\ ~rows[sess[t].row].complete)'
    BY <1>1, <1>2, <1>3, <1>4 DEF Own, OwnRow
  <2>4. (sess[t].at \in {"idle", "find", "create"} /\ sess[t].upload # 0 =>
          /\ sess[t].upload \in DOMAIN rows /\ rows[sess[t].upload].name \in NamesOf[t]
          /\ ~rows[sess[t].upload].complete
          /\ rows[sess[t].upload].size = sess[t].received)'
    BY <1>1 DEF Own, OwnRow, Untouched
  <2>5. (sess[t].at \in {"idle", "find", "select", "unlink", "reset", "create"} =>
          sess[t].offset = 0 /\ ~sess[t].resume)'
    BY <1>1 DEF Own, OwnRow
  <2>6. (/\ sess[t].at = "respond" => rows[sess[t].row].size = sess[t].offset
         /\ sess[t].at = "open" => /\ rows[sess[t].row].size = sess[t].received
                                   /\ sess[t].upload = sess[t].row
         /\ sess[t].at = "unlink" => sess[t].old \in Hash)'
    BY <1>1, <1>4 DEF Own, OwnRow, WithRow
  <2> QED BY <2>1, <2>2, <2>3, <2>4, <2>5, <2>6 DEF OwnRow
<1>6. OwnCare(t)'
  <2>1. SUFFICES ASSUME ~world.overwrites
                 PROVE  (/\ sess[t].at \notin {"unlink", "reset"}
                         /\ sess[t].at = "find" => \A r \in Live(sess[t].name) :
                               rows[r].hash = sess[t].hash /\ ~rows[r].complete
                         /\ sess[t].at = "select" => /\ rows[sess[t].row].hash = sess[t].hash
                                                     /\ ~rows[sess[t].row].complete
                         /\ sess[t].at # "idle" /\ sess[t].known => sess[t].hash \in hashes
                         /\ sess[t].at \in {"discard", "complete", "insert"} =>
                               HasEntity(sess[t].hash))'
    BY <1>1 DEF OwnCare
  <2>2. (sess[t].at = "find" => \A r \in Live(sess[t].name) :
                               rows[r].hash = sess[t].hash /\ ~rows[r].complete)'
    <3>1. SUFFICES ASSUME sess[t].at = "find", NEW r \in DOMAIN rows', rows'[r].alive,
                          rows'[r].name = sess[t].name
                   PROVE  rows'[r].hash = sess[t].hash /\ ~rows'[r].complete
      BY <1>1 DEF Live
    <3>2. rows'[r].name \in NamesOf[t]
      BY <3>1 DEF Own, OwnRow
    <3>3. r \in DOMAIN rows /\ rows[r].name = rows'[r].name
      BY <3>2 DEF Untouched
    <3>4. r \in Live(sess[t].name) /\ rows'[r].hash = rows[r].hash
          /\ (rows'[r].complete <=> rows[r].complete)
      BY <3>1, <3>2, <3>3 DEF Untouched, Live
    <3> QED BY <2>1, <3>1, <3>4 DEF Own, OwnCare
  <2>3. (sess[t].at = "select" => /\ rows[sess[t].row].hash = sess[t].hash
                                  /\ ~rows[sess[t].row].complete)'
    BY <1>1, <1>4, <2>1 DEF Own, OwnCare, WithRow
  <2>4. \A h \in Hash : HasEntity(h) => HasEntity(h)'
    BY <2>1 DEF Grows
  <2>5. sess[t].at \in {"discard", "complete", "insert"} =>
          HasEntity(sess[t].hash) /\ sess[t].hash \in Hash
    BY <1>2, <2>1 DEF Own, OwnCare, WithRow
  <2>6. (sess[t].at \in {"discard", "complete", "insert"} => HasEntity(sess[t].hash))'
    <3>1. PICK h : h = sess[t].hash
      OBVIOUS
    <3>2. sess'[t].hash = h
      BY <1>1, <3>1
    <3>3. SUFFICES ASSUME sess[t].at \in {"discard", "complete", "insert"}
                   PROVE  HasEntity(h)'
      BY <1>1, <3>2 DEF HasEntity
    <3> QED BY <2>4, <2>5, <3>1, <3>3
  <2> QED BY <1>1, <2>1, <2>2, <2>3, <2>6 DEF Own, OwnCare
<1>7. OwnFile(t)'
  <2>1. ASSUME NEW r, NEW h \in Hash, NEW n, Safe(r, h, n),
               Stored(r, h)' = Stored(r, h)
        PROVE  Safe(r, h, n)'
    BY <1>1, <2>1 DEF Apart, Grows, Safe, Kept
  <2>2. PICK r, h, n : r = sess[t].row /\ h = sess[t].hash /\ n = sess[t].received
    OBVIOUS
  <2>3. sess'[t].row = r /\ sess'[t].hash = h /\ sess'[t].received = n
    BY <1>1, <2>2
  <2>4. sess[t].at \in WithRow => h \in Hash /\ temp'[<<r, h>>] = temp[<<r, h>>]
                                             /\ Stored(r, h)' = Stored(r, h)
    BY <1>2, <1>4, <2>2, <2>3
  <2>5. (sess[t].at \in {"receive", "sync"} => sess[t].fd = temp[TempName(t)])'
    BY <1>1, <2>2, <2>3, <2>4 DEF Own, OwnFile, WithRow, TempName
  <2>6. (sess[t].at \in {"receive", "sync", "break"} =>
          Safe(sess[t].row, sess[t].hash, sess[t].received))'
    <3>1. SUFFICES ASSUME sess[t].at \in {"receive", "sync", "break"}
                   PROVE  Safe(r, h, n)'
      BY <1>1, <2>3 DEF Safe, Kept, HasEntity, Stored
    <3>2. Safe(r, h, n)
      BY <2>2, <3>1 DEF Own, OwnFile
    <3> QED BY <2>1, <2>4, <3>1, <3>2 DEF WithRow
  <2>7. (sess[t].at = "rename" => /\ temp[TempName(t)] # None
                                  /\ data[temp[TempName(t)]] = Blocks(sess[t].hash))'
    BY <1>1, <2>2, <2>3, <2>4 DEF Own, OwnFile, WithRow, TempName, Stored
  <2> QED BY <2>5, <2>6, <2>7 DEF OwnFile
<1> QED BY <1>5, <1>6, <1>7 DEF Own

\* A step of s that touches no row but those in R, which it may add.
Acts(s, R) ==
  /\ Grows
  /\ \A t \in Session \ {s} : sess'[t] = sess[t]
  /\ DOMAIN rows' = DOMAIN rows \cup R
  /\ \A r \in R : /\ rows'[r].name \in NamesOf[s]
                  /\ r \in DOMAIN rows => rows'[r].name = rows[r].name
  /\ \A r \in DOMAIN rows \ R :
       /\ rows'[r] = rows[r]
       /\ \A h \in Hash : temp'[<<r, h>>] = temp[<<r, h>>] /\ Stored(r, h)' = Stored(r, h)
  /\ sess[s].at = "complete" => sess[s].row \in R

LEMMA ActsKeeps ==
  ASSUME Apart, IInv, NEW s \in Session, NEW R, Acts(s, R), Own(s)',
         \A r \in R : (~rows[r].complete => Safe(r, rows[r].hash, rows[r].size) \/ Moved(r))',
         ~world.overwrites =>
           /\ \A r \in R : (rows[r].complete => HasEntity(rows[r].hash))'
           /\ \A h \in hashes' \ hashes : HasEntity(h)'
  PROVE  OwnAll' /\ Resumable' /\ CompleteHasEntity'
<1>1. world' = world /\ world \in Worlds /\ TypeOK
  BY DEF Acts, Grows, IInv, TypeOK
<1>2. ASSUME NEW t \in Session, t # s PROVE Own(t)'
  <2>1. Untouched(t)
    BY <1>2 DEF Apart, Acts, Untouched
  <2> QED BY <1>1, <2>1, UntouchedKeeps DEF IInv, OwnAll, Acts
<1>3. OwnAll'
  BY <1>2 DEF OwnAll
<1>4. ASSUME NEW r \in DOMAIN rows \ R, ~rows[r].complete
      PROVE  Safe(r, rows[r].hash, rows[r].size)' \/ Moved(r)'
  <2>1. rows'[r] = rows[r] /\ rows[r].hash \in Hash
    BY <1>1, RowsOfTheTable DEF Acts
  <2>2. PICK h, n : h = rows[r].hash /\ n = rows[r].size
    OBVIOUS
  <2>3. CASE Safe(r, h, n)
    <3>1. Stored(r, h)' = Stored(r, h)
      BY <2>1, <2>2 DEF Acts
    <3>2. Safe(r, h, n)'
      BY <1>1, <2>1, <2>2, <2>3, <3>1 DEF Apart, Acts, Grows, Safe, Kept
    <3> QED BY <2>1, <2>2, <3>2 DEF Safe, Kept, Stored, HasEntity
  <2>4. CASE Moved(r)
    BY <2>4 DEF Moved, At, Acts
  <2> QED BY <1>4, <2>2, <2>3, <2>4 DEF IInv, Resumable
<1>5. Resumable'
  BY <1>4 DEF Resumable, Acts
<1>6. CompleteHasEntity'
  <2>1. SUFFICES ASSUME ~world.overwrites
                 PROVE  (/\ \A r \in DOMAIN rows :
                              rows[r].alive /\ rows[r].complete => HasEntity(rows[r].hash)
                         /\ \A h \in hashes : HasEntity(h))'
    BY <1>1 DEF CompleteHasEntity
  <2>2. \A h \in Hash : HasEntity(h) => HasEntity(h)'
    BY <2>1 DEF Acts, Grows
  <2>3. ASSUME NEW h \in hashes' PROVE HasEntity(h)'
    BY <1>1, <2>1, <2>2, <2>3 DEF IInv, CompleteHasEntity, TypeOK
  <2>4. ASSUME NEW r \in DOMAIN rows \ R, rows[r].alive, rows[r].complete
        PROVE  HasEntity(rows[r].hash)'
    <3>1. PICK h : h = rows[r].hash
      OBVIOUS
    <3>2. rows'[r].hash = h /\ h \in Hash /\ HasEntity(h)
      BY <1>1, <2>1, <2>4, <3>1, RowsOfTheTable DEF Acts, IInv, CompleteHasEntity
    <3> QED BY <2>2, <3>2 DEF HasEntity
  <2>5. ASSUME NEW r \in DOMAIN rows', rows'[r].alive, rows'[r].complete
        PROVE  HasEntity(rows[r].hash)'
    BY <2>1, <2>4, <2>5 DEF Acts
  <2> QED BY <2>3, <2>5
<1> QED BY <1>3, <1>5, <1>6

LEMMA QuietKeeps ==
  ASSUME TypeOK, Files, EntitiesWhole, Quiet
  PROVE  /\ Files' /\ EntitiesWhole'
         /\ \A h \in Hash : HasEntity(h)' <=> HasEntity(h)
         /\ \A r, h : temp'[<<r, h>>] = temp[<<r, h>>] /\ Stored(r, h)' = Stored(r, h)
<1>1. temp' = temp /\ entity' = entity /\ data' = data
  BY DEF Quiet
<1>2. Linked' = Linked
  BY <1>1 DEF Linked, Quiet
<1>3. Files'
  BY <1>1, <1>2 DEF Files
<1>4. EntitiesWhole'
  BY <1>1 DEF EntitiesWhole, HasEntity
<1>5. \A h \in Hash : HasEntity(h)' <=> HasEntity(h)
  BY <1>1 DEF HasEntity
<1>6. \A r, h : Stored(r, h)' = Stored(r, h)
  BY <1>1 DEF Stored
<1> QED BY <1>1, <1>3, <1>4, <1>5, <1>6

-----------------------------------------------------------------------------
(***************************************************************************)
(* Steps that touch no file                                                *)
(***************************************************************************)
LEMMA QuietStep ==
  ASSUME Apart, IInv, TypeOK', NEW s \in Session, NEW R, Quiet,
         \A t \in Session \ {s} : sess'[t] = sess[t],
         DOMAIN rows' = DOMAIN rows \cup R,
         \A r \in R : /\ rows'[r].name \in NamesOf[s]
                      /\ r \in DOMAIN rows => rows'[r].name = rows[r].name,
         \A r \in DOMAIN rows \ R : rows'[r] = rows[r],
         sess[s].at = "complete" => sess[s].row \in R,
         OwnRow(s)', OwnCare(s)', OwnFile(s)',
         \A r \in R : (~rows[r].complete => Safe(r, rows[r].hash, rows[r].size) \/ Moved(r))',
         ~world.overwrites => \A r \in R : (rows[r].complete => HasEntity(rows[r].hash))',
         hashes \subseteq hashes',
         ~world.overwrites => \A h \in hashes' \ hashes : HasEntity(h)
  PROVE  IInv'
<1>1. /\ Files' /\ EntitiesWhole'
      /\ \A h \in Hash : HasEntity(h)' <=> HasEntity(h)
      /\ \A r, h : temp'[<<r, h>>] = temp[<<r, h>>] /\ Stored(r, h)' = Stored(r, h)
  BY QuietKeeps DEF IInv
<1>2. Acts(s, R)
  BY <1>1 DEF Acts, Grows, Quiet
<1>3. Own(s)'
  BY DEF Own
<1>4. ~world.overwrites => \A h \in hashes' \ hashes : HasEntity(h)'
  BY <1>1 DEF TypeOK
<1> QED BY <1>1, <1>2, <1>3, <1>4, ActsKeeps DEF IInv

LEMMA QuietAlone ==
  ASSUME Apart, IInv, TypeOK', NEW s \in Session, Quiet, UNCHANGED rows,
         \A t \in Session \ {s} : sess'[t] = sess[t],
         sess[s].at # "complete", OwnRow(s)', OwnCare(s)', OwnFile(s)',
         hashes \subseteq hashes',
         ~world.overwrites => \A h \in hashes' \ hashes : HasEntity(h)
  PROVE  IInv'
<1>1. DOMAIN rows' = DOMAIN rows \cup {} /\ \A r \in DOMAIN rows \ {} : rows'[r] = rows[r]
  OBVIOUS
<1>2. PICK R : R = {}
  OBVIOUS
<1>3. DOMAIN rows' = DOMAIN rows \cup R /\ \A r \in DOMAIN rows \ R : rows'[r] = rows[r]
  BY <1>1, <1>2
<1>4. /\ \A r \in R : /\ rows'[r].name \in NamesOf[s]
                      /\ r \in DOMAIN rows => rows'[r].name = rows[r].name
      /\ \A r \in R : (~rows[r].complete => Safe(r, rows[r].hash, rows[r].size) \/ Moved(r))'
      /\ ~world.overwrites => \A r \in R : (rows[r].complete => HasEntity(rows[r].hash))'
  BY <1>2
<1> QED BY <1>3, <1>4, QuietStep

LEMMA PutsStep ==
  ASSUME Apart, IInv, NEW s \in Session, NEW n \in Name, NEW h \in Hash, Puts(s, n, h),
         world' = world
  PROVE  IInv'
<1>1. TypeOK /\ sess \in [Session -> SessionRecord] /\ Known(h) \in BOOLEAN
  BY DEF IInv, TypeOK, Known
<1>2. PICK se \in SessionRecord, k \in BOOLEAN : se = sess[s] /\ k = Known(h)
  BY <1>1
<1>3. sess' = [sess EXCEPT ![s] = [se EXCEPT !.at = "find", !.name = n, !.hash = h,
                                             !.known = k]]
  BY <1>2 DEF Puts
<1>4. [se EXCEPT !.at = "find", !.name = n, !.hash = h, !.known = k] \in SessionRecord
  BY DEF SessionRecord
<1>5. /\ sess' \in [Session -> SessionRecord] /\ \A t \in Session \ {s} : sess'[t] = sess[t]
      /\ sess[s].at = "idle" /\ sess'[s].at = "find"
      /\ sess'[s].name = n /\ sess'[s].hash = h /\ sess'[s].known = k
      /\ sess'[s].upload = sess[s].upload /\ sess'[s].received = sess[s].received
      /\ sess'[s].offset = sess[s].offset /\ sess'[s].resume = sess[s].resume
      /\ sess'[s].fd = sess[s].fd
  BY <1>1, <1>2, <1>3, <1>4 DEF Puts, SessionRecord
<1>6. UNCHANGED <<world, rows, hashes, temp, entity, data>> /\ n \in NamesOf[s] /\ Wanted(n, h)
  BY DEF Puts
<1>7. TypeOK'
  BY <1>1, <1>5, <1>6 DEF TypeOK
<1>8. Quiet
  BY <1>5, <1>6 DEF Quiet
<1>9. OwnRow(s)'
  BY <1>5, <1>6 DEF IInv, OwnAll, Own, OwnRow, WithRow, WithHash
<1>10. OwnCare(s)'
  BY <1>2, <1>5, <1>6 DEF OwnCare, Wanted, Live, Known
<1>11. OwnFile(s)'
  BY <1>5 DEF OwnFile
<1> QED BY <1>5, <1>6, <1>7, <1>8, <1>9, <1>10, <1>11, QuietAlone

LEMMA FindStep ==
  ASSUME Apart, IInv, NEW s \in Session, Find(s), world' = world
  PROVE  IInv'
<1>1. TypeOK /\ sess \in [Session -> SessionRecord]
  BY DEF IInv, TypeOK
<1>2. UNCHANGED <<world, rows, hashes, temp, entity, data>> /\ sess[s].at = "find"
  BY DEF Find
<1>3. PICK se \in SessionRecord : se = sess[s]
  BY <1>1
<1>4. CASE \E r \in Live(sess[s].name) :
             sess' = [sess EXCEPT ![s].at = "select", ![s].row = r]
  <2>1. PICK r \in DOMAIN rows : /\ rows[r].alive /\ rows[r].name = sess[s].name
                                 /\ sess' = [sess EXCEPT ![s].at = "select", ![s].row = r]
    BY <1>4 DEF Live
  <2>2. r \in 0..MaxRow /\ r # 0
    BY <1>1, <2>1, RowsOfTheTable, BoundsAssumption DEF Row
  <2>3. [se EXCEPT !.at = "select", !.row = r] \in SessionRecord
    BY <2>2 DEF SessionRecord
  <2>4. /\ sess' \in [Session -> SessionRecord] /\ \A t \in Session \ {s} : sess'[t] = sess[t]
        /\ sess'[s] = [se EXCEPT !.at = "select", !.row = r]
    BY <1>1, <1>3, <2>1, <2>3
  <2>5. /\ sess'[s].at = "select" /\ sess'[s].row = r
        /\ sess'[s].name = sess[s].name /\ sess'[s].hash = sess[s].hash
        /\ sess'[s].known = sess[s].known /\ sess'[s].offset = sess[s].offset
        /\ sess'[s].resume = sess[s].resume /\ sess'[s].fd = sess[s].fd
    BY <1>3, <2>4 DEF SessionRecord
  <2>6. TypeOK'
    BY <1>1, <1>2, <2>4, <2>5 DEF TypeOK
  <2>7. Quiet
    BY <1>2, <2>4, <2>5 DEF Quiet
  <2>8. OwnRow(s)'
    BY <1>2, <2>1, <2>5 DEF IInv, OwnAll, Own, OwnRow, WithRow, WithHash
  <2>9. OwnCare(s)'
    BY <1>2, <2>1, <2>5 DEF IInv, OwnAll, Own, OwnCare, Live
  <2>10. OwnFile(s)'
    BY <2>5 DEF OwnFile
  <2> QED BY <1>2, <2>4, <2>6, <2>7, <2>8, <2>9, <2>10, QuietAlone
<1>5. CASE Live(sess[s].name) = {} /\ Goto(s, "create")
  <2>1. [se EXCEPT !.at = "create"] \in SessionRecord
    BY DEF SessionRecord
  <2>2. /\ sess' \in [Session -> SessionRecord] /\ \A t \in Session \ {s} : sess'[t] = sess[t]
        /\ sess'[s] = [se EXCEPT !.at = "create"]
    BY <1>1, <1>3, <1>5, <2>1 DEF Goto
  <2>3. /\ sess'[s].at = "create" /\ sess'[s].upload = sess[s].upload
        /\ sess'[s].name = sess[s].name /\ sess'[s].hash = sess[s].hash
        /\ sess'[s].known = sess[s].known /\ sess'[s].offset = sess[s].offset
        /\ sess'[s].received = sess[s].received
        /\ sess'[s].resume = sess[s].resume /\ sess'[s].fd = sess[s].fd
    BY <1>3, <2>2 DEF SessionRecord
  <2>4. TypeOK'
    BY <1>1, <1>2, <2>2, <2>3 DEF TypeOK
  <2>5. Quiet
    BY <1>2, <2>2, <2>3 DEF Quiet
  <2>6. OwnRow(s)'
    BY <1>2, <2>3 DEF IInv, OwnAll, Own, OwnRow, WithRow, WithHash
  <2>7. OwnCare(s)'
    BY <1>2, <2>3 DEF IInv, OwnAll, Own, OwnCare
  <2>8. OwnFile(s)'
    BY <2>3 DEF OwnFile
  <2> QED BY <1>2, <2>2, <2>4, <2>5, <2>6, <2>7, <2>8, QuietAlone
<1> QED BY <1>4, <1>5 DEF Find

LEMMA SelectStep ==
  ASSUME Apart, IInv, NEW s \in Session, Select(s), world' = world
  PROVE  IInv'
<1>1. TypeOK /\ sess \in [Session -> SessionRecord]
  BY DEF IInv, TypeOK
<1>2. UNCHANGED <<world, rows, hashes, temp, entity, data>> /\ sess[s].at = "select"
  BY DEF Select
<1>3. PICK r \in DOMAIN rows : r = sess[s].row /\ rows[r].name = sess[s].name
  BY <1>2 DEF IInv, OwnAll, Own, OwnRow, WithRow
<1>4. rows[r] \in RowRecord /\ rows[r].hash \in Hash /\ rows[r].size \in Nat
  BY <1>1, RowsOfTheTable
<1>5. PICK se \in SessionRecord, h \in Hash, n \in Nat :
         se = sess[s] /\ h = rows[r].hash /\ n = rows[r].size
  BY <1>1, <1>4
<1>6. CASE /\ ~rows[r].complete /\ h = sess[s].hash
           /\ sess' = [sess EXCEPT ![s].at = "respond", ![s].resume = TRUE, ![s].offset = n]
  <2>1. [se EXCEPT !.at = "respond", !.resume = TRUE, !.offset = n] \in SessionRecord
    BY DEF SessionRecord
  <2>2. /\ sess' \in [Session -> SessionRecord] /\ \A t \in Session \ {s} : sess'[t] = sess[t]
        /\ sess'[s] = [se EXCEPT !.at = "respond", !.resume = TRUE, !.offset = n]
    BY <1>1, <1>5, <1>6, <2>1
  <2>3. /\ sess'[s].at = "respond" /\ sess'[s].row = r /\ sess'[s].offset = n
        /\ sess'[s].name = sess[s].name /\ sess'[s].hash = h
        /\ sess'[s].known = sess[s].known /\ sess'[s].fd = sess[s].fd
    BY <1>3, <1>5, <1>6, <2>2 DEF SessionRecord
  <2>4. TypeOK'
    BY <1>1, <1>2, <2>2, <2>3 DEF TypeOK
  <2>5. Quiet
    BY <1>2, <2>2, <2>3 DEF Quiet
  <2>6. OwnRow(s)'
    BY <1>2, <1>3, <1>5, <1>6, <2>3 DEF IInv, OwnAll, Own, OwnRow, WithRow, WithHash
  <2>7. OwnCare(s)'
    BY <1>2, <1>6, <2>3 DEF IInv, OwnAll, Own, OwnCare
  <2>8. OwnFile(s)'
    BY <2>3 DEF OwnFile
  <2> QED BY <1>2, <2>2, <2>4, <2>5, <2>6, <2>7, <2>8, QuietAlone
<1>7. CASE /\ rows[r].complete \/ h # sess[s].hash
           /\ sess' = [sess EXCEPT ![s].at = "unlink", ![s].old = h]
  <2>1. [se EXCEPT !.at = "unlink", !.old = h] \in SessionRecord
    BY DEF SessionRecord
  <2>2. /\ sess' \in [Session -> SessionRecord] /\ \A t \in Session \ {s} : sess'[t] = sess[t]
        /\ sess'[s] = [se EXCEPT !.at = "unlink", !.old = h]
    BY <1>1, <1>5, <1>7, <2>1
  <2>3. /\ sess'[s].at = "unlink" /\ sess'[s].row = r /\ sess'[s].offset = sess[s].offset
        /\ sess'[s].name = sess[s].name /\ sess'[s].hash = sess[s].hash
        /\ sess'[s].resume = sess[s].resume /\ sess'[s].old = h
        /\ sess'[s].known = sess[s].known /\ sess'[s].fd = sess[s].fd
    BY <1>3, <1>5, <1>7, <2>2 DEF SessionRecord
  <2>4. TypeOK'
    BY <1>1, <1>2, <2>2, <2>3 DEF TypeOK
  <2>5. Quiet
    BY <1>2, <2>2, <2>3 DEF Quiet
  <2>6. OwnRow(s)'
    BY <1>2, <1>3, <2>3 DEF IInv, OwnAll, Own, OwnRow, WithRow, WithHash
  <2>7. world.overwrites
    BY <1>2, <1>3, <1>5, <1>7 DEF IInv, OwnAll, Own, OwnCare
  <2>8. OwnCare(s)'
    BY <1>2, <2>7 DEF OwnCare
  <2>9. OwnFile(s)'
    BY <2>3 DEF OwnFile
  <2> QED BY <1>2, <2>2, <2>4, <2>5, <2>6, <2>8, <2>9, QuietAlone
<1> QED BY <1>3, <1>5, <1>6, <1>7 DEF Select

\* No other session moves the file of a row of s.
LEMMA ElsewhereOnly ==
  ASSUME Apart, IInv, NEW s \in Session, NEW id, rows[id].name \in NamesOf[s],
         sess[s].at # "complete"
  PROVE  ~Moved(id)
<1>1. ASSUME NEW t \in Session, sess[t].at = "complete" PROVE sess[t].row # id
  <2>1. t # s /\ rows[sess[t].row].name \in NamesOf[t]
    BY <1>1 DEF IInv, OwnAll, Own, OwnRow, WithRow
  <2> QED BY <2>1 DEF Apart
<1> QED BY <1>1 DEF Moved, At

LEMMA RespondDataStep ==
  ASSUME Apart, IInv, NEW s \in Session, RespondData(s), world' = world
  PROVE  IInv'
<1>1. TypeOK /\ sess \in [Session -> SessionRecord] /\ sess[s] \in SessionRecord
  BY DEF IInv, TypeOK
<1>2. UNCHANGED <<world, rows, hashes, temp, entity, data>> /\ sess[s].at = "respond"
  BY DEF RespondData
<1>3. sess[s].row \in 0..MaxRow /\ sess[s].offset \in Nat
  BY <1>1 DEF SessionRecord
<1>4. PICK se \in SessionRecord, id \in 0..MaxRow, n \in Nat :
         se = sess[s] /\ id = sess[s].row /\ n = sess[s].offset
  BY <1>1, <1>3
<1>5. sess' = [sess EXCEPT ![s] = [se EXCEPT !.at = "open", !.upload = id, !.received = n,
                                             !.synced = n, !.resume = FALSE, !.offset = 0]]
  BY <1>4 DEF RespondData
<1>6. [se EXCEPT !.at = "open", !.upload = id, !.received = n, !.synced = n,
                 !.resume = FALSE, !.offset = 0] \in SessionRecord
  BY DEF SessionRecord
<1>7. /\ sess' \in [Session -> SessionRecord] /\ \A t \in Session \ {s} : sess'[t] = sess[t]
      /\ sess'[s] = [se EXCEPT !.at = "open", !.upload = id, !.received = n, !.synced = n,
                               !.resume = FALSE, !.offset = 0]
  BY <1>1, <1>5, <1>6
<1>8. /\ sess'[s].at = "open" /\ sess'[s].row = id /\ sess'[s].upload = id
      /\ sess'[s].received = n /\ sess'[s].fd = sess[s].fd
      /\ sess'[s].name = sess[s].name /\ sess'[s].hash = sess[s].hash
      /\ sess'[s].known = sess[s].known
  BY <1>4, <1>7 DEF SessionRecord
<1>9. TypeOK'
  BY <1>1, <1>2, <1>7, <1>8 DEF TypeOK
<1>10. Quiet
  BY <1>2, <1>7, <1>8 DEF Quiet
<1>11. OwnRow(s)'
  BY <1>2, <1>4, <1>8 DEF IInv, OwnAll, Own, OwnRow, WithRow, WithHash
<1>12. OwnCare(s)'
  BY <1>2, <1>8 DEF IInv, OwnAll, Own, OwnCare
<1>13. OwnFile(s)'
  BY <1>8 DEF OwnFile
<1> QED BY <1>2, <1>7, <1>9, <1>10, <1>11, <1>12, <1>13, QuietAlone

LEMMA IdleAgain ==
  ASSUME TypeOK, NEW s \in Session, NEW id \in 0..MaxRow, NEW n \in Nat,
         sess' = [sess EXCEPT ![s] = Idle(id, n)],
         id # 0 => /\ id \in DOMAIN rows' /\ rows'[id].name \in NamesOf[s]
                   /\ ~rows'[id].complete /\ rows'[id].size = n
  PROVE  /\ sess' \in [Session -> SessionRecord] /\ \A t \in Session \ {s} : sess'[t] = sess[t]
         /\ sess'[s].at = "idle" /\ sess'[s].fd = None
         /\ OwnRow(s)' /\ OwnCare(s)' /\ OwnFile(s)'
<1>1. Idle(id, n) \in SessionRecord
  BY BoundsAssumption DEF Idle, SessionRecord
<1>2. /\ sess' \in [Session -> SessionRecord] /\ \A t \in Session \ {s} : sess'[t] = sess[t]
      /\ sess'[s] = Idle(id, n)
  BY <1>1 DEF TypeOK
<1>3. /\ sess'[s].at = "idle" /\ sess'[s].fd = None /\ sess'[s].upload = id
      /\ sess'[s].received = n /\ sess'[s].offset = 0 /\ ~sess'[s].resume
  BY <1>2 DEF Idle
<1>4. OwnRow(s)'
  BY <1>3 DEF OwnRow, WithRow, WithHash
<1>5. OwnCare(s)' /\ OwnFile(s)'
  BY <1>3 DEF OwnCare, OwnFile
<1> QED BY <1>2, <1>3, <1>4, <1>5

LEMMA IdleAfresh ==
  ASSUME TypeOK, NEW s \in Session, sess' = [sess EXCEPT ![s] = Idle(0, 0)]
  PROVE  /\ sess' \in [Session -> SessionRecord] /\ \A t \in Session \ {s} : sess'[t] = sess[t]
         /\ sess'[s].at = "idle" /\ sess'[s].fd = None
         /\ OwnRow(s)' /\ OwnCare(s)' /\ OwnFile(s)'
<1>1. PICK id \in 0..MaxRow, n \in Nat : id = 0 /\ n = 0
  BY BoundsAssumption
<1>2. sess' = [sess EXCEPT ![s] = Idle(id, n)]
  BY <1>1
<1> QED BY <1>1, <1>2, IdleAgain

LEMMA OpenFailsStep ==
  ASSUME Apart, IInv, NEW s \in Session, OpenFails(s), world' = world
  PROVE  IInv'
<1>1. TypeOK /\ sess \in [Session -> SessionRecord] /\ sess[s] \in SessionRecord
  BY DEF IInv, TypeOK
<1>2. UNCHANGED <<world, rows, hashes, temp, entity, data>> /\ sess[s].at = "open"
  BY DEF OpenFails
<1>3. PICK id \in 0..MaxRow, n \in Nat : id = sess[s].upload /\ n = sess[s].received
  BY <1>1 DEF SessionRecord
<1>4. /\ id \in DOMAIN rows /\ rows[id].name \in NamesOf[s]
      /\ ~rows[id].complete /\ rows[id].size = n
  BY <1>2, <1>3 DEF IInv, OwnAll, Own, OwnRow, WithRow, WithHash
<1>5. sess' = [sess EXCEPT ![s] = Idle(id, n)]
  BY <1>3 DEF OpenFails
<1>6. /\ sess' \in [Session -> SessionRecord] /\ \A t \in Session \ {s} : sess'[t] = sess[t]
      /\ sess'[s].at = "idle" /\ sess'[s].fd = None
      /\ OwnRow(s)' /\ OwnCare(s)' /\ OwnFile(s)'
  BY <1>1, <1>2, <1>4, <1>5, IdleAgain
<1>7. TypeOK'
  BY <1>1, <1>2, <1>6 DEF TypeOK
<1>8. Quiet
  BY <1>1, <1>2, <1>6 DEF Quiet, TypeOK
<1> QED BY <1>2, <1>6, <1>7, <1>8, QuietAlone

LEMMA InsertStep ==
  ASSUME Apart, IInv, NEW s \in Session, Insert(s), world' = world
  PROVE  IInv'
<1>1. TypeOK /\ sess[s].hash \in Hash
  BY DEF IInv, OwnAll, Own, OwnRow, Insert
<1>2. /\ UNCHANGED <<world, rows, temp, entity, data>> /\ sess[s].at = "insert"
      /\ hashes' = hashes \cup {sess[s].hash} /\ sess' = [sess EXCEPT ![s] = Idle(0, 0)]
  BY DEF Insert
<1>3. /\ sess' \in [Session -> SessionRecord] /\ \A t \in Session \ {s} : sess'[t] = sess[t]
      /\ sess'[s].at = "idle" /\ sess'[s].fd = None
      /\ OwnRow(s)' /\ OwnCare(s)' /\ OwnFile(s)'
  BY <1>1, <1>2, IdleAfresh
<1>4. TypeOK'
  BY <1>1, <1>2, <1>3 DEF TypeOK
<1>5. Quiet
  BY <1>1, <1>2, <1>3 DEF Quiet, TypeOK
<1>6. ~world.overwrites => \A h \in hashes' \ hashes : HasEntity(h)
  BY <1>2 DEF IInv, OwnAll, Own, OwnCare
<1> QED BY <1>2, <1>3, <1>4, <1>5, <1>6, QuietAlone

\* A step of s that writes its row id, and touches no other row and no file.
LEMMA QuietRow ==
  ASSUME Apart, IInv, TypeOK', NEW s \in Session, NEW id \in DOMAIN rows, Quiet,
         \A t \in Session \ {s} : sess'[t] = sess[t],
         DOMAIN rows' = DOMAIN rows, rows'[id].name = rows[id].name,
         rows[id].name \in NamesOf[s],
         \A r \in DOMAIN rows \ {id} : rows'[r] = rows[r],
         sess[s].at = "complete" => sess[s].row = id,
         OwnRow(s)', OwnCare(s)', OwnFile(s)',
         NEW h \in Hash, NEW n \in Nat, rows'[id].hash = h, rows'[id].size = n,
         ~rows'[id].complete => Safe(id, h, n),
         ~world.overwrites => (rows'[id].complete => HasEntity(h)),
         UNCHANGED hashes
  PROVE  IInv'
<1>1. PICK R : R = {id}
  OBVIOUS
<1>2. /\ \A h1 \in Hash : HasEntity(h1)' <=> HasEntity(h1)
      /\ \A r1, h1 : Stored(r1, h1)' = Stored(r1, h1)
  BY QuietKeeps DEF IInv
<1>3. world' = world
  BY DEF Quiet
<1>4. (~rows[id].complete => Safe(id, rows[id].hash, rows[id].size))'
  <2>1. Safe(id, h, n) => Safe(id, h, n)'
    BY <1>2, <1>3 DEF Safe, Kept
  <2> QED BY <2>1 DEF Safe, Kept, Stored, HasEntity
<1>5. ~world.overwrites => (rows[id].complete => HasEntity(rows[id].hash))'
  <2>1. HasEntity(h) => HasEntity(h)'
    BY <1>2
  <2> QED BY <2>1 DEF HasEntity
<1>6. DOMAIN rows' = DOMAIN rows \cup R /\ \A r \in DOMAIN rows \ R : rows'[r] = rows[r]
  BY <1>1
<1>7. \A r \in R : /\ rows'[r].name \in NamesOf[s]
                   /\ r \in DOMAIN rows => rows'[r].name = rows[r].name
  BY <1>1
<1>8. sess[s].at = "complete" => sess[s].row \in R
  BY <1>1
<1>9. \A r \in R : (~rows[r].complete => Safe(r, rows[r].hash, rows[r].size) \/ Moved(r))'
  BY <1>1, <1>4
<1>10. ~world.overwrites => \A r \in R : (rows[r].complete => HasEntity(rows[r].hash))'
  BY <1>1, <1>5
<1>11. hashes \subseteq hashes' /\ (~world.overwrites => \A g \in hashes' \ hashes : HasEntity(g))
  OBVIOUS
<1> QED BY <1>6, <1>7, <1>8, <1>9, <1>10, <1>11, QuietStep

\* An update of the columns of one row.
Written(id, h, n, done) ==
  rows' = [rows EXCEPT ![id] = [rows[id] EXCEPT !.hash = h, !.size = n, !.complete = done]]

LEMMA RowWritten ==
  ASSUME TypeOK, NEW id \in DOMAIN rows, NEW h \in Hash, NEW n \in Nat, NEW done \in BOOLEAN,
         Written(id, h, n, done)
  PROVE  /\ rows' \in Seq(RowRecord) /\ Len(rows') = Len(rows) /\ DOMAIN rows' = DOMAIN rows
         /\ rows'[id].name = rows[id].name /\ rows'[id].hash = h
         /\ rows'[id].size = n /\ rows'[id].complete = done
         /\ \A r \in DOMAIN rows \ {id} : rows'[r] = rows[r]
<1>1. PICK row \in RowRecord : row = rows[id]
  BY RowsOfTheTable
<1>2. [row EXCEPT !.hash = h, !.size = n, !.complete = done] \in RowRecord
  BY DEF RowRecord
<1>3. PICK new \in RowRecord : new = [row EXCEPT !.hash = h, !.size = n, !.complete = done]
  BY <1>2
<1>4. rows' = [rows EXCEPT ![id] = new] /\ rows \in Seq(RowRecord)
  BY <1>1, <1>3 DEF TypeOK, Written
<1>5. rows' \in Seq(RowRecord) /\ Len(rows') = Len(rows)
  BY <1>4
<1>6. DOMAIN rows' = DOMAIN rows /\ rows'[id] = new
      /\ \A r \in DOMAIN rows \ {id} : rows'[r] = rows[r]
  BY <1>4
<1>7. new.name = rows[id].name /\ new.hash = h /\ new.size = n /\ new.complete = done
  BY <1>1, <1>3 DEF RowRecord
<1> QED BY <1>5, <1>6, <1>7

LEMMA ProgressWritten ==
  ASSUME TypeOK, NEW id \in DOMAIN rows, NEW n \in Nat, NEW done \in BOOLEAN,
         Progress(id, n, done)
  PROVE  /\ rows' \in Seq(RowRecord) /\ Len(rows') = Len(rows) /\ DOMAIN rows' = DOMAIN rows
         /\ rows'[id].name = rows[id].name /\ rows'[id].hash = rows[id].hash
         /\ rows'[id].size = n /\ rows'[id].complete = done
         /\ \A r \in DOMAIN rows \ {id} : rows'[r] = rows[r]
<1>1. PICK row \in RowRecord, h \in Hash : row = rows[id] /\ h = row.hash
  BY RowsOfTheTable
<1>2. [row EXCEPT !.size = n, !.complete = done]
        = [row EXCEPT !.hash = h, !.size = n, !.complete = done]
  BY <1>1 DEF RowRecord
<1>3. rows' = [rows EXCEPT ![id] = [row EXCEPT !.size = n, !.complete = done]]
  BY <1>1 DEF Progress
<1>4. Written(id, h, n, done)
  BY <1>1, <1>2, <1>3 DEF Written
<1> QED BY <1>1, <1>4, RowWritten

LEMMA ResetStep ==
  ASSUME Apart, IInv, NEW s \in Session, Reset(s), world' = world
  PROVE  IInv'
<1>1. TypeOK /\ sess \in [Session -> SessionRecord]
  BY DEF IInv, TypeOK
<1>2. UNCHANGED <<world, hashes, temp, entity, data>> /\ sess[s].at = "reset"
  BY DEF Reset
<1>3. PICK id \in DOMAIN rows, h \in Hash, se \in SessionRecord :
        /\ id = sess[s].row /\ h = sess[s].hash /\ se = sess[s]
        /\ rows[id].name = sess[s].name /\ rows[id].name \in NamesOf[s]
  BY <1>1, <1>2 DEF IInv, OwnAll, Own, OwnRow, WithRow
<1>4. PICK n \in Nat, done \in BOOLEAN : n = 0 /\ done = FALSE
  OBVIOUS
<1>5. Written(id, h, n, done)
  BY <1>3, <1>4 DEF Reset, Written
<1>6. /\ rows' \in Seq(RowRecord) /\ Len(rows') = Len(rows) /\ DOMAIN rows' = DOMAIN rows
      /\ rows'[id].name = rows[id].name /\ rows'[id].hash = h
      /\ rows'[id].size = n /\ rows'[id].complete = done
      /\ \A r \in DOMAIN rows \ {id} : rows'[r] = rows[r]
  BY <1>1, <1>3, <1>4, <1>5, RowWritten
<1>7. [se EXCEPT !.at = "respond"] \in SessionRecord
  BY DEF SessionRecord
<1>8. /\ sess' \in [Session -> SessionRecord] /\ \A t \in Session \ {s} : sess'[t] = sess[t]
      /\ sess'[s] = [se EXCEPT !.at = "respond"]
  BY <1>1, <1>3, <1>7 DEF Reset, Goto
<1>9. /\ sess'[s].at = "respond" /\ sess'[s].row = id /\ sess'[s].hash = h
      /\ sess'[s].name = sess[s].name /\ sess'[s].offset = sess[s].offset
      /\ sess'[s].fd = sess[s].fd
  BY <1>3, <1>8 DEF SessionRecord
<1>10. TypeOK'
  BY <1>1, <1>2, <1>6, <1>8, <1>9 DEF TypeOK
<1>11. Quiet
  BY <1>2, <1>8, <1>9 DEF Quiet
<1>12. OwnRow(s)'
  BY <1>2, <1>3, <1>4, <1>6, <1>9 DEF IInv, OwnAll, Own, OwnRow, WithRow, WithHash
<1>13. world.overwrites
  BY <1>2 DEF IInv, OwnAll, Own, OwnCare
<1>14. OwnCare(s)' /\ OwnFile(s)'
  BY <1>2, <1>9, <1>13 DEF OwnCare, OwnFile
<1>15. Safe(id, h, n)
  BY <1>4 DEF Safe
<1> QED BY <1>2, <1>3, <1>4, <1>6, <1>8, <1>10, <1>11, <1>12, <1>13, <1>14, <1>15, QuietRow

\* A step of s at which the upload to its row ends, or stops until it is resumed.
LEMMA LeavesRow ==
  ASSUME Apart, IInv, NEW s \in Session, world' = world,
         NEW id \in DOMAIN rows, rows[id].name \in NamesOf[s],
         sess[s].at \notin {"receive", "sync"}, sess[s].at = "complete" => sess[s].row = id,
         UNCHANGED <<hashes, temp, entity, data>>, sess' = [sess EXCEPT ![s] = Idle(0, 0)],
         NEW h \in Hash, NEW n \in Nat, NEW done \in BOOLEAN,
         rows' \in Seq(RowRecord), Len(rows') = Len(rows), DOMAIN rows' = DOMAIN rows,
         rows'[id].name = rows[id].name, rows'[id].hash = h, rows'[id].size = n,
         rows'[id].complete = done, \A r \in DOMAIN rows \ {id} : rows'[r] = rows[r],
         ~done => Safe(id, h, n), ~world.overwrites => (done => HasEntity(h))
  PROVE  IInv'
<1>1. TypeOK
  BY DEF IInv
<1>2. /\ sess' \in [Session -> SessionRecord] /\ \A t \in Session \ {s} : sess'[t] = sess[t]
      /\ sess'[s].at = "idle" /\ sess'[s].fd = None
      /\ OwnRow(s)' /\ OwnCare(s)' /\ OwnFile(s)'
  BY <1>1, IdleAfresh
<1>3. TypeOK'
  BY <1>1, <1>2 DEF TypeOK
<1>4. Quiet
  BY <1>1, <1>2 DEF Quiet, TypeOK
<1> QED BY <1>2, <1>3, <1>4, QuietRow

LEMMA RespondInstantStep ==
  ASSUME Apart, IInv, NEW s \in Session, RespondInstant(s), world' = world
  PROVE  IInv'
<1>1. TypeOK /\ sess[s].at = "respond" /\ sess[s].known
      /\ UNCHANGED <<hashes, temp, entity, data>> /\ sess' = [sess EXCEPT ![s] = Idle(0, 0)]
  BY DEF IInv, RespondInstant
<1>2. PICK id \in DOMAIN rows, h \in Hash, n \in Nat, done \in BOOLEAN :
        /\ id = sess[s].row /\ h = sess[s].hash /\ n = Size[h] /\ done = TRUE
        /\ rows[id].name \in NamesOf[s]
  <2>1. sess[s].row \in DOMAIN rows /\ sess[s].hash \in Hash /\ rows[sess[s].row].name \in NamesOf[s]
    BY <1>1 DEF IInv, OwnAll, Own, OwnRow, WithRow
  <2>2. Size[sess[s].hash] \in Nat
    BY <2>1, SizeAssumption
  <2> QED BY <2>1, <2>2
<1>3. Written(id, h, n, done)
  BY <1>2 DEF RespondInstant, Written
<1>4. /\ rows' \in Seq(RowRecord) /\ Len(rows') = Len(rows) /\ DOMAIN rows' = DOMAIN rows
      /\ rows'[id].name = rows[id].name /\ rows'[id].hash = h
      /\ rows'[id].size = n /\ rows'[id].complete = done
      /\ \A r \in DOMAIN rows \ {id} : rows'[r] = rows[r]
  BY <1>1, <1>2, <1>3, RowWritten
<1>5. ~world.overwrites => HasEntity(h)
  BY <1>1, <1>2 DEF IInv, OwnAll, Own, OwnCare, CompleteHasEntity
<1> QED BY <1>1, <1>2, <1>4, <1>5, LeavesRow

LEMMA InterruptedStep ==
  ASSUME Apart, IInv, NEW s \in Session, Interrupted(s), world' = world
  PROVE  IInv'
<1>1. TypeOK /\ sess[s].at = "break" /\ Progress(sess[s].row, sess[s].received, FALSE)
      /\ UNCHANGED <<hashes, temp, entity, data>> /\ sess' = [sess EXCEPT ![s] = Idle(0, 0)]
  BY DEF IInv, Interrupted
<1>2. PICK id \in DOMAIN rows, h \in Hash, n \in Nat, done \in BOOLEAN :
        /\ id = sess[s].row /\ h = sess[s].hash /\ n = sess[s].received /\ done = FALSE
        /\ rows[id].name \in NamesOf[s] /\ rows[id].hash = h
  BY <1>1, SessionsAreTyped DEF IInv, OwnAll, Own, OwnRow, WithRow, WithHash
<1>3. /\ rows' \in Seq(RowRecord) /\ Len(rows') = Len(rows) /\ DOMAIN rows' = DOMAIN rows
      /\ rows'[id].name = rows[id].name /\ rows'[id].hash = rows[id].hash
      /\ rows'[id].size = n /\ rows'[id].complete = done
      /\ \A r \in DOMAIN rows \ {id} : rows'[r] = rows[r]
  BY <1>1, <1>2, ProgressWritten
<1>4. Safe(id, h, n)
  BY <1>1, <1>2 DEF IInv, OwnAll, Own, OwnFile
<1> QED BY <1>1, <1>2, <1>3, <1>4, LeavesRow

LEMMA DisconnectStep ==
  ASSUME Apart, IInv, NEW s \in Session, Disconnect(s), world' = world
  PROVE  IInv'
<1>1. TypeOK /\ sess[s].at = "idle" /\ Progress(sess[s].upload, sess[s].received, FALSE)
      /\ UNCHANGED <<hashes, temp, entity, data>> /\ sess' = [sess EXCEPT ![s] = Idle(0, 0)]
  BY DEF IInv, Disconnect
<1>2. PICK id \in DOMAIN rows, h \in Hash, n \in Nat, done \in BOOLEAN :
        /\ id = sess[s].upload /\ h = rows[id].hash /\ n = sess[s].received /\ done = FALSE
        /\ rows[id].name \in NamesOf[s] /\ rows[id].size = n /\ ~rows[id].complete
  <2>1. sess[s].upload # 0
    BY DEF Disconnect
  <2>2. sess[s].upload \in DOMAIN rows /\ rows[sess[s].upload].name \in NamesOf[s]
        /\ rows[sess[s].upload].size = sess[s].received /\ ~rows[sess[s].upload].complete
    BY <1>1, <2>1 DEF IInv, OwnAll, Own, OwnRow
  <2> QED BY <1>1, <2>2, SessionsAreTyped, RowsOfTheTable
<1>3. /\ rows' \in Seq(RowRecord) /\ Len(rows') = Len(rows) /\ DOMAIN rows' = DOMAIN rows
      /\ rows'[id].name = rows[id].name /\ rows'[id].hash = rows[id].hash
      /\ rows'[id].size = n /\ rows'[id].complete = done
      /\ \A r \in DOMAIN rows \ {id} : rows'[r] = rows[r]
  BY <1>1, <1>2, ProgressWritten
<1>4. ~Moved(id)
  BY <1>1, <1>2, ElsewhereOnly
<1>5. Safe(id, h, n)
  BY <1>2, <1>4 DEF IInv, Resumable
<1> QED BY <1>1, <1>2, <1>3, <1>5, LeavesRow

LEMMA SyncStep ==
  ASSUME Apart, IInv, NEW s \in Session, Sync(s), world' = world
  PROVE  IInv'
<1>1. TypeOK /\ sess \in [Session -> SessionRecord] /\ sess[s].at = "sync"
      /\ Progress(sess[s].row, sess[s].received, FALSE)
      /\ UNCHANGED <<world, hashes, temp, entity, data>>
  BY DEF IInv, TypeOK, Sync
<1>2. PICK id \in DOMAIN rows, h \in Hash, n \in Nat, done \in BOOLEAN, se \in SessionRecord :
        /\ id = sess[s].row /\ h = sess[s].hash /\ n = sess[s].received /\ done = FALSE
        /\ se = sess[s] /\ rows[id].name = sess[s].name
        /\ rows[id].name \in NamesOf[s] /\ rows[id].hash = h
  BY <1>1, SessionsAreTyped DEF IInv, OwnAll, Own, OwnRow, WithRow, WithHash
<1>3. /\ rows' \in Seq(RowRecord) /\ Len(rows') = Len(rows) /\ DOMAIN rows' = DOMAIN rows
      /\ rows'[id].name = rows[id].name /\ rows'[id].hash = rows[id].hash
      /\ rows'[id].size = n /\ rows'[id].complete = done
      /\ \A r \in DOMAIN rows \ {id} : rows'[r] = rows[r]
  BY <1>1, <1>2, ProgressWritten
<1>4. sess' = [sess EXCEPT ![s] = [se EXCEPT !.at = "receive", !.synced = n]]
  BY <1>2 DEF Sync
<1>5. [se EXCEPT !.at = "receive", !.synced = n] \in SessionRecord
  BY DEF SessionRecord
<1>6. /\ sess' \in [Session -> SessionRecord] /\ \A t \in Session \ {s} : sess'[t] = sess[t]
      /\ sess'[s] = [se EXCEPT !.at = "receive", !.synced = n]
  BY <1>1, <1>4, <1>5
<1>7. /\ sess'[s].at = "receive" /\ sess'[s].row = id /\ sess'[s].hash = h
      /\ sess'[s].received = n /\ sess'[s].fd = sess[s].fd
      /\ sess'[s].name = sess[s].name /\ sess'[s].known = sess[s].known
  BY <1>2, <1>6 DEF SessionRecord
<1>8. TypeOK'
  <2>1. \A t \in Session : (sess[t].fd # None <=> sess[t].at \in {"receive", "sync"})'
    <3>1. sess[s].fd # None
      BY <1>1, SessionsAreTyped
    <3>2. \A t \in Session \ {s} : sess[t].fd # None <=> sess[t].at \in {"receive", "sync"}
      BY <1>1, SessionsAreTyped
    <3>3. ASSUME NEW t \in Session
          PROVE  sess'[t].fd # None <=> sess'[t].at \in {"receive", "sync"}
      <4>1. CASE t = s
        BY <1>7, <3>1, <4>1
      <4>2. CASE t # s
        BY <1>6, <3>2, <4>2
      <4> QED BY <4>1, <4>2
    <3> QED BY <3>3
  <2>2. Len(rows') <= MaxRow
    BY <1>1, <1>3 DEF TypeOK
  <2> QED BY <1>1, <1>3, <1>6, <2>1, <2>2 DEF TypeOK
<1>9. Quiet
  BY <1>1, <1>6, <1>7 DEF Quiet
<1>10. OwnRow(s)'
  BY <1>1, <1>2, <1>3, <1>7 DEF IInv, OwnAll, Own, OwnRow, WithRow, WithHash
<1>11. OwnCare(s)'
  BY <1>1, <1>2, <1>7 DEF IInv, OwnAll, Own, OwnCare
<1>12. Safe(id, h, n)
  BY <1>1, <1>2 DEF IInv, OwnAll, Own, OwnFile
<1>13. OwnFile(s)'
  <2>1. Safe(id, h, n)'
    BY <1>1, <1>12 DEF Safe, Kept, Stored, HasEntity
  <2>2. Safe(sess[s].row, sess[s].hash, sess[s].received)'
    BY <1>7, <2>1 DEF Safe, Kept, Stored, HasEntity
  <2>3. (sess[s].fd = temp[TempName(s)])'
    BY <1>1, <1>2, <1>7 DEF IInv, OwnAll, Own, OwnFile, TempName
  <2> QED BY <1>7, <2>2, <2>3 DEF OwnFile
<1> QED BY <1>1, <1>2, <1>3, <1>6, <1>8, <1>9, <1>10, <1>11, <1>12, <1>13, QuietRow

LEMMA CompleteStep ==
  ASSUME Apart, IInv, NEW s \in Session, Complete(s), world' = world
  PROVE  IInv'
<1>1. TypeOK /\ sess \in [Session -> SessionRecord] /\ sess[s].at = "complete"
      /\ Progress(sess[s].row, sess[s].received, TRUE)
      /\ UNCHANGED <<world, hashes, temp, entity, data>>
  BY DEF IInv, TypeOK, Complete
<1>2. PICK id \in DOMAIN rows, h \in Hash, n \in Nat, done \in BOOLEAN, se \in SessionRecord :
        /\ id = sess[s].row /\ h = sess[s].hash /\ n = sess[s].received /\ done = TRUE
        /\ se = sess[s] /\ rows[id].name = sess[s].name
        /\ rows[id].name \in NamesOf[s] /\ rows[id].hash = h
  BY <1>1, SessionsAreTyped DEF IInv, OwnAll, Own, OwnRow, WithRow, WithHash
<1>3. /\ rows' \in Seq(RowRecord) /\ Len(rows') = Len(rows) /\ DOMAIN rows' = DOMAIN rows
      /\ rows'[id].name = rows[id].name /\ rows'[id].hash = rows[id].hash
      /\ rows'[id].size = n /\ rows'[id].complete = done
      /\ \A r \in DOMAIN rows \ {id} : rows'[r] = rows[r]
  BY <1>1, <1>2, ProgressWritten
<1>4. ~world.overwrites => HasEntity(h)
  BY <1>1, <1>2 DEF IInv, OwnAll, Own, OwnCare
<1>5. CASE sess' = [sess EXCEPT ![s] = Idle(0, 0)]
  BY <1>1, <1>2, <1>3, <1>4, <1>5, LeavesRow
<1>6. CASE Goto(s, "insert")
  <2>1. [se EXCEPT !.at = "insert"] \in SessionRecord
    BY DEF SessionRecord
  <2>2. /\ sess' \in [Session -> SessionRecord] /\ \A t \in Session \ {s} : sess'[t] = sess[t]
        /\ sess'[s] = [se EXCEPT !.at = "insert"]
    BY <1>1, <1>2, <1>6, <2>1 DEF Goto
  <2>3. /\ sess'[s].at = "insert" /\ sess'[s].row = id /\ sess'[s].hash = h
        /\ sess'[s].fd = sess[s].fd
        /\ sess'[s].name = sess[s].name /\ sess'[s].known = sess[s].known
    BY <1>2, <2>2 DEF SessionRecord
  <2>4. TypeOK'
    BY <1>1, <1>3, <2>2, <2>3 DEF TypeOK
  <2>5. Quiet
    BY <1>1, <2>2, <2>3 DEF Quiet
  <2>6. OwnRow(s)'
    BY <1>1, <1>2, <1>3, <2>3 DEF IInv, OwnAll, Own, OwnRow, WithRow, WithHash
  <2>7. OwnCare(s)'
    <3>1. ~world.overwrites => HasEntity(sess[s].hash)'
      BY <1>1, <1>4, <2>3 DEF HasEntity
    <3> QED BY <1>1, <1>2, <2>3, <3>1 DEF IInv, OwnAll, Own, OwnCare
  <2>8. OwnFile(s)'
    BY <2>3 DEF OwnFile
  <2> QED BY <1>1, <1>2, <1>3, <1>4, <2>2, <2>4, <2>5, <2>6, <2>7, <2>8, QuietRow
<1> QED BY <1>5, <1>6 DEF Complete

LEMMA CreateStep ==
  ASSUME Apart, IInv, NEW s \in Session, Create(s), world' = world
  PROVE  IInv'
<1>1. TypeOK /\ sess \in [Session -> SessionRecord] /\ sess[s].at = "create"
      /\ UNCHANGED <<world, hashes, temp, entity, data>>
      /\ rows \in Seq(RowRecord) /\ Len(rows) <= MaxRow /\ MaxRow \in Nat
  BY BoundsAssumption DEF IInv, TypeOK, Create
<1>2. sess[s].name \in Name /\ sess[s].name \in NamesOf[s] /\ sess[s].hash \in Hash
  BY <1>1, NamesAssumption DEF IInv, OwnAll, Own, OwnRow
<1>3. CASE /\ Len(rows) < MaxRow
           /\ rows' = Append(rows, [name |-> sess[s].name, hash |-> sess[s].hash,
                                    size |-> 0, complete |-> FALSE, alive |-> TRUE])
           /\ sess' = [sess EXCEPT ![s].at = "respond", ![s].row = Len(rows) + 1]
  <2>1. PICK row \in RowRecord : row = [name |-> sess[s].name, hash |-> sess[s].hash,
                                        size |-> 0, complete |-> FALSE, alive |-> TRUE]
    BY <1>2 DEF RowRecord
  <2>2. PICK id \in 0..MaxRow, se \in SessionRecord, h \in Hash :
          id = Len(rows) + 1 /\ se = sess[s] /\ h = sess[s].hash
    <3>1. Len(rows) + 1 \in 0..MaxRow
      BY <1>1, <1>3
    <3>2. sess[s] \in SessionRecord
      BY <1>1
    <3> QED BY <1>2, <3>1, <3>2
  <2>3. PICK R : R = {id}
    OBVIOUS
  <2>4. /\ rows' \in Seq(RowRecord) /\ Len(rows') = Len(rows) + 1
        /\ DOMAIN rows' = DOMAIN rows \cup R /\ id \notin DOMAIN rows
        /\ rows'[id] = row /\ \A r \in DOMAIN rows : rows'[r] = rows[r]
    BY <1>1, <1>3, <2>1, <2>2, <2>3
  <2>5. [se EXCEPT !.at = "respond", !.row = id] \in SessionRecord
    BY DEF SessionRecord
  <2>6. /\ sess' \in [Session -> SessionRecord] /\ \A t \in Session \ {s} : sess'[t] = sess[t]
        /\ sess'[s] = [se EXCEPT !.at = "respond", !.row = id]
    BY <1>1, <1>3, <2>2, <2>5
  <2>7. /\ sess'[s].at = "respond" /\ sess'[s].row = id /\ sess'[s].hash = h
        /\ sess'[s].fd = sess[s].fd /\ sess'[s].offset = sess[s].offset
        /\ sess'[s].name = sess[s].name /\ sess'[s].known = sess[s].known
    BY <2>2, <2>6 DEF SessionRecord
  <2>8. /\ row.name = sess[s].name /\ row.hash = h /\ row.size = 0 /\ row.complete = FALSE
    BY <2>1, <2>2
  <2>9. TypeOK'
    <3>1. Len(rows') <= MaxRow
      BY <1>1, <1>3, <2>4
    <3> QED BY <1>1, <2>4, <2>6, <2>7, <3>1 DEF TypeOK
  <2>10. Quiet
    BY <1>1, <2>6, <2>7 DEF Quiet
  <2>11. OwnRow(s)'
    BY <1>1, <1>2, <2>2, <2>4, <2>7, <2>8 DEF IInv, OwnAll, Own, OwnRow, WithRow, WithHash
  <2>12. OwnCare(s)'
    BY <1>1, <2>2, <2>7 DEF IInv, OwnAll, Own, OwnCare
  <2>13. OwnFile(s)'
    BY <2>7 DEF OwnFile
  <2>14. \A r \in R : /\ rows'[r].name \in NamesOf[s]
                      /\ r \in DOMAIN rows => rows'[r].name = rows[r].name
    BY <1>2, <2>2, <2>4, <2>8, <2>3
  <2>15. \A r \in R : (~rows[r].complete => Safe(r, rows[r].hash, rows[r].size) \/ Moved(r))'
    BY <2>2, <2>4, <2>8, <2>3 DEF Safe
  <2>16. \A r \in R : (rows[r].complete => HasEntity(rows[r].hash))'
    BY <2>2, <2>4, <2>8, <2>3
  <2>17. \A r \in DOMAIN rows \ R : rows'[r] = rows[r]
    BY <2>4, <2>3
  <2>18. hashes \subseteq hashes' /\ \A g \in hashes' \ hashes : HasEntity(g)
    BY <1>1
  <2>19. sess[s].at = "complete" => sess[s].row \in R
    BY <1>1, <2>3
  <2> QED BY <2>4, <2>6, <2>9, <2>10, <2>11, <2>12, <2>13, <2>14, <2>15, <2>16, <2>17, <2>18,
             <2>19, QuietStep
<1>4. CASE UNCHANGED rows /\ sess' = [sess EXCEPT ![s] = Idle(@.upload, @.received)]
  <2>1. PICK id \in 0..MaxRow, n \in Nat : id = sess[s].upload /\ n = sess[s].received
    BY <1>1 DEF SessionRecord
  <2>2. id # 0 => /\ id \in DOMAIN rows /\ rows[id].name \in NamesOf[s]
                  /\ ~rows[id].complete /\ rows[id].size = n
    BY <1>1, <2>1 DEF IInv, OwnAll, Own, OwnRow
  <2>3. sess' = [sess EXCEPT ![s] = Idle(id, n)]
    BY <1>1, <1>4, <2>1
  <2>4. /\ sess' \in [Session -> SessionRecord] /\ \A t \in Session \ {s} : sess'[t] = sess[t]
        /\ sess'[s].at = "idle" /\ sess'[s].fd = None
        /\ OwnRow(s)' /\ OwnCare(s)' /\ OwnFile(s)'
    BY <1>1, <1>4, <2>2, <2>3, IdleAgain
  <2>5. TypeOK'
    BY <1>1, <1>4, <2>4 DEF TypeOK
  <2>6. Quiet
    BY <1>1, <2>4 DEF Quiet, TypeOK
  <2> QED BY <1>1, <1>4, <2>4, <2>5, <2>6, QuietAlone
<1> QED BY <1>3, <1>4 DEF Create

LEMMA RemoveRowStep ==
  ASSUME Apart, IInv, NEW r \in Row, RemoveRow(r), world' = world
  PROVE  IInv'
<1>1. /\ TypeOK /\ r \in DOMAIN rows /\ rows' = [rows EXCEPT ![r].alive = FALSE]
      /\ UNCHANGED <<world, hashes, temp, entity, data, sess>>
  BY DEF IInv, RemoveRow
<1>2. PICK row \in RowRecord : row = rows[r]
  BY <1>1, RowsOfTheTable
<1>3. [row EXCEPT !.alive = FALSE] \in RowRecord
  BY DEF RowRecord
<1>4. PICK new \in RowRecord : new = [row EXCEPT !.alive = FALSE]
  BY <1>3
<1>5. rows' = [rows EXCEPT ![r] = new] /\ rows \in Seq(RowRecord) /\ r \in DOMAIN rows
  BY <1>1, <1>2, <1>4 DEF TypeOK
<1>6. rows' \in Seq(RowRecord) /\ Len(rows') = Len(rows)
  BY <1>5
<1>7. DOMAIN rows' = DOMAIN rows /\ rows'[r] = new /\ \A q \in DOMAIN rows \ {r} : rows'[q] = rows[q]
  BY <1>5
<1>8. /\ new.name = rows[r].name /\ new.hash = rows[r].hash /\ new.size = rows[r].size
      /\ new.complete = rows[r].complete /\ new.alive = FALSE
  BY <1>2, <1>4 DEF RowRecord
<1>9. \A q \in DOMAIN rows :
        /\ rows'[q].name = rows[q].name /\ rows'[q].hash = rows[q].hash
        /\ rows'[q].size = rows[q].size /\ rows'[q].complete = rows[q].complete
        /\ rows'[q].alive => rows[q].alive
  BY <1>7, <1>8
<1>10. TypeOK'
  BY <1>1, <1>6 DEF TypeOK
<1>11. Quiet
  BY <1>1 DEF Quiet
<1>12. /\ Files' /\ EntitiesWhole'
       /\ \A h \in Hash : HasEntity(h)' <=> HasEntity(h)
       /\ \A q, h : temp'[<<q, h>>] = temp[<<q, h>>] /\ Stored(q, h)' = Stored(q, h)
  BY <1>11, QuietKeeps DEF IInv
<1>13. Grows
  BY <1>1, <1>12 DEF Grows
<1>14. ASSUME NEW t \in Session PROVE Own(t)'
  <2>1. Untouched(t)
    BY <1>1, <1>7, <1>9, <1>12 DEF Untouched
  <2> QED BY <1>1, <1>13, <2>1, UntouchedKeeps DEF IInv, OwnAll
<1>15. Resumable'
  <2>1. ASSUME NEW q \in DOMAIN rows, ~rows[q].complete
        PROVE  Safe(q, rows[q].hash, rows[q].size)' \/ Moved(q)'
    <3>1. Safe(q, rows[q].hash, rows[q].size) \/ Moved(q)
      BY <2>1 DEF IInv, Resumable
    <3>2. Moved(q)' <=> Moved(q)
      BY <1>1 DEF Moved, At
    <3>3. Safe(q, rows[q].hash, rows[q].size)' <=> Safe(q, rows[q].hash, rows[q].size)
      BY <1>1, <1>9 DEF Safe, Kept, Stored, HasEntity
    <3> QED BY <3>1, <3>2, <3>3
  <2> QED BY <1>7, <1>9, <2>1 DEF Resumable
<1>16. CompleteHasEntity'
  BY <1>1, <1>7, <1>9 DEF IInv, CompleteHasEntity, HasEntity
<1> QED BY <1>10, <1>12, <1>14, <1>15, <1>16 DEF IInv, OwnAll

-----------------------------------------------------------------------------
(***************************************************************************)
(* Steps that touch files                                                  *)
(***************************************************************************)
\* Names that are taken away leave the files of the others as they are.
LEMMA KeepFiles ==
  ASSUME TypeOK, Files, EntitiesWhole, Keep(data),
         temp' \in [Row \X Hash -> Inode \cup {None}], entity' \in [Hash -> Inode \cup {None}],
         \A k \in Row \X Hash : temp'[k] = temp[k] \/ temp'[k] = None,
         \A h \in Hash : entity'[h] = entity[h] \/ entity'[h] = None
  PROVE  /\ data' \in [Inode -> SUBSET Nat] /\ Files' /\ EntitiesWhole'
         /\ \A h \in Hash : entity'[h] = entity[h] => (HasEntity(h) => HasEntity(h)')
         /\ \A r \in Row, h \in Hash :
              temp'[<<r, h>>] = temp[<<r, h>>] => Stored(r, h)' = Stored(r, h)
<1>1. /\ temp \in [Row \X Hash -> Inode \cup {None}] /\ entity \in [Hash -> Inode \cup {None}]
      /\ data \in [Inode -> SUBSET Nat]
  BY DEF TypeOK
<1>2. data' \in [Inode -> SUBSET Nat] /\ \A i \in Inode : /\ i \in Linked' => data'[i] = data[i]
                                                          /\ i \notin Linked' => data'[i] = {}
  BY <1>1 DEF Keep
<1>3. \A k \in Row \X Hash : temp'[k] \in Linked'
  BY DEF Linked
<1>4. \A h \in Hash : entity'[h] \in Linked'
  BY DEF Linked
<1>5. \A k \in Row \X Hash : temp'[k] # None => temp'[k] = temp[k] /\ data'[temp'[k]] = data[temp[k]]
  BY <1>1, <1>2, <1>3
<1>6. \A h \in Hash : entity'[h] # None => entity'[h] = entity[h] /\ data'[entity'[h]] = data[entity[h]]
  BY <1>1, <1>2, <1>4
<1>7. Files'
  <2>1. \A k, l \in Row \X Hash : temp'[k] = temp'[l] /\ temp'[k] # None => k = l
    BY <1>5 DEF Files
  <2>2. \A g, h \in Hash : entity'[g] = entity'[h] /\ entity'[g] # None => g = h
    BY <1>6 DEF Files
  <2>3. \A k \in Row \X Hash, h \in Hash : temp'[k] # None => temp'[k] # entity'[h]
    BY <1>5, <1>6 DEF Files
  <2>4. \A r \in Row, h \in Hash :
          temp'[<<r, h>>] # None => data'[temp'[<<r, h>>]] \subseteq Blocks(h)
    BY <1>5 DEF Files
  <2>5. \A i \in Inode : i \notin Linked' => data'[i] = {}
    BY <1>2
  <2> QED BY <2>1, <2>2, <2>3, <2>4, <2>5 DEF Files
<1>8. \A h \in Hash : entity'[h] # None => (HasEntity(h) => HasEntity(h)')
  BY <1>6 DEF HasEntity
<1>9. EntitiesWhole'
  BY <1>6, <1>8 DEF EntitiesWhole
<1>10. \A h \in Hash : entity'[h] = entity[h] => (HasEntity(h) => HasEntity(h)')
  BY <1>8 DEF HasEntity
<1>11. \A r \in Row, h \in Hash :
         temp'[<<r, h>>] = temp[<<r, h>>] => Stored(r, h)' = Stored(r, h)
  BY <1>5 DEF Stored
<1> QED BY <1>2, <1>7, <1>9, <1>10, <1>11

\* A step of s that touches the temporary file of its row only.
LEMMA FileStep ==
  ASSUME Apart, IInv, TypeOK', NEW s \in Session, NEW id \in DOMAIN rows, id = sess[s].row,
         rows[id].name \in NamesOf[s], UNCHANGED <<rows, hashes>>, Grows, ~rows[id].complete,
         \A t \in Session \ {s} : sess'[t] = sess[t],
         \A r \in DOMAIN rows \ {id}, h \in Hash :
           temp'[<<r, h>>] = temp[<<r, h>>] /\ Stored(r, h)' = Stored(r, h),
         OwnRow(s)', OwnCare(s)', OwnFile(s)', Files', EntitiesWhole',
         Safe(id, rows[id].hash, rows[id].size)' \/ Moved(id)'
  PROVE  IInv'
<1>1. PICK R : R = {id}
  OBVIOUS
<1>2. Acts(s, R)
  BY <1>1 DEF Acts
<1>3. \A r \in R : (~rows[r].complete => Safe(r, rows[r].hash, rows[r].size) \/ Moved(r))'
  BY <1>1
<1>4. /\ \A r \in R : (rows[r].complete => HasEntity(rows[r].hash))'
      /\ \A h \in hashes' \ hashes : HasEntity(h)'
  BY <1>1
<1> QED BY <1>2, <1>3, <1>4, ActsKeeps DEF IInv, Own

LEMMA RemoveEntityStep ==
  ASSUME Apart, IInv, NEW s \in Session, RemoveEntity(s), world' = world
  PROVE  IInv'
<1>1. /\ TypeOK /\ sess \in [Session -> SessionRecord] /\ sess[s].at = "unlink"
      /\ entity' = [entity EXCEPT ![sess[s].old] = None] /\ UNCHANGED <<rows, hashes, temp>>
      /\ Keep(data) /\ sess' = [sess EXCEPT ![s].at = "reset", ![s].old = None]
  BY DEF IInv, TypeOK, RemoveEntity
<1>2. PICK se \in SessionRecord : se = sess[s]
  BY <1>1
<1>3. [se EXCEPT !.at = "reset", !.old = None] \in SessionRecord
  BY DEF SessionRecord
<1>4. /\ sess' \in [Session -> SessionRecord] /\ \A t \in Session \ {s} : sess'[t] = sess[t]
      /\ sess'[s] = [se EXCEPT !.at = "reset", !.old = None]
  BY <1>1, <1>2, <1>3
<1>5. /\ sess'[s].at = "reset" /\ sess'[s].row = sess[s].row /\ sess'[s].hash = sess[s].hash
      /\ sess'[s].fd = sess[s].fd /\ sess'[s].offset = sess[s].offset
      /\ sess'[s].resume = sess[s].resume /\ sess'[s].name = sess[s].name
  BY <1>2, <1>4 DEF SessionRecord
<1>6. /\ temp' \in [Row \X Hash -> Inode \cup {None}] /\ entity' \in [Hash -> Inode \cup {None}]
      /\ \A k \in Row \X Hash : temp'[k] = temp[k] \/ temp'[k] = None
      /\ \A h \in Hash : entity'[h] = entity[h] \/ entity'[h] = None
  BY <1>1 DEF TypeOK
<1>7. /\ data' \in [Inode -> SUBSET Nat] /\ Files' /\ EntitiesWhole'
      /\ \A r \in Row, h \in Hash :
           temp'[<<r, h>>] = temp[<<r, h>>] => Stored(r, h)' = Stored(r, h)
  BY <1>1, <1>6, KeepFiles DEF IInv
<1>8. TypeOK'
  BY <1>1, <1>4, <1>5, <1>6, <1>7 DEF TypeOK
<1>9. world.overwrites
  BY <1>1 DEF IInv, OwnAll, Own, OwnCare
<1>10. PICK R : R = {}
  OBVIOUS
<1>11. Acts(s, R)
  <2>1. Grows
    BY <1>1, <1>9 DEF Grows
  <2>2. \A r \in DOMAIN rows \ R :
          /\ rows'[r] = rows[r]
          /\ \A h \in Hash : temp'[<<r, h>>] = temp[<<r, h>>] /\ Stored(r, h)' = Stored(r, h)
    BY <1>1, <1>7, RowsOfTheTable
  <2> QED BY <1>1, <1>4, <1>10, <2>1, <2>2 DEF Acts
<1>12. OwnRow(s)'
  BY <1>1, <1>5 DEF IInv, OwnAll, Own, OwnRow, WithRow, WithHash
<1>13. Own(s)'
  BY <1>5, <1>9, <1>12 DEF Own, OwnCare, OwnFile
<1>14. \A r \in R : (~rows[r].complete => Safe(r, rows[r].hash, rows[r].size) \/ Moved(r))'
  BY <1>10
<1> QED BY <1>7, <1>8, <1>9, <1>11, <1>13, <1>14, ActsKeeps DEF IInv

\* What a session at one of these points knows of its row.
LEMMA RowInHand ==
  ASSUME IInv, NEW s \in Session, sess[s].at \in WithHash
  PROVE  \E id \in DOMAIN rows, h \in Hash, n \in Nat, se \in SessionRecord :
           /\ id = sess[s].row /\ h = sess[s].hash /\ n = sess[s].received /\ se = sess[s]
           /\ rows[id].name = sess[s].name /\ rows[id].name \in NamesOf[s]
           /\ rows[id].hash = h /\ ~rows[id].complete /\ id \in Row
<1>1. TypeOK /\ sess[s].at \in WithRow /\ sess[s].at # "idle"
  BY DEF IInv, WithRow, WithHash
<1>2. sess[s] \in SessionRecord /\ sess[s].received \in Nat
  BY <1>1, SessionsAreTyped
<1>3. /\ sess[s].row \in DOMAIN rows /\ sess[s].hash \in Hash
      /\ rows[sess[s].row].name = sess[s].name /\ sess[s].name \in NamesOf[s]
      /\ rows[sess[s].row].hash = sess[s].hash /\ ~rows[sess[s].row].complete
  BY <1>1 DEF IInv, OwnAll, Own, OwnRow
<1>4. sess[s].row \in Row
  BY <1>1, <1>3, RowsOfTheTable
<1> QED BY <1>2, <1>3, <1>4

LEMMA SizeKept ==
  ASSUME Apart, IInv, NEW s \in Session, NEW id \in DOMAIN rows, NEW h \in Hash,
         rows[id].name \in NamesOf[s], rows[id].hash = h, ~rows[id].complete, id \in Row,
         sess[s].at # "complete", UNCHANGED <<world, rows>>,
         \A g \in Hash : HasEntity(g) => HasEntity(g)',
         Stored(id, h) \subseteq Stored(id, h)'
  PROVE  Safe(id, rows[id].hash, rows[id].size)'
<1>1. PICK n : n = rows[id].size
  OBVIOUS
<1>2. Safe(id, h, n)
  BY <1>1, ElsewhereOnly DEF IInv, Resumable
<1>3. Safe(id, h, n)'
  BY <1>2 DEF Safe, Kept
<1> QED BY <1>1, <1>3 DEF Safe, Kept, Stored, HasEntity

LEMMA BreakStep ==
  ASSUME Apart, IInv, NEW s \in Session, Break(s), world' = world
  PROVE  IInv'
<1>1. /\ TypeOK /\ sess \in [Session -> SessionRecord] /\ sess[s].at = "receive"
      /\ UNCHANGED <<world, rows, hashes, temp, entity>>
      /\ Keep(data) /\ sess' = [sess EXCEPT ![s].at = "break", ![s].fd = None]
  BY DEF IInv, TypeOK, Break
<1>2. PICK id \in DOMAIN rows, h \in Hash, n \in Nat, se \in SessionRecord :
        /\ id = sess[s].row /\ h = sess[s].hash /\ n = sess[s].received /\ se = sess[s]
        /\ rows[id].name = sess[s].name /\ rows[id].name \in NamesOf[s]
        /\ rows[id].hash = h /\ ~rows[id].complete /\ id \in Row
  BY <1>1, RowInHand DEF WithHash
<1>3. [se EXCEPT !.at = "break", !.fd = None] \in SessionRecord
  BY DEF SessionRecord
<1>4. /\ sess' \in [Session -> SessionRecord] /\ \A t \in Session \ {s} : sess'[t] = sess[t]
      /\ sess'[s] = [se EXCEPT !.at = "break", !.fd = None]
  BY <1>1, <1>2, <1>3
<1>5. /\ sess'[s].at = "break" /\ sess'[s].row = id /\ sess'[s].hash = h
      /\ sess'[s].fd = None /\ sess'[s].received = n /\ sess'[s].name = sess[s].name
      /\ sess'[s].known = sess[s].known
  BY <1>2, <1>4 DEF SessionRecord
<1>6. /\ data' \in [Inode -> SUBSET Nat] /\ Files' /\ EntitiesWhole'
      /\ \A g \in Hash : HasEntity(g) => HasEntity(g)'
      /\ \A r \in Row, g \in Hash : Stored(r, g)' = Stored(r, g)
  <2>1. /\ temp' \in [Row \X Hash -> Inode \cup {None}] /\ entity' \in [Hash -> Inode \cup {None}]
        /\ \A k \in Row \X Hash : temp'[k] = temp[k] \/ temp'[k] = None
        /\ \A g \in Hash : entity'[g] = entity[g] \/ entity'[g] = None
    BY <1>1 DEF TypeOK
  <2> QED BY <1>1, <2>1, KeepFiles DEF IInv
<1>7. TypeOK'
  BY <1>1, <1>4, <1>5, <1>6 DEF TypeOK
<1>8. Grows
  BY <1>1, <1>6 DEF Grows
<1>9. Safe(id, h, n)'
  <2>1. Safe(id, h, n)
    BY <1>1, <1>2 DEF IInv, OwnAll, Own, OwnFile
  <2> QED BY <1>1, <1>2, <1>6, <2>1 DEF Safe, Kept
<1>10. OwnRow(s)'
  BY <1>1, <1>2, <1>5 DEF IInv, OwnAll, Own, OwnRow, WithRow, WithHash
<1>11. OwnCare(s)'
  BY <1>1, <1>2, <1>5 DEF IInv, OwnAll, Own, OwnCare
<1>12. OwnFile(s)'
  <2>1. Safe(sess[s].row, sess[s].hash, sess[s].received)'
    BY <1>5, <1>9 DEF Safe, Kept, Stored, HasEntity
  <2> QED BY <1>5, <2>1 DEF OwnFile
<1>13. Safe(id, rows[id].hash, rows[id].size)'
  BY <1>1, <1>2, <1>8, <1>6, SizeKept
<1> QED BY <1>1, <1>2, <1>4, <1>6, <1>7, <1>8, <1>10, <1>11, <1>12, <1>13, RowsOfTheTable, FileStep

LEMMA CheckStep ==
  ASSUME Apart, IInv, NEW s \in Session, Check(s), world' = world
  PROVE  IInv'
<1>1. /\ TypeOK /\ sess \in [Session -> SessionRecord] /\ sess[s].at = "receive"
      /\ UNCHANGED <<world, rows, hashes, temp, entity>>
      /\ Keep(data) /\ sess[s].received = Size[sess[s].hash]
  BY DEF IInv, TypeOK, Check
<1>2. PICK id \in DOMAIN rows, h \in Hash, n \in Nat, se \in SessionRecord :
        /\ id = sess[s].row /\ h = sess[s].hash /\ n = sess[s].received /\ se = sess[s]
        /\ rows[id].name = sess[s].name /\ rows[id].name \in NamesOf[s]
        /\ rows[id].hash = h /\ ~rows[id].complete /\ id \in Row
  BY <1>1, RowInHand DEF WithHash
<1>3. PICK l \in {"rename", "discard"} : l = IF entity[h] = None THEN "rename" ELSE "discard"
  OBVIOUS
<1>4. [se EXCEPT !.fd = None, !.at = l] \in SessionRecord
  BY DEF SessionRecord
<1>5. sess' = [sess EXCEPT ![s] = [se EXCEPT !.fd = None, !.at = l]]
  BY <1>2, <1>3 DEF Check
<1>6. /\ sess' \in [Session -> SessionRecord] /\ \A t \in Session \ {s} : sess'[t] = sess[t]
      /\ sess'[s] = [se EXCEPT !.fd = None, !.at = l]
  BY <1>1, <1>4, <1>5
<1>7. /\ sess'[s].at = l /\ sess'[s].row = id /\ sess'[s].hash = h
      /\ sess'[s].fd = None /\ sess'[s].name = sess[s].name
      /\ sess'[s].known = sess[s].known
  BY <1>2, <1>6 DEF SessionRecord
<1>8. /\ data' \in [Inode -> SUBSET Nat] /\ Files' /\ EntitiesWhole'
      /\ \A g \in Hash : HasEntity(g) => HasEntity(g)'
      /\ \A r \in Row, g \in Hash : Stored(r, g)' = Stored(r, g)
  <2>1. /\ temp' \in [Row \X Hash -> Inode \cup {None}] /\ entity' \in [Hash -> Inode \cup {None}]
        /\ \A k \in Row \X Hash : temp'[k] = temp[k] \/ temp'[k] = None
        /\ \A g \in Hash : entity'[g] = entity[g] \/ entity'[g] = None
    BY <1>1 DEF TypeOK
  <2> QED BY <1>1, <2>1, KeepFiles DEF IInv
<1>9. TypeOK'
  BY <1>1, <1>6, <1>7, <1>8 DEF TypeOK
<1>10. Grows
  BY <1>1, <1>8 DEF Grows
<1>11. OwnRow(s)'
  BY <1>1, <1>2, <1>7 DEF IInv, OwnAll, Own, OwnRow, WithRow, WithHash
<1>12. l = "discard" => HasEntity(h)'
  BY <1>3, <1>8 DEF IInv, EntitiesWhole
<1>13. OwnCare(s)'
  <2>1. l = "discard" => HasEntity(sess[s].hash)'
    BY <1>7, <1>12 DEF HasEntity
  <2> QED BY <1>1, <1>2, <1>7, <2>1 DEF IInv, OwnAll, Own, OwnCare
<1>14. l = "rename" => temp[<<id, h>>] # None /\ Stored(id, h) = Blocks(h)
  <2>1. temp[<<id, h>>] # None
    BY <1>1, <1>2, SessionsAreTyped DEF IInv, OwnAll, Own, OwnFile, TempName
  <2>2. Stored(id, h) \subseteq Blocks(h)
    BY <1>2, <2>1 DEF IInv, Files, Stored
  <2>3. l = "rename" => Blocks(h) \subseteq Stored(id, h)
    BY <1>1, <1>2, <1>3 DEF IInv, OwnAll, Own, OwnFile, Safe, Kept, HasEntity, Blocks
  <2> QED BY <2>1, <2>2, <2>3
<1>15. OwnFile(s)'
  <2>1. l = "rename" => /\ temp'[<<id, h>>] # None
                        /\ data'[temp'[<<id, h>>]] = Blocks(h)
    BY <1>1, <1>2, <1>8, <1>14 DEF Stored
  <2>2. sess'[s].at \notin {"receive", "sync", "break"}
    BY <1>7
  <2> QED BY <1>7, <2>1, <2>2 DEF OwnFile, TempName
<1>16. Safe(id, rows[id].hash, rows[id].size)'
  BY <1>1, <1>2, <1>8, SizeKept
<1> QED BY <1>1, <1>2, <1>6, <1>8, <1>9, <1>10, <1>11, <1>13, <1>15, <1>16, RowsOfTheTable, FileStep

LEMMA DiscardStep ==
  ASSUME Apart, IInv, NEW s \in Session, Discard(s), world' = world
  PROVE  IInv'
<1>1. /\ TypeOK /\ sess \in [Session -> SessionRecord] /\ sess[s].at = "discard"
      /\ UNCHANGED <<world, rows, hashes, entity>> /\ Keep(data)
      /\ temp' = [temp EXCEPT ![TempName(s)] = None] /\ Goto(s, "complete")
  BY DEF IInv, TypeOK, Discard
<1>2. PICK id \in DOMAIN rows, h \in Hash, n \in Nat, se \in SessionRecord :
        /\ id = sess[s].row /\ h = sess[s].hash /\ n = sess[s].received /\ se = sess[s]
        /\ rows[id].name = sess[s].name /\ rows[id].name \in NamesOf[s]
        /\ rows[id].hash = h /\ ~rows[id].complete /\ id \in Row
  BY <1>1, RowInHand DEF WithHash
<1>3. [se EXCEPT !.at = "complete"] \in SessionRecord
  BY DEF SessionRecord
<1>4. /\ sess' \in [Session -> SessionRecord] /\ \A t \in Session \ {s} : sess'[t] = sess[t]
      /\ sess'[s] = [se EXCEPT !.at = "complete"]
  BY <1>1, <1>2, <1>3 DEF Goto
<1>5. /\ sess'[s].at = "complete" /\ sess'[s].row = id /\ sess'[s].hash = h
      /\ sess'[s].fd = sess[s].fd /\ sess'[s].name = sess[s].name
      /\ sess'[s].known = sess[s].known
  BY <1>2, <1>4 DEF SessionRecord
<1>6. /\ temp' \in [Row \X Hash -> Inode \cup {None}] /\ entity' \in [Hash -> Inode \cup {None}]
      /\ \A k \in Row \X Hash : temp'[k] = temp[k] \/ temp'[k] = None
      /\ \A k \in Row \X Hash : k # <<id, h>> => temp'[k] = temp[k]
      /\ \A g \in Hash : entity'[g] = entity[g]
  BY <1>1, <1>2 DEF TypeOK, TempName
<1>7. /\ data' \in [Inode -> SUBSET Nat] /\ Files' /\ EntitiesWhole'
      /\ \A g \in Hash : HasEntity(g) => HasEntity(g)'
      /\ \A r \in Row, g \in Hash : r # id => Stored(r, g)' = Stored(r, g)
  BY <1>1, <1>6, KeepFiles DEF IInv
<1>8. TypeOK'
  BY <1>1, <1>4, <1>5, <1>6, <1>7 DEF TypeOK
<1>9. Grows
  BY <1>1, <1>7 DEF Grows
<1>10. OwnRow(s)'
  BY <1>1, <1>2, <1>5 DEF IInv, OwnAll, Own, OwnRow, WithRow, WithHash
<1>11. OwnCare(s)'
  <2>1. ~world.overwrites => HasEntity(sess[s].hash)'
    BY <1>1, <1>2, <1>5, <1>7 DEF IInv, OwnAll, Own, OwnCare, HasEntity
  <2> QED BY <1>1, <1>2, <1>5, <2>1 DEF IInv, OwnAll, Own, OwnCare
<1>12. OwnFile(s)'
  BY <1>5 DEF OwnFile
<1>13. Moved(id)'
  BY <1>5 DEF Moved, At
<1>14. \A r \in DOMAIN rows \ {id}, g \in Hash :
         temp'[<<r, g>>] = temp[<<r, g>>] /\ Stored(r, g)' = Stored(r, g)
  BY <1>1, <1>6, <1>7, RowsOfTheTable
<1> QED BY <1>1, <1>2, <1>4, <1>7, <1>8, <1>9, <1>10, <1>11, <1>12, <1>13, <1>14, FileStep

LEMMA RenameStep ==
  ASSUME Apart, IInv, NEW s \in Session, Rename(s), world' = world
  PROVE  IInv'
<1>1. /\ TypeOK /\ sess \in [Session -> SessionRecord] /\ sess[s].at = "rename"
      /\ UNCHANGED <<world, rows, hashes>> /\ Keep(data) /\ Goto(s, "complete")
      /\ temp \in [Row \X Hash -> Inode \cup {None}] /\ entity \in [Hash -> Inode \cup {None}]
      /\ data \in [Inode -> SUBSET Nat]
  BY DEF IInv, TypeOK, Rename
<1>2. PICK id \in DOMAIN rows, h \in Hash, n \in Nat, se \in SessionRecord :
        /\ id = sess[s].row /\ h = sess[s].hash /\ n = sess[s].received /\ se = sess[s]
        /\ rows[id].name = sess[s].name /\ rows[id].name \in NamesOf[s]
        /\ rows[id].hash = h /\ ~rows[id].complete /\ id \in Row
  BY <1>1, RowInHand DEF WithHash
<1>3. PICK k \in Row \X Hash, i \in Inode :
         k = <<id, h>> /\ i = temp[k] /\ i # None /\ data[i] = Blocks(h)
  <2>1. <<id, h>> \in Row \X Hash
    BY <1>2
  <2>2. temp[<<id, h>>] # None /\ data[temp[<<id, h>>]] = Blocks(h)
    BY <1>1, <1>2 DEF IInv, OwnAll, Own, OwnFile, TempName
  <2>3. temp[<<id, h>>] \in Inode
    BY <1>1, <2>1, <2>2
  <2> QED BY <2>1, <2>2, <2>3
<1>4. entity' = [entity EXCEPT ![h] = i] /\ temp' = [temp EXCEPT ![k] = None]
  BY <1>2, <1>3 DEF Rename, TempName
<1>5. [se EXCEPT !.at = "complete"] \in SessionRecord
  BY DEF SessionRecord
<1>6. /\ sess' \in [Session -> SessionRecord] /\ \A t \in Session \ {s} : sess'[t] = sess[t]
      /\ sess'[s] = [se EXCEPT !.at = "complete"]
  BY <1>1, <1>2, <1>5 DEF Goto
<1>7. /\ sess'[s].at = "complete" /\ sess'[s].row = id /\ sess'[s].hash = h
      /\ sess'[s].fd = sess[s].fd /\ sess'[s].name = sess[s].name
      /\ sess'[s].known = sess[s].known
  BY <1>2, <1>6 DEF SessionRecord
<1>8. /\ temp' \in [Row \X Hash -> Inode \cup {None}] /\ entity' \in [Hash -> Inode \cup {None}]
      /\ temp'[k] = None /\ \A l \in Row \X Hash : l # k => temp'[l] = temp[l]
      /\ entity'[h] = i /\ \A g \in Hash : g # h => entity'[g] = entity[g]
  BY <1>1, <1>4
<1>9. /\ data' \in [Inode -> SUBSET Nat]
      /\ \A j \in Inode : /\ j \in Linked' => data'[j] = data[j]
                          /\ j \notin Linked' => data'[j] = {}
  BY <1>1 DEF Keep
<1>10. /\ \A l \in Row \X Hash : temp'[l] # None =>
            temp'[l] = temp[l] /\ l # k /\ data'[temp'[l]] = data[temp[l]]
       /\ \A g \in Hash : g # h /\ entity'[g] # None =>
            entity'[g] = entity[g] /\ data'[entity'[g]] = data[entity[g]]
       /\ data'[i] = data[i]
  <2>1. \A l \in Row \X Hash : temp'[l] \in Linked'
    BY <1>8 DEF Linked
  <2>2. \A g \in Hash : entity'[g] \in Linked'
    BY DEF Linked
  <2>3. i \in Linked'
    BY <1>8, <2>2
  <2> QED BY <1>8, <1>9, <2>1, <2>2, <2>3
<1>11. Files'
  <2>1. \A l, m \in Row \X Hash : temp'[l] = temp'[m] /\ temp'[l] # None => l = m
    BY <1>10 DEF IInv, Files
  <2>2. \A f, g \in Hash : entity'[f] = entity'[g] /\ entity'[f] # None => f = g
    <3>1. \A g \in Hash : entity[g] # i
      BY <1>3 DEF IInv, Files
    <3> QED BY <1>8, <3>1 DEF IInv, Files
  <2>3. \A l \in Row \X Hash, g \in Hash : temp'[l] # None => temp'[l] # entity'[g]
    <3>1. \A l \in Row \X Hash : temp'[l] # None => temp'[l] # i
      BY <1>3, <1>10 DEF IInv, Files
    <3> QED BY <1>8, <1>10, <3>1 DEF IInv, Files
  <2>4. \A r \in Row, g \in Hash :
          temp'[<<r, g>>] # None => data'[temp'[<<r, g>>]] \subseteq Blocks(g)
    BY <1>10 DEF IInv, Files
  <2>5. \A j \in Inode : j \notin Linked' => data'[j] = {}
    BY <1>9
  <2> QED BY <2>1, <2>2, <2>3, <2>4, <2>5 DEF Files
<1>12. HasEntity(h)'
  BY <1>3, <1>8, <1>10 DEF HasEntity
<1>13. \A g \in Hash : entity'[g] # None => HasEntity(g)'
  <2>1. \A g \in Hash : g # h /\ entity'[g] # None => HasEntity(g)'
    BY <1>8, <1>10 DEF IInv, EntitiesWhole, HasEntity
  <2> QED BY <1>12, <2>1
<1>14. EntitiesWhole'
  BY <1>13 DEF EntitiesWhole
<1>15. \A g \in Hash : HasEntity(g) => HasEntity(g)'
  BY <1>8, <1>12, <1>13 DEF HasEntity
<1>16. TypeOK'
  <2>1. \A t \in Session : sess'[t].fd # None <=> sess'[t].at \in {"receive", "sync"}
    BY <1>1, <1>6, <1>7 DEF TypeOK
  <2> QED BY <1>1, <1>6, <1>8, <1>9, <2>1 DEF TypeOK
<1>17. Grows
  BY <1>1, <1>15 DEF Grows
<1>18. OwnRow(s)'
  BY <1>1, <1>2, <1>7 DEF IInv, OwnAll, Own, OwnRow, WithRow, WithHash
<1>19. OwnCare(s)'
  <2>1. HasEntity(sess[s].hash)'
    BY <1>7, <1>12 DEF HasEntity
  <2> QED BY <1>1, <1>2, <1>7, <2>1 DEF IInv, OwnAll, Own, OwnCare
<1>20. OwnFile(s)'
  BY <1>7 DEF OwnFile
<1>21. Moved(id)'
  BY <1>7 DEF Moved, At
<1>22. \A r \in DOMAIN rows \ {id}, g \in Hash :
         temp'[<<r, g>>] = temp[<<r, g>>] /\ Stored(r, g)' = Stored(r, g)
  <2>1. ASSUME NEW r \in DOMAIN rows \ {id}, NEW g \in Hash
        PROVE  temp'[<<r, g>>] = temp[<<r, g>>] /\ Stored(r, g)' = Stored(r, g)
    <3>1. <<r, g>> \in Row \X Hash /\ <<r, g>> # k
      BY <1>1, <1>3, <2>1, RowsOfTheTable
    <3> QED BY <1>8, <1>10, <3>1 DEF Stored
  <2> QED BY <2>1
<1> QED BY <1>1, <1>2, <1>6, <1>11, <1>14, <1>16, <1>17, <1>18, <1>19, <1>20, <1>21, <1>22,
           FileStep

LEMMA ReceiveStep ==
  ASSUME Apart, IInv, NEW s \in Session, Receive(s), world' = world
  PROVE  IInv'
<1>1. /\ TypeOK /\ sess \in [Session -> SessionRecord] /\ sess[s].at = "receive"
      /\ UNCHANGED <<world, rows, hashes, temp, entity>>
      /\ temp \in [Row \X Hash -> Inode \cup {None}] /\ entity \in [Hash -> Inode \cup {None}]
      /\ data \in [Inode -> SUBSET Nat]
  BY DEF IInv, TypeOK, Receive
<1>2. PICK id \in DOMAIN rows, h \in Hash, n \in Nat, se \in SessionRecord :
        /\ id = sess[s].row /\ h = sess[s].hash /\ n = sess[s].received /\ se = sess[s]
        /\ rows[id].name = sess[s].name /\ rows[id].name \in NamesOf[s]
        /\ rows[id].hash = h /\ ~rows[id].complete /\ id \in Row
  BY <1>1, RowInHand DEF WithHash
<1>3. PICK k \in Row \X Hash, i \in Inode :
         k = <<id, h>> /\ i = temp[k] /\ i # None /\ i = sess[s].fd
  <2>1. <<id, h>> \in Row \X Hash
    BY <1>2
  <2>2. sess[s].fd = temp[<<id, h>>] /\ sess[s].fd # None
    BY <1>1, <1>2, SessionsAreTyped DEF IInv, OwnAll, Own, OwnFile, TempName
  <2>3. temp[<<id, h>>] \in Inode
    BY <1>1, <2>1, <2>2
  <2> QED BY <2>1, <2>2, <2>3
<1>4. PICK m \in Nat : m = n + 1 /\ m <= Size[h] /\ m \in Blocks(h)
  BY <1>2, SizeAssumption DEF Receive, Blocks
<1>5. data' = [data EXCEPT ![i] = @ \cup {m}]
  BY <1>2, <1>3, <1>4 DEF Receive
<1>6. PICK l \in {"receive", "sync"} :
        sess' = [sess EXCEPT ![s].received = m, ![s].at = l]
  BY <1>1, <1>2, <1>4 DEF Receive
<1>7. [se EXCEPT !.received = m, !.at = l] \in SessionRecord
  BY DEF SessionRecord
<1>8. /\ sess' \in [Session -> SessionRecord] /\ \A t \in Session \ {s} : sess'[t] = sess[t]
      /\ sess'[s] = [se EXCEPT !.received = m, !.at = l]
  BY <1>1, <1>2, <1>6, <1>7
<1>9. /\ sess'[s].at = l /\ sess'[s].row = id /\ sess'[s].hash = h
      /\ sess'[s].fd = i /\ sess'[s].name = sess[s].name
      /\ sess'[s].known = sess[s].known /\ sess'[s].received = m
  BY <1>2, <1>3, <1>8 DEF SessionRecord
<1>10. /\ data' \in [Inode -> SUBSET Nat] /\ data'[i] = data[i] \cup {m}
       /\ \A j \in Inode : j # i => data'[j] = data[j]
  BY <1>1, <1>5
<1>11. /\ \A q \in Row \X Hash : temp[q] # None /\ q # k => data'[temp[q]] = data[temp[q]]
       /\ \A g \in Hash : entity[g] # None => data'[entity[g]] = data[entity[g]]
  <2>1. \A q \in Row \X Hash : temp[q] # None /\ q # k => temp[q] # i /\ temp[q] \in Inode
    BY <1>1, <1>3 DEF IInv, Files
  <2>2. \A g \in Hash : entity[g] # None => entity[g] # i /\ entity[g] \in Inode
    BY <1>1, <1>3 DEF IInv, Files
  <2> QED BY <1>10, <2>1, <2>2
<1>12. Linked' = Linked /\ i \in Linked
  <2>1. \A t \in Session : sess'[t].fd = sess[t].fd
    BY <1>3, <1>8, <1>9
  <2> QED BY <1>1, <1>3, <2>1 DEF Linked
<1>13. Files'
  <2>1. \A r \in Row, g \in Hash :
          temp[<<r, g>>] # None => data'[temp[<<r, g>>]] \subseteq Blocks(g)
    <3>1. ASSUME NEW r \in Row, NEW g \in Hash, temp[<<r, g>>] # None
          PROVE  data'[temp[<<r, g>>]] \subseteq Blocks(g)
      <4>1. data[temp[<<r, g>>]] \subseteq Blocks(g) /\ <<r, g>> \in Row \X Hash
        BY <3>1 DEF IInv, Files
      <4>2. CASE <<r, g>> = k
        <5>1. g = h /\ temp[<<r, g>>] = i
          <6>1. <<r, g>> = <<id, h>>
            BY <1>3, <4>2
          <6>2. g = h
            BY <6>1
          <6> QED BY <1>3, <4>2, <6>2
        <5>2. data[i] \subseteq Blocks(h)
          BY <4>1, <5>1
        <5>3. data'[i] \subseteq Blocks(h)
          BY <1>4, <1>10, <5>2
        <5> QED BY <5>1, <5>3
      <4>3. CASE <<r, g>> # k
        BY <1>11, <3>1, <4>1, <4>3
      <4> QED BY <4>2, <4>3
    <3> QED BY <3>1
  <2>2. \A j \in Inode : j \notin Linked' => data'[j] = {}
    BY <1>10, <1>12 DEF IInv, Files
  <2> QED BY <1>1, <2>1, <2>2 DEF IInv, Files
<1>14. \A g \in Hash : HasEntity(g)' <=> HasEntity(g)
  BY <1>1, <1>11 DEF HasEntity
<1>15. EntitiesWhole'
  BY <1>1, <1>14 DEF IInv, EntitiesWhole
<1>16. TypeOK'
  <2>1. \A t \in Session : sess'[t].fd # None <=> sess'[t].at \in {"receive", "sync"}
    <3>1. \A t \in Session \ {s} : sess[t].fd # None <=> sess[t].at \in {"receive", "sync"}
      BY <1>1, SessionsAreTyped
    <3>2. ASSUME NEW t \in Session
          PROVE  sess'[t].fd # None <=> sess'[t].at \in {"receive", "sync"}
      <4>1. CASE t = s
        BY <1>3, <1>9, <4>1
      <4>2. CASE t # s
        BY <1>8, <3>1, <4>2
      <4> QED BY <4>1, <4>2
    <3> QED BY <3>2
  <2> QED BY <1>1, <1>8, <1>10, <2>1 DEF TypeOK
<1>17. Grows
  BY <1>1, <1>14 DEF Grows
<1>18. Stored(id, h)' = Stored(id, h) \cup {m}
  BY <1>1, <1>3, <1>10 DEF Stored
<1>19. OwnRow(s)'
  BY <1>1, <1>2, <1>9 DEF IInv, OwnAll, Own, OwnRow, WithRow, WithHash
<1>20. OwnCare(s)'
  BY <1>1, <1>2, <1>9 DEF IInv, OwnAll, Own, OwnCare
<1>21. OwnFile(s)'
  <2>1. Safe(id, h, n)
    BY <1>1, <1>2 DEF IInv, OwnAll, Own, OwnFile
  <2>2. Safe(id, h, m)'
    <3>1. 1..m = 1..n \cup {m}
      BY <1>4
    <3>2. 1..n \subseteq Stored(id, h) => 1..m \subseteq Stored(id, h)'
      BY <1>18, <3>1
    <3>3. Kept(h) => Kept(h)'
      BY <1>1, <1>14 DEF Kept
    <3> QED BY <2>1, <3>2, <3>3 DEF Safe
  <2>3. Safe(sess[s].row, sess[s].hash, sess[s].received)'
    BY <1>9, <2>2 DEF Safe, Kept, Stored, HasEntity
  <2>4. (sess[s].fd = temp[TempName(s)])'
    BY <1>1, <1>3, <1>9 DEF TempName
  <2>5. sess'[s].at # "rename"
    BY <1>9
  <2> QED BY <2>3, <2>4, <2>5 DEF OwnFile
<1>22. Safe(id, rows[id].hash, rows[id].size)'
  BY <1>1, <1>2, <1>14, <1>18, SizeKept
<1>23. \A r \in DOMAIN rows \ {id}, g \in Hash :
         temp'[<<r, g>>] = temp[<<r, g>>] /\ Stored(r, g)' = Stored(r, g)
  <2>1. ASSUME NEW r \in DOMAIN rows \ {id}, NEW g \in Hash
        PROVE  temp'[<<r, g>>] = temp[<<r, g>>] /\ Stored(r, g)' = Stored(r, g)
    <3>1. <<r, g>> \in Row \X Hash /\ <<r, g>> # k
      BY <1>1, <1>3, <2>1, RowsOfTheTable
    <3> QED BY <1>1, <1>11, <3>1 DEF Stored
  <2> QED BY <2>1
<1> QED BY <1>1, <1>2, <1>8, <1>13, <1>15, <1>16, <1>17, <1>19, <1>20, <1>21, <1>22, <1>23,
           FileStep

LEMMA OpenStep ==
  ASSUME Apart, IInv, NEW s \in Session, Open(s), world' = world
  PROVE  IInv'
<1>1. /\ TypeOK /\ sess \in [Session -> SessionRecord] /\ sess[s].at = "open"
      /\ UNCHANGED <<world, rows, hashes, entity, data>>
      /\ temp \in [Row \X Hash -> Inode \cup {None}] /\ entity \in [Hash -> Inode \cup {None}]
      /\ data \in [Inode -> SUBSET Nat]
  BY DEF IInv, TypeOK, Open
<1>2. PICK id \in DOMAIN rows, h \in Hash, n \in Nat, se \in SessionRecord :
        /\ id = sess[s].row /\ h = sess[s].hash /\ n = sess[s].received /\ se = sess[s]
        /\ rows[id].name = sess[s].name /\ rows[id].name \in NamesOf[s]
        /\ rows[id].hash = h /\ ~rows[id].complete /\ id \in Row
  BY <1>1, RowInHand DEF WithHash
<1>3. PICK k \in Row \X Hash : k = <<id, h>>
  BY <1>2
\* Either the file is there, or an inode nothing refers to becomes it.
<1>4. PICK i \in Inode : /\ temp' = [temp EXCEPT ![k] = i]
                         /\ temp[k] = i \/ (temp[k] = None /\ i \notin Linked)
  <2>1. CASE temp[TempName(s)] # None /\ UNCHANGED temp
    <3>1. temp[k] \in Inode /\ temp' = [temp EXCEPT ![k] = temp[k]]
      BY <1>1, <1>2, <1>3, <2>1 DEF TempName
    <3> QED BY <3>1
  <2>2. CASE /\ temp[TempName(s)] = None /\ Inode \ Linked # {}
             /\ temp' = [temp EXCEPT ![TempName(s)] = CHOOSE i \in Inode : i \notin Linked]
    <3>1. PICK i : i = CHOOSE j \in Inode : j \notin Linked
      OBVIOUS
    <3>2. i \in Inode /\ i \notin Linked
      BY <2>2, <3>1
    <3> QED BY <1>2, <1>3, <2>2, <3>1, <3>2 DEF TempName
  <2> QED BY <2>1, <2>2 DEF Open, Opened
<1>5. /\ temp' \in [Row \X Hash -> Inode \cup {None}] /\ temp'[k] = i
      /\ \A l \in Row \X Hash : l # k => temp'[l] = temp[l]
  BY <1>1, <1>4
<1>6. sess' = [sess EXCEPT ![s] = [se EXCEPT !.at = "receive", !.fd = i]]
  BY <1>2, <1>3, <1>5 DEF Open, TempName
<1>7. [se EXCEPT !.at = "receive", !.fd = i] \in SessionRecord
  BY DEF SessionRecord
<1>8. /\ sess' \in [Session -> SessionRecord] /\ \A t \in Session \ {s} : sess'[t] = sess[t]
      /\ sess'[s] = [se EXCEPT !.at = "receive", !.fd = i]
  BY <1>1, <1>2, <1>6, <1>7
<1>9. /\ sess'[s].at = "receive" /\ sess'[s].row = id /\ sess'[s].hash = h
      /\ sess'[s].fd = i /\ sess'[s].name = sess[s].name
      /\ sess'[s].known = sess[s].known /\ sess'[s].received = n
  BY <1>2, <1>8 DEF SessionRecord
<1>10. i # None
  BY NoneAssumption
<1>11. /\ \A l \in Row \X Hash : temp[l] \in Linked
       /\ \A g \in Hash : entity[g] \in Linked
  BY <1>1 DEF Linked
<1>12. \A j \in Inode : j \notin Linked' => j \notin Linked
  <2>1. ASSUME NEW j \in Inode, j \in Linked PROVE j \in Linked'
    <3>1. CASE \E l \in Row \X Hash : j = temp[l]
      <4>1. PICK l \in Row \X Hash : j = temp[l]
        BY <3>1
      <4>2. temp'[l] = j
        BY <1>4, <1>5, <2>1, <4>1, NoneAssumption
      <4> QED BY <1>5, <4>2 DEF Linked
    <3>2. CASE \E g \in Hash : j = entity[g]
      BY <1>1, <3>2 DEF Linked
    <3>3. CASE \E t \in Session : j = sess[t].fd
      <4>1. PICK t \in Session : j = sess[t].fd
        BY <3>3
      <4>2. j # None
        BY NoneAssumption
      <4>3. sess[s].fd = None
        BY <1>1, SessionsAreTyped
      <4>4. sess'[t].fd = j
        BY <1>8, <4>1, <4>2, <4>3
      <4> QED BY <4>4 DEF Linked
    <3> QED BY <1>1, <2>1, <3>1, <3>2, <3>3 DEF Linked
  <2> QED BY <2>1
<1>13. Files'
  <2>1. \A l \in Row \X Hash : l # k => temp[l] # i
    BY <1>4, <1>10, <1>11 DEF IInv, Files
  <2>2. \A g \in Hash : entity[g] # i
    BY <1>4, <1>10, <1>11 DEF IInv, Files
  <2>3. \A l, m \in Row \X Hash : temp'[l] = temp'[m] /\ temp'[l] # None => l = m
    BY <1>5, <2>1 DEF IInv, Files
  <2>4. \A l \in Row \X Hash, g \in Hash : temp'[l] # None => temp'[l] # entity[g]
    BY <1>5, <2>2 DEF IInv, Files
  <2>5. data[i] \subseteq Blocks(h)
    <3>1. CASE temp[k] = i
      BY <1>2, <1>3, <1>10, <3>1 DEF IInv, Files
    <3>2. CASE i \notin Linked
      BY <3>2 DEF IInv, Files
    <3> QED BY <1>4, <3>1, <3>2
  <2>6. \A r \in Row, g \in Hash :
          temp'[<<r, g>>] # None => data[temp'[<<r, g>>]] \subseteq Blocks(g)
    <3>1. ASSUME NEW r \in Row, NEW g \in Hash, temp'[<<r, g>>] # None
          PROVE  data[temp'[<<r, g>>]] \subseteq Blocks(g)
      <4>1. <<r, g>> \in Row \X Hash
        OBVIOUS
      <4>2. CASE <<r, g>> = k
        <5>1. g = h /\ temp'[<<r, g>>] = i
          BY <1>3, <1>5, <4>2
        <5> QED BY <2>5, <5>1
      <4>3. CASE <<r, g>> # k
        BY <1>5, <3>1, <4>1, <4>3 DEF IInv, Files
      <4> QED BY <4>2, <4>3
    <3> QED BY <3>1
  <2>7. \A j \in Inode : j \notin Linked' => data[j] = {}
    BY <1>12 DEF IInv, Files
  <2> QED BY <1>1, <2>3, <2>4, <2>6, <2>7 DEF IInv, Files
<1>14. \A g \in Hash : HasEntity(g)' <=> HasEntity(g)
  BY <1>1 DEF HasEntity
<1>15. EntitiesWhole'
  BY <1>1, <1>14 DEF IInv, EntitiesWhole
<1>16. TypeOK'
  <2>1. \A t \in Session : sess'[t].fd # None <=> sess'[t].at \in {"receive", "sync"}
    <3>1. \A t \in Session \ {s} : sess[t].fd # None <=> sess[t].at \in {"receive", "sync"}
      BY <1>1, SessionsAreTyped
    <3>2. ASSUME NEW t \in Session
          PROVE  sess'[t].fd # None <=> sess'[t].at \in {"receive", "sync"}
      <4>1. CASE t = s
        BY <1>9, <1>10, <4>1
      <4>2. CASE t # s
        BY <1>8, <3>1, <4>2
      <4> QED BY <4>1, <4>2
    <3> QED BY <3>2
  <2> QED BY <1>1, <1>5, <1>8, <2>1 DEF TypeOK
<1>17. Grows
  BY <1>1, <1>14 DEF Grows
<1>18. Stored(id, h)' = Stored(id, h)
  <2>1. CASE temp[k] = i
    BY <1>1, <1>3, <1>5, <2>1 DEF Stored
  <2>2. CASE temp[k] = None /\ i \notin Linked
    <3>1. data[i] = {}
      BY <2>2 DEF IInv, Files
    <3> QED BY <1>1, <1>3, <1>5, <1>10, <2>2, <3>1 DEF Stored
  <2> QED BY <1>4, <2>1, <2>2
<1>19. OwnRow(s)'
  BY <1>1, <1>2, <1>9 DEF IInv, OwnAll, Own, OwnRow, WithRow, WithHash
<1>20. OwnCare(s)'
  BY <1>1, <1>2, <1>9 DEF IInv, OwnAll, Own, OwnCare
<1>21. Safe(id, rows[id].hash, rows[id].size)'
  BY <1>1, <1>2, <1>14, <1>18, SizeKept
<1>22. OwnFile(s)'
  <2>1. rows[id].size = n
    BY <1>1, <1>2 DEF IInv, OwnAll, Own, OwnRow
  <2>2. Safe(sess[s].row, sess[s].hash, sess[s].received)'
    BY <1>1, <1>2, <1>9, <1>21, <2>1 DEF Safe, Kept, Stored, HasEntity
  <2>3. (sess[s].fd = temp[TempName(s)])'
    BY <1>3, <1>5, <1>9 DEF TempName
  <2> QED BY <1>9, <2>2, <2>3 DEF OwnFile
<1>23. \A r \in DOMAIN rows \ {id}, g \in Hash :
         temp'[<<r, g>>] = temp[<<r, g>>] /\ Stored(r, g)' = Stored(r, g)
  <2>1. ASSUME NEW r \in DOMAIN rows \ {id}, NEW g \in Hash
        PROVE  temp'[<<r, g>>] = temp[<<r, g>>] /\ Stored(r, g)' = Stored(r, g)
    <3>1. <<r, g>> \in Row \X Hash /\ <<r, g>> # k
      BY <1>1, <1>3, <2>1, RowsOfTheTable
    <3> QED BY <1>1, <1>5, <3>1 DEF Stored
  <2> QED BY <2>1
<1> QED BY <1>1, <1>2, <1>8, <1>13, <1>15, <1>16, <1>17, <1>19, <1>20, <1>21, <1>22, <1>23,
           FileStep

LEMMA CrashStep ==
  ASSUME Apart, IInv, Crash, world' = world
  PROVE  IInv'
<1>1. /\ TypeOK /\ world.crashes /\ world \in Worlds /\ ~world.overwrites
      /\ sess' = [s \in Session |-> Idle(0, 0)]
      /\ UNCHANGED <<world, rows, hashes, temp, entity>> /\ Keep(data)
  BY DEF IInv, TypeOK, Crash, Apart
<1>2. Idle(0, 0) \in SessionRecord
  BY BoundsAssumption DEF Idle, SessionRecord
<1>3. /\ sess' \in [Session -> SessionRecord]
      /\ \A t \in Session : /\ sess'[t].at = "idle" /\ sess'[t].fd = None
                            /\ sess'[t].upload = 0 /\ sess'[t].offset = 0 /\ ~sess'[t].resume
  BY <1>1, <1>2 DEF Idle
<1>4. /\ data' \in [Inode -> SUBSET Nat] /\ Files' /\ EntitiesWhole'
      /\ \A g \in Hash : HasEntity(g) => HasEntity(g)'
      /\ \A r \in Row, g \in Hash : Stored(r, g)' = Stored(r, g)
  <2>1. /\ temp' \in [Row \X Hash -> Inode \cup {None}] /\ entity' \in [Hash -> Inode \cup {None}]
        /\ \A k \in Row \X Hash : temp'[k] = temp[k] \/ temp'[k] = None
        /\ \A g \in Hash : entity'[g] = entity[g] \/ entity'[g] = None
    BY <1>1 DEF TypeOK
  <2> QED BY <1>1, <2>1, KeepFiles DEF IInv
<1>5. TypeOK'
  BY <1>1, <1>3, <1>4 DEF TypeOK
<1>6. OwnAll'
  BY <1>3 DEF OwnAll, Own, OwnRow, OwnCare, OwnFile, WithRow, WithHash
<1>7. Resumable'
  <2>1. ASSUME NEW r \in DOMAIN rows, ~rows[r].complete
        PROVE  Safe(r, rows[r].hash, rows[r].size)'
    <3>1. PICK h \in Hash, n \in Nat : h = rows[r].hash /\ n = rows[r].size /\ r \in Row
      BY <1>1, RowsOfTheTable
    <3>2. Safe(r, h, n)
      <4>1. CASE Moved(r)
        <5>1. PICK t \in Session : sess[t].at = "complete" /\ sess[t].row = r
          BY <4>1 DEF Moved, At
        <5>2. HasEntity(sess[t].hash) /\ sess[t].hash = h
          BY <1>1, <3>1, <5>1 DEF IInv, OwnAll, Own, OwnCare, OwnRow, WithHash
        <5> QED BY <1>1, <5>2 DEF Safe, Kept
      <4> QED BY <2>1, <3>1, <4>1 DEF IInv, Resumable
    <3>3. Safe(r, h, n)'
      BY <1>1, <1>4, <3>1, <3>2 DEF Safe, Kept
    <3> QED BY <1>1, <3>1, <3>3 DEF Safe, Kept, Stored, HasEntity
  <2> QED BY <1>1, <2>1 DEF Resumable
<1>8. CompleteHasEntity'
  <2>1. \A r \in DOMAIN rows : rows[r].alive /\ rows[r].complete => HasEntity(rows[r].hash)'
    <3>1. ASSUME NEW r \in DOMAIN rows, rows[r].alive, rows[r].complete
          PROVE  HasEntity(rows[r].hash)'
      <4>1. PICK h \in Hash : h = rows[r].hash
        BY <1>1, RowsOfTheTable
      <4>2. HasEntity(h)'
        BY <1>1, <1>4, <3>1, <4>1 DEF IInv, CompleteHasEntity
      <4> QED BY <1>1, <4>1, <4>2 DEF HasEntity
    <3> QED BY <3>1
  <2>2. \A h \in hashes : HasEntity(h)'
    BY <1>1, <1>4 DEF IInv, CompleteHasEntity, TypeOK
  <2> QED BY <1>1, <2>1, <2>2 DEF CompleteHasEntity
<1> QED BY <1>4, <1>5, <1>6, <1>7, <1>8 DEF IInv

-----------------------------------------------------------------------------
(***************************************************************************)
(* The invariant, and what follows from it                                 *)
(***************************************************************************)
LEMMA InitHolds ==
  ASSUME Init
  PROVE  IInv
<1>1. /\ sess = [s \in Session |-> Idle(0, 0)] /\ Idle(0, 0) \in SessionRecord
      /\ rows = <<>> /\ hashes = {} /\ world \in Worlds
      /\ temp = [k \in Row \X Hash |-> None] /\ entity = [h \in Hash |-> None]
      /\ data = [i \in Inode |-> {}]
  BY BoundsAssumption DEF Init, Idle, SessionRecord
<1>2. \A t \in Session : /\ sess[t].at = "idle" /\ sess[t].fd = None
                         /\ sess[t].upload = 0 /\ sess[t].offset = 0 /\ ~sess[t].resume
  BY <1>1 DEF Idle
<1>3. TypeOK
  <2>1. rows \in Seq(RowRecord) /\ Len(rows) <= MaxRow
    BY <1>1, BoundsAssumption
  <2>2. sess \in [Session -> SessionRecord]
    BY <1>1
  <2> QED BY <1>1, <1>2, <2>1, <2>2 DEF TypeOK
<1>4. OwnAll
  BY <1>2 DEF OwnAll, Own, OwnRow, OwnCare, OwnFile, WithRow, WithHash
<1>5. Files /\ EntitiesWhole
  BY <1>1 DEF Files, EntitiesWhole
<1>6. Resumable /\ CompleteHasEntity
  BY <1>1 DEF Resumable, CompleteHasEntity
<1> QED BY <1>3, <1>4, <1>5, <1>6 DEF IInv

LEMMA NextKeeps ==
  ASSUME Apart, IInv, Next
  PROVE  IInv'
<1>1. CASE \E s \in Session : Step(s) /\ UNCHANGED world
  <2>1. PICK s \in Session : Step(s) /\ UNCHANGED world
    BY <1>1
  <2>2. CASE \E n \in Name, h \in Hash : Puts(s, n, h)
    BY <2>1, <2>2, PutsStep
  <2>3. CASE Find(s)
    BY <2>1, <2>3, FindStep
  <2>4. CASE Select(s)
    BY <2>1, <2>4, SelectStep
  <2>5. CASE RemoveEntity(s)
    BY <2>1, <2>5, RemoveEntityStep
  <2>6. CASE Reset(s)
    BY <2>1, <2>6, ResetStep
  <2>7. CASE Create(s)
    BY <2>1, <2>7, CreateStep
  <2>8. CASE RespondData(s)
    BY <2>1, <2>8, RespondDataStep
  <2>9. CASE RespondInstant(s)
    BY <2>1, <2>9, RespondInstantStep
  <2>10. CASE Open(s)
    BY <2>1, <2>10, OpenStep
  <2>11. CASE OpenFails(s)
    BY <2>1, <2>11, OpenFailsStep
  <2>12. CASE Receive(s)
    BY <2>1, <2>12, ReceiveStep
  <2>13. CASE Sync(s)
    BY <2>1, <2>13, SyncStep
  <2>14. CASE Break(s)
    BY <2>1, <2>14, BreakStep
  <2>15. CASE Interrupted(s)
    BY <2>1, <2>15, InterruptedStep
  <2>16. CASE Check(s)
    BY <2>1, <2>16, CheckStep
  <2>17. CASE Rename(s)
    BY <2>1, <2>17, RenameStep
  <2>18. CASE Discard(s)
    BY <2>1, <2>18, DiscardStep
  <2>19. CASE Complete(s)
    BY <2>1, <2>19, CompleteStep
  <2>20. CASE Insert(s)
    BY <2>1, <2>20, InsertStep
  <2>21. CASE Disconnect(s)
    BY <2>1, <2>21, DisconnectStep
  <2> QED BY <2>1, <2>2, <2>3, <2>4, <2>5, <2>6, <2>7, <2>8, <2>9, <2>10, <2>11, <2>12, <2>13,
             <2>14, <2>15, <2>16, <2>17, <2>18, <2>19, <2>20, <2>21 DEF Step
<1>2. CASE \E r \in Row : RemoveRow(r) /\ UNCHANGED world
  BY <1>2, RemoveRowStep
<1>3. CASE Crash /\ UNCHANGED world
  BY <1>3, CrashStep
<1> QED BY <1>1, <1>2, <1>3 DEF Next

LEMMA StutterKeeps ==
  ASSUME IInv, UNCHANGED vars
  PROVE  IInv'
<1>1. /\ world' = world /\ rows' = rows /\ hashes' = hashes /\ temp' = temp
      /\ entity' = entity /\ data' = data /\ sess' = sess
  BY DEF vars
<1>2. TypeOK'
  BY <1>1 DEF IInv, TypeOK
<1>3. OwnAll'
  BY <1>1 DEF IInv, OwnAll, Own, OwnRow, OwnCare, OwnFile, Live, Safe, Kept, Stored, HasEntity,
              TempName
<1>4. Files' /\ EntitiesWhole'
  BY <1>1 DEF IInv, Files, EntitiesWhole, HasEntity, Linked
<1>5. Resumable' /\ CompleteHasEntity'
  BY <1>1 DEF IInv, Resumable, CompleteHasEntity, Safe, Kept, Stored, HasEntity, Moved, At
<1> QED BY <1>2, <1>3, <1>4, <1>5 DEF IInv

LEMMA Invariance == ASSUME Apart PROVE Spec => []IInv
<1>1. Init => IInv
  BY InitHolds
<1>2. IInv /\ [Next]_vars => IInv'
  BY NextKeeps, StutterKeeps
<1> QED BY <1>1, <1>2, PTL DEF Spec

\* What is under the name of a hash is all of its content (cmd_set.c:227-235), and
\* tables, directory and sessions agree on what they name, for every number of
\* sessions, rows and contents, where sessions have names of their own.
THEOREM StoreStaysConsistent == ASSUME Apart PROVE Spec => []StoreConsistent
<1>1. IInv => StoreConsistent
  BY DEF IInv, StoreConsistent
<1> QED BY <1>1, Invariance, PTL

\* A complete row and a known hash have their file, where nothing is overwritten,
\* however often the server is killed (cmd_set.c:151-168).
THEOREM CompleteAlwaysHasEntity == ASSUME Apart PROVE Spec => []CompleteHasEntity
<1>1. IInv => CompleteHasEntity
  BY DEF IInv
<1> QED BY <1>1, Invariance, PTL

\* A row that is not complete never promises more than was stored
\* (cmd_set.c:103-106, 194-198).
THEOREM ResumeAlwaysSafe == ASSUME Apart PROVE Spec => []ResumeIsSafe
<1>1. IInv => ResumeIsSafe
  <2>1. ASSUME IInv PROVE ResumesInside
    BY <2>1 DEF IInv, Resumable, Safe, Kept, ResumesInside
  <2>2. ASSUME IInv PROVE ResumesOrHasEntity
    <3>1. SUFFICES ASSUME ~world.overwrites, NEW r \in DOMAIN rows, ~rows[r].complete
                   PROVE  \/ 1..rows[r].size \subseteq Stored(r, rows[r].hash)
                          \/ HasEntity(rows[r].hash)
      BY DEF ResumesOrHasEntity
    <3>2. CASE Safe(r, rows[r].hash, rows[r].size)
      BY <3>2 DEF Safe, Kept
    <3>3. CASE Moved(r)
      <4>1. PICK t \in Session : sess[t].at = "complete" /\ sess[t].row = r
        BY <3>3 DEF Moved, At
      <4>2. HasEntity(sess[t].hash) /\ sess[t].hash = rows[r].hash
        BY <2>2, <3>1, <4>1 DEF IInv, OwnAll, Own, OwnCare, OwnRow, WithHash
      <4> QED BY <4>2
    <3> QED BY <2>2, <3>1, <3>2, <3>3 DEF IInv, Resumable
  <2> QED BY <2>1, <2>2 DEF ResumeIsSafe
<1> QED BY <1>1, Invariance, PTL
==============================================================================
