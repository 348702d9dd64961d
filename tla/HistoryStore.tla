--------------------------- MODULE HistoryStore ---------------------------
(***************************************************************************)
(* The history a client keeps on disk: the key file, the SQLite database,  *)
(* its schema with the four migrations of MessageHistory::open, and what   *)
(* the running program writes to it (MessageHistory.cpp, HistoryCipher.cpp,*)
(* MainWindow::start).                                                     *)
(*                                                                         *)
(* Every statement outside the one transaction commits on its own, so the  *)
(* process may die between any two of them: each is a step, and `phase`    *)
(* names the step that comes next.  Where the code looks at the result of  *)
(* a statement its failure ends open(); where it does not, the failure is  *)
(* a step that goes on.  open() that fails leaves the MessageHistory in    *)
(* use: the program runs on with it.                                       *)
(***************************************************************************)
EXTENDS ClientConfig

CONSTANTS
  Keys,      \* encryption keys
  Contacts,  \* the peers of the configuration
  Plain,     \* the seal of a row that is not encrypted
  Legacy,    \* rows left by an earlier release: at most so many
  MaxRows    \* bound: how many rows are ever written

VARIABLES
  keyFile,  \* history.key
  key,      \* HistoryCipher::m_key
  dbOpen,   \* m_db.isOpen()
  version,  \* PRAGMA user_version
  cols,     \* the columns of table messages
  rows,     \* its rows, by id
  lastId    \* the highest id ever used (AUTOINCREMENT)

files == <<keyFile, version, cols, rows, lastId>>
storeVars == <<keyFile, key, dbOpen, version, cols, rows, lastId>>

\* What each migration brings.
Columns(v) ==
  (IF v >= 2 THEN {"msg_id"} ELSE {}) \cup
  (IF v >= 3 THEN {"read", "read_sent"} ELSE {}) \cup
  (IF v >= 4 THEN {"kind"} ELSE {})
AllColumns == {"base"} \cup Columns(4)

Row == [contact : Contacts, seal : Keys \cup {Plain}, hasId : BOOLEAN]

\* HistoryCipher: the seal of a row is the key its text was encrypted with.
LooksEncrypted(row) == row.seal # Plain
Encrypt(row) == [row EXCEPT !.seal = key]
\* decryptText: rows that do not look encrypted are taken as they are.
Decrypts(k, row) == LooksEncrypted(row) => row.seal = k

ASSUME StoreAssumption ==
  /\ Plain \notin Keys /\ NoFile \notin Keys /\ Torn \notin Keys
  /\ Legacy \in Nat /\ MaxRows \in Nat /\ Legacy <= MaxRows

\* A new installation, or the files of an earlier release: key file since
\* version 1, msg_id since 2.
StoreInit ==
  /\ key = NoFile /\ dbOpen = FALSE
  /\ \/ /\ keyFile = NoFile /\ version = 0 /\ cols = {}
        /\ rows = << >> /\ lastId = 0
     \/ /\ version \in 0..4
        /\ cols = {"base"} \cup Columns(version)
        /\ lastId \in 0..Legacy
        /\ keyFile \in IF version = 0 THEN {NoFile} ELSE Keys
        /\ rows \in [1..lastId -> [contact : Contacts, hasId : {version >= 2},
                       seal : {IF version = 0 THEN Plain ELSE keyFile}]]

Go(next) == phase' = next /\ UNCHANGED <<dialog, conf, confFile, rejected>>
Fails(step) == Strike(<<"io", step>>)

----------------------------------------------------------------------------
(* HistoryCipher::init.                                                    *)

FreshKeys == Keys \ ({keyFile} \cup {rows[i].seal : i \in DOMAIN rows})

\* Mutation: the key file is not looked for.
InitKey_Always ==
  /\ phase = "key"
  /\ \E k \in FreshKeys :
       key' = k /\ keyFile' = Torn /\ Go("key write") /\ UNCHANGED faults
  /\ UNCHANGED <<dbOpen, version, cols, rows, lastId>>

\* A key file is read, and refused when its size is wrong; without one a key is
\* made, and its file created empty.  Neither may be possible.
InitKey ==
  /\ phase = "key"
  /\ \/ /\ keyFile \in Keys /\ key' = keyFile /\ Go("create")
        /\ UNCHANGED <<keyFile, faults>>
     \/ /\ keyFile = Torn /\ Go("run")
        /\ UNCHANGED <<key, keyFile, faults>>
     \/ /\ keyFile = NoFile /\ key' \in FreshKeys /\ keyFile' = Torn /\ Go("key write")
        /\ UNCHANGED faults
     \/ /\ Fails("key open") /\ Go("run")
        /\ key' \in IF keyFile = NoFile THEN FreshKeys ELSE {key}
        /\ UNCHANGED keyFile
  /\ UNCHANGED <<dbOpen, version, cols, rows, lastId>>

\* f.write: its result is not looked at.
WriteKey ==
  /\ phase = "key write"
  /\ \/ keyFile' = key /\ UNCHANGED faults
     \/ Fails("key write") /\ UNCHANGED keyFile
  /\ Go("create")
  /\ UNCHANGED <<key, dbOpen, version, cols, rows, lastId>>

----------------------------------------------------------------------------
(* MessageHistory::open.                                                   *)

\* Mutation: CREATE TABLE was extended by the newest column.
CreateTable_AllColumns ==
  /\ phase = "create"
  /\ dbOpen' = TRUE
  /\ cols' = IF cols = {} THEN {"base", "kind"} ELSE cols
  /\ Go("encrypt")
  /\ UNCHANGED <<keyFile, key, version, rows, lastId, faults>>

\* The database is opened, and the table of version 0 created in a new one.
CreateTable ==
  /\ phase = "create"
  /\ \/ /\ dbOpen' = TRUE
        /\ cols' = cols \cup {"base"}
        /\ Go("encrypt") /\ UNCHANGED faults
     \/ /\ Fails("create") /\ Go("run")
        /\ dbOpen' \in BOOLEAN
        /\ UNCHANGED cols
  /\ UNCHANGED <<keyFile, key, version, rows, lastId>>

\* Mutation: no transaction around the loop.
MigrateToEncrypted_NoTransaction ==
  /\ phase = "encrypt"
  /\ \/ version >= 1 /\ Go("msg_id") /\ UNCHANGED <<version, rows, faults>>
     \/ /\ version < 1 /\ version' = 1 /\ Go("msg_id") /\ UNCHANGED faults
        /\ rows' = [i \in DOMAIN rows |-> Encrypt(rows[i])]
     \/ /\ version < 1 /\ Fails("encrypt") /\ Go("run") /\ version' = 1
        /\ \E done \in SUBSET DOMAIN rows :
             rows' = [i \in DOMAIN rows |->
                        IF i \in done THEN Encrypt(rows[i]) ELSE rows[i]]
  /\ UNCHANGED <<keyFile, key, dbOpen, cols, lastId>>

\* migrateToEncrypted: one transaction, rolled back when anything fails.
MigrateToEncrypted ==
  /\ phase = "encrypt"
  /\ \/ version >= 1 /\ Go("msg_id") /\ UNCHANGED <<version, rows, faults>>
     \/ /\ version < 1 /\ version' = 1 /\ Go("msg_id") /\ UNCHANGED faults
        /\ rows' = [i \in DOMAIN rows |->
                      IF LooksEncrypted(rows[i]) THEN rows[i] ELSE Encrypt(rows[i])]
     \/ version < 1 /\ Fails("encrypt") /\ Go("run") /\ UNCHANGED <<version, rows>>
  /\ UNCHANGED <<keyFile, key, dbOpen, cols, lastId>>

\* ALTER TABLE: fails by itself when the column is there already.
AddColumn(col, next) ==
  /\ \/ /\ col \notin cols /\ cols' = cols \cup {col} /\ Go(next)
        /\ UNCHANGED faults
     \/ col \in cols /\ Go("run") /\ UNCHANGED <<cols, faults>>
     \/ col \notin cols /\ Fails(phase) /\ Go("run") /\ UNCHANGED cols
  /\ UNCHANGED <<keyFile, key, dbOpen, version, rows, lastId>>

\* A migration whose version the database has reached is left out.
PassOver(next) == Go(next) /\ UNCHANGED <<storeVars, faults>>

\* PRAGMA user_version = v: its result is not looked at.
MarkVersion(v, next) ==
  /\ \/ version' = v /\ UNCHANGED faults
     \/ Fails(phase) /\ UNCHANGED version
  /\ Go(next)
  /\ UNCHANGED <<keyFile, key, dbOpen, cols, rows, lastId>>

\* The UPDATEs of the backfill, each on its own: those that were done.
Fill(done) ==
  rows' = [i \in DOMAIN rows |-> IF i \in done THEN [rows[i] EXCEPT !.hasId = TRUE] ELSE rows[i]]

\* Mutation: the version is marked before the rows are filled.
MigrateAddMsgId_MarksFirst ==
  \/ /\ phase = "msg_id"
     /\ IF version >= 2 THEN PassOver("read") ELSE AddColumn("msg_id", "version 2")
  \/ phase = "version 2" /\ MarkVersion(2, "backfill")
  \/ /\ phase = "backfill" /\ Fill(DOMAIN rows) /\ Go("read")
     /\ UNCHANGED <<keyFile, key, dbOpen, version, cols, lastId, faults>>

\* migrateAddMsgId.
MigrateAddMsgId ==
  \/ /\ phase = "msg_id"
     /\ IF version >= 2 THEN PassOver("read") ELSE AddColumn("msg_id", "backfill")
  \/ /\ phase = "backfill"
     /\ \/ Fill(DOMAIN rows) /\ UNCHANGED faults
        \/ Fails("backfill") /\ \E done \in SUBSET DOMAIN rows : Fill(done)
     /\ Go("version 2")
     /\ UNCHANGED <<keyFile, key, dbOpen, version, cols, lastId>>
  \/ phase = "version 2" /\ MarkVersion(2, "read")

\* Mutation: the version is marked between the two columns.
MigrateAddRead_MarksEarly ==
  \/ /\ phase = "read"
     /\ IF version >= 3 THEN PassOver("kind") ELSE AddColumn("read", "version 3")
  \/ phase = "version 3" /\ MarkVersion(3, "read_sent")
  \/ phase = "read_sent" /\ AddColumn("read_sent", "kind")

\* migrateAddRead.
MigrateAddRead ==
  \/ /\ phase = "read"
     /\ IF version >= 3 THEN PassOver("kind") ELSE AddColumn("read", "read_sent")
  \/ phase = "read_sent" /\ AddColumn("read_sent", "version 3")
  \/ phase = "version 3" /\ MarkVersion(3, "kind")

\* migrateAddKind.
MigrateAddKind ==
  \/ /\ phase = "kind"
     /\ IF version >= 4 THEN PassOver("run") ELSE AddColumn("kind", "version 4")
  \/ phase = "version 4" /\ MarkVersion(4, "run")

Open ==
  \/ InitKey \/ WriteKey \/ CreateTable \/ MigrateToEncrypted
  \/ MigrateAddMsgId \/ MigrateAddRead \/ MigrateAddKind

\* The process dies between two steps of open(), or inside the loop that fills
\* the ids.  SQLite rolls an open transaction back.
CrashInOpen ==
  /\ phase \notin {"off", "wizard", "run"}
  /\ Strike(<<"crash", phase>>)
  /\ IF phase = "backfill" THEN \E done \in SUBSET DOMAIN rows : Fill(done)
     ELSE UNCHANGED rows
  /\ Die /\ key' = NoFile /\ dbOpen' = FALSE
  /\ UNCHANGED <<confFile, keyFile, version, cols, lastId>>

----------------------------------------------------------------------------
(* The running program.                                                    *)

\* INSERT and SELECT name columns of every migration.
Works == dbOpen /\ AllColumns \subseteq cols

\* MessageHistory::append.  The callers do not look at its result.
AppendRow(c) ==
  /\ \/ /\ Works /\ lastId < MaxRows
        /\ lastId' = lastId + 1
        /\ rows' = [i \in DOMAIN rows \cup {lastId'} |->
                      IF i = lastId' THEN [contact |-> c, seal |-> key, hasId |-> TRUE]
                      ELSE rows[i]]
        /\ UNCHANGED faults
     \/ ~Works /\ UNCHANGED <<rows, lastId, faults>>
     \/ Works /\ Fails("insert") /\ UNCHANGED <<rows, lastId>>
  /\ UNCHANGED <<keyFile, key, dbOpen, version, cols>>

\* Mutation: the sequence of the ids is reset, the rows are kept.
DeleteRows_ResetsSequence ==
  /\ dbOpen /\ "base" \in cols
  /\ lastId' = 0
  /\ UNCHANGED <<keyFile, key, dbOpen, version, cols, rows, faults>>

\* clearAll: DELETE; ids are not used again.
DeleteRows ==
  /\ dbOpen /\ "base" \in cols
  /\ rows' = << >>
  /\ UNCHANGED <<keyFile, key, dbOpen, version, cols, lastId, faults>>

\* A step of the configuration, which takes the memory along when it ends the
\* process.
ConfigStepOnFiles ==
  /\ ConfigStep
  /\ IF phase' = "off" THEN key' = NoFile /\ dbOpen' = FALSE ELSE UNCHANGED <<key, dbOpen>>
  /\ UNCHANGED files

----------------------------------------------------------------------------
(* Properties.                                                             *)

\* The version never runs ahead of the columns, wherever a migration was
\* interrupted (MessageHistory.cpp:53-121).
VersionHasColumns ==
  version >= 1 => "base" \in cols /\ Columns(version) \subseteq cols

\* A database that calls itself encrypted holds no plain text, wherever the
\* migration was interrupted (MessageHistory.cpp:123-161).
SealedSinceVersion1 ==
  version >= 1 => \A i \in DOMAIN rows : LooksEncrypted(rows[i])

\* What is shown can be decrypted with the key of the running program, and after
\* the next start: the key file holds that key, too, unless its first write was
\* cut short (HistoryCipher.cpp:63-100).
KeyOpensRows ==
  \A i \in DOMAIN rows :
    /\ dbOpen => Decrypts(key, rows[i])
    /\ <<"io", "key write">> \notin faults => Decrypts(keyFile, rows[i])

\* Every row of a version 2 database has a msg_id, unless an UPDATE of the
\* backfill failed (MessageHistory.cpp:108-116).
IdsBackfilled ==
  version >= 2 /\ <<"io", "backfill">> \notin faults =>
    \A i \in DOMAIN rows : rows[i].hasId

\* The files from which the next start opens a history that works.
Sound ==
  /\ keyFile # Torn
  /\ version < 2 => "msg_id" \notin cols
  /\ version < 3 => "read" \notin cols /\ "read_sent" \notin cols
  /\ version < 4 => "kind" \notin cols

\* The places where a fault leaves files behind no later start can open.
Windows ==
  ({"crash", "io"} \X {"key write", "read_sent", "version 2", "version 3", "version 4"})
    \cup {<<"crash", "backfill">>}

\* A history that cannot be opened any more was interrupted in one of those
\* windows: no other crash or failure does lasting damage, and none is done
\* without one.  And a program whose history does not work met a fault
\* (MessageHistory.cpp:82, HistoryCipher.cpp:92).
DamageNeedsWindow ==
  /\ phase \in {"off", "run"} /\ ~Sound => faults \cap Windows # {}
  /\ phase = "run" /\ ~Works => faults # {}
=============================================================================
