-------------------------- MODULE LocalDataProofs --------------------------
(***************************************************************************)
(* What holds of the files of a client and of its screen, whatever faults  *)
(* strike and for any documents, keys, rows and page size.                 *)
(***************************************************************************)
EXTENDS LocalData, FiniteSetTheorems, SequenceTheorems, TLAPS

----------------------------------------------------------------------------
(* Documents and configurations.                                           *)

InDocuments == UNION {{d[k] : k \in DOMAIN d} : d \in Documents}
Values == InDocuments \cup {"", DefaultStun}

LEMMA FromJsonType ==
  /\ \A d \in Documents : FromJson(d) \in Configs
  /\ \A c \in Configs : FromJson(c) \in Configs
  /\ Blank \in Configs
  <1>1. "" \in Values /\ DefaultStun \in Values
    BY DEF Values
  <1>2. Configs = [Fields -> Values]
    BY DEF Configs, Values, InDocuments
  <1>3. ASSUME NEW d \in Documents
        PROVE  FromJson(d) \in Configs
    <2>1. \A k \in DOMAIN d : d[k] \in {d[j] : j \in DOMAIN d}
      OBVIOUS
    <2>2. {d[j] : j \in DOMAIN d} \in {{e[k] : k \in DOMAIN e} : e \in Documents}
      OBVIOUS
    <2>3. \A k \in DOMAIN d : d[k] \in Values
      BY <2>1, <2>2 DEF Values, InDocuments
    <2>4. QED BY <1>1, <1>2, <2>3 DEF FromJson
  <1>4. \A c \in [Fields -> Values] : FromJson(c) \in [Fields -> Values]
    BY <1>1 DEF FromJson
  <1>5. Blank \in [Fields -> Values]
    BY <1>1 DEF Blank
  <1>6. QED BY <1>2, <1>3, <1>4, <1>5

\* What is saved loads as it was.
LEMMA SavedLoads ==
  ASSUME NEW c \in Configs
  PROVE  ToJson(c) \in Configs /\ FromJson(ToJson(c)) = c /\ ToJson(c) \notin {NoFile, Torn}
  <1>1. ToJson(c) \in Configs
    BY DEF ToJson, Configs
  <1>2. FromJson(ToJson(c)) = c
    BY DEF FromJson, ToJson, Configs
  <1>3. QED BY <1>1, <1>2, ConfigAssumption

\* What a step does to the files and the memory of the program.
LEMMA StepKinds ==
  ASSUME [Next]_vars
  PROVE  \/ ConfigStepOnFiles /\ EndsView
         \/ Open /\ EndsView
         \/ CrashInOpen /\ EndsView
         \/ \E c \in Contacts : StoreAndShow(c)
         \/ ClearHistory
         \/ HistoryCleared
         \/ UNCHANGED <<configVars, storeVars>>
  BY DEF Next, SelectContact, AppendMessage, LogCallEvent, LoadOlder, RestoreScroll,
         ReloadOnMark, vars

----------------------------------------------------------------------------
(* Types.                                                                  *)

ProgramType ==
  /\ phase \in {"off", "wizard", "key", "key write", "create", "encrypt", "msg_id",
       "backfill", "version 2", "read", "read_sent", "version 3", "kind",
       "version 4", "run"}
  /\ dialog \in {"none", "settings", "invite", "cleared"}
  /\ conf \in Configs /\ confFile \in Configs \cup {NoFile, Torn}
  /\ rejected \in BOOLEAN

RowsType ==
  /\ lastId \in 0..MaxRows
  /\ DOMAIN rows \subseteq 1..lastId /\ \A i \in DOMAIN rows : rows[i] \in Row

StoreType ==
  /\ keyFile \in Keys \cup {NoFile, Torn} /\ key \in Keys \cup {NoFile}
  /\ dbOpen \in BOOLEAN /\ version \in 0..4 /\ cols \subseteq AllColumns
  /\ RowsType

ViewType ==
  /\ current \in Contacts \cup {NoContact} /\ view \in Seq(0..MaxRows)
  /\ exhausted \in BOOLEAN /\ loading \in BOOLEAN /\ reloaded \in BOOLEAN
  /\ restores \in 0..MaxQueued /\ badge \subseteq Contacts

LEMMA TypeParts == TypeOK <=> ProgramType /\ StoreType /\ ViewType
  BY DEF TypeOK, ProgramType, StoreType, RowsType, ViewType

LEMMA ColumnsOf ==
  /\ Columns(0) = {} /\ Columns(1) = {} /\ Columns(2) = {"msg_id"}
  /\ Columns(3) = {"msg_id", "read", "read_sent"}
  /\ Columns(4) = {"msg_id", "read", "read_sent", "kind"}
  /\ AllColumns = {"base", "msg_id", "read", "read_sent", "kind"}
  <1>1. /\ \A v \in 0..1 : ~(v >= 2) /\ ~(v >= 3) /\ ~(v >= 4)
        /\ 2 >= 2 /\ ~(2 >= 3) /\ ~(2 >= 4) /\ 3 >= 2 /\ 3 >= 3 /\ ~(3 >= 4)
        /\ 4 >= 2 /\ 4 >= 3 /\ 4 >= 4
    OBVIOUS
  <1>2. Columns(0) = {} /\ Columns(1) = {}
    BY DEF Columns
  <1>3. Columns(2) = {"msg_id"}
    BY DEF Columns
  <1>4. Columns(3) = {"msg_id", "read", "read_sent"}
    BY DEF Columns
  <1>5. Columns(4) = {"msg_id", "read", "read_sent", "kind"}
    BY DEF Columns
  <1>6. AllColumns = {"base", "msg_id", "read", "read_sent", "kind"}
    BY <1>5 DEF AllColumns
  <1>7. QED BY <1>2, <1>3, <1>4, <1>5, <1>6

LEMMA VersionCases == \A v \in 0..4 : v = 0 \/ v = 1 \/ v = 2 \/ v = 3 \/ v = 4
  OBVIOUS

LEMMA ConfigStepType ==
  ASSUME ProgramType, ConfigStep
  PROVE  ProgramType'
  <1> USE DEF ProgramType
  <1>1. CASE EnsureConfigured
    <2>1. conf' \in Configs
      BY <1>1, FromJsonType DEF EnsureConfigured, Loads
    <2>2. QED BY <1>1, <2>1 DEF EnsureConfigured
  <1>2. CASE CancelWizard \/ SwitchDialog \/ Quit
    BY <1>2, FromJsonType DEF CancelWizard, SwitchDialog, Quit, Die
  <1>3. ASSUME NEW d \in Documents, OnAccept(d)
        PROVE  ProgramType'
    <2> DEFINE c == FromJson(d)
    <2>1. c \in Configs /\ ToJson(c) \in Configs /\ Blank \in Configs
      BY FromJsonType, SavedLoads
    <2>2. \/ Save(c)
          \/ UNCHANGED <<phase, dialog, confFile>> /\ conf' = c /\ rejected' = TRUE
      <3>1. CASE Valid(c)
        BY <1>3, <3>1 DEF OnAccept
      <3>2. CASE ~Valid(c)
        BY <1>3, <3>2 DEF OnAccept
      <3>3. QED BY <3>1, <3>2
    <2> HIDE DEF c
    <2>3. CASE Save(c)
      BY <2>1, <2>3 DEF Save, WizardDone, Die
    <2>4. CASE UNCHANGED <<phase, dialog, confFile>> /\ conf' = c /\ rejected' = TRUE
      BY <2>1, <2>4
    <2>5. QED BY <2>2, <2>3, <2>4
  <1>4. QED BY <1>1, <1>2, <1>3 DEF ConfigStep

\* What is done to the rows of a migration.
LEMMA RowTypes ==
  ASSUME RowsType, key \in Keys
  PROVE  /\ \A i \in DOMAIN rows : Encrypt(rows[i]) \in Row
         /\ \A c \in Contacts : [contact |-> c, seal |-> key, hasId |-> TRUE] \in Row
  BY DEF RowsType, Encrypt, Row

LEMMA FillType ==
  ASSUME RowsType, NEW done, Fill(done)
  PROVE  /\ DOMAIN rows' = DOMAIN rows
         /\ \A i \in DOMAIN rows :
              /\ rows'[i] \in Row /\ rows'[i].seal = rows[i].seal
              /\ rows'[i].contact = rows[i].contact
              /\ rows[i].hasId => rows'[i].hasId
              /\ i \in done => rows'[i].hasId
  <1>1. \A i \in DOMAIN rows : rows[i] \in Row
    BY DEF RowsType
  <1>2. \A r \in Row : /\ [r EXCEPT !.hasId = TRUE] \in Row
                       /\ [r EXCEPT !.hasId = TRUE].seal = r.seal
                       /\ [r EXCEPT !.hasId = TRUE].contact = r.contact
                       /\ [r EXCEPT !.hasId = TRUE].hasId
    BY DEF Row
  <1>3. QED BY <1>1, <1>2 DEF Fill

\* A new row.
LEMMA AppendRowType ==
  ASSUME StoreType, dbOpen => key \in Keys, NEW c \in Contacts, AppendRow(c)
  PROVE  /\ StoreType'
         /\ \/ UNCHANGED <<rows, lastId>>
            \/ /\ Works /\ lastId' = lastId + 1 /\ lastId' \in 1..MaxRows
               /\ lastId' \notin DOMAIN rows
               /\ DOMAIN rows' = DOMAIN rows \cup {lastId'}
               /\ rows'[lastId'] = [contact |-> c, seal |-> key, hasId |-> TRUE]
               /\ \A i \in DOMAIN rows : rows'[i] = rows[i]
         /\ UNCHANGED <<keyFile, key, dbOpen, version, cols>>
  <1> USE DEF StoreType, RowsType
  <1>1. CASE UNCHANGED <<rows, lastId>>
    BY <1>1 DEF AppendRow
  <1>2. CASE ~UNCHANGED <<rows, lastId>>
    <2>1. /\ Works /\ lastId < MaxRows /\ lastId' = lastId + 1
          /\ rows' = [i \in DOMAIN rows \cup {lastId'} |->
                        IF i = lastId' THEN [contact |-> c, seal |-> key, hasId |-> TRUE]
                        ELSE rows[i]]
          /\ UNCHANGED <<keyFile, key, dbOpen, version, cols>>
      BY <1>2 DEF AppendRow
    <2>2. lastId \in Nat /\ MaxRows \in Nat
      BY StoreAssumption
    <2>3. lastId' \in 1..MaxRows /\ lastId' \notin DOMAIN rows /\ DOMAIN rows \subseteq 1..lastId'
      BY <2>1, <2>2
    <2>4. [contact |-> c, seal |-> key, hasId |-> TRUE] \in Row
      BY <2>1 DEF Works, Row
    <2>5. /\ DOMAIN rows' = DOMAIN rows \cup {lastId'}
          /\ rows'[lastId'] = [contact |-> c, seal |-> key, hasId |-> TRUE]
          /\ \A i \in DOMAIN rows : rows'[i] = rows[i]
      BY <2>1, <2>3
    <2>6. QED BY <2>1, <2>3, <2>4, <2>5
  <1>3. QED BY <1>1, <1>2

\* The parts of a migration.
Rest == <<dialog, conf, confFile, rejected>>

LEMMA AddColumnStep ==
  ASSUME NEW col, NEW next, AddColumn(col, next)
  PROVE  /\ UNCHANGED <<Rest, keyFile, key, dbOpen, version, rows, lastId>>
         /\ \/ phase' = next /\ col \notin cols /\ cols' = cols \cup {col} /\ faults' = faults
            \/ phase' = "run" /\ cols' = cols /\ col \in cols /\ faults' = faults
            \/ phase' = "run" /\ cols' = cols /\ faults' = faults \cup {<<"io", phase>>}
  BY DEF AddColumn, Go, Fails, Strike, Rest

LEMMA PassOverStep ==
  ASSUME NEW next, PassOver(next)
  PROVE  /\ UNCHANGED <<Rest, keyFile, key, dbOpen, version, cols, rows, lastId, faults>>
         /\ phase' = next
  BY DEF PassOver, Go, Rest, storeVars

LEMMA Versions == 2 \in 0..4 /\ 3 \in 0..4 /\ 4 \in 0..4
  OBVIOUS

LEMMA MarkVersionStep ==
  ASSUME NEW v, NEW next, MarkVersion(v, next)
  PROVE  /\ UNCHANGED <<Rest, keyFile, key, dbOpen, cols, rows, lastId>>
         /\ phase' = next
         /\ \/ version' = v /\ faults' = faults
            \/ version' = version /\ faults' = faults \cup {<<"io", phase>>}
  BY DEF MarkVersion, Go, Fails, Strike, Rest

LEMMA BackfillStep ==
  ASSUME MigrateAddMsgId, phase = "backfill"
  PROVE  /\ UNCHANGED <<Rest, keyFile, key, dbOpen, version, cols, lastId>>
         /\ phase' = "version 2"
         /\ \/ Fill(DOMAIN rows) /\ faults' = faults
            \/ /\ faults' = faults \cup {<<"io", "backfill">>}
               /\ \E done \in SUBSET DOMAIN rows : Fill(done)
  BY DEF MigrateAddMsgId, Go, Fails, Strike, Rest

LEMMA EncryptStep ==
  ASSUME MigrateToEncrypted
  PROVE  /\ UNCHANGED <<Rest, keyFile, key, dbOpen, cols, lastId>>
         /\ phase = "encrypt"
         /\ \/ version >= 1 /\ phase' = "msg_id" /\ UNCHANGED <<version, rows, faults>>
            \/ /\ version < 1 /\ version' = 1 /\ phase' = "msg_id" /\ faults' = faults
               /\ rows' = [i \in DOMAIN rows |->
                      IF LooksEncrypted(rows[i]) THEN rows[i] ELSE Encrypt(rows[i])]
            \/ /\ phase' = "run" /\ UNCHANGED <<version, rows>>
               /\ faults' = faults \cup {<<"io", "encrypt">>}
  BY DEF MigrateToEncrypted, Go, Fails, Strike, Rest

\* The key a program that runs or opens the history has: none but before.
KeyInv == dbOpen \/ phase \notin {"off", "wizard", "key", "run"} => key \in Keys

LEMMA OpenType ==
  ASSUME ProgramType, StoreType, KeyInv, Open
  PROVE  ProgramType' /\ StoreType' /\ KeyInv' /\ phase' # "off"
  <1> DEFINE Goal == ProgramType' /\ StoreType' /\ KeyInv' /\ phase' # "off"
             Opening == {"create", "encrypt", "msg_id", "backfill", "version 2", "read",
                         "read_sent", "version 3", "kind", "version 4"}
  <1>0. SUFFICES Goal
    OBVIOUS
  \* A step of a migration that keeps the types of what it changes.
  <1>k. ASSUME phase \in Opening, phase' \in Opening \cup {"run"},
               UNCHANGED <<Rest, keyFile, key>>, dbOpen' \in BOOLEAN, version' \in 0..4,
               cols' \subseteq AllColumns, RowsType'
        PROVE  Goal
    <2>1. ProgramType'
      BY <1>k DEF ProgramType, Rest
    <2>2. StoreType'
      BY <1>k DEF StoreType
    <2>3. QED BY <1>k, <2>1, <2>2 DEF KeyInv
  <1>t. /\ RowsType /\ dbOpen \in BOOLEAN /\ version \in 0..4 /\ cols \subseteq AllColumns
        /\ key \in Keys \cup {NoFile}
    BY DEF StoreType
  <1>r. UNCHANGED <<rows, lastId>> => RowsType'
    BY <1>t DEF RowsType
  <1>c. AllColumns = {"base", "msg_id", "read", "read_sent", "kind"}
    BY ColumnsOf
  <1>1. CASE InitKey
    <2>1. /\ UNCHANGED <<Rest, dbOpen, version, cols, rows, lastId>>
          /\ phase = "key" /\ phase' \in {"run", "key write", "create"}
      BY <1>1 DEF InitKey, Go, Rest
    <2>2. key' \in Keys \cup {NoFile} /\ keyFile' \in Keys \cup {NoFile, Torn}
      BY <1>1 DEF InitKey, FreshKeys, StoreType
    <2>3. phase' \in {"key write", "create"} \/ dbOpen => key' \in Keys
      BY <1>1 DEF InitKey, FreshKeys, Go, KeyInv
    <2>4. ProgramType'
      BY <2>1 DEF ProgramType, Rest
    <2>5. StoreType'
      BY <1>t, <1>r, <2>1, <2>2 DEF StoreType
    <2>6. QED BY <2>1, <2>3, <2>4, <2>5 DEF KeyInv
  <1>2. CASE WriteKey
    <2>1. /\ UNCHANGED <<Rest, key, dbOpen, version, cols, rows, lastId>>
          /\ phase = "key write" /\ phase' = "create"
          /\ keyFile' \in {key, keyFile}
      BY <1>2 DEF WriteKey, Go, Rest
    <2>2. ProgramType'
      BY <2>1 DEF ProgramType, Rest
    <2>3. StoreType'
      BY <1>r, <2>1 DEF StoreType
    <2>4. QED BY <2>1, <2>2, <2>3 DEF KeyInv
  <1>3. CASE CreateTable
    BY <1>3, <1>k, <1>t, <1>r, <1>c DEF CreateTable, Go, Rest
  <1>4. CASE MigrateToEncrypted
    <2>1. key \in Keys
      BY <1>4, EncryptStep DEF KeyInv
    <2>2. RowsType'
      <3>1. lastId' = lastId
        BY <1>4, EncryptStep
      <3>2. \/ rows' = rows
            \/ rows' = [i \in DOMAIN rows |->
                          IF LooksEncrypted(rows[i]) THEN rows[i] ELSE Encrypt(rows[i])]
        BY <1>4, EncryptStep
      <3>3. QED BY <1>t, <2>1, <3>1, <3>2, RowTypes DEF RowsType
    <2>3. phase = "encrypt" /\ phase' \in {"msg_id", "run"} /\ version' \in {version, 1}
      BY <1>4, EncryptStep
    <2>4. UNCHANGED <<Rest, keyFile, key, dbOpen, cols>>
      BY <1>4, EncryptStep
    <2>5. version' \in 0..4
      BY <1>t, <2>3
    <2>6. QED BY <1>k, <1>t, <2>2, <2>3, <2>4, <2>5
  <1>5. ASSUME NEW col \in AllColumns, NEW next \in Opening, AddColumn(col, next), phase \in Opening
        PROVE  Goal
    <2>1. /\ UNCHANGED <<Rest, keyFile, key, dbOpen, version, rows, lastId>>
          /\ phase' \in {next, "run"} /\ cols' \subseteq cols \cup {col}
      BY <1>5, AddColumnStep
    <2>2. phase' \in Opening \cup {"run"} /\ cols' \subseteq AllColumns
      BY <1>5, <1>t, <2>1
    <2>3. QED BY <1>5, <1>k, <1>t, <1>r, <2>1, <2>2
  <1>6. ASSUME NEW next \in Opening \cup {"run"}, PassOver(next), phase \in Opening
        PROVE  Goal
    BY <1>6, <1>k, <1>t, <1>r, PassOverStep
  <1>7. ASSUME NEW v \in {2, 3, 4}, NEW next \in Opening \cup {"run"}, MarkVersion(v, next),
               phase \in Opening
        PROVE  Goal
    <2>1. /\ UNCHANGED <<Rest, keyFile, key, dbOpen, cols, rows, lastId>>
          /\ phase' = next /\ version' \in {v, version}
      BY <1>7, MarkVersionStep
    <2>2. version' \in 0..4
      BY <1>7, <1>t, <2>1, Versions
    <2>3. QED BY <1>7, <1>k, <1>t, <1>r, <2>1, <2>2
  <1>8. ASSUME MigrateAddMsgId, phase = "backfill"
        PROVE  Goal
    <2>1. RowsType'
      <3>1. lastId' = lastId /\ \E done : Fill(done)
        BY <1>8, BackfillStep
      <3>2. QED BY <1>t, <3>1, FillType DEF RowsType
    <2>2. QED BY <1>8, <1>k, <1>t, <2>1, BackfillStep
  <1> HIDE DEF Goal
  <1>10. CASE MigrateAddMsgId
    <2>1. CASE phase = "msg_id"
      <3>1. PassOver("read") \/ AddColumn("msg_id", "backfill")
        BY <1>10, <2>1 DEF MigrateAddMsgId
      <3>2. QED BY <1>5, <1>6, <1>c, <2>1, <3>1
    <2>2. CASE phase = "backfill"
      BY <1>8, <1>10, <2>2
    <2>3. CASE phase = "version 2"
      <3>1. MarkVersion(2, "read")
        BY <1>10, <2>3 DEF MigrateAddMsgId
      <3>2. QED BY <1>7, <2>3, <3>1
    <2>4. QED BY <1>10, <2>1, <2>2, <2>3 DEF MigrateAddMsgId
  <1>11. CASE MigrateAddRead
    <2>1. CASE phase = "read"
      <3>1. PassOver("kind") \/ AddColumn("read", "read_sent")
        BY <1>11, <2>1 DEF MigrateAddRead
      <3>2. QED BY <1>5, <1>6, <1>c, <2>1, <3>1
    <2>2. CASE phase = "read_sent"
      <3>1. AddColumn("read_sent", "version 3")
        BY <1>11, <2>2 DEF MigrateAddRead
      <3>2. QED BY <1>5, <1>c, <2>2, <3>1
    <2>3. CASE phase = "version 3"
      <3>1. MarkVersion(3, "kind")
        BY <1>11, <2>3 DEF MigrateAddRead
      <3>2. QED BY <1>7, <2>3, <3>1
    <2>4. QED BY <1>11, <2>1, <2>2, <2>3 DEF MigrateAddRead
  <1>12. CASE MigrateAddKind
    <2>1. CASE phase = "kind"
      <3>1. PassOver("run") \/ AddColumn("kind", "version 4")
        BY <1>12, <2>1 DEF MigrateAddKind
      <3>2. QED BY <1>5, <1>6, <1>c, <2>1, <3>1
    <2>2. CASE phase = "version 4"
      <3>1. MarkVersion(4, "run")
        BY <1>12, <2>2 DEF MigrateAddKind
      <3>2. QED BY <1>7, <2>2, <3>1
    <2>3. QED BY <1>12, <2>1, <2>2 DEF MigrateAddKind
  <1>13. QED BY <1>1, <1>2, <1>3, <1>4, <1>10, <1>11, <1>12 DEF Open

\* A process that dies leaves the types, and no key in memory.
LEMMA CrashType ==
  ASSUME ProgramType, StoreType, CrashInOpen
  PROVE  ProgramType' /\ StoreType' /\ KeyInv' /\ phase' = "off"
  <1>1. /\ phase' = "off" /\ dialog' = "none" /\ conf' = Blank /\ rejected' = FALSE
        /\ key' = NoFile /\ dbOpen' = FALSE
        /\ UNCHANGED <<confFile, keyFile, version, cols, lastId>>
    BY DEF CrashInOpen, Die
  <1>2. rows' = rows \/ \E done : Fill(done)
    BY DEF CrashInOpen
  <1>3. RowsType'
    BY <1>1, <1>2, FillType DEF StoreType, RowsType
  <1>4. StoreType'
    BY <1>1, <1>3 DEF StoreType
  <1>5. ProgramType'
    BY <1>1, FromJsonType DEF ProgramType
  <1>6. QED BY <1>1, <1>4, <1>5 DEF KeyInv

\* A step of the configuration leaves the files of the history alone.
LEMMA ConfigOnFiles ==
  ASSUME ProgramType, StoreType, KeyInv, ConfigStepOnFiles
  PROVE  ProgramType' /\ StoreType' /\ KeyInv'
  <1>1. ProgramType'
    BY ConfigStepType DEF ConfigStepOnFiles
  <1>2. UNCHANGED <<keyFile, version, cols, rows, lastId>>
    BY DEF ConfigStepOnFiles, files
  <1>3. \/ phase' = "off" /\ key' = NoFile /\ dbOpen' = FALSE
        \/ phase' # "off" /\ key' = key /\ dbOpen' = dbOpen
    BY DEF ConfigStepOnFiles
  <1>4. StoreType'
    BY <1>2, <1>3 DEF StoreType, RowsType
  <1>5. phase' = phase \/ phase' \in {"off", "wizard", "key"}
    BY DEF ConfigStepOnFiles, ConfigStep, EnsureConfigured, CancelWizard, SwitchDialog, Quit,
           Die, OnAccept, Save, WizardDone
  <1>6. QED BY <1>1, <1>3, <1>4, <1>5 DEF KeyInv

\* The rows a page shows.
LEMMA AscendingType ==
  ASSUME NEW S, NEW T, S \subseteq T, IsFiniteSet(S), NEW s \in Ascending(S)
  PROVE  s \in Seq(T) /\ Len(s) = Cardinality(S) /\ {s[n] : n \in DOMAIN s} = S
  <1>1. Cardinality(S) \in Nat /\ s \in [1..Cardinality(S) -> S]
    BY FS_CardinalityType DEF Ascending
  <1>2. \A i \in S : \E n \in DOMAIN s : s[n] = i
    BY DEF Ascending
  <1>3. s \in Seq(T) /\ Len(s) = Cardinality(S)
    BY <1>1
  <1>4. QED BY <1>1, <1>2, <1>3

LEMMA PageType ==
  ASSUME StoreType, NEW c, NEW before, NEW s \in LoadConversation(c, before)
  PROVE  /\ s \in Seq(0..MaxRows)
         /\ Works => {s[n] : n \in DOMAIN s} = Page(c, before) /\ s \in Ascending(Page(c, before))
  <1>1. 1..MaxRows \subseteq 0..MaxRows /\ MaxRows \in Nat /\ DOMAIN rows \subseteq 1..MaxRows
    BY StoreAssumption DEF StoreType, RowsType
  <1>2. Page(c, before) \subseteq DOMAIN rows
    BY DEF Page, Older, RowsOf
  <1>3. IsFiniteSet(Page(c, before)) /\ IsFiniteSet({})
    <2>1. IsFiniteSet(1..MaxRows)
      BY <1>1, FS_Interval
    <2>2. QED BY <1>1, <1>2, <2>1, FS_Subset, FS_EmptySet
  <1>4. CASE Works
    BY <1>1, <1>2, <1>3, <1>4, AscendingType DEF LoadConversation
  <1>5. CASE ~Works
    BY <1>3, <1>5, AscendingType DEF LoadConversation
  <1>6. QED BY <1>4, <1>5

LEMMA StoreStep ==
  ASSUME ProgramType, StoreType, KeyInv, [Next]_vars
  PROVE  ProgramType' /\ StoreType' /\ KeyInv'
  <1>1. CASE ConfigStepOnFiles
    BY <1>1, ConfigOnFiles
  <1>2. CASE Open
    BY <1>2, OpenType
  <1>3. CASE CrashInOpen
    BY <1>3, CrashType
  <1>4. ASSUME NEW c \in Contacts, StoreAndShow(c)
        PROVE  ProgramType' /\ StoreType' /\ KeyInv'
    <2>1. AppendRow(c) /\ UNCHANGED <<phase, dialog, conf, confFile, rejected>>
      BY <1>4 DEF StoreAndShow, program
    <2>2. StoreType' /\ UNCHANGED <<key, dbOpen>>
      BY <2>1, AppendRowType DEF KeyInv
    <2>3. QED BY <2>1, <2>2 DEF ProgramType, KeyInv
  <1>5. CASE ClearHistory
    <2>1. /\ UNCHANGED <<phase, conf, confFile, rejected, keyFile, key, dbOpen, version, cols, lastId>>
          /\ dialog' = "cleared" /\ rows' = << >>
      BY <1>5 DEF ClearHistory, DeleteRows
    <2>2. DOMAIN << >> = {}
      OBVIOUS
    <2>3. RowsType'
      BY <2>1, <2>2 DEF StoreType, RowsType
    <2>4. QED BY <2>1, <2>3 DEF ProgramType, StoreType, KeyInv
  <1>6. CASE HistoryCleared
    <2>1. /\ UNCHANGED <<phase, conf, confFile, rejected, keyFile, key, dbOpen, version,
                         cols, rows, lastId>>
          /\ dialog' = "settings"
      BY <1>6 DEF HistoryCleared, storeVars
    <2>2. RowsType'
      BY <2>1 DEF StoreType, RowsType
    <2>3. ProgramType' /\ KeyInv'
      BY <2>1 DEF ProgramType, KeyInv
    <2>4. StoreType'
      BY <2>1, <2>2 DEF StoreType
    <2>5. QED BY <2>3, <2>4
  <1>7. CASE UNCHANGED <<configVars, storeVars>>
    <2>1. UNCHANGED <<phase, dialog, conf, confFile, rejected, keyFile, key, dbOpen, version,
                      cols, rows, lastId>>
      BY <1>7 DEF configVars, program, storeVars
    <2>2. RowsType'
      BY <2>1 DEF StoreType, RowsType
    <2>3. ProgramType' /\ KeyInv'
      BY <2>1 DEF ProgramType, KeyInv
    <2>4. StoreType'
      BY <2>1, <2>2 DEF StoreType
    <2>5. QED BY <2>3, <2>4
  <1>8. QED BY <1>1, <1>2, <1>3, <1>4, <1>5, <1>6, <1>7, StepKinds

\* A view that is loaded is a list of row ids.
LEMMA ViewStep ==
  ASSUME TypeOK, KeyInv, [Next]_vars
  PROVE  ViewType'
  <1>1. StoreType /\ ViewType /\ ProgramType
    BY TypeParts
  <1> USE <1>1 DEF ViewType, paging
  <1>2. \A c, before : \A s \in LoadConversation(c, before) : s \in Seq(0..MaxRows)
    BY PageType
  <1>3. ASSUME EndsView
        PROVE  ViewType'
    <2>1. << >> \in Seq(0..MaxRows) /\ 0 \in 0..MaxQueued
      BY ViewAssumption
    <2>2. QED BY <1>3, <2>1 DEF EndsView, viewVars
  <1>4. ASSUME NEW c \in Contacts, SelectContact(c)
        PROVE  ViewType'
    BY <1>2, <1>4 DEF SelectContact
  <1>5. CASE LoadOlder
    <2>1. PICK older \in LoadConversation(current, view[1]) :
            IF older = << >> THEN exhausted' = TRUE /\ UNCHANGED <<view, loading, restores>>
            ELSE /\ view' = older \o view /\ loading' = TRUE /\ restores' = restores + 1
                 /\ UNCHANGED exhausted
      BY <1>5 DEF LoadOlder
    <2>2. older \in Seq(0..MaxRows)
      BY <1>2
    <2>3. view' \in Seq(0..MaxRows)
      <3>1. view \in Seq(0..MaxRows) /\ older \o view \in Seq(0..MaxRows)
        BY <2>2, ConcatProperties
      <3>2. QED BY <2>1, <3>1
    <2>4. restores' \in 0..MaxQueued
      BY <1>5, <2>1, ViewAssumption DEF LoadOlder
    <2>5. UNCHANGED <<current, reloaded, badge>>
      BY <1>5 DEF LoadOlder
    <2>6. QED BY <2>1, <2>3, <2>4, <2>5
  <1>6. CASE RestoreScroll
    <2>1. restores' \in 0..MaxQueued
      BY <1>6, ViewAssumption DEF RestoreScroll
    <2>2. QED BY <1>6, <2>1 DEF RestoreScroll
  <1>7. ASSUME NEW c \in Contacts, StoreAndShow(c),
               badge' \in {badge, badge \cup {c}}
        PROVE  ViewType'
    <2>1. AppendRow(c) /\ UNCHANGED <<current, exhausted, loading, restores, reloaded>>
      BY <1>7 DEF StoreAndShow
    <2>2. lastId' \in 0..MaxRows /\ 0 \in 0..MaxRows
      <3>1. StoreType'
        BY <2>1, AppendRowType DEF KeyInv
      <3>2. QED BY <3>1, StoreAssumption DEF StoreType, RowsType
    <2>3. \/ view' = view
          \/ \E x \in {lastId', 0} : view' = Append(view, x)
      BY <1>7 DEF StoreAndShow
    <2>4. view' \in Seq(0..MaxRows)
      <3>1. view \in Seq(0..MaxRows)
        OBVIOUS
      <3>2. \A x \in 0..MaxRows : Append(view, x) \in Seq(0..MaxRows)
        BY <3>1
      <3>3. QED BY <2>2, <2>3, <3>1, <3>2
    <2>5. QED BY <1>7, <2>1, <2>4
  <1>8. CASE ReloadOnMark
    BY <1>2, <1>8 DEF ReloadOnMark
  <1>9. CASE ClearHistory
    BY <1>9 DEF ClearHistory, viewVars
  <1>10. CASE HistoryCleared
    <2>1. << >> \in Seq(0..MaxRows)
      OBVIOUS
    <2>2. view' \in Seq(0..MaxRows)
      BY <1>2, <1>10, <2>1 DEF HistoryCleared
    <2>3. QED BY <1>10, <2>2 DEF HistoryCleared
  <1>11. CASE UNCHANGED vars
    BY <1>11 DEF vars, viewVars
  <1>12. QED
    BY <1>3, <1>4, <1>5, <1>6, <1>7, <1>8, <1>9, <1>10, <1>11
    DEF Next, AppendMessage, LogCallEvent

LEMMA TypeStep ==
  ASSUME TypeOK, KeyInv, [Next]_vars
  PROVE  TypeOK' /\ KeyInv'
  <1>1. ProgramType' /\ StoreType' /\ KeyInv'
    BY StoreStep, TypeParts
  <1>2. ViewType'
    BY ViewStep
  <1>3. TypeOK'
    BY <1>1, <1>2 DEF TypeOK, ProgramType, StoreType, RowsType, ViewType
  <1>4. QED BY <1>1, <1>3

LEMMA TypeInit == Init => TypeOK /\ KeyInv
  <1> SUFFICES ASSUME Init PROVE TypeOK /\ KeyInv
    OBVIOUS
  <1>1. ProgramType /\ KeyInv
    BY FromJsonType DEF Init, ConfigInit, StoreInit, ProgramType, KeyInv
  <1>2. StoreType
    <2>1. key \in Keys \cup {NoFile} /\ dbOpen \in BOOLEAN
      BY DEF Init, StoreInit
    <2>2. CASE /\ keyFile = NoFile /\ version = 0 /\ cols = {}
               /\ rows = << >> /\ lastId = 0
      <3>1. DOMAIN << >> = {}
        OBVIOUS
      <3>2. QED BY <2>1, <2>2, <3>1, StoreAssumption DEF StoreType, RowsType
    <2>3. CASE /\ version \in 0..4
               /\ cols = {"base"} \cup Columns(version)
               /\ lastId \in 0..Legacy
               /\ keyFile \in IF version = 0 THEN {NoFile} ELSE Keys
               /\ rows \in [1..lastId -> [contact : Contacts, hasId : {version >= 2},
                       seal : {IF version = 0 THEN Plain ELSE keyFile}]]
      <3>1. cols \subseteq AllColumns
        BY <2>3, VersionCases, ColumnsOf
      <3>2. keyFile \in Keys \cup {NoFile} /\ (version # 0 => keyFile \in Keys)
        BY <2>3
      <3>3. lastId \in 0..MaxRows
        BY <2>3, StoreAssumption
      <3>4. \A i \in 1..lastId : rows[i] \in Row
        <4> DEFINE h == version >= 2
                   sl == IF version = 0 THEN Plain ELSE keyFile
        <4>1. \A i \in 1..lastId : rows[i] \in [contact : Contacts, hasId : {h}, seal : {sl}]
          BY <2>3
        <4>2. h \in BOOLEAN
          OBVIOUS
        <4>3. sl \in Keys \cup {Plain}
          BY <3>2
        <4> HIDE DEF h, sl
        <4>4. QED BY <4>1, <4>2, <4>3 DEF Row
      <3>5. QED BY <2>1, <2>3, <3>1, <3>2, <3>3, <3>4 DEF StoreType, RowsType
    <2>4. QED BY <2>2, <2>3 DEF Init, StoreInit
  <1>3. ViewType
    <2>1. << >> \in Seq(0..MaxRows) /\ 0 \in 0..MaxQueued
      BY ViewAssumption
    <2>2. QED BY <2>1 DEF Init, NoView, ViewType
  <1>4. QED BY <1>1, <1>2, <1>3, TypeParts

\* Files, memory and screen keep their types, whatever faults strike (TypeOK).
THEOREM LocalTypeCorrect == Spec => []TypeOK
  BY TypeInit, TypeStep, PTL DEF Spec

----------------------------------------------------------------------------
(* The migrations.                                                         *)

\* What the steps of the three later migrations do.
PassedOver ==
  /\ UNCHANGED <<version, cols, rows, faults>>
  /\ \/ phase = "msg_id" /\ version >= 2 /\ phase' = "read"
     \/ phase = "read" /\ version >= 3 /\ phase' = "kind"
     \/ phase = "kind" /\ version >= 4 /\ phase' = "run"

ColumnAdded ==
  /\ UNCHANGED <<version, rows, faults>>
  /\ \/ /\ phase = "msg_id" /\ ~(version >= 2) /\ phase' = "backfill"
        /\ cols' = cols \cup {"msg_id"}
     \/ /\ phase = "read" /\ ~(version >= 3) /\ phase' = "read_sent"
        /\ cols' = cols \cup {"read"}
     \/ /\ phase = "read_sent" /\ phase' = "version 3"
        /\ cols' = cols \cup {"read_sent"}
     \/ /\ phase = "kind" /\ ~(version >= 4) /\ phase' = "version 4"
        /\ cols' = cols \cup {"kind"}

AddFailed ==
  /\ UNCHANGED <<version, cols, rows>> /\ phase' = "run"
  /\ phase \in {"msg_id", "read", "read_sent", "kind"}
  /\ \/ faults' = faults \cup {<<"io", phase>>}
     \/ /\ faults' = faults
        /\ \/ phase = "msg_id" /\ ~(version >= 2) /\ "msg_id" \in cols
           \/ phase = "read" /\ ~(version >= 3) /\ "read" \in cols
           \/ phase = "read_sent" /\ "read_sent" \in cols
           \/ phase = "kind" /\ ~(version >= 4) /\ "kind" \in cols

Marked ==
  /\ UNCHANGED <<cols, rows>>
  /\ \/ phase = "version 2" /\ phase' = "read" /\ version' \in {version, 2}
     \/ phase = "version 3" /\ phase' = "kind" /\ version' \in {version, 3}
     \/ phase = "version 4" /\ phase' = "run" /\ version' \in {version, 4}
  /\ \/ faults' = faults
        /\ \/ phase = "version 2" /\ version' = 2
           \/ phase = "version 3" /\ version' = 3
           \/ phase = "version 4" /\ version' = 4
     \/ faults' = faults \cup {<<"io", phase>>} /\ version' = version

Filled ==
  /\ UNCHANGED <<version, cols>> /\ phase = "backfill" /\ phase' = "version 2"
  /\ \/ Fill(DOMAIN rows) /\ faults' = faults
     \/ /\ faults' = faults \cup {<<"io", "backfill">>}
        /\ \E done \in SUBSET DOMAIN rows : Fill(done)

LEMMA Migrations ==
  ASSUME MigrateAddMsgId \/ MigrateAddRead \/ MigrateAddKind
  PROVE  /\ UNCHANGED <<Rest, keyFile, key, dbOpen, lastId>>
         /\ PassedOver \/ ColumnAdded \/ AddFailed \/ Marked \/ Filled
  <1>1. CASE MigrateAddMsgId
    <2>1. CASE phase = "msg_id"
      <3>1. \/ version >= 2 /\ PassOver("read")
            \/ ~(version >= 2) /\ AddColumn("msg_id", "backfill")
        BY <1>1, <2>1 DEF MigrateAddMsgId
      <3>2. QED BY <2>1, <3>1, PassOverStep, AddColumnStep DEF PassedOver, ColumnAdded, AddFailed
    <2>2. CASE phase = "backfill"
      BY <1>1, <2>2, BackfillStep DEF Filled
    <2>3. CASE phase = "version 2"
      <3>1. MarkVersion(2, "read")
        BY <1>1, <2>3 DEF MigrateAddMsgId
      <3>2. QED BY <2>3, <3>1, MarkVersionStep DEF Marked
    <2>4. QED BY <1>1, <2>1, <2>2, <2>3 DEF MigrateAddMsgId
  <1>2. CASE MigrateAddRead
    <2>1. CASE phase = "read"
      <3>1. \/ version >= 3 /\ PassOver("kind")
            \/ ~(version >= 3) /\ AddColumn("read", "read_sent")
        BY <1>2, <2>1 DEF MigrateAddRead
      <3>2. QED BY <2>1, <3>1, PassOverStep, AddColumnStep DEF PassedOver, ColumnAdded, AddFailed
    <2>2. CASE phase = "read_sent"
      <3>1. AddColumn("read_sent", "version 3")
        BY <1>2, <2>2 DEF MigrateAddRead
      <3>2. QED BY <2>2, <3>1, AddColumnStep DEF ColumnAdded, AddFailed
    <2>3. CASE phase = "version 3"
      <3>1. MarkVersion(3, "kind")
        BY <1>2, <2>3 DEF MigrateAddRead
      <3>2. QED BY <2>3, <3>1, MarkVersionStep DEF Marked
    <2>4. QED BY <1>2, <2>1, <2>2, <2>3 DEF MigrateAddRead
  <1>3. CASE MigrateAddKind
    <2>1. CASE phase = "kind"
      <3>1. \/ version >= 4 /\ PassOver("run")
            \/ ~(version >= 4) /\ AddColumn("kind", "version 4")
        BY <1>3, <2>1 DEF MigrateAddKind
      <3>2. QED BY <2>1, <3>1, PassOverStep, AddColumnStep DEF PassedOver, ColumnAdded, AddFailed
    <2>2. CASE phase = "version 4"
      <3>1. MarkVersion(4, "run")
        BY <1>3, <2>2 DEF MigrateAddKind
      <3>2. QED BY <2>2, <3>1, MarkVersionStep DEF Marked
    <2>3. QED BY <1>3, <2>1, <2>2 DEF MigrateAddKind
  <1>4. QED BY <1>1, <1>2, <1>3

\* The version is at least what the columns it claims need.
LEMMA VersionMeans ==
  ASSUME version \in 0..4
  PROVE  VersionHasColumns <=>
           /\ version >= 1 => "base" \in cols
           /\ version >= 2 => "msg_id" \in cols
           /\ version >= 3 => "read" \in cols /\ "read_sent" \in cols
           /\ version >= 4 => "kind" \in cols
  <1>1. CASE version = 0
    BY <1>1 DEF VersionHasColumns
  <1>2. CASE version = 1
    BY <1>2, ColumnsOf DEF VersionHasColumns
  <1>3. CASE version = 2
    BY <1>3, ColumnsOf DEF VersionHasColumns
  <1>4. CASE version = 3
    BY <1>4, ColumnsOf DEF VersionHasColumns
  <1>5. CASE version = 4
    BY <1>5, ColumnsOf DEF VersionHasColumns
  <1>6. QED BY <1>1, <1>2, <1>3, <1>4, <1>5, VersionCases

\* How far the columns have come, by the version and by the step of open().
SchemaInv ==
  /\ version >= 1 => "base" \in cols
  /\ version >= 2 => "msg_id" \in cols
  /\ version >= 3 => "read" \in cols /\ "read_sent" \in cols
  /\ version >= 4 => "kind" \in cols
  /\ phase = "encrypt" => "base" \in cols
  /\ phase \notin {"off", "wizard", "key", "key write", "create", "encrypt", "run"} =>
       version >= 1
  /\ phase \in {"backfill", "version 2", "read", "read_sent", "version 3", "kind",
                "version 4"} => "msg_id" \in cols
  /\ phase \in {"read_sent", "version 3", "kind", "version 4"} => "read" \in cols
  /\ phase \in {"version 3", "kind", "version 4"} => "read_sent" \in cols
  /\ phase = "version 4" => "kind" \in cols

LEMMA Order ==
  /\ 2 >= 1 /\ 2 >= 2 /\ ~(2 >= 3) /\ ~(2 >= 4)
  /\ 3 >= 1 /\ 3 >= 2 /\ 3 >= 3 /\ ~(3 >= 4)
  /\ 4 >= 1 /\ 4 >= 2 /\ 4 >= 3 /\ 4 >= 4
  OBVIOUS

LEMMA Orders ==
  \A v \in 0..4 :
    /\ v >= 4 => v >= 3
    /\ v >= 3 => v >= 2
    /\ v >= 2 => v >= 1
    /\ v < 1 <=> ~(v >= 1)
    /\ v < 2 <=> ~(v >= 2)
    /\ v < 3 <=> ~(v >= 3)
    /\ v < 4 <=> ~(v >= 4)
  OBVIOUS

LEMMA SchemaStep ==
  ASSUME TypeOK, SchemaInv, [Next]_vars
  PROVE  SchemaInv'
  <1>t. version \in 0..4 /\ phase \in {"off", "wizard", "key", "key write", "create",
          "encrypt", "msg_id", "backfill", "version 2", "read", "read_sent", "version 3",
          "kind", "version 4", "run"}
    BY DEF TypeOK
  <1>1. CASE UNCHANGED <<version, cols>> /\ phase' \in {phase, "off", "run", "wizard", "key"}
    BY <1>1 DEF SchemaInv
  <1>2. CASE ConfigStepOnFiles
    <2>1. phase' \in {phase, "off", "wizard", "key"} /\ UNCHANGED <<version, cols>>
      BY <1>2 DEF ConfigStepOnFiles, files, ConfigStep, EnsureConfigured, CancelWizard,
                  SwitchDialog, Quit, Die, OnAccept, Save, WizardDone
    <2>2. QED BY <1>1, <2>1
  <1>3. CASE InitKey \/ WriteKey
    <2>1. UNCHANGED <<version, cols>> /\ phase' \in {"key write", "create", "run"}
      BY <1>3 DEF InitKey, WriteKey, Go
    <2>2. QED BY <2>1 DEF SchemaInv
  <1>4. CASE CreateTable
    <2>1. /\ version' = version /\ phase' \in {"encrypt", "run"}
          /\ cols' = cols \cup {"base"} \/ (cols' = cols /\ phase' = "run")
      BY <1>4 DEF CreateTable, Go
    <2>2. QED BY <2>1 DEF SchemaInv
  <1>5. CASE MigrateToEncrypted
    <2>1. cols' = cols /\ phase = "encrypt" /\ phase' \in {"msg_id", "run"}
      BY <1>5, EncryptStep
    <2>2. \/ version' = version /\ (phase' = "run" \/ version >= 1)
          \/ version' = 1
      BY <1>5, EncryptStep
    <2>3. CASE version' = version /\ (phase' = "run" \/ version >= 1)
      BY <2>1, <2>3 DEF SchemaInv
    <2>4. CASE version' = 1
      <3>1. version' >= 1 /\ ~(version' >= 2) /\ ~(version' >= 3) /\ ~(version' >= 4)
        BY <2>4
      <3>2. QED BY <2>1, <3>1 DEF SchemaInv
    <2>5. QED BY <2>2, <2>3, <2>4
  <1>6. CASE MigrateAddMsgId \/ MigrateAddRead \/ MigrateAddKind
    <2>1. CASE PassedOver
      BY <2>1, <1>t DEF PassedOver, SchemaInv
    <2>2. CASE ColumnAdded
      BY <2>2, <1>t DEF ColumnAdded, SchemaInv
    <2>3. CASE AddFailed
      BY <2>3, <1>1 DEF AddFailed
    <2>4. CASE Marked
      <3>1. CASE version' = version
        BY <2>4, <3>1 DEF Marked, SchemaInv
      <3>2. CASE phase = "version 2" /\ version' = 2
        <4>1. version' >= 1 /\ version' >= 2 /\ ~(version' >= 3) /\ ~(version' >= 4)
          BY <3>2, Order
        <4>2. cols' = cols /\ phase' = "read"
          BY <2>4, <3>2 DEF Marked
        <4>3. QED BY <3>2, <4>1, <4>2 DEF SchemaInv
      <3>3. CASE phase = "version 3" /\ version' = 3
        <4>1. version' >= 1 /\ version' >= 2 /\ version' >= 3 /\ ~(version' >= 4)
          BY <3>3, Order
        <4>2. cols' = cols /\ phase' = "kind"
          BY <2>4, <3>3 DEF Marked
        <4>3. QED BY <3>3, <4>1, <4>2 DEF SchemaInv
      <3>4. CASE phase = "version 4" /\ version' = 4
        <4>1. version' >= 1 /\ version' >= 2 /\ version' >= 3 /\ version' >= 4
          BY <3>4, Order
        <4>2. cols' = cols /\ phase' = "run"
          BY <2>4, <3>4 DEF Marked
        <4>3. QED BY <3>4, <4>1, <4>2 DEF SchemaInv
      <3>5. QED BY <2>4, <3>1, <3>2, <3>3, <3>4 DEF Marked
    <2>5. CASE Filled
      BY <2>5, <1>t DEF Filled, SchemaInv
    <2>6. QED BY <1>6, <2>1, <2>2, <2>3, <2>4, <2>5, Migrations
  <1>7. CASE CrashInOpen
    BY <1>7, <1>1 DEF CrashInOpen, Die
  <1>8. ASSUME NEW c \in Contacts, StoreAndShow(c)
        PROVE  SchemaInv'
    BY <1>8, <1>1 DEF StoreAndShow, AppendRow, program
  <1>9. CASE ClearHistory \/ HistoryCleared \/ UNCHANGED <<configVars, storeVars>>
    BY <1>9, <1>1 DEF ClearHistory, DeleteRows, HistoryCleared, configVars, program, storeVars
  <1>10. QED
    BY <1>2, <1>3, <1>4, <1>5, <1>6, <1>7, <1>8, <1>9, StepKinds DEF Open

LEMMA SchemaInit == Init => SchemaInv
  <1> SUFFICES ASSUME Init PROVE SchemaInv
    OBVIOUS
  <1>1. phase = "off" /\ version \in 0..4
    BY DEF Init, ConfigInit, StoreInit
  <1>2. VersionHasColumns
    <2>1. version = 0 \/ cols = {"base"} \cup Columns(version)
      BY DEF Init, StoreInit
    <2>2. QED BY <1>1, <2>1 DEF VersionHasColumns
  <1>3. QED BY <1>1, <1>2, VersionMeans DEF SchemaInv

\* Wherever a migration is interrupted, the version does not run ahead of the
\* columns (VersionHasColumns).
THEOREM VersionNeverAhead == Spec => []VersionHasColumns
  <1>1. TypeOK /\ SchemaInv => VersionHasColumns
    BY VersionMeans DEF TypeOK, SchemaInv
  <1>2. QED BY <1>1, TypeInit, TypeStep, SchemaInit, SchemaStep, PTL DEF Spec

----------------------------------------------------------------------------
(* The configuration.                                                      *)

\* What the wizard does with a document that is accepted or not.
LEMMA OnAcceptStep ==
  ASSUME NEW d \in Documents, OnAccept(d)
  PROVE  LET c == FromJson(d) IN
         /\ c \in Configs
         /\ \/ /\ Valid(c) /\ confFile' = ToJson(c) /\ conf' = c /\ faults' = faults
            \/ /\ confFile' = Torn /\ faults' = faults \cup {<<"io", "config write">>}
            \/ /\ confFile' = confFile /\ rejected' = TRUE /\ faults \subseteq faults'
            \/ /\ confFile' = Torn /\ faults' = faults \cup {<<"crash", "config write">>}
  <1> DEFINE c == FromJson(d)
  <1>1. c \in Configs
    BY FromJsonType
  <1>2. CASE Valid(c) /\ Save(c)
    BY <1>1, <1>2 DEF Save, Strike
  <1>3. CASE conf' = c /\ rejected' = TRUE /\ UNCHANGED <<phase, dialog, confFile, faults>>
    BY <1>1, <1>3
  <1>4. \/ Valid(c) /\ Save(c)
        \/ conf' = c /\ rejected' = TRUE /\ UNCHANGED <<phase, dialog, confFile, faults>>
    <2>1. CASE Valid(c)
      BY <2>1 DEF OnAccept
    <2>2. CASE ~Valid(c)
      BY <2>2 DEF OnAccept
    <2>3. QED BY <2>1, <2>2
  <1>5. QED BY <1>2, <1>3, <1>4

\* The other steps leave the configuration alone, as long as the program runs.
LEMMA OutsideConfig ==
  ASSUME [Next]_vars
  PROVE  \/ ConfigStep
         \/ /\ confFile' = confFile /\ faults \subseteq faults'
            /\ \/ phase' = "off"
               \/ UNCHANGED <<phase, conf, rejected>>
               \/ UNCHANGED <<conf, rejected>> /\ phase \notin {"off", "wizard"}
  <1> DEFINE Goal == /\ confFile' = confFile /\ faults \subseteq faults'
                     /\ \/ phase' = "off"
                        \/ UNCHANGED <<phase, conf, rejected>>
                        \/ UNCHANGED <<conf, rejected>> /\ phase \notin {"off", "wizard"}
  <1>1. CASE InitKey \/ WriteKey \/ CreateTable
    BY <1>1 DEF InitKey, WriteKey, CreateTable, Go, Fails, Strike
  <1>2. CASE MigrateToEncrypted
    BY <1>2, EncryptStep DEF Rest
  <1>3. CASE MigrateAddMsgId \/ MigrateAddRead \/ MigrateAddKind
    <2>1. UNCHANGED <<conf, confFile, rejected>>
      BY <1>3, Migrations DEF Rest
    <2>2. faults \subseteq faults' /\ phase \notin {"off", "wizard"}
      BY <1>3, Migrations DEF PassedOver, ColumnAdded, AddFailed, Marked, Filled
    <2>3. QED BY <2>1, <2>2
  <1>4. CASE CrashInOpen
    BY <1>4 DEF CrashInOpen, Strike, Die
  <1>5. ASSUME NEW c \in Contacts, StoreAndShow(c)
        PROVE  Goal
    BY <1>5 DEF StoreAndShow, AppendRow, program, Fails, Strike
  <1>6. CASE ClearHistory \/ HistoryCleared \/ UNCHANGED <<configVars, storeVars>>
    BY <1>6 DEF ClearHistory, DeleteRows, HistoryCleared, configVars, program
  <1>7. QED
    BY <1>1, <1>2, <1>3, <1>4, <1>5, <1>6, StepKinds DEF Open, ConfigStepOnFiles

LEMMA ConfigFileStep ==
  ASSUME TypeOK, ConfigFileLoads, [Next]_vars
  PROVE  ConfigFileLoads'
  <1>1. CASE confFile' = confFile /\ faults \subseteq faults'
    BY <1>1 DEF ConfigFileLoads
  <1>2. ASSUME NEW d \in Documents, OnAccept(d)
        PROVE  ConfigFileLoads'
    <2> DEFINE c == FromJson(d)
    <2>1. CASE Valid(c) /\ confFile' = ToJson(c) /\ c \in Configs
      BY <2>1, SavedLoads DEF ConfigFileLoads, Loads
    <2>2. CASE /\ confFile' = Torn
               /\ \E k \in {"io", "crash"} : <<k, "config write">> \in faults'
      BY <2>2 DEF ConfigFileLoads
    <2>3. QED BY <1>1, <1>2, <2>1, <2>2, OnAcceptStep
  <1>3. CASE EnsureConfigured \/ CancelWizard \/ SwitchDialog \/ Quit
    BY <1>1, <1>3 DEF EnsureConfigured, CancelWizard, SwitchDialog, Quit
  <1>4. QED BY <1>1, <1>2, <1>3, OutsideConfig DEF ConfigStep

\* A client that was configured once starts again, unless a write of its
\* configuration was cut short (ConfigFileLoads).
THEOREM ConfigurationLoads == Spec => []ConfigFileLoads
  <1>1. Init => ConfigFileLoads
    BY DEF Init, ConfigInit, ConfigFileLoads
  <1>2. QED BY <1>1, TypeInit, TypeStep, ConfigFileStep, PTL DEF Spec

LEMMA LiveConfigStep ==
  ASSUME TypeOK, LiveConfigIsSaved, [Next]_vars
  PROVE  LiveConfigIsSaved'
  <1> USE DEF LiveConfigIsSaved
  <1>1. CASE /\ confFile' = confFile
             /\ \/ phase' = "off"
                \/ UNCHANGED <<phase, conf, rejected>>
                \/ UNCHANGED <<conf, rejected>> /\ phase \notin {"off", "wizard"}
    BY <1>1
  <1>2. ASSUME NEW d \in Documents, OnAccept(d)
        PROVE  LiveConfigIsSaved'
    <2> DEFINE c == FromJson(d)
    <2>1. CASE confFile' = ToJson(c) /\ conf' = c /\ c \in Configs
      BY <2>1, SavedLoads
    <2>2. CASE confFile' = Torn \/ rejected' = TRUE
      BY <2>2
    <2>3. QED BY <1>2, <2>1, <2>2, OnAcceptStep
  <1>3. CASE EnsureConfigured
    <2>1. \/ phase' = "wizard"
          \/ conf' = FromJson(confFile) /\ confFile' = confFile
      BY <1>3 DEF EnsureConfigured
    <2>2. QED BY <2>1
  <1>4. CASE CancelWizard \/ SwitchDialog \/ Quit
    BY <1>1, <1>4 DEF CancelWizard, SwitchDialog, Quit, Die
  <1>5. QED BY <1>1, <1>2, <1>3, <1>4, OutsideConfig DEF ConfigStep

\* What the program works with is what it will load at its next start
\* (LiveConfigIsSaved).
THEOREM LiveConfigurationIsSaved == Spec => []LiveConfigIsSaved
  <1>1. Init => LiveConfigIsSaved
    BY DEF Init, ConfigInit, LiveConfigIsSaved
  <1>2. QED BY <1>1, TypeInit, TypeStep, LiveConfigStep, PTL DEF Spec

----------------------------------------------------------------------------
(* Lasting damage.                                                         *)

LEMMA WindowsAre ==
  /\ \A k \in {"crash", "io"} : \A p \in {"key write", "read_sent", "version 2", "version 3",
       "version 4"} : <<k, p>> \in Windows
  /\ <<"crash", "backfill">> \in Windows
  BY DEF Windows

InWindow == faults \cap Windows # {}

\* Files that would not open again stand for a step that is under way, or for a
\* fault in one of the windows.
DamageInv ==
  /\ \/ InWindow
     \/ /\ keyFile = Torn => phase = "key write"
        /\ "msg_id" \in cols /\ ~(version >= 2) => phase \in {"backfill", "version 2"}
        /\ "read" \in cols /\ ~(version >= 3) => phase \in {"read_sent", "version 3"}
        /\ "read_sent" \in cols /\ ~(version >= 3) => phase = "version 3"
        /\ "kind" \in cols /\ ~(version >= 4) => phase = "version 4"
  /\ phase \in {"backfill", "version 2"} => ~(version >= 2)
  /\ phase \in {"read_sent", "version 3"} => ~(version >= 3)
  /\ phase = "version 4" => ~(version >= 4)
  /\ phase \notin {"off", "wizard", "key", "key write", "create", "run"} => dbOpen
  /\ phase = "run" /\ ~Works => faults # {}

LEMMA WorksMeans ==
  Works <=> dbOpen /\ {"base", "msg_id", "read", "read_sent", "kind"} \subseteq cols
  BY ColumnsOf DEF Works

\* Only the running program has dialogs open.
DialogInv == dialog # "none" => phase = "run"

LEMMA ConfigPhases ==
  ASSUME ConfigStep, DialogInv
  PROVE  /\ faults \subseteq faults' /\ DialogInv'
         /\ \/ phase' = phase
            \/ phase \in {"wizard", "run"} /\ phase' = "off"
            \/ phase \in {"off", "wizard"} /\ phase' \in {"wizard", "key"}
  <1> USE DEF DialogInv
  <1>1. CASE EnsureConfigured
    BY <1>1 DEF EnsureConfigured
  <1>2. CASE CancelWizard \/ SwitchDialog \/ Quit
    BY <1>2 DEF CancelWizard, SwitchDialog, Quit, Die
  <1>3. ASSUME NEW d \in Documents, OnAccept(d)
        PROVE  /\ faults \subseteq faults' /\ DialogInv'
               /\ \/ phase' = phase
                  \/ phase \in {"wizard", "run"} /\ phase' = "off"
                  \/ phase \in {"off", "wizard"} /\ phase' \in {"wizard", "key"}
    <2>1. Save(FromJson(d)) \/ UNCHANGED <<phase, dialog, faults>>
      BY <1>3 DEF OnAccept
    <2>2. phase \in {"wizard", "run"}
      BY <1>3 DEF OnAccept, WizardIsOpen
    <2>3. WizardDone => DialogInv'
      BY <2>2 DEF WizardDone
    <2>4. WizardDone => phase' = phase \/ (phase = "wizard" /\ phase' = "key")
      BY DEF WizardDone
    <2>5. QED BY <2>1, <2>2, <2>3, <2>4 DEF Save, Strike, Die
  <1>4. QED BY <1>1, <1>2, <1>3 DEF ConfigStep

LEMMA DialogInit == Init => DialogInv
  BY DEF Init, ConfigInit, DialogInv

LEMMA DialogStep ==
  ASSUME DialogInv, [Next]_vars
  PROVE  DialogInv'
  <1> USE DEF DialogInv
  <1>1. CASE ConfigStepOnFiles
    BY <1>1, ConfigPhases DEF ConfigStepOnFiles
  <1>2. CASE InitKey \/ WriteKey \/ CreateTable
    BY <1>2 DEF InitKey, WriteKey, CreateTable, Go
  <1>3. CASE MigrateToEncrypted
    BY <1>3, EncryptStep DEF Rest
  <1>4. CASE MigrateAddMsgId \/ MigrateAddRead \/ MigrateAddKind
    <2>1. phase # "run"
      BY <1>4, Migrations DEF PassedOver, ColumnAdded, AddFailed, Marked, Filled
    <2>2. QED BY <1>4, <2>1, Migrations DEF Rest
  <1>5. CASE CrashInOpen
    BY <1>5 DEF CrashInOpen, Die
  <1>6. ASSUME NEW c \in Contacts, StoreAndShow(c)
        PROVE  DialogInv'
    BY <1>6 DEF StoreAndShow, program
  <1>7. CASE ClearHistory \/ HistoryCleared \/ UNCHANGED <<configVars, storeVars>>
    BY <1>7 DEF ClearHistory, HistoryCleared, Running, configVars, program
  <1>8. QED BY <1>1, <1>2, <1>3, <1>4, <1>5, <1>6, <1>7, StepKinds DEF Open

LEMMA DamageStep ==
  ASSUME TypeOK, KeyInv, SchemaInv, DialogInv, DamageInv, [Next]_vars
  PROVE  DamageInv'
  <1>t. version \in 0..4 /\ phase \in {"off", "wizard", "key", "key write", "create",
          "encrypt", "msg_id", "backfill", "version 2", "read", "read_sent", "version 3",
          "kind", "version 4", "run"}
    BY DEF TypeOK
  <1>v. /\ version >= 4 => version >= 3
        /\ version >= 3 => version >= 2
        /\ version >= 2 => version >= 1
        /\ version < 1 => ~(version >= 1)
    BY <1>t, Orders
  <1>g. faults \subseteq faults' => (InWindow => InWindow')
    BY DEF InWindow
  \* The files stay, and the step is one that leaves nothing half done.
  <1>1. ASSUME UNCHANGED <<keyFile, cols, version>>, faults \subseteq faults',
               \/ UNCHANGED <<phase, dbOpen>>
               \/ /\ phase \notin {"key write", "backfill", "version 2", "read_sent",
                                   "version 3", "version 4"}
                  /\ phase' \in {"off", "wizard", "key", "run"}
                  /\ phase' = "run" => faults' # {}
        PROVE  DamageInv'
    <2>1. cols' = cols
      BY <1>1
    <2>2. dbOpen' = dbOpen => Works' = Works
      BY <2>1 DEF Works, AllColumns, Columns
    <2>3. CASE UNCHANGED <<phase, dbOpen>>
      BY <1>1, <1>g, <2>2, <2>3 DEF DamageInv
    <2>4. CASE /\ phase \notin {"key write", "backfill", "version 2", "read_sent",
                                "version 3", "version 4"}
               /\ phase' \in {"off", "wizard", "key", "run"}
               /\ phase' = "run" => faults' # {}
      BY <1>1, <1>g, <2>4 DEF DamageInv
    <2>5. QED BY <1>1, <2>3, <2>4
  <1>2. CASE ConfigStep /\ ConfigStepOnFiles
    <2>1. /\ UNCHANGED <<keyFile, cols, version>> /\ faults \subseteq faults'
          /\ \/ phase' = phase
             \/ phase \in {"wizard", "run"} /\ phase' = "off"
             \/ phase \in {"off", "wizard"} /\ phase' \in {"wizard", "key"}
      BY <1>2, ConfigPhases DEF ConfigStepOnFiles, files
    <2>2. phase' # "off" => dbOpen' = dbOpen
      BY <1>2 DEF ConfigStepOnFiles
    <2>3. CASE phase' = phase
      BY <1>1, <1>g, <2>1, <2>2, <2>3 DEF DamageInv
    <2>4. CASE phase' = "off" /\ phase # phase'
      BY <1>g, <2>1, <2>4 DEF DamageInv
    <2>5. CASE phase \in {"off", "wizard"} /\ phase' \in {"wizard", "key"}
      BY <1>1, <2>1, <2>5
    <2>6. QED BY <2>1, <2>2, <2>3, <2>4, <2>5
  <1>3. CASE InitKey
    <2>1. /\ UNCHANGED <<cols, version, dbOpen>> /\ phase = "key" /\ faults \subseteq faults'
          /\ \/ keyFile' = keyFile /\ keyFile # Torn /\ phase' = "create"
             \/ keyFile' = keyFile /\ keyFile = Torn /\ phase' = "run"
             \/ keyFile' = Torn /\ phase' = "key write"
             \/ keyFile' = keyFile /\ phase' = "run" /\ faults' # {}
      BY <1>3, StoreAssumption DEF InitKey, Go, Fails, Strike
    <2>2. keyFile = Torn => faults # {}
      BY <2>1 DEF DamageInv, InWindow
    <2>3. faults # {} => faults' # {}
      BY <2>1
    <2>4. QED BY <1>g, <2>1, <2>2, <2>3 DEF DamageInv
  <1>4. CASE WriteKey
    <2>1. /\ UNCHANGED <<cols, version, dbOpen>> /\ phase = "key write" /\ phase' = "create"
          /\ faults \subseteq faults'
          /\ keyFile' = key \/ <<"io", "key write">> \in faults'
      BY <1>4 DEF WriteKey, Go, Fails, Strike
    <2>2. key # Torn
      BY <2>1, StoreAssumption DEF KeyInv
    <2>3. <<"io", "key write">> \in faults' => InWindow'
      BY WindowsAre DEF InWindow
    <2>4. QED BY <1>g, <2>1, <2>2, <2>3 DEF DamageInv
  <1>5. CASE CreateTable
    <2>1. /\ UNCHANGED <<keyFile, version>> /\ phase = "create" /\ faults \subseteq faults'
          /\ \/ phase' = "encrypt" /\ dbOpen' = TRUE /\ cols' = cols \cup {"base"}
             \/ phase' = "run" /\ faults' # {} /\ cols' = cols
      BY <1>5 DEF CreateTable, Go, Fails, Strike
    <2>2. QED BY <1>g, <2>1 DEF DamageInv
  <1>6. CASE MigrateToEncrypted
    <2>1. /\ UNCHANGED <<keyFile, cols, dbOpen>> /\ phase = "encrypt" /\ faults \subseteq faults'
          /\ \/ phase' = "msg_id" /\ version' = version
             \/ phase' = "msg_id" /\ version' = 1 /\ ~(version >= 1)
             \/ phase' = "run" /\ version' = version /\ faults' # {}
      BY <1>6, <1>v, EncryptStep DEF Rest
    <2>2. CASE version' = version
      BY <1>g, <2>1, <2>2 DEF DamageInv
    <2>3. CASE version' = 1 /\ ~(version >= 1) /\ phase' = "msg_id"
      <3>1. /\ ~(version >= 2) /\ ~(version >= 3) /\ ~(version >= 4)
            /\ ~(version' >= 2) /\ ~(version' >= 3) /\ ~(version' >= 4)
        <4>1. ~(1 >= 2) /\ ~(1 >= 3) /\ ~(1 >= 4)
          OBVIOUS
        <4>2. QED BY <1>v, <2>3, <4>1
      <3>2. QED BY <1>g, <2>1, <2>3, <3>1 DEF DamageInv
    <2>4. QED BY <2>1, <2>2, <2>3
  <1>7. CASE MigrateAddMsgId \/ MigrateAddRead \/ MigrateAddKind
    <2>0. UNCHANGED <<keyFile, dbOpen>>
      BY <1>7, Migrations
    <2>1. CASE PassedOver
      <3>1. phase = "kind" /\ version >= 4 => Works'
        <4>1. version >= 4 => version >= 1 /\ version >= 2 /\ version >= 3
          BY <1>v
        <4>2. cols' = cols
          BY <2>1 DEF PassedOver
        <4>3. phase = "kind" => dbOpen
          BY DEF DamageInv
        <4>4. phase = "kind" /\ version >= 4 =>
                {"base", "msg_id", "read", "read_sent", "kind"} \subseteq cols
          BY <4>1 DEF SchemaInv
        <4>5. QED BY <2>0, <4>2, <4>3, <4>4, ColumnsOf DEF Works
      <3>2. QED BY <1>g, <2>0, <2>1, <3>1 DEF DamageInv, PassedOver
    <2>2. CASE ColumnAdded
      BY <1>g, <2>0, <2>2 DEF DamageInv, ColumnAdded
    <2>3. CASE AddFailed
      <3>1. /\ UNCHANGED <<version, cols>> /\ faults \subseteq faults' /\ phase' = "run"
            /\ phase \in {"msg_id", "read", "read_sent", "kind"}
        BY <2>3 DEF AddFailed
      <3>2. CASE /\ faults' = faults
                 /\ \/ phase = "msg_id" /\ ~(version >= 2) /\ "msg_id" \in cols
                    \/ phase = "read" /\ ~(version >= 3) /\ "read" \in cols
                    \/ phase = "read_sent" /\ "read_sent" \in cols
                    \/ phase = "kind" /\ ~(version >= 4) /\ "kind" \in cols
        <4>1. InWindow
          BY <3>2 DEF DamageInv
        <4>2. InWindow' /\ faults' # {}
          BY <1>g, <3>1, <4>1 DEF InWindow
        <4>3. QED BY <3>1, <4>2 DEF DamageInv
      <3>3. CASE faults' = faults \cup {<<"io", phase>>}
        <4>1. faults' # {}
          BY <3>3
        <4>2. phase = "read_sent" => InWindow'
          BY <3>3, WindowsAre DEF InWindow
        <4>3. QED BY <1>g, <2>0, <3>1, <4>1, <4>2 DEF DamageInv
      <3>4. QED BY <2>3, <3>2, <3>3 DEF AddFailed
    <2>4. CASE Marked
      <3>1. /\ cols' = cols /\ faults \subseteq faults'
            /\ \/ phase = "version 2" /\ phase' = "read"
               \/ phase = "version 3" /\ phase' = "kind"
               \/ phase = "version 4" /\ phase' = "run"
        BY <2>4 DEF Marked
      <3>2. CASE faults' = faults \cup {<<"io", phase>>} /\ version' = version
        <4>1. InWindow'
          BY <3>1, <3>2, WindowsAre DEF InWindow
        <4>2. faults' # {}
          BY <3>2
        <4>3. QED BY <2>0, <3>1, <3>2, <4>1, <4>2 DEF DamageInv
      <3>3. CASE phase = "version 2" /\ version' = 2
        <4>1. ~(version >= 2) /\ ~(version >= 3) /\ ~(version >= 4)
          BY <1>v, <3>3 DEF DamageInv
        <4>2. phase' = "read"
          BY <3>1, <3>3
        <4>3. QED BY <1>g, <2>0, <3>1, <3>3, <4>1, <4>2, Order DEF DamageInv
      <3>4. CASE phase = "version 3" /\ version' = 3
        <4>1. ~(version >= 3) /\ ~(version >= 4)
          BY <1>v, <3>4 DEF DamageInv
        <4>2. phase' = "kind"
          BY <3>1, <3>4
        <4>3. QED BY <1>g, <2>0, <3>1, <3>4, <4>1, <4>2, Order DEF DamageInv
      <3>5. CASE phase = "version 4" /\ version' = 4
        <4>1. Works'
          <5>1. dbOpen
            BY <3>5 DEF DamageInv
          <5>2. {"base", "msg_id", "read", "read_sent", "kind"} \subseteq cols
            BY <3>5 DEF SchemaInv
          <5>3. QED BY <2>0, <3>1, <5>1, <5>2, ColumnsOf DEF Works
        <4>2. phase' = "run"
          BY <3>1, <3>5
        <4>3. QED BY <1>g, <2>0, <3>1, <3>5, <4>1, <4>2, Order DEF DamageInv
      <3>6. QED BY <2>4, <3>2, <3>3, <3>4, <3>5 DEF Marked
    <2>5. CASE Filled
      BY <1>g, <2>0, <2>5 DEF DamageInv, Filled
    <2>6. QED BY <1>7, <2>1, <2>2, <2>3, <2>4, <2>5, Migrations
  <1>8. CASE CrashInOpen
    <2>1. /\ UNCHANGED <<keyFile, version, cols>> /\ phase' = "off"
          /\ faults' = faults \cup {<<"crash", phase>>}
      BY <1>8 DEF CrashInOpen, Strike, Die
    <2>2. phase \in {"key write", "read_sent", "version 2", "version 3", "version 4", "backfill"} =>
            InWindow'
      BY <2>1, WindowsAre DEF InWindow
    <2>3. QED BY <1>t, <1>g, <2>1, <2>2 DEF DamageInv
  <1>9. ASSUME NEW c \in Contacts, StoreAndShow(c)
        PROVE  DamageInv'
    BY <1>9, <1>1 DEF StoreAndShow, AppendRow, program, Fails, Strike
  <1>10. CASE ClearHistory \/ HistoryCleared \/ UNCHANGED <<configVars, storeVars>>
    BY <1>10, <1>1 DEF ClearHistory, DeleteRows, HistoryCleared, configVars, program, storeVars
  <1>11. QED
    BY <1>2, <1>3, <1>4, <1>5, <1>6, <1>7, <1>8, <1>9, <1>10, StepKinds
    DEF Open, ConfigStepOnFiles

LEMMA DamageInit == Init => DamageInv
  <1> SUFFICES ASSUME Init PROVE DamageInv
    OBVIOUS
  <1>1. phase = "off" /\ version \in 0..4 /\ keyFile # Torn
    BY StoreAssumption, ConfigAssumption DEF Init, ConfigInit, StoreInit
  <1>2. \/ cols = {}
        \/ cols = {"base"} \cup Columns(version)
    BY DEF Init, StoreInit
  <1>3. /\ "msg_id" \in cols => version >= 2
        /\ "read" \in cols => version >= 3
        /\ "read_sent" \in cols => version >= 3
        /\ "kind" \in cols => version >= 4
    BY <1>2 DEF Columns
  <1>4. QED BY <1>1, <1>3 DEF DamageInv

LEMMA DamageImplies ==
  ASSUME TypeOK, DamageInv
  PROVE  DamageNeedsWindow
  <1>1. /\ ~(version >= 2) => version < 2
        /\ ~(version >= 3) => version < 3
        /\ ~(version >= 4) => version < 4
        /\ version < 2 => ~(version >= 2)
        /\ version < 3 => ~(version >= 3)
        /\ version < 4 => ~(version >= 4)
    <2>1. version \in 0..4
      BY DEF TypeOK
    <2>2. QED BY <2>1, Orders
  <1>2. phase \in {"off", "run"} /\ ~Sound => InWindow
    BY <1>1 DEF DamageInv, Sound
  <1>3. QED BY <1>2 DEF DamageInv, DamageNeedsWindow, InWindow

\* No crash and no failure but those in the named windows leaves files behind
\* that cannot be opened any more (DamageNeedsWindow).
THEOREM DamageOnlyInWindows == Spec => []DamageNeedsWindow
  <1>1. QED
    BY DialogInit, TypeInit, TypeStep, SchemaInit, SchemaStep, DialogStep, DamageInit, DamageStep,
       DamageImplies, PTL DEF Spec

----------------------------------------------------------------------------
(* The screen.                                                             *)

LEMMA LoadingStep ==
  ASSUME TypeOK, LoadingEnds, [Next]_vars
  PROVE  LoadingEnds'
  <1> USE DEF LoadingEnds
  <1>1. CASE UNCHANGED <<loading, restores>> \/ loading' = FALSE
    BY <1>1
  <1>2. CASE LoadOlder
    <2>1. UNCHANGED <<loading, restores>> \/ restores' = restores + 1
      BY <1>2 DEF LoadOlder
    <2>2. restores \in 0..MaxQueued /\ MaxQueued \in Nat
      BY TypeParts, ViewAssumption DEF ViewType
    <2>3. restores + 1 > 0
      BY <2>2
    <2>4. QED BY <1>1, <2>1, <2>3
  <1>3. CASE EndsView
    BY <1>1, <1>3 DEF EndsView, viewVars, paging
  <1>4. ASSUME NEW c \in Contacts, SelectContact(c) \/ StoreAndShow(c)
        PROVE  LoadingEnds'
    BY <1>1, <1>4 DEF SelectContact, StoreAndShow, paging
  <1>5. CASE RestoreScroll \/ ReloadOnMark \/ ClearHistory \/ HistoryCleared \/ UNCHANGED vars
    BY <1>1, <1>5 DEF RestoreScroll, ReloadOnMark, ClearHistory, HistoryCleared, vars, viewVars,
       paging
  <1>6. QED
    BY <1>2, <1>3, <1>4, <1>5 DEF Next, AppendMessage, LogCallEvent

\* Whatever page or contact comes in between, the guard against scroll storms
\* is lifted by a call that is queued already (LoadingEnds).
THEOREM PagingIsFreed == Spec => []LoadingEnds
  <1>1. Init => LoadingEnds
    BY DEF Init, NoView, LoadingEnds
  <1>2. QED BY <1>1, TypeInit, TypeStep, LoadingStep, PTL DEF Spec

LEMMA BadgeStep ==
  ASSUME NoBadgeOnScreen, [Next]_vars
  PROVE  NoBadgeOnScreen'
  <1> USE DEF NoBadgeOnScreen
  <1>1. CASE EndsView
    BY <1>1 DEF EndsView, viewVars
  <1>2. ASSUME NEW c \in Contacts, SelectContact(c) \/ AppendMessage(c)
        PROVE  NoBadgeOnScreen'
    BY <1>2 DEF SelectContact, AppendMessage, StoreAndShow
  <1>3. ASSUME NEW c \in Contacts, NEW bad \in BOOLEAN, LogCallEvent(c, bad)
        PROVE  NoBadgeOnScreen'
    BY <1>3 DEF LogCallEvent, StoreAndShow
  <1>4. CASE LoadOlder \/ RestoreScroll \/ ReloadOnMark \/ ClearHistory \/ HistoryCleared
    BY <1>4 DEF LoadOlder, RestoreScroll, ReloadOnMark, ClearHistory, HistoryCleared, viewVars
  <1>5. CASE UNCHANGED vars
    BY <1>5 DEF vars, viewVars
  <1>6. QED
    BY <1>1, <1>2, <1>3, <1>4, <1>5 DEF Next

\* The conversation on the screen has no badge, whoever writes or calls
\* (NoBadgeOnScreen).
THEOREM BadgesAreElsewhere == Spec => []NoBadgeOnScreen
  <1>1. Init => NoBadgeOnScreen
    BY DEF Init, NoView, NoBadgeOnScreen
  <1>2. QED BY <1>1, BadgeStep, PTL DEF Spec

----------------------------------------------------------------------------
(* The rows.                                                               *)

\* From the backfill on, every row has an id.
Backfilled ==
  version >= 2 \/ phase \in {"version 2", "read", "read_sent", "version 3", "kind", "version 4"}

IdsInv ==
  <<"io", "backfill">> \notin faults /\ Backfilled => \A i \in DOMAIN rows : rows[i].hasId

LEMMA IdsStep ==
  ASSUME TypeOK, KeyInv, DialogInv, IdsInv, [Next]_vars
  PROVE  IdsInv'
  <1>t. RowsType
    BY DEF TypeOK, RowsType
  <1>1. ASSUME faults \subseteq faults', Backfilled' => Backfilled,
               rows' = rows \/ \E done : Fill(done)
        PROVE  IdsInv'
    <2>1. CASE rows' = rows
      BY <1>1, <2>1 DEF IdsInv
    <2>2. ASSUME NEW done, Fill(done)
          PROVE  IdsInv'
      BY <1>t, <1>1, <2>2, FillType DEF IdsInv
    <2>3. QED BY <1>1, <2>1, <2>2
  <1>2. CASE ConfigStepOnFiles \/ CrashInOpen
    <2>1. /\ faults \subseteq faults' /\ version' = version
          /\ phase' = phase \/ phase' \in {"off", "wizard", "key"}
          /\ rows' = rows \/ \E done : Fill(done)
      BY <1>2, ConfigPhases DEF ConfigStepOnFiles, files, CrashInOpen, Strike, Die
    <2>2. QED BY <1>1, <2>1 DEF Backfilled
  <1>3. CASE InitKey \/ WriteKey \/ CreateTable
    <2>1. /\ UNCHANGED <<version, rows>> /\ faults \subseteq faults'
          /\ phase' \in {"key write", "create", "encrypt", "run"}
      BY <1>3 DEF InitKey, WriteKey, CreateTable, Go, Fails, Strike
    <2>2. QED BY <1>1, <2>1 DEF Backfilled
  <1>4. CASE MigrateToEncrypted
    <2>1. CASE UNCHANGED <<version, rows>>
      BY <1>1, <1>4, <2>1, EncryptStep DEF Backfilled
    <2>2. CASE version' = 1
      <3>1. phase' \in {"msg_id", "run"} /\ ~(version' >= 2)
        BY <1>4, <2>2, EncryptStep
      <3>2. QED BY <3>1 DEF IdsInv, Backfilled
    <2>3. QED BY <1>4, <2>1, <2>2, EncryptStep
  <1>5. CASE MigrateAddMsgId \/ MigrateAddRead \/ MigrateAddKind
    <2>1. CASE PassedOver \/ ColumnAdded \/ AddFailed
      <3>1. UNCHANGED <<version, rows>> /\ faults \subseteq faults'
        BY <2>1 DEF PassedOver, ColumnAdded, AddFailed
      <3>2. Backfilled' => Backfilled
        BY <2>1 DEF PassedOver, ColumnAdded, AddFailed, Backfilled
      <3>3. QED BY <1>1, <3>1, <3>2
    <2>2. CASE Marked
      <3>1. rows' = rows /\ faults \subseteq faults' /\ Backfilled
        BY <2>2 DEF Marked, Backfilled
      <3>2. QED BY <1>1, <3>1
    <2>3. CASE Filled
      <3>1. CASE Fill(DOMAIN rows)
        BY <1>t, <3>1, FillType DEF IdsInv
      <3>2. CASE <<"io", "backfill">> \in faults'
        BY <3>2 DEF IdsInv
      <3>3. QED BY <2>3, <3>1, <3>2 DEF Filled
    <2>4. QED BY <1>5, <2>1, <2>2, <2>3, Migrations
  <1>6. ASSUME NEW c \in Contacts, StoreAndShow(c)
        PROVE  IdsInv'
    <2>1. StoreType /\ (dbOpen => key \in Keys) /\ AppendRow(c) /\ phase' = phase
      BY <1>6, TypeParts DEF StoreAndShow, program, KeyInv
    <2>2. /\ version' = version /\ faults \subseteq faults'
      BY <2>1 DEF AppendRow, Fails, Strike
    <2>3. \/ rows' = rows
          \/ \E n : /\ DOMAIN rows' = DOMAIN rows \cup {n} /\ rows'[n].hasId
                    /\ \A i \in DOMAIN rows : rows'[i] = rows[i]
      <3>1. [contact |-> c, seal |-> key, hasId |-> TRUE].hasId
        OBVIOUS
      <3>2. QED BY <2>1, <3>1, AppendRowType
    <2>4. QED BY <2>1, <2>2, <2>3 DEF IdsInv, Backfilled
  <1>7. CASE ClearHistory
    <2>1. rows' = << >> /\ DOMAIN << >> = {}
      BY <1>7 DEF ClearHistory, DeleteRows
    <2>2. QED BY <2>1 DEF IdsInv
  <1>8. CASE HistoryCleared \/ UNCHANGED <<configVars, storeVars>>
    BY <1>1, <1>8 DEF HistoryCleared, configVars, program, storeVars, Backfilled
  <1>9. QED
    BY <1>2, <1>3, <1>4, <1>5, <1>6, <1>7, <1>8, StepKinds DEF Open

\* Every row of a version 2 database has its id, unless an UPDATE of the
\* backfill failed (IdsBackfilled).
THEOREM BackfillIsComplete == Spec => []IdsBackfilled
  <1>1. Init => IdsInv
    <2> SUFFICES ASSUME Init, version >= 2, NEW i \in DOMAIN rows PROVE rows[i].hasId
      BY DEF Init, ConfigInit, IdsInv, Backfilled
    <2>1. \/ rows = << >>
          \/ rows \in [1..lastId -> [contact : Contacts, hasId : {version >= 2},
                       seal : {IF version = 0 THEN Plain ELSE keyFile}]]
      BY DEF Init, StoreInit
    <2>2. rows # << >>
      OBVIOUS
    <2>3. rows[i].hasId \in {version >= 2}
      BY <2>1, <2>2
    <2>4. QED BY <2>3
  <1>2. IdsInv => IdsBackfilled
    BY DEF IdsInv, IdsBackfilled, Backfilled
  <1>3. QED BY <1>1, <1>2, TypeInit, TypeStep, DialogInit, DialogStep, IdsStep, PTL DEF Spec

----------------------------------------------------------------------------
(* The keys.                                                               *)

Seals == {rows[i].seal : i \in DOMAIN rows}

\* The key file was written, and does not hold the key.
KeyLost == keyFile = Torn /\ <<"io", "key write">> \in faults

Opening == {"create", "encrypt", "msg_id", "backfill", "version 2", "read", "read_sent",
            "version 3", "kind", "version 4"}
Starting == {"off", "wizard", "key", "key write"}

SealInv ==
  /\ phase = "key write" => keyFile = Torn /\ Seals \subseteq {Plain}
  /\ ~KeyLost => Seals \subseteq {Plain, keyFile}
  /\ phase \in Opening \/ dbOpen =>
       Seals \subseteq {Plain, key} /\ (keyFile = key \/ KeyLost)
  /\ phase \in Starting => dbOpen = FALSE
  /\ version >= 1 => Plain \notin Seals

LEMMA SealsType == TypeOK => Seals \subseteq Keys \cup {Plain}
  BY DEF TypeOK, Row, Seals

LEMMA FilledSeals ==
  ASSUME RowsType, NEW done, Fill(done)
  PROVE  Seals' = Seals
  BY FillType DEF Seals

LEMMA SealStep ==
  ASSUME TypeOK, KeyInv, SchemaInv, DialogInv, SealInv, [Next]_vars
  PROVE  SealInv'
  <1>t. RowsType /\ Seals \subseteq Keys \cup {Plain}
    BY SealsType DEF TypeOK, RowsType
  <1>a. Plain \notin Keys /\ NoFile \notin Keys /\ Torn \notin Keys
    BY StoreAssumption
  \* The seals stay, and the step does not lead to where a key is needed.
  <1>1. ASSUME Seals' = Seals, UNCHANGED <<keyFile, key, dbOpen>>,
               version' >= 1 => version >= 1, faults \subseteq faults',
               \/ phase' = phase
               \/ phase \in Opening /\ phase' \in Opening \cup {"run"}
               \/ phase \in {"off", "wizard"} /\ phase' \in {"wizard", "key"}
        PROVE  SealInv'
    <2>1. KeyLost => KeyLost'
      BY <1>1 DEF KeyLost
    <2>2. phase' \in Opening => phase \in Opening
      BY <1>1 DEF Opening
    <2>3. phase' \in Starting => phase \in Starting
      BY <1>1 DEF Opening, Starting
    <2>4. phase' = "key write" => phase = "key write"
      BY <1>1 DEF Opening
    <2>5. QED BY <1>1, <2>1, <2>2, <2>3, <2>4 DEF SealInv
  \* The process is gone.
  <1>2. ASSUME Seals' = Seals, UNCHANGED <<keyFile, version>>, faults \subseteq faults',
               phase' = "off", dbOpen' = FALSE
        PROVE  SealInv'
    <2>1. KeyLost => KeyLost'
      BY <1>2 DEF KeyLost
    <2>2. QED BY <1>2, <2>1 DEF SealInv, Opening, Starting
  <1>3. CASE ConfigStepOnFiles
    <2>1. Seals' = Seals /\ UNCHANGED <<keyFile, version>>
      BY <1>3 DEF ConfigStepOnFiles, files, Seals
    <2>2. CASE phase' = "off"
      <3>1. dbOpen' = FALSE /\ faults \subseteq faults'
        BY <1>3, <2>2, ConfigPhases DEF ConfigStepOnFiles
      <3>2. QED BY <1>2, <2>1, <2>2, <3>1
    <2>3. CASE phase' # "off"
      <3>1. UNCHANGED <<key, dbOpen>> /\ faults \subseteq faults'
        BY <1>3, <2>3, ConfigPhases DEF ConfigStepOnFiles
      <3>2. \/ phase' = phase
            \/ phase \in {"off", "wizard"} /\ phase' \in {"wizard", "key"}
        BY <1>3, <2>3, ConfigPhases DEF ConfigStepOnFiles
      <3>3. QED BY <1>1, <2>1, <3>1, <3>2
    <2>4. QED BY <2>2, <2>3
  <1>4. CASE CrashInOpen
    <2>1. /\ UNCHANGED <<keyFile, version>> /\ phase' = "off" /\ dbOpen' = FALSE
          /\ faults \subseteq faults'
          /\ rows' = rows \/ \E done : Fill(done)
      BY <1>4 DEF CrashInOpen, Die, Strike
    <2>2. Seals' = Seals
      BY <1>t, <2>1, FilledSeals DEF Seals
    <2>3. QED BY <1>2, <2>1, <2>2
  <1>5. CASE InitKey
    <2>1. /\ UNCHANGED <<dbOpen, version>> /\ Seals' = Seals /\ phase = "key"
          /\ faults \subseteq faults'
          /\ \/ keyFile \in Keys /\ key' = keyFile /\ phase' = "create" /\ keyFile' = keyFile
             \/ keyFile' = keyFile /\ phase' = "run"
             \/ keyFile = NoFile /\ keyFile' = Torn /\ phase' = "key write"
      BY <1>5 DEF InitKey, Go, Fails, Strike, Seals
    <2>2. dbOpen = FALSE
      BY <2>1 DEF SealInv, Starting
    <2>3. KeyLost /\ keyFile' = keyFile => KeyLost'
      BY <2>1 DEF KeyLost
    <2>4. CASE keyFile \in Keys /\ key' = keyFile /\ phase' = "create" /\ keyFile' = keyFile
      <3>1. ~KeyLost
        BY <1>a, <2>4 DEF KeyLost
      <3>2. QED BY <2>1, <2>2, <2>4, <3>1 DEF SealInv, Opening, Starting
    <2>5. CASE keyFile' = keyFile /\ phase' = "run"
      BY <2>1, <2>2, <2>3, <2>5 DEF SealInv, Opening, Starting
    <2>6. CASE keyFile = NoFile /\ keyFile' = Torn /\ phase' = "key write"
      <3>1. ~KeyLost
        BY <2>6, ConfigAssumption DEF KeyLost
      <3>2. Seals \subseteq {Plain}
        <4>1. Seals \subseteq {Plain, NoFile}
          BY <2>6, <3>1 DEF SealInv
        <4>2. NoFile \notin Seals \/ NoFile = Plain
          BY <1>t, <1>a
        <4>3. QED BY <4>1, <4>2
      <3>3. QED BY <2>1, <2>2, <2>6, <3>2 DEF SealInv, Opening, Starting
    <2>7. QED BY <2>1, <2>4, <2>5, <2>6
  <1>6. CASE WriteKey
    <2>1. /\ UNCHANGED <<key, dbOpen, version>> /\ Seals' = Seals
          /\ phase = "key write" /\ phase' = "create"
          /\ keyFile' = key \/ (keyFile' = keyFile /\ <<"io", "key write">> \in faults')
      BY <1>6 DEF WriteKey, Go, Fails, Strike, Seals
    <2>2. Seals \subseteq {Plain} /\ keyFile = Torn
      BY <2>1 DEF SealInv
    <2>3. keyFile' = key \/ KeyLost'
      BY <2>1, <2>2 DEF KeyLost
    <2>4. QED BY <2>1, <2>2, <2>3 DEF SealInv, Opening, Starting
  <1>7. CASE CreateTable
    <2>1. /\ UNCHANGED <<keyFile, key, version>> /\ Seals' = Seals /\ faults \subseteq faults'
          /\ phase = "create" /\ phase' \in {"encrypt", "run"}
      BY <1>7 DEF CreateTable, Go, Fails, Strike, Seals
    <2>2. KeyLost => KeyLost'
      BY <2>1 DEF KeyLost
    <2>3. QED BY <2>1, <2>2 DEF SealInv, Opening, Starting
  <1>8. CASE MigrateToEncrypted
    <2>1. /\ UNCHANGED <<keyFile, key, dbOpen>> /\ phase = "encrypt" /\ phase' \in {"msg_id", "run"}
          /\ faults \subseteq faults'
      BY <1>8, EncryptStep
    <2>2. CASE UNCHANGED <<version, rows>>
      <3>1. Seals' = Seals /\ version' = version
        BY <2>2 DEF Seals
      <3>2. phase \in Opening /\ phase' \in Opening \cup {"run"}
        BY <2>1 DEF Opening
      <3>3. QED BY <1>1, <2>1, <3>1, <3>2
    <2>3. CASE rows' = [i \in DOMAIN rows |->
                          IF LooksEncrypted(rows[i]) THEN rows[i] ELSE Encrypt(rows[i])]
      <3>1. key \in Keys
        BY <2>1 DEF KeyInv
      <3>2. \A r \in Row : Encrypt(r).seal = key
        BY DEF Row, Encrypt
      <3>3. \A i \in DOMAIN rows : rows[i] \in Row
        BY <1>t DEF RowsType
      <3>4. Seals' \subseteq (Seals \ {Plain}) \cup {key}
        BY <2>3, <3>2, <3>3 DEF Seals, LooksEncrypted
      <3>5. Seals \subseteq {Plain, key} /\ (keyFile = key \/ KeyLost)
        BY <2>1 DEF SealInv, Opening
      <3>6. KeyLost => KeyLost'
        BY <2>1 DEF KeyLost
      <3>7. key # Plain
        BY <1>a, <3>1
      <3>8. QED BY <2>1, <3>4, <3>5, <3>6, <3>7 DEF SealInv, Opening, Starting
    <2>4. QED BY <1>8, <2>2, <2>3, EncryptStep
  <1>9. CASE MigrateAddMsgId \/ MigrateAddRead \/ MigrateAddKind
    <2>1. UNCHANGED <<keyFile, key, dbOpen>>
      BY <1>9, Migrations
    <2>2. /\ phase \in Opening \ {"create", "encrypt"} /\ phase' \in Opening \cup {"run"}
          /\ faults \subseteq faults'
      BY <1>9, Migrations
      DEF PassedOver, ColumnAdded, AddFailed, Marked, Filled, Opening
    <2>3. rows' = rows \/ \E done : Fill(done)
      BY <1>9, Migrations DEF PassedOver, ColumnAdded, AddFailed, Marked, Filled
    <2>4. Seals' = Seals
      BY <1>t, <2>3, FilledSeals DEF Seals
    <2>5. version >= 1
      BY <2>2 DEF SchemaInv, Opening
    <2>6. QED BY <1>1, <2>1, <2>2, <2>4, <2>5
  <1>10. ASSUME NEW c \in Contacts, StoreAndShow(c)
         PROVE  SealInv'
    <2>1. StoreType /\ (dbOpen => key \in Keys) /\ AppendRow(c) /\ phase' = phase
      BY <1>10, TypeParts DEF StoreAndShow, program, KeyInv
    <2>2. /\ UNCHANGED <<keyFile, key, dbOpen, version>> /\ faults \subseteq faults'
      BY <2>1 DEF AppendRow, Fails, Strike
    <2>3. CASE rows' = rows
      BY <1>1, <2>1, <2>2, <2>3 DEF Seals
    <2>4. CASE rows' # rows
      <3>1. [contact |-> c, seal |-> key, hasId |-> TRUE].seal = key
        OBVIOUS
      <3>2. Works /\ \E n : /\ DOMAIN rows' = DOMAIN rows \cup {n} /\ rows'[n].seal = key
                            /\ \A i \in DOMAIN rows : rows'[i] = rows[i]
        BY <2>1, <2>4, <3>1, AppendRowType
      <3>3. Seals' \subseteq Seals \cup {key} /\ dbOpen
        BY <3>2 DEF Seals, Works
      <3>4. key # Plain /\ Seals \subseteq {Plain, key} /\ (keyFile = key \/ KeyLost)
        BY <1>a, <2>1, <3>3 DEF SealInv
      <3>5. phase \notin Starting
        BY <3>3 DEF SealInv
      <3>6. KeyLost => KeyLost'
        BY <2>2 DEF KeyLost
      <3>7. QED BY <2>1, <2>2, <3>3, <3>4, <3>5, <3>6 DEF SealInv, Starting
    <2>5. QED BY <2>3, <2>4
  <1>11. CASE ClearHistory
    <2>1. rows' = << >> /\ DOMAIN << >> = {}
      BY <1>11 DEF ClearHistory, DeleteRows
    <2>2. Seals' = {}
      BY <2>1 DEF Seals
    <2>3. UNCHANGED <<phase, keyFile, key, dbOpen, version, faults>>
      BY <1>11 DEF ClearHistory, DeleteRows
    <2>4. KeyLost' = KeyLost
      BY <2>3 DEF KeyLost
    <2>5. QED BY <2>2, <2>3, <2>4 DEF SealInv
  <1>12. CASE HistoryCleared \/ UNCHANGED <<configVars, storeVars>>
    BY <1>1, <1>12 DEF HistoryCleared, configVars, program, storeVars, Seals
  <1>13. QED
    BY <1>3, <1>4, <1>5, <1>6, <1>7, <1>8, <1>9, <1>10, <1>11, <1>12, StepKinds DEF Open

LEMMA SealInit == Init => SealInv
  <1> SUFFICES ASSUME Init PROVE SealInv
    OBVIOUS
  <1>1. phase = "off" /\ dbOpen = FALSE
    BY DEF Init, ConfigInit, StoreInit
  <1>2. CASE rows = << >> /\ version = 0
    <2>1. DOMAIN << >> = {}
      OBVIOUS
    <2>2. Seals = {}
      BY <1>2, <2>1 DEF Seals
    <2>3. QED BY <1>1, <2>2 DEF SealInv, Opening
  <1>3. CASE /\ version \in 0..4
             /\ keyFile \in IF version = 0 THEN {NoFile} ELSE Keys
             /\ rows \in [1..lastId -> [contact : Contacts, hasId : {version >= 2},
                            seal : {IF version = 0 THEN Plain ELSE keyFile}]]
    <2> DEFINE sl == IF version = 0 THEN Plain ELSE keyFile
               h == version >= 2
    <2>1. \A i \in 1..lastId : rows[i] \in [contact : Contacts, hasId : {h}, seal : {sl}]
      BY <1>3
    <2>2. DOMAIN rows = 1..lastId
      BY <1>3
    <2> HIDE DEF sl, h
    <2>3. Seals \subseteq {sl}
      BY <2>1, <2>2 DEF Seals
    <2>4. Seals \subseteq {Plain, keyFile}
      BY <2>3 DEF sl
    <2>5. version >= 1 => sl # Plain
      <3>1. version >= 1 => version # 0
        BY <1>3
      <3>2. QED BY <1>3, <3>1, StoreAssumption DEF sl
    <2>6. QED BY <1>1, <2>3, <2>4, <2>5 DEF SealInv, Opening
  <1>4. QED BY <1>2, <1>3 DEF Init, StoreInit

LEMMA SealImplies ==
  ASSUME SealInv
  PROVE  SealedSinceVersion1 /\ KeyOpensRows
  <1>1. SealedSinceVersion1
    BY DEF SealInv, SealedSinceVersion1, LooksEncrypted, Seals
  <1>2. \A k : Seals \subseteq {Plain, k} => \A i \in DOMAIN rows : Decrypts(k, rows[i])
    BY DEF Seals, Decrypts, LooksEncrypted
  <1>3. /\ dbOpen => Seals \subseteq {Plain, key}
        /\ <<"io", "key write">> \notin faults => Seals \subseteq {Plain, keyFile}
    BY DEF SealInv, KeyLost
  <1>4. QED BY <1>1, <1>2, <1>3 DEF KeyOpensRows

\* A database that calls itself encrypted holds no plain text, wherever the
\* encryption was interrupted (SealedSinceVersion1).
THEOREM NoPlainTextSinceVersion1 == Spec => []SealedSinceVersion1
  BY TypeInit, TypeStep, SchemaInit, SchemaStep, DialogInit, DialogStep, SealInit, SealStep,
     SealImplies, PTL DEF Spec

\* The key in use, and the key file the next start reads, decrypt every row,
\* unless the first write of that file was cut short (KeyOpensRows).
THEOREM KeyDecryptsHistory == Spec => []KeyOpensRows
  BY TypeInit, TypeStep, SchemaInit, SchemaStep, DialogInit, DialogStep, SealInit, SealStep,
     SealImplies, PTL DEF Spec
=============================================================================
