-------------------------- MODULE LocalViewProofs --------------------------
(***************************************************************************)
(* What holds of the conversation on the screen, for any size of the pages *)
(* and any number of rows.                                                 *)
(***************************************************************************)
EXTENDS LocalDataProofs, WellFoundedInduction

----------------------------------------------------------------------------
(* Pages.                                                                  *)

LEMMA Greatest ==
  ASSUME NEW S, S \subseteq Nat, IsFiniteSet(S), S # {}
  PROVE  \E x \in S : \A y \in S : ~(y > x)
  <1> DEFINE After(x) == {y \in S : y > x}
             T == {After(x) : x \in S}
             R == StrictSubsetOrdering(S)
             F == FiniteSubsetsOf(S)
  <1>1. IsWellFoundedOn(R, F)
    BY FS_StrictSubsetOrderingWellFounded
  <1>2. T \subseteq F /\ T # {}
    <2>1. \A x \in S : After(x) \in SUBSET S
      OBVIOUS
    <2>2. \A x \in S : IsFiniteSet(After(x))
      BY <2>1, FS_Subset
    <2>3. QED BY <2>1, <2>2 DEF FiniteSubsetsOf
  <1>3. PICK m \in T : \A t \in T : ~(<<t, m>> \in R)
    <2> HIDE DEF T, R, F
    <2>1. QED BY <1>1, <1>2, WFMin
  <1>4. PICK x \in S : m = After(x)
    OBVIOUS
  <1>5. ASSUME NEW y \in S, y > x
        PROVE  FALSE
    <2>1. After(y) \subseteq After(x) /\ y \in After(x) /\ y \notin After(y)
      <3>1. x \in Nat /\ y \in Nat /\ \A z \in S : z \in Nat
        BY <1>4
      <3>2. \A z \in S : z > y => z > x
        BY <1>5, <3>1
      <3>3. ~(y > y)
        BY <3>1
      <3>4. QED BY <1>5, <3>2, <3>3
    <2>2. <<After(y), After(x)>> \in R
      BY <2>1 DEF StrictSubsetOrdering
    <2>3. QED BY <1>3, <1>4, <2>2
  <1>6. QED BY <1>5

\* A page holds the newest of the rows it is taken from.
LEMMA PageIsSuffix ==
  ASSUME StoreType, NEW c, NEW before
  PROVE  /\ Page(c, before) \subseteq Older(c, before)
         /\ Older(c, before) \subseteq 1..MaxRows
         /\ IsFiniteSet(Page(c, before))
         /\ \A i \in Older(c, before) \ Page(c, before) : \A j \in Page(c, before) : i < j
         /\ Older(c, before) # {} => Page(c, before) # {}
  <1> DEFINE O == Older(c, before)
             After(i) == {j \in O : j > i}
  <1>1. O \subseteq 1..MaxRows /\ MaxRows \in Nat
    <2>1. lastId \in 0..MaxRows /\ MaxRows \in Nat /\ DOMAIN rows \subseteq 1..lastId
      BY StoreAssumption DEF StoreType, RowsType
    <2>2. 1..lastId \subseteq 1..MaxRows
      BY <2>1
    <2>3. O \subseteq DOMAIN rows
      BY DEF Older, RowsOf
    <2>4. QED BY <2>1, <2>2, <2>3
  <1>2. Page(c, before) = {i \in O : Cardinality(After(i)) < PageSize}
    BY DEF Page
  <1> HIDE DEF O
  <1>3. IsFiniteSet(O)
    <2>1. IsFiniteSet(1..MaxRows)
      BY <1>1, FS_Interval
    <2>2. QED BY <1>1, <2>1, FS_Subset
  <1>4. \A i \in O : IsFiniteSet(After(i)) /\ Cardinality(After(i)) \in Nat
    <2>1. \A i \in O : After(i) \in SUBSET O
      OBVIOUS
    <2>2. \A i \in O : IsFiniteSet(After(i))
      BY <1>3, <2>1, FS_Subset
    <2>3. QED BY <2>2, FS_CardinalityType
  <1>5. ASSUME NEW i \in O \ Page(c, before), NEW j \in Page(c, before)
        PROVE  i < j
    <2>1. j \in O /\ Cardinality(After(j)) < PageSize /\ ~(Cardinality(After(i)) < PageSize)
      BY <1>2, <1>5
    <2>2. CASE j < i
      <3>1. After(i) \in SUBSET After(j)
        <4>1. \A z \in O : z > i => z > j
          BY <1>1, <1>5, <2>1, <2>2
        <4>2. QED BY <4>1
      <3>2. Cardinality(After(i)) <= Cardinality(After(j))
        BY <1>4, <2>1, <3>1, FS_Subset
      <3>3. QED BY <1>4, <2>1, <3>2, ViewAssumption
    <2>3. i # j
      BY <1>5
    <2>4. QED BY <1>1, <2>1, <2>2, <2>3
  <1>6. ASSUME O # {}
        PROVE  Page(c, before) # {}
    <2>1. O \subseteq Nat
      BY <1>1
    <2>2. PICK x \in O : \A y \in O : ~(y > x)
      BY <1>3, <1>6, <2>1, Greatest
    <2>3. After(x) = {}
      BY <2>2
    <2>4. Cardinality(After(x)) = 0
      BY <2>3, FS_EmptySet
    <2>5. QED BY <1>2, <2>2, <2>4, ViewAssumption
  <1>7. IsFiniteSet(Page(c, before))
    BY <1>2, <1>3, FS_Subset
  <1>8. QED BY <1>1, <1>2, <1>5, <1>6, <1>7 DEF O

----------------------------------------------------------------------------
(* Lists of rows that end a conversation.                                  *)

ShownOf(v) == {v[i] : i \in DOMAIN v} \ {0}

EndsIn(v, R) ==
  /\ ShownOf(v) \subseteq R
  /\ \A i \in R \ ShownOf(v) : \A j \in ShownOf(v) : i < j
  /\ R # {} => ShownOf(v) # {}
  /\ \A i, j \in DOMAIN v : i < j /\ v[j] # 0 => v[i] < v[j]

LEMMA WindowMeans ==
  WindowIsSuffix <=>
    (current # NoContact /\ Works /\ dialog # "cleared" => EndsIn(view, RowsOf(current)))
  BY DEF WindowIsSuffix, EndsIn, ShownOf, Shown

\* A page as a list.
LEMMA PageListed ==
  ASSUME StoreType, Works, NEW c, NEW before, NEW s \in LoadConversation(c, before)
  PROVE  /\ s \in Seq(1..MaxRows)
         /\ {s[n] : n \in DOMAIN s} = Page(c, before)
         /\ \A m, n \in DOMAIN s : m < n => s[m] < s[n]
  <1>1. s \in Ascending(Page(c, before))
    BY DEF LoadConversation
  <1>2. Page(c, before) \subseteq 1..MaxRows /\ IsFiniteSet(Page(c, before))
    BY PageIsSuffix
  <1>3. s \in Seq(1..MaxRows) /\ {s[n] : n \in DOMAIN s} = Page(c, before)
    BY <1>1, <1>2, AscendingType
  <1>4. QED BY <1>1, <1>3 DEF Ascending

LEMMA LoadedEnds ==
  ASSUME StoreType, Works, NEW c, NEW s \in LoadConversation(c, 0)
  PROVE  EndsIn(s, RowsOf(c))
  <1>1. Older(c, 0) = RowsOf(c)
    BY DEF Older
  <1>2. /\ s \in Seq(1..MaxRows) /\ {s[n] : n \in DOMAIN s} = Page(c, 0)
        /\ \A m, n \in DOMAIN s : m < n => s[m] < s[n]
    BY PageListed
  <1>3. 0 \notin Page(c, 0)
    BY PageIsSuffix
  <1>4. ShownOf(s) = Page(c, 0)
    BY <1>2, <1>3 DEF ShownOf
  <1>5. QED BY <1>1, <1>2, <1>4, PageIsSuffix DEF EndsIn

\* An older page in front of the list.
LEMMA OlderEnds ==
  ASSUME StoreType, Works, NEW c, NEW v \in Seq(0..MaxRows), v # << >>, v[1] > 0,
         NEW s \in LoadConversation(c, v[1])
  PROVE  /\ ShownOf(s \o v) = ShownOf(s) \cup ShownOf(v)
         /\ EndsIn(v, RowsOf(c)) => EndsIn(s \o v, RowsOf(c))
         /\ EndsIn(v, RowsOf(c)) /\ s = << >> => RowsOf(c) \subseteq ShownOf(v)
  <1> DEFINE b == v[1]
             w == s \o v
             R == RowsOf(c)
  <1>1. /\ s \in Seq(1..MaxRows) /\ {s[n] : n \in DOMAIN s} = Page(c, b)
        /\ \A m, n \in DOMAIN s : m < n => s[m] < s[n]
    BY PageListed
  <1>2. /\ 1 \in DOMAIN v /\ b \in 1..MaxRows /\ b \in ShownOf(v)
        /\ \A i \in DOMAIN v : v[i] \in 0..MaxRows /\ i \in Nat \ {0}
    <2>1. Len(v) \in Nat /\ Len(v) # 0 /\ DOMAIN v = 1..Len(v)
      OBVIOUS
    <2>2. MaxRows \in Nat
      BY StoreAssumption
    <2>3. QED BY <2>1, <2>2 DEF ShownOf
  <1>3. Older(c, b) = {i \in R : i < b}
    BY DEF Older
  <1>4. R \subseteq 1..MaxRows
    <2>1. Older(c, 0) = R
      BY DEF Older
    <2>2. QED BY <2>1, PageIsSuffix
  <1>5. ShownOf(s) = Page(c, b) /\ 0 \notin Page(c, b)
    BY <1>1, PageIsSuffix DEF ShownOf
  <1>6. /\ \A i \in DOMAIN w : \/ i \in DOMAIN s /\ w[i] = s[i]
                               \/ i > Len(s) /\ i - Len(s) \in DOMAIN v /\ w[i] = v[i - Len(s)]
        /\ \A i \in DOMAIN s : i \in DOMAIN w /\ w[i] = s[i] /\ i <= Len(s)
        /\ \A i \in DOMAIN v : i + Len(s) \in DOMAIN w /\ w[i + Len(s)] = v[i]
        /\ Len(s) \in Nat /\ DOMAIN w \subseteq Nat
    <2>1. Len(s) \in Nat /\ Len(v) \in Nat /\ DOMAIN s = 1..Len(s) /\ DOMAIN v = 1..Len(v)
      BY <1>1
    <2>2. DOMAIN w = 1..(Len(s) + Len(v))
      BY <1>1
    <2>3. \A i \in 1..(Len(s) + Len(v)) : w[i] = IF i <= Len(s) THEN s[i] ELSE v[i - Len(s)]
      BY <1>1
    <2> HIDE DEF w
    <2>4. QED BY <2>1, <2>2, <2>3
  <1> HIDE DEF w, b
  <1>7. ShownOf(w) = ShownOf(s) \cup ShownOf(v)
    <2>1. \A x \in ShownOf(w) : x \in ShownOf(s) \cup ShownOf(v)
      BY <1>6 DEF ShownOf
    <2>2. \A x \in ShownOf(s) \cup ShownOf(v) : x \in ShownOf(w)
      BY <1>6 DEF ShownOf
    <2>3. QED BY <2>1, <2>2
  <1>8. ASSUME EndsIn(v, R)
        PROVE  EndsIn(w, R)
    <2>1. ShownOf(w) \subseteq R
      BY <1>3, <1>5, <1>7, <1>8, PageIsSuffix DEF EndsIn
    <2>2. ASSUME NEW i \in R \ ShownOf(w), NEW j \in ShownOf(w)
          PROVE  i < j
      <3>1. i < b /\ i \in Older(c, b) \ Page(c, b)
        BY <1>2, <1>3, <1>5, <1>7, <1>8, <2>2 DEF EndsIn
      <3>2. CASE j \in Page(c, b)
        BY <3>1, <3>2, PageIsSuffix
      <3>3. CASE j \in ShownOf(v)
        BY <1>7, <1>8, <2>2, <3>3 DEF EndsIn
      <3>4. QED BY <1>5, <1>7, <3>2, <3>3
    <2>3. ShownOf(w) # {}
      BY <1>2, <1>7
    <2>4. ASSUME NEW i \in DOMAIN w, NEW j \in DOMAIN w, i < j, w[j] # 0
          PROVE  w[i] < w[j]
      <3>1. CASE j \in DOMAIN s
        <4>1. i \in DOMAIN s
          BY <1>6, <2>4, <3>1
        <4>2. QED BY <1>1, <1>6, <2>4, <3>1, <4>1
      <3>2. CASE j > Len(s) /\ j - Len(s) \in DOMAIN v /\ w[j] = v[j - Len(s)]
        <4> DEFINE k == j - Len(s)
        <4>1. k \in DOMAIN v /\ w[j] = v[k] /\ v[k] # 0
          BY <2>4, <3>2
        <4>2. CASE i \in DOMAIN s
          <5>1. w[i] \in Page(c, b)
            BY <1>1, <1>6, <4>2
          <5>2. w[i] < b /\ w[i] \in 1..MaxRows
            BY <1>3, <1>4, <5>1, PageIsSuffix
          <5>3. b <= v[k]
            <6>1. CASE k = 1
              BY <1>2, <6>1 DEF b
            <6>2. CASE k # 1
              <7>1. 1 < k
                BY <1>2, <4>1, <6>2
              <7>2. QED BY <1>2, <1>8, <4>1, <7>1 DEF EndsIn, b
            <6>3. QED BY <6>1, <6>2
          <5>4. v[k] \in 0..MaxRows
            BY <1>2, <4>1
          <5>5. QED BY <1>2, <4>1, <5>2, <5>3, <5>4
        <4>3. CASE i - Len(s) \in DOMAIN v /\ w[i] = v[i - Len(s)]
          <5>1. i - Len(s) < k
            BY <1>6, <2>4
          <5>2. QED BY <1>8, <4>1, <4>3, <5>1 DEF EndsIn
        <4>4. QED BY <1>6, <4>2, <4>3
      <3>3. QED BY <1>6, <3>1, <3>2
    <2>5. QED BY <2>1, <2>2, <2>3, <2>4 DEF EndsIn
  <1>9. ASSUME EndsIn(v, R), s = << >>, NEW i \in R
        PROVE  i \in ShownOf(v)
    <2>1. Page(c, b) = {}
      BY <1>1, <1>9
    <2>2. ~(i < b)
      BY <1>3, <1>9, <2>1, PageIsSuffix
    <2>3. QED BY <1>2, <1>9, <2>2 DEF EndsIn
  <1>10. QED BY <1>7, <1>8, <1>9 DEF w

\* A row at the end, one that was stored or not.
LEMMA AppendShows ==
  ASSUME NEW v \in Seq(Nat), NEW n \in Nat
  PROVE  ShownOf(Append(v, n)) = IF n = 0 THEN ShownOf(v) ELSE ShownOf(v) \cup {n}
  <1> DEFINE w == Append(v, n)
  <1>1. /\ Len(v) \in Nat /\ DOMAIN v = 1..Len(v) /\ DOMAIN w = 1..(Len(v) + 1)
        /\ w[Len(v) + 1] = n /\ \A i \in DOMAIN v : w[i] = v[i]
    BY AppendProperties
  <1> HIDE DEF w
  <1>2. {w[i] : i \in DOMAIN w} = {v[i] : i \in DOMAIN v} \cup {n}
    <2>1. \A i \in DOMAIN w : i \in DOMAIN v \/ i = Len(v) + 1
      BY <1>1
    <2>2. DOMAIN v \subseteq DOMAIN w /\ Len(v) + 1 \in DOMAIN w
      BY <1>1
    <2>3. QED BY <1>1, <2>1, <2>2
  <1>3. QED BY <1>2 DEF ShownOf, w

LEMMA AppendEnds ==
  ASSUME NEW v \in Seq(Nat), NEW n \in Nat \ {0}, NEW R, \A i \in R : i \in Nat /\ i < n,
         EndsIn(v, R)
  PROVE  EndsIn(Append(v, 0), R) /\ EndsIn(Append(v, n), R \cup {n})
  <1>1. ASSUME NEW x \in Nat, x = 0 \/ x = n
        PROVE  \A i, j \in DOMAIN Append(v, x) :
                 i < j /\ Append(v, x)[j] # 0 => Append(v, x)[i] < Append(v, x)[j]
    <2> DEFINE w == Append(v, x)
    <2>1. /\ Len(v) \in Nat /\ DOMAIN v = 1..Len(v) /\ DOMAIN w = 1..(Len(v) + 1)
          /\ w[Len(v) + 1] = x /\ \A i \in DOMAIN v : w[i] = v[i]
      BY AppendProperties
    <2>2. \A i \in DOMAIN v : v[i] \in Nat /\ v[i] < n
      <3>1. \A i \in DOMAIN v : v[i] = 0 \/ v[i] \in R
        BY DEF EndsIn, ShownOf
      <3>2. QED BY <3>1
    <2> HIDE DEF w
    <2>3. ASSUME NEW i \in DOMAIN w, NEW j \in DOMAIN w, i < j, w[j] # 0
          PROVE  w[i] < w[j]
      <3>1. i \in DOMAIN v /\ (j \in DOMAIN v \/ j = Len(v) + 1)
        BY <2>1, <2>3
      <3>2. CASE j \in DOMAIN v
        BY <2>1, <2>3, <3>1, <3>2 DEF EndsIn
      <3>3. CASE j = Len(v) + 1
        BY <1>1, <2>1, <2>2, <2>3, <3>1, <3>3
      <3>4. QED BY <3>1, <3>2, <3>3
    <2>4. QED BY <2>3 DEF w
  <1>2. /\ ShownOf(Append(v, 0)) = ShownOf(v)
        /\ ShownOf(Append(v, n)) = ShownOf(v) \cup {n}
    BY AppendShows
  <1>3. EndsIn(Append(v, 0), R)
    BY <1>1, <1>2 DEF EndsIn
  <1>4. EndsIn(Append(v, n), R \cup {n})
    BY <1>1, <1>2 DEF EndsIn
  <1>5. QED BY <1>3, <1>4

----------------------------------------------------------------------------
(* The screen.                                                             *)

Ends == EndsIn(view, RowsOf(current))
Complete == RowsOf(current) \subseteq ShownOf(view)

\* The screen is that of a running program.  While the box over a cleared history
\* is open, it may show rows that are gone, but then with all that was stored since.
ViewInv ==
  /\ current # NoContact => phase = "run"
  /\ current # NoContact /\ Works /\ dialog # "cleared" => Ends
  /\ current # NoContact /\ Works /\ ~reloaded => Ends \/ Complete
  /\ Works /\ ~reloaded /\ exhausted => Complete

LEMMA NobodysRows == StoreType => RowsOf(NoContact) = {}
  BY ViewAssumption DEF StoreType, RowsType, Row, RowsOf

LEMMA WorksStays == UNCHANGED <<dbOpen, cols>> => Works' = Works
  BY DEF Works, AllColumns, Columns

LEMMA ConfigDialogs ==
  ASSUME ConfigStep, phase = "run", phase' # "off"
  PROVE  dialog' = dialog \/ (dialog # "cleared" /\ dialog' # "cleared")
  <1>1. CASE EnsureConfigured \/ CancelWizard \/ SwitchDialog \/ Quit
    BY <1>1 DEF EnsureConfigured, CancelWizard, SwitchDialog, Quit, Die
  <1>2. ASSUME NEW d \in Documents, OnAccept(d)
        PROVE  dialog' = dialog \/ (dialog # "cleared" /\ dialog' # "cleared")
    <2>1. (Save(FromJson(d)) \/ dialog' = dialog) /\ dialog = "invite"
      BY <1>2 DEF OnAccept, WizardIsOpen
    <2>2. QED BY <2>1 DEF Save, WizardDone, Die
  <1>3. QED BY <1>1, <1>2 DEF ConfigStep

LEMMA RowsNext == RowsOf(current)' = {i \in DOMAIN rows' : rows'[i].contact = current'}
  BY DEF RowsOf

LEMMA EndsNext ==
  ASSUME NEW R, R = RowsOf(current)', EndsIn(view', R)
  PROVE  Ends'
  BY DEF Ends, EndsIn, ShownOf

LEMMA CompleteNext ==
  ASSUME NEW R, R = RowsOf(current)', R \subseteq ShownOf(view')
  PROVE  Complete'
  BY DEF Complete, ShownOf

\* A step that leaves the rows, the schema and the screen as they are.
LEMMA ViewKept ==
  ASSUME ViewInv, UNCHANGED <<rows, cols, dbOpen, phase, current, view, exhausted, reloaded>>,
         dialog' = dialog \/ (dialog # "cleared" /\ dialog' # "cleared")
  PROVE  ViewInv'
  <1>1. Works' = Works
    BY WorksStays
  <1>2. RowsOf(current)' = RowsOf(current)
    BY DEF RowsOf
  <1>3. Ends => Ends'
    BY <1>2, EndsNext DEF Ends
  <1>4. Complete => Complete'
    BY <1>2, CompleteNext DEF Complete
  <1>5. QED BY <1>1, <1>3, <1>4 DEF ViewInv

\* A conversation that has just been loaded.
LEMMA ViewLoaded ==
  ASSUME StoreType, UNCHANGED <<rows, cols, dbOpen>>, phase' = "run",
         view' \in LoadConversation(current', 0), reloaded' \/ ~exhausted'
  PROVE  ViewInv'
  <1>1. Works' = Works
    BY WorksStays
  <1>2. RowsOf(current)' = RowsOf(current')
    BY RowsNext DEF RowsOf
  <1>3. Works => Ends'
    BY <1>2, LoadedEnds, EndsNext
  <1>4. QED BY <1>1, <1>3 DEF ViewInv

\* Nobody is on the screen.
LEMMA ViewOfNobody ==
  ASSUME StoreType', current' = NoContact
  PROVE  ViewInv'
  <1>1. RowsOf(current)' = {}
    BY RowsNext, ViewAssumption DEF StoreType, RowsType, Row
  <1>2. Complete'
    BY <1>1, CompleteNext
  <1>3. QED BY <1>2 DEF ViewInv

LEMMA ViewStored ==
  ASSUME TypeOK, KeyInv, ViewInv, NEW c \in Contacts, StoreAndShow(c)
  PROVE  ViewInv'
  <1> DEFINE R == RowsOf(current)
             n == IF lastId' > lastId THEN lastId' ELSE 0
  <1>1. StoreType /\ ViewType /\ AppendRow(c) /\ (dbOpen => key \in Keys)
    BY TypeParts DEF StoreAndShow, KeyInv
  <1>2. /\ UNCHANGED <<current, exhausted, reloaded, phase, dialog, cols, dbOpen>>
        /\ view' = IF current = c THEN Append(view, n) ELSE view
        /\ phase = "run"
    BY <1>1, AppendRowType DEF StoreAndShow, paging, program, Running
  <1>3. Works' = Works
    BY <1>2, WorksStays
  <1>4. lastId \in Nat /\ MaxRows \in Nat /\ view \in Seq(Nat)
    <2>1. 0..MaxRows \subseteq Nat /\ MaxRows \in Nat
      BY StoreAssumption
    <2>2. lastId \in 0..MaxRows /\ view \in Seq(0..MaxRows)
      BY <1>1 DEF StoreType, RowsType, ViewType
    <2>3. QED BY <2>1, <2>2
  <1>5. \A i \in R : i \in Nat /\ i < lastId + 1
    BY <1>1, <1>4 DEF StoreType, RowsType, RowsOf
  <1>6. CASE UNCHANGED <<rows, lastId>>
    <2>1. RowsOf(current)' = R /\ n = 0
      BY <1>2, <1>4, <1>6 DEF RowsOf
    <2>2. Ends => EndsIn(view', R)
      <3>1. lastId + 1 \in Nat \ {0}
        BY <1>4
      <3>2. Ends => EndsIn(Append(view, 0), R)
        BY <1>4, <1>5, <3>1, AppendEnds DEF Ends
      <3>3. QED BY <1>2, <2>1, <3>2 DEF Ends
    <2>3. Complete => R \subseteq ShownOf(view')
      BY <1>2, <1>4, <2>1, AppendShows DEF Complete
    <2>4. (Ends => Ends') /\ (Complete => Complete')
      BY <2>1, <2>2, <2>3, EndsNext, CompleteNext
    <2>5. QED BY <1>2, <1>3, <2>4 DEF ViewInv
  <1>7. CASE /\ Works /\ lastId' = lastId + 1 /\ lastId' \in 1..MaxRows
             /\ lastId' \notin DOMAIN rows
             /\ DOMAIN rows' = DOMAIN rows \cup {lastId'}
             /\ rows'[lastId'] = [contact |-> c, seal |-> key, hasId |-> TRUE]
             /\ \A i \in DOMAIN rows : rows'[i] = rows[i]
    <2>1. n = lastId' /\ lastId' \in Nat \ {0}
      BY <1>4, <1>7
    <2>2. rows'[lastId'].contact = c
      BY <1>7
    <2>3. RowsOf(current)' = IF current = c THEN R \cup {lastId'} ELSE R
      BY <1>2, <1>7, <2>2, RowsNext DEF RowsOf
    <2>4. CASE current = c
      <3>1. view' = Append(view, lastId') /\ RowsOf(current)' = R \cup {lastId'}
        BY <1>2, <2>1, <2>3, <2>4
      <3>2. Ends => EndsIn(view', R \cup {lastId'})
        BY <1>4, <1>5, <1>7, <2>1, <3>1, AppendEnds DEF Ends
      <3>3. Complete => R \cup {lastId'} \subseteq ShownOf(view')
        BY <1>4, <2>1, <3>1, AppendShows DEF Complete
      <3>4. (Ends => Ends') /\ (Complete => Complete')
        BY <3>1, <3>2, <3>3, EndsNext, CompleteNext
      <3>5. QED BY <1>2, <1>3, <3>4 DEF ViewInv
    <2>5. CASE current # c
      <3>1. view' = view /\ RowsOf(current)' = R
        BY <1>2, <2>3, <2>5
      <3>2. (Ends => Ends') /\ (Complete => Complete')
        BY <3>1, EndsNext, CompleteNext DEF Ends, Complete
      <3>3. QED BY <1>2, <1>3, <3>2 DEF ViewInv
    <2>6. QED BY <2>4, <2>5
  <1>8. QED BY <1>1, <1>6, <1>7, AppendRowType

LEMMA ViewOlder ==
  ASSUME TypeOK, ViewInv, LoadOlder
  PROVE  ViewInv'
  <1>1. StoreType /\ view \in Seq(0..MaxRows)
    BY TypeParts DEF ViewType
  <1>2. /\ UNCHANGED <<current, reloaded, rows, cols, dbOpen, phase, dialog>>
        /\ phase = "run" /\ current # NoContact
        /\ view # << >> /\ view[1] > 0 /\ ~exhausted
    BY DEF LoadOlder, configVars, program, storeVars, Running
  <1>3. PICK older \in LoadConversation(current, view[1]) :
          \/ older = << >> /\ UNCHANGED view
          \/ view' = older \o view /\ UNCHANGED exhausted
    BY DEF LoadOlder
  <1>4. Works' = Works /\ RowsOf(current)' = RowsOf(current)
    BY <1>2, WorksStays DEF RowsOf
  <1>5. CASE ~Works
    BY <1>2, <1>4, <1>5 DEF ViewInv
  <1>6. CASE Works
    <2>1. /\ ShownOf(older \o view) = ShownOf(older) \cup ShownOf(view)
          /\ Ends => EndsIn(older \o view, RowsOf(current))
          /\ Ends /\ older = << >> => Complete
      BY <1>1, <1>2, <1>6, OlderEnds DEF Ends, Complete
    <2>2. CASE older = << >> /\ UNCHANGED view
      <3>1. reloaded \/ Complete
        BY <1>2, <1>6, <2>1, <2>2 DEF ViewInv
      <3>2. (Ends => Ends') /\ (Complete => Complete')
        BY <1>4, <2>2, EndsNext, CompleteNext DEF Ends, Complete
      <3>3. QED BY <1>2, <1>4, <3>1, <3>2 DEF ViewInv
    <2>3. CASE view' = older \o view /\ UNCHANGED exhausted
      <3>1. Ends => Ends'
        BY <1>4, <2>1, <2>3, EndsNext
      <3>2. Complete => Complete'
        BY <1>4, <2>1, <2>3, CompleteNext DEF Complete
      <3>3. QED BY <1>2, <1>4, <2>3, <3>1, <3>2 DEF ViewInv
    <2>4. QED BY <1>3, <2>2, <2>3
  <1>7. QED BY <1>5, <1>6

LEMMA ViewInvStep ==
  ASSUME TypeOK, KeyInv, DialogInv, ViewInv, [Next]_vars
  PROVE  ViewInv'
  <1>t. StoreType /\ StoreType' /\ ProgramType
    BY StoreStep, TypeParts
  <1>1. CASE (ConfigStepOnFiles \/ Open \/ CrashInOpen) /\ EndsView
    <2>1. CASE phase' = "off" \/ current = NoContact
      <3>1. current' = NoContact
        BY <1>1, <2>1 DEF EndsView, viewVars
      <3>2. QED BY <1>t, <3>1, ViewOfNobody
    <2>2. CASE phase' # "off" /\ current # NoContact
      <3>1. phase = "run" /\ UNCHANGED viewVars
        BY <1>1, <2>2 DEF EndsView, ViewInv
      <3>2. ~Open /\ ~CrashInOpen
        <4>1. ~InitKey /\ ~WriteKey /\ ~CreateTable /\ ~CrashInOpen
          BY <3>1 DEF InitKey, WriteKey, CreateTable, CrashInOpen
        <4>2. ~MigrateToEncrypted
          BY <3>1, EncryptStep
        <4>3. ~(MigrateAddMsgId \/ MigrateAddRead \/ MigrateAddKind)
          BY <3>1, Migrations DEF PassedOver, ColumnAdded, AddFailed, Marked, Filled
        <4>4. QED BY <4>1, <4>2, <4>3 DEF Open
      <3>3. ConfigStepOnFiles
        BY <1>1, <3>2
      <3>4. UNCHANGED <<rows, cols, dbOpen>> /\ ConfigStep
        BY <2>2, <3>3 DEF ConfigStepOnFiles, files
      <3>5. phase' = phase
        BY <2>2, <3>1, <3>4, ConfigPhases
      <3>6. dialog' = dialog \/ (dialog # "cleared" /\ dialog' # "cleared")
        BY <2>2, <3>1, <3>4, ConfigDialogs
      <3>7. QED BY <3>1, <3>4, <3>5, <3>6, ViewKept DEF viewVars, paging
    <2>3. QED BY <2>1, <2>2
  <1>2. ASSUME NEW c \in Contacts, SelectContact(c)
        PROVE  ViewInv'
    <2>1. /\ UNCHANGED <<rows, cols, dbOpen, phase, dialog>> /\ phase = "run"
          /\ current' = c /\ view' \in LoadConversation(c, 0) /\ exhausted' = FALSE
      BY <1>2 DEF SelectContact, configVars, program, storeVars, Running
    <2>2. QED BY <1>t, <2>1, ViewLoaded
  <1>3. CASE ReloadOnMark
    <2>1. /\ UNCHANGED <<rows, cols, dbOpen, phase, current>> /\ phase = "run"
          /\ view' \in LoadConversation(current, 0) /\ reloaded' = TRUE
      BY <1>3 DEF ReloadOnMark, configVars, program, storeVars, Running
    <2>2. QED BY <1>t, <2>1, ViewLoaded
  <1>4. CASE HistoryCleared
    <2>1. UNCHANGED <<rows, cols, dbOpen, phase, current>> /\ phase = "run" /\ reloaded' = TRUE
      BY <1>4 DEF HistoryCleared, storeVars, DialogInv
    <2>2. CASE current = NoContact
      BY <1>t, <2>1, <2>2, ViewOfNobody
    <2>3. CASE current # NoContact
      <3>1. view' \in LoadConversation(current, 0)
        BY <1>4, <2>3 DEF HistoryCleared
      <3>2. QED BY <1>t, <2>1, <3>1, ViewLoaded
    <2>4. QED BY <2>2, <2>3
  <1>5. CASE ClearHistory
    <2>1. /\ UNCHANGED <<phase, current>> /\ rows' = << >> /\ phase = "run"
          /\ dialog' = "cleared"
      BY <1>5 DEF ClearHistory, DeleteRows, viewVars, Running
    <2>2. RowsOf(current)' = {}
      <3>1. DOMAIN << >> = {}
        OBVIOUS
      <3>2. QED BY <2>1, <3>1, RowsNext
    <2>3. Complete'
      BY <2>2, CompleteNext
    <2>4. QED BY <2>1, <2>3 DEF ViewInv
  <1>6. CASE RestoreScroll \/ UNCHANGED vars
    <2>1. UNCHANGED <<rows, cols, dbOpen, phase, current, view, exhausted, reloaded, dialog>>
      BY <1>6 DEF RestoreScroll, vars, configVars, program, storeVars, viewVars, paging
    <2>2. QED BY <2>1, ViewKept
  <1>7. QED
    BY <1>1, <1>2, <1>3, <1>4, <1>5, <1>6, ViewStored, ViewOlder
    DEF Next, AppendMessage, LogCallEvent

LEMMA ViewInit == Init => ViewInv
  <1> SUFFICES ASSUME Init PROVE ViewInv
    OBVIOUS
  <1>1. current = NoContact /\ dialog = "none" /\ exhausted = FALSE
    BY DEF Init, NoView, ConfigInit
  <1>2. QED BY <1>1 DEF ViewInv

LEMMA ViewImplies ==
  ASSUME TypeOK, ViewInv
  PROVE  WindowIsSuffix /\ ExhaustedShowsAll
  <1>1. WindowIsSuffix
    BY WindowMeans DEF ViewInv, Ends
  <1>2. ExhaustedShowsAll
    <2>1. Shown = ShownOf(view)
      BY DEF Shown, ShownOf
    <2>2. QED BY <2>1 DEF ViewInv, ExhaustedShowsAll, Complete
  <1>3. QED BY <1>1, <1>2

\* The screen shows the end of the conversation without a gap, whatever pages,
\* texts, marks and cleared histories follow each other, and whatever fails
\* (WindowIsSuffix).
THEOREM ScreenEndsConversation == Spec => []WindowIsSuffix
  BY TypeInit, TypeStep, DialogInit, DialogStep, ViewInit, ViewInvStep, ViewImplies, PTL DEF Spec

\* Paging gives up only when the whole conversation is on the screen
\* (ExhaustedShowsAll).
THEOREM ExhaustedMeansAll == Spec => []ExhaustedShowsAll
  BY TypeInit, TypeStep, DialogInit, DialogStep, ViewInit, ViewInvStep, ViewImplies, PTL DEF Spec
=============================================================================
