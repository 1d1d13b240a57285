------------------------ MODULE StatusMonitorProofs ------------------------
(***************************************************************************)
(* Proofs about StatusMonitor for any sets of conversations and resources, *)
(* any reports of the server and any number of restarts.                   *)
(***************************************************************************)
EXTENDS StatusMonitor, TLAPS

USE DEF table, monitor, outside, vars

-----------------------------------------------------------------------------
(* Data.                                                                   *)

LEMMA NoRowIsNoRow == /\ NoRow \notin Row
                      /\ NoRow.conv \notin Key
                      /\ NoRow.note = None
BY NamesAssumption DEF NoRow, Row, Key

LEMMA NotTrackedIsNoEntry == NotTracked \notin Entry
BY NamesAssumption DEF NotTracked, Entry

LEMMA StatusOfType ==
    ASSUME NEW report \in Report
    PROVE  StatusOf(report) \in Statuses
<1>1. CASE report.exec = None
  BY <1>1 DEF StatusOf, Statuses
<1>2. CASE report.exec # None
  <2>1. report.exec \in Executions
    BY <1>2 DEF Report
  <2> QED
    BY <1>2, <2>1 DEF StatusOf, MapExecutionStatus, Executions, Statuses
<1> QED
  BY <1>1, <1>2

LEMMA ReportIsNotNone == \A report \in Report : report # None
BY NamesAssumption

\* The table's writes keep rows well formed.
LEMMA StoredType ==
    ASSUME TypeOK, NEW r \in Resource, NEW k \in Key
    PROVE  Stored(r, k) \in [Resource -> Row \cup {NoRow}]
BY NamesAssumption, NoRowIsNoRow DEF Stored, TypeOK, Row, Key

LEMMA NoteOfType ==
    ASSUME TypeOK, NEW c \in Conv
    PROVE  NoteOf(c) \in [Resource -> Row \cup {NoRow}]
BY NamesAssumption, NoRowIsNoRow DEF NoteOf, TypeOK, Row, Key

LEMMA LastOfType ==
    ASSUME TypeOK, NEW c \in Conv, NEW status \in Statuses
    PROVE  LastOf(c, status) \in [Resource -> Row \cup {NoRow}]
BY NamesAssumption, NoRowIsNoRow DEF LastOf, TypeOK, Row, Key

\* A row that names somebody is a row.
LEMMA NamedRow ==
    ASSUME TypeOK, NEW r \in Resource, row[r].conv \in Key
    PROVE  row[r] \in Row
BY NoRowIsNoRow DEF TypeOK

LEMMA EntryOf ==
    ASSUME TypeOK, NEW k \in Key
    PROVE  /\ tracked[k] # NotTracked => tracked[k] \in Entry
           /\ todo[k] # NotTracked => todo[k] \in Entry
BY DEF TypeOK

-----------------------------------------------------------------------------
(* Type correctness.                                                       *)

LEMMA InitInv == Init => IInv
<1> SUFFICES ASSUME Init PROVE IInv
  OBVIOUS
<1>1. TypeOK
  BY MaxRestartsAssumption DEF Init, TypeOK, ToLookAt, Entries
<1>2. /\ RowsAreOwn /\ EntriesAreOwn /\ CopyIsTracked /\ UpdateInOrder
      /\ SendsToOwnResource /\ LastStatusAgrees
  BY NoRowIsNoRow, NamesAssumption
  DEF Init, RowsAreOwn, EntriesAreOwn, CopyIsTracked, UpdateInOrder,
      SendsToOwnResource, LastStatusAgrees, ToLookAt, Entries, Key
<1> QED
  BY <1>1, <1>2 DEF IInv

\* An entry's replacement or removal in the poll's own variables.
LEMMA DoneWithType ==
    ASSUME TypeOK, NEW k \in Key, DoneWith(k)
    PROVE  /\ todo' \in [Key -> Entry \cup {NotTracked}]
           /\ answer' \in [Key -> Statuses \cup {None}]
           /\ current' = None /\ pc' = "loop"
           /\ {j \in Key : todo'[j] # NotTracked} = ToLookAt \ {k}
BY DEF DoneWith, TypeOK, ToLookAt

LEMMA DroppedType ==
    ASSUME TypeOK, NEW k \in Key
    PROVE  /\ Dropped(k) \in [Key -> Entry \cup {NotTracked}]
           /\ \A j \in Entries \ {k} : Dropped(k)[j] # NotTracked
BY DEF Dropped, TypeOK, Entries

\* TypeOK is preserved: the table and its tasks, then the monitor.
LEMMA TableTypeStep ==
    ASSUME IInv,
           \/ \E r \in Reclaimed : Claim(r) \/ ClearConversation(r)
           \/ \E c \in Conv : \E report \in ReportsOf[c] :
                 StoreConversation(c, report) \/ ServerChanges(c, report)
           \/ \E c \in Conv : Track(c) \/ EndUntracked(c)
           \/ \E c \in Conv, ok \in BOOLEAN : WriteMetadata(c, ok)
           \/ Restart
    PROVE  TypeOK'
<1> USE DEF IInv
<1>1. ASSUME NEW r \in Reclaimed, Claim(r) PROVE TypeOK'
  <2>1. r \in Resource /\ Pending \in Key
    BY ReclaimedAssumption DEF Key
  <2> QED
    BY <1>1, <2>1, StoredType DEF Claim, TypeOK, ToLookAt, Entries
<1>2. ASSUME NEW r \in Reclaimed, ClearConversation(r) PROVE TypeOK'
  BY <1>2, ReclaimedAssumption DEF ClearConversation, TypeOK, ToLookAt, Entries
<1>3. ASSUME NEW c \in Conv, NEW report \in ReportsOf[c]
      PROVE  report \in Report /\ report # None
  <2>1. report \in Report
    BY <1>3, ReportAssumption
  <2> QED
    BY <2>1, ReportIsNotNone
<1>4. ASSUME NEW c \in Conv, NEW report \in ReportsOf[c],
             StoreConversation(c, report)
      PROVE  TypeOK'
  <2>1. ResourceOf[c] \in Resource /\ c \in Key
    BY ResourceAssumption DEF Key
  <2>2. row' \in [Resource -> Row \cup {NoRow}]
    BY <1>4, <2>1, StoredType DEF StoreConversation
  <2> QED
    BY <1>3, <1>4, <2>2 DEF StoreConversation, TypeOK, ToLookAt, Entries
<1>5. ASSUME NEW c \in Conv, NEW report \in ReportsOf[c],
             ServerChanges(c, report)
      PROVE  TypeOK'
  BY <1>3, <1>5 DEF ServerChanges, TypeOK, ToLookAt, Entries
<1>6. ASSUME NEW c \in Conv, Track(c) PROVE TypeOK'
  <2>1. [note |-> c, last |-> None] \in Entry
    BY DEF Entry
  <2>2. tracked' \in [Key -> Entry \cup {NotTracked}]
    BY <1>6, <2>1 DEF Track, TypeOK
  <2>3. Entries \subseteq Entries'
    BY <1>6, <2>1, NotTrackedIsNoEntry DEF Track, TypeOK, Entries
  <2> QED
    BY <1>6, <2>2, <2>3 DEF Track, TypeOK, ToLookAt
<1>7. ASSUME NEW c \in Conv, EndUntracked(c) PROVE TypeOK'
  BY <1>7 DEF EndUntracked, TypeOK, ToLookAt, Entries
<1>8. ASSUME NEW c \in Conv, NEW ok \in BOOLEAN, WriteMetadata(c, ok) PROVE TypeOK'
  BY <1>8, NoteOfType DEF WriteMetadata, TypeOK, ToLookAt, Entries
<1>9. ASSUME Restart PROVE TypeOK'
  BY <1>9, MaxRestartsAssumption DEF Restart, TypeOK, ToLookAt, Entries
<1> QED
  BY <1>1, <1>2, <1>4, <1>5, <1>6, <1>7, <1>8, <1>9

LEMMA MonitorTypeStep ==
    ASSUME IInv, Monitor \/ Die
    PROVE  TypeOK'
<1> USE DEF IInv
<1>1. CASE Load
  <2>1. ASSUME NEW k \in Key, NEW r \in Loadable(k)
        PROVE  [note |-> row[r].note, last |-> row[r].last] \in Entry
    BY <2>1, NamedRow DEF Loadable, Row, Entry
  <2>2. PICK first \in [Key -> Resource] :
          /\ \A k \in Key : Loadable(k) # {} => first[k] \in Loadable(k)
          /\ tracked' = [k \in Key |->
                            IF k \in Entries \/ Loadable(k) = {} THEN tracked[k]
                            ELSE [note |-> row[first[k]].note,
                                  last |-> row[first[k]].last]]
    BY <1>1 DEF Load
  <2>3. ASSUME NEW k \in Key
        PROVE  /\ tracked'[k] \in Entry \cup {NotTracked}
               /\ k \in Entries => tracked'[k] = tracked[k]
    BY <2>1, <2>2, <2>3 DEF TypeOK
  <2>4. tracked' \in [Key -> Entry \cup {NotTracked}]
    BY <2>2, <2>3
  <2>5. Entries \subseteq Entries'
    BY <2>3 DEF Entries
  <2> QED
    BY <1>1, <2>4, <2>5 DEF Load, TypeOK, ToLookAt
<1>2. CASE Poll
  BY <1>2 DEF Poll, TypeOK, ToLookAt, Entries
<1>3. ASSUME NEW known \in SUBSET asked, Fetch(known) PROVE TypeOK'
  <2>1. ASSUME NEW c \in known PROVE c \in Conv /\ StatusOf(server[c]) \in Statuses
    <3>1. c \in Conv /\ c \in asked
      BY <1>3 DEF Fetch
    <3>2. server[c] \in Report
      BY <3>1 DEF EntriesAreOwn, TypeOK
    <3> QED
      BY <3>1, <3>2, StatusOfType
  <2>2. answer' \in [Key -> Statuses \cup {None}]
    BY <1>3, <2>1 DEF Fetch
  <2> QED
    BY <1>3, <2>2 DEF Fetch, TypeOK, ToLookAt, Entries
<1>4. CASE EndPoll
  BY <1>4 DEF EndPoll, TypeOK, ToLookAt, Entries
<1>5. ASSUME NEW k \in Key, Skip(k) PROVE TypeOK'
  BY <1>5, DoneWithType DEF Skip, TypeOK, ToLookAt, Entries
<1>6. ASSUME NEW k \in Key, SameStatus(k) PROVE TypeOK'
  BY <1>6, DoneWithType, DroppedType DEF SameStatus, TypeOK, ToLookAt, Entries
<1>7. ASSUME NEW k \in Key, NewStatus(k) PROVE TypeOK'
  <2>1. k \in Conv /\ answer[k] \in Statuses
    BY <1>7 DEF NewStatus, UpdateInOrder, TypeOK, Key
  <2>2. todo[k] \in Entry /\ k \in Entries
    BY <1>7 DEF NewStatus, TypeOK, ToLookAt
  <2>3. [todo[k] EXCEPT !.last = answer[k]] \in Entry
    BY <2>1, <2>2 DEF Entry
  <2>4. /\ todo' \in [Key -> Entry \cup {NotTracked}]
        /\ tracked' \in [Key -> Entry \cup {NotTracked}]
    BY <1>7, <2>3 DEF NewStatus, TypeOK
  <2>5. /\ todo'[k] # NotTracked /\ tracked'[k] # NotTracked
        /\ \A j \in Key \ {k} : todo'[j] = todo[j] /\ tracked'[j] = tracked[j]
    BY <1>7, <2>2, <2>3, NotTrackedIsNoEntry DEF NewStatus, TypeOK, Entries
  <2> QED
    BY <1>7, <2>1, <2>4, <2>5, NamesAssumption
    DEF NewStatus, TypeOK, ToLookAt, Entries
<1>8. ASSUME NEW ok \in BOOLEAN, Record(ok) PROVE TypeOK'
  <2>1. current \in Conv /\ current \in Key /\ answer[current] \in Statuses
    BY <1>8 DEF Record, TypeOK, Key
  <2>2. CASE ok
    BY <1>8, <2>1, <2>2, LastOfType DEF Record, TypeOK, ToLookAt, Entries
  <2>3. CASE ~ok
    BY <1>8, <2>1, <2>3, DoneWithType DEF Record, TypeOK, ToLookAt, Entries
  <2> QED
    BY <2>2, <2>3
<1>9. ASSUME NEW ok \in BOOLEAN, Show(ok) PROVE TypeOK'
  <2>1. current \in Conv /\ current \in Key /\ answer[current] \in Statuses
    BY <1>9 DEF Show, TypeOK, Key
  <2>2. todo[current].note \in Conv
    BY <1>9, <2>1 DEF Show, TypeOK, ToLookAt, Entry
  <2>3. sent' \in [Conv -> Conv \cup {None}]
    BY <1>9, <2>1, <2>2 DEF Show, TypeOK
  <2> QED
    BY <1>9, <2>1, <2>3, DoneWithType, DroppedType DEF Show, TypeOK, ToLookAt, Entries
<1>10. CASE Die
  BY <1>10 DEF Die, TypeOK, ToLookAt, Entries
<1> QED
  BY <1>1, <1>2, <1>3, <1>4, <1>5, <1>6, <1>7, <1>8, <1>9, <1>10 DEF Monitor, Look

LEMMA TypeStep ==
    ASSUME IInv, [Next]_vars
    PROVE  TypeOK'
<1>1. CASE UNCHANGED vars
  BY <1>1 DEF IInv, TypeOK, ToLookAt, Entries
<1> QED
  BY <1>1, TableTypeStep, MonitorTypeStep DEF Next

-----------------------------------------------------------------------------
(* Rows, entries and comments stay with their resource.                    *)

\* What the writes of the table leave in a row.
LEMMA StoredRow ==
    ASSUME TypeOK, NEW r \in Resource, NEW k \in Key
    PROVE  /\ Stored(r, k)[r].conv = k
           /\ Stored(r, k)[r].note = row[r].note
           /\ \A q \in Resource \ {r} : Stored(r, k)[q] = row[q]
BY DEF Stored, TypeOK, Row, NoRow

LEMMA NoteOfRow ==
    ASSUME TypeOK, NEW c \in Conv, NEW r \in Resource
    PROVE  /\ NoteOf(c)[r].conv = row[r].conv
           /\ NoteOf(c)[r].last = row[r].last
           /\ NoteOf(c)[r].note = IF row[r].conv = c THEN c ELSE row[r].note
BY NamesAssumption, NoRowIsNoRow DEF NoteOf, TypeOK, Row, Key, NoRow

LEMMA LastOfRow ==
    ASSUME TypeOK, NEW c \in Conv, NEW status, NEW r \in Resource
    PROVE  /\ LastOf(c, status)[r].conv = row[r].conv
           /\ LastOf(c, status)[r].note = row[r].note
           /\ LastOf(c, status)[r].last =
                 IF row[r].conv = c THEN status ELSE row[r].last
BY NamesAssumption, NoRowIsNoRow DEF LastOf, TypeOK, Row, Key, NoRow

LEMMA RowsStep ==
    ASSUME IInv, [Next]_vars
    PROVE  RowsAreOwn'
<1> USE DEF IInv
<1>1. ASSUME NEW r \in Reclaimed, Claim(r) PROVE RowsAreOwn'
  <2>1. r \in Resource /\ Pending \in Key /\ Pending \notin Conv
    BY ReclaimedAssumption, NamesAssumption DEF Key
  <2> QED
    BY <1>1, <2>1, StoredRow DEF Claim, RowsAreOwn
<1>2. ASSUME NEW r \in Reclaimed, ClearConversation(r) PROVE RowsAreOwn'
  BY <1>2, ReclaimedAssumption, NamesAssumption
  DEF ClearConversation, RowsAreOwn, TypeOK, NoRow
<1>3. ASSUME NEW c \in Conv, NEW report \in ReportsOf[c],
             StoreConversation(c, report)
      PROVE  RowsAreOwn'
  <2>1. ResourceOf[c] \in Resource /\ c \in Key
    BY ResourceAssumption DEF Key
  <2>2. task' \in [Conv -> {"creating", "stored", "ended"}] /\ task'[c] = "stored"
        /\ \A q \in Conv \ {c} : task'[q] = task[q]
    BY <1>3 DEF StoreConversation, TypeOK
  <2> QED
    BY <1>3, <2>1, <2>2, StoredRow DEF StoreConversation, RowsAreOwn
<1>4. ASSUME NEW c \in Conv, Track(c) \/ EndUntracked(c)
      PROVE  RowsAreOwn'
  BY <1>4 DEF Track, EndUntracked, RowsAreOwn, TypeOK
<1>5. ASSUME NEW c \in Conv, NEW ok \in BOOLEAN, WriteMetadata(c, ok)
      PROVE  RowsAreOwn'
  BY <1>5, NoteOfRow DEF WriteMetadata, RowsAreOwn
<1>6. ASSUME NEW ok \in BOOLEAN, Record(ok) PROVE RowsAreOwn'
  <2>1. current \in Conv
    BY <1>6 DEF Record, TypeOK
  <2> QED
    BY <1>6, <2>1, LastOfRow DEF Record, RowsAreOwn
<1>7. CASE Restart
  BY <1>7 DEF Restart, RowsAreOwn, TypeOK
<1>8. ASSUME UNCHANGED <<row, task>> PROVE RowsAreOwn'
  BY <1>8 DEF RowsAreOwn
<1>9. ASSUME NEW c \in Conv, NEW report \in ReportsOf[c],
             ServerChanges(c, report)
      PROVE  RowsAreOwn'
  BY <1>8, <1>9 DEF ServerChanges
<1>10. CASE Monitor \/ Die
  BY <1>6, <1>8, <1>10
  DEF Monitor, Look, Load, Poll, EndPoll, Fetch, Skip, SameStatus, NewStatus,
      Show, Die
<1>11. CASE UNCHANGED vars
  BY <1>8, <1>11
<1> QED
  BY <1>1, <1>2, <1>3, <1>4, <1>5, <1>7, <1>9, <1>10, <1>11 DEF Next

\* The poll's own variables when it is done with an entry.
LEMMA DoneWithEntries ==
    ASSUME TypeOK, NEW k \in Key, DoneWith(k)
    PROVE  /\ todo'[k] = NotTracked /\ answer'[k] = None
           /\ \A j \in Key \ {k} : todo'[j] = todo[j] /\ answer'[j] = answer[j]
BY DEF DoneWith, TypeOK

LEMMA DroppedEntries ==
    ASSUME TypeOK, NEW k \in Key
    PROVE  \A j \in Key : /\ Dropped(k)[j] \in {tracked[j], NotTracked}
                          /\ j # k => Dropped(k)[j] = tracked[j]
BY DEF Dropped, TypeOK

\* What NewStatus makes of the two copies of an entry.
LEMMA NewStatusEntries ==
    ASSUME TypeOK, NEW k \in Key, NewStatus(k)
    PROVE  /\ todo'[k].note = todo[k].note /\ todo'[k].last = answer[k]
           /\ todo'[k] # NotTracked
           /\ IF tracked[k] = todo[k] THEN tracked'[k] = todo'[k]
                                      ELSE tracked'[k] = tracked[k]
           /\ \A j \in Key \ {k} : todo'[j] = todo[j] /\ tracked'[j] = tracked[j]
<1>1. todo[k] \in Entry
  BY DEF NewStatus, TypeOK, ToLookAt
<1>2. todo'[k] = [todo[k] EXCEPT !.last = answer[k]]
  BY DEF NewStatus, TypeOK
<1>3. todo'[k].note = todo[k].note /\ todo'[k].last = answer[k]
  BY <1>1, <1>2 DEF Entry
<1>4. todo'[k] # NotTracked
  BY <1>1, <1>3, NamesAssumption DEF Entry, NotTracked
<1>5. IF tracked[k] = todo[k] THEN tracked'[k] = todo'[k]
                              ELSE tracked'[k] = tracked[k]
  BY <1>2 DEF NewStatus, TypeOK
<1>6. \A j \in Key \ {k} : todo'[j] = todo[j] /\ tracked'[j] = tracked[j]
  BY DEF NewStatus, TypeOK
<1> QED
  BY <1>3, <1>4, <1>5, <1>6

LEMMA LoadEntries ==
    ASSUME TypeOK, Load, NEW k \in Key
    PROVE  \/ tracked'[k] = tracked[k]
           \/ /\ tracked[k] = NotTracked
              /\ \E r \in Loadable(k) :
                    tracked'[k] = [note |-> row[r].note, last |-> row[r].last]
BY DEF Load, Entries

LEMMA EntriesStep ==
    ASSUME IInv, [Next]_vars
    PROVE  EntriesAreOwn'
<1> USE DEF IInv
<1>1. \A c \in Conv : c \in Key
  BY DEF Key
<1>2. ASSUME UNCHANGED <<tracked, todo, asked>>,
             \A c \in Conv : task[c] # "creating" => task'[c] # "creating"
      PROVE  EntriesAreOwn'
  BY <1>2 DEF EntriesAreOwn
<1>3. CASE \/ \E r \in Reclaimed : Claim(r) \/ ClearConversation(r)
           \/ \E c \in Conv : \E report \in ReportsOf[c] :
                 StoreConversation(c, report) \/ ServerChanges(c, report)
           \/ \E c \in Conv, ok \in BOOLEAN : WriteMetadata(c, ok)
  BY <1>2, <1>3 DEF Claim, ClearConversation, StoreConversation, ServerChanges,
                    WriteMetadata, TypeOK
<1>4. ASSUME NEW c \in Conv, EndUntracked(c) PROVE EntriesAreOwn'
  BY <1>2, <1>4 DEF EndUntracked, TypeOK
<1>5. ASSUME NEW c \in Conv, Track(c) PROVE EntriesAreOwn'
  BY <1>1, <1>5 DEF Track, EntriesAreOwn, TypeOK
<1>6. CASE Load
  <2>1. ASSUME NEW c \in Conv, NEW r \in Loadable(c)
        PROVE  ResourceOf[row[r].note] = ResourceOf[c] /\ task[c] # "creating"
    BY <2>1 DEF Loadable, RowsAreOwn
  <2>2. ASSUME NEW c \in Conv, tracked'[c] # NotTracked
        PROVE  ResourceOf[tracked'[c].note] = ResourceOf[c] /\ task[c] # "creating"
    <3>1. CASE tracked'[c] = tracked[c]
      BY <2>2, <3>1 DEF EntriesAreOwn
    <3>2. ASSUME NEW r \in Loadable(c),
                 tracked'[c] = [note |-> row[r].note, last |-> row[r].last]
          PROVE  ResourceOf[tracked'[c].note] = ResourceOf[c] /\ task[c] # "creating"
      BY <2>1, <3>2
    <3> QED
      BY <1>1, <1>6, <3>1, <3>2, LoadEntries
  <2> QED
    BY <1>6, <2>2 DEF Load, EntriesAreOwn
<1>7. CASE Poll
  BY <1>7 DEF Poll, EntriesAreOwn, Entries
<1>8. ASSUME NEW known \in SUBSET asked, Fetch(known) PROVE EntriesAreOwn'
  BY <1>8 DEF Fetch, EntriesAreOwn
<1>9. ASSUME NEW k \in Key, Skip(k) \/ SameStatus(k) PROVE EntriesAreOwn'
  BY <1>1, <1>9, DoneWithEntries, DroppedEntries
  DEF Skip, SameStatus, EntriesAreOwn
<1>10. ASSUME NEW k \in Key, NewStatus(k) PROVE EntriesAreOwn'
  <2>1. todo[k] # NotTracked
    BY <1>10 DEF NewStatus, ToLookAt
  <2>2. UNCHANGED <<task, asked>>
    BY <1>10 DEF NewStatus
  <2>3. k \in Entries
    BY <1>10 DEF NewStatus, TypeOK
  <2> QED
    BY <1>1, <1>10, <2>1, <2>2, <2>3, NewStatusEntries DEF EntriesAreOwn, Entries
<1>11. ASSUME NEW ok \in BOOLEAN, Record(ok) PROVE EntriesAreOwn'
  <2>1. current \in Key
    BY <1>1, <1>11 DEF Record, TypeOK
  <2> QED
    BY <1>1, <1>11, <2>1, DoneWithEntries DEF Record, EntriesAreOwn
<1>12. ASSUME NEW ok \in BOOLEAN, Show(ok)
       PROVE  EntriesAreOwn'
  <2>1. current \in Key
    BY <1>1, <1>12 DEF Show, TypeOK
  <2> QED
    BY <1>1, <1>12, <2>1, DoneWithEntries, DroppedEntries DEF Show, EntriesAreOwn
<1>13. CASE EndPoll \/ Die
  BY <1>13 DEF EndPoll, Die, EntriesAreOwn
<1>14. CASE Restart
  BY <1>1, <1>14 DEF Restart, EntriesAreOwn, TypeOK
<1>15. CASE UNCHANGED vars
  BY <1>2, <1>15
<1> QED
  BY <1>3, <1>4, <1>5, <1>6, <1>7, <1>8, <1>9, <1>10, <1>11, <1>12, <1>13,
     <1>14, <1>15 DEF Next, Monitor, Look

-----------------------------------------------------------------------------
(* What a poll does with its copy.                                         *)

LEMMA CopyStep ==
    ASSUME IInv, [Next]_vars
    PROVE  CopyIsTracked'
<1> USE DEF IInv
<1>1. \A c \in Conv : c \in Key
  BY DEF Key
<1>2. ASSUME UNCHANGED <<tracked, todo>> PROVE CopyIsTracked'
  BY <1>2 DEF CopyIsTracked, ToLookAt
<1>3. ASSUME NEW c \in Conv, Track(c) PROVE CopyIsTracked'
  BY <1>1, <1>3 DEF Track, CopyIsTracked, ToLookAt, TypeOK
<1>4. CASE Load
  <2>1. \A k \in ToLookAt : tracked[k] # NotTracked
    BY DEF TypeOK, Entries
  <2>2. todo' = todo
    BY <1>4 DEF Load
  <2> QED
    BY <1>4, <2>1, <2>2, LoadEntries DEF CopyIsTracked, ToLookAt
<1>5. ASSUME NEW known \in SUBSET asked, Fetch(known) PROVE CopyIsTracked'
  BY <1>5 DEF Fetch, CopyIsTracked
<1>6. ASSUME NEW k \in Key, Skip(k) \/ SameStatus(k) PROVE CopyIsTracked'
  BY <1>6, DoneWithEntries, DroppedEntries
  DEF Skip, SameStatus, CopyIsTracked, ToLookAt
<1>7. ASSUME NEW k \in Key, NewStatus(k) PROVE CopyIsTracked'
  <2>1. k \in ToLookAt
    BY <1>7 DEF NewStatus
  <2> QED
    BY <1>7, <2>1, NewStatusEntries DEF CopyIsTracked, ToLookAt
<1>8. ASSUME NEW ok \in BOOLEAN, Record(ok) PROVE CopyIsTracked'
  <2>1. current \in Key
    BY <1>1, <1>8 DEF Record, TypeOK
  <2> QED
    BY <1>8, <2>1, DoneWithEntries DEF Record, CopyIsTracked, ToLookAt
<1>9. ASSUME NEW ok \in BOOLEAN, Show(ok)
      PROVE  CopyIsTracked'
  <2>1. current \in Key
    BY <1>1, <1>9 DEF Show, TypeOK
  <2> QED
    BY <1>9, <2>1, DoneWithEntries, DroppedEntries
    DEF Show, CopyIsTracked, ToLookAt
<1>10. CASE Restart
  BY <1>10 DEF Restart, CopyIsTracked, ToLookAt
<1>11. CASE UNCHANGED vars
  BY <1>2, <1>11
<1>12. CASE Poll \/ EndPoll \/ Die
  BY <1>2, <1>12 DEF Poll, EndPoll, Die
<1>13. CASE \/ \E r \in Reclaimed : Claim(r) \/ ClearConversation(r)
            \/ \E c \in Conv : \E report \in ReportsOf[c] :
                  StoreConversation(c, report) \/ ServerChanges(c, report)
            \/ \E c \in Conv : EndUntracked(c)
            \/ \E c \in Conv, ok \in BOOLEAN : WriteMetadata(c, ok)
  BY <1>2, <1>13 DEF Claim, ClearConversation, StoreConversation, ServerChanges,
                     EndUntracked, WriteMetadata
<1> QED
  BY <1>3, <1>4, <1>5, <1>6, <1>7, <1>8, <1>9, <1>10, <1>11, <1>12, <1>13
  DEF Next, Monitor, Look

LEMMA UpdateStep ==
    ASSUME IInv, [Next]_vars
    PROVE  UpdateInOrder'
<1> USE DEF IInv
<1>1. Pending \in Key /\ \A c \in Conv : c \in Key
  BY DEF Key
<1>2. ASSUME UNCHANGED <<answer, pc, todo, current, update>> PROVE UpdateInOrder'
  BY <1>2 DEF UpdateInOrder
<1>3. ASSUME answer' = answer, pc' \notin {"record", "show"} PROVE UpdateInOrder'
  BY <1>3 DEF UpdateInOrder
<1>4. ASSUME NEW known \in SUBSET asked, Fetch(known) PROVE UpdateInOrder'
  BY <1>1, <1>4, NamesAssumption DEF Fetch, UpdateInOrder
<1>5. ASSUME NEW k \in Key, DoneWith(k) PROVE UpdateInOrder'
  BY <1>5, <1>1, DoneWithEntries DEF DoneWith, UpdateInOrder
<1>6. ASSUME NEW k \in Key, NewStatus(k) PROVE UpdateInOrder'
  <2>1. /\ answer' = answer /\ pc' = "record" /\ current' = k
    BY <1>6 DEF NewStatus
  <2> QED
    BY <1>6, <2>1, NewStatusEntries DEF UpdateInOrder
<1>7. ASSUME NEW ok \in BOOLEAN, Record(ok) PROVE UpdateInOrder'
  <2>1. current \in Conv /\ current \in Key
    BY <1>1, <1>7 DEF Record, TypeOK
  <2>2. CASE ok
    <3>1. UNCHANGED <<todo, answer, current>> /\ pc' = "show"
          /\ update'[current] = "recorded"
      BY <1>7, <2>1, <2>2 DEF Record, TypeOK
    <3> QED
      BY <1>7, <3>1 DEF Record, UpdateInOrder
  <2>3. CASE ~ok
    BY <1>5, <1>7, <2>1, <2>3 DEF Record
  <2> QED
    BY <2>2, <2>3
<1>8. ASSUME NEW ok \in BOOLEAN, Show(ok)
      PROVE  UpdateInOrder'
  BY <1>1, <1>5, <1>8 DEF Show, TypeOK
<1>9. CASE Restart
  BY <1>1, <1>9 DEF Restart, UpdateInOrder
<1>10. CASE Load \/ Poll \/ EndPoll \/ Die
  BY <1>3, <1>10 DEF Load, Poll, EndPoll, Die
<1>11. ASSUME NEW k \in Key, Skip(k) \/ SameStatus(k) PROVE UpdateInOrder'
  BY <1>5, <1>11 DEF Skip, SameStatus
<1>12. CASE \/ \E r \in Reclaimed : Claim(r) \/ ClearConversation(r)
            \/ \E c \in Conv : \E report \in ReportsOf[c] :
                  StoreConversation(c, report) \/ ServerChanges(c, report)
            \/ \E c \in Conv : Track(c) \/ EndUntracked(c)
            \/ \E c \in Conv, ok \in BOOLEAN : WriteMetadata(c, ok)
  BY <1>2, <1>12 DEF Claim, ClearConversation, StoreConversation, ServerChanges,
                     Track, EndUntracked, WriteMetadata
<1>13. CASE UNCHANGED vars
  BY <1>2, <1>13
<1> QED
  BY <1>4, <1>6, <1>7, <1>8, <1>9, <1>10, <1>11, <1>12, <1>13
  DEF Next, Monitor, Look

-----------------------------------------------------------------------------
(* The two safety properties.                                              *)

LEMMA SendsStep ==
    ASSUME IInv, [Next]_vars
    PROVE  SendsToOwnResource'
<1> USE DEF IInv
<1>1. ASSUME sent' = sent PROVE SendsToOwnResource'
  BY <1>1 DEF SendsToOwnResource
<1>2. ASSUME NEW c \in Conv, Track(c) PROVE SendsToOwnResource'
  BY <1>2 DEF Track, SendsToOwnResource, TypeOK
<1>3. ASSUME NEW ok \in BOOLEAN, Show(ok)
      PROVE  SendsToOwnResource'
  <2>1. current \in Conv /\ todo[current] # NotTracked
    BY <1>3 DEF Show, TypeOK, ToLookAt
  <2>2. ResourceOf[todo[current].note] = ResourceOf[current]
    BY <2>1 DEF EntriesAreOwn
  <2> QED
    BY <1>3, <2>1, <2>2 DEF Show, SendsToOwnResource, TypeOK
<1>4. CASE \/ \E r \in Reclaimed : Claim(r) \/ ClearConversation(r)
           \/ \E c \in Conv : \E report \in ReportsOf[c] :
                 StoreConversation(c, report) \/ ServerChanges(c, report)
           \/ \E c \in Conv : EndUntracked(c)
           \/ \E c \in Conv, ok \in BOOLEAN : WriteMetadata(c, ok)
           \/ Load \/ Poll \/ EndPoll \/ Die \/ Restart
           \/ \E known \in SUBSET asked : Fetch(known)
           \/ \E k \in Key : Look(k)
           \/ \E ok \in BOOLEAN : Record(ok)
           \/ UNCHANGED vars
  BY <1>1, <1>4
  DEF Claim, ClearConversation, StoreConversation, ServerChanges, EndUntracked,
      WriteMetadata, Load, Poll, EndPoll, Die, Restart, Fetch, Look, Skip,
      SameStatus, NewStatus, Record
<1> QED
  BY <1>2, <1>3, <1>4 DEF Next, Monitor

\* LastStatusAgrees for one conversation and one row.
Agrees(c, r) ==
    /\ row[r].conv = c
    /\ c \in Entries /\ tracked[c].last # None
    /\ update[c] # "failed"
    /\ ~(pc = "record" /\ current = c)
    => row[r].last = tracked[c].last

\* A step that moves neither the row nor the entry of c keeps them agreed.
LEMMA AgreesFrame ==
    ASSUME NEW c \in Conv, NEW r \in Resource, Agrees(c, r),
           row'[r].conv = c => row'[r].conv = row[r].conv /\ row'[r].last = row[r].last,
           tracked'[c] \in {tracked[c], NotTracked},
           update'[c] # "failed" => update[c] # "failed",
           pc = "record" /\ current = c => pc' = "record" /\ current' = c
    PROVE  Agrees(c, r)'
BY DEF Agrees, Entries, NotTracked

LEMMA AgreesStep ==
    ASSUME IInv, [Next]_vars, NEW c \in Conv, NEW r \in Resource
    PROVE  Agrees(c, r)'
<1> USE DEF IInv
<1>1. Agrees(c, r)
  BY DEF LastStatusAgrees, Agrees
<1>2. c \in Key /\ Pending \in Key /\ Pending # c
  BY NamesAssumption DEF Key
<1>3. ASSUME NEW q \in Reclaimed, Claim(q) PROVE Agrees(c, r)'
  <2>1. row'[r].conv = c => row'[r] = row[r]
    BY <1>2, <1>3, StoredRow, ReclaimedAssumption DEF Claim
  <2> QED
    BY <1>1, <1>3, <2>1, AgreesFrame DEF Claim
<1>4. ASSUME NEW q \in Reclaimed, ClearConversation(q) PROVE Agrees(c, r)'
  <2>1. row'[r].conv = c => row'[r] = row[r]
    BY <1>2, <1>4, NoRowIsNoRow DEF ClearConversation, TypeOK
  <2> QED
    BY <1>1, <1>4, <2>1, AgreesFrame DEF ClearConversation
<1>5. ASSUME NEW d \in Conv, NEW report \in ReportsOf[d],
             StoreConversation(d, report)
      PROVE  Agrees(c, r)'
  <2>1. CASE d = c
    <3>1. tracked'[c] = NotTracked
      BY <1>5, <2>1 DEF StoreConversation, EntriesAreOwn
    <3> QED
      BY <3>1 DEF Agrees, Entries
  <2>2. CASE d # c
    <3>1. row'[r].conv = c => row'[r] = row[r]
      BY <1>5, <2>2, StoredRow, ResourceAssumption DEF StoreConversation, Key
    <3> QED
      BY <1>1, <1>5, <3>1, AgreesFrame DEF StoreConversation
  <2> QED
    BY <2>1, <2>2
<1>6. ASSUME NEW d \in Conv, Track(d) PROVE Agrees(c, r)'
  <2>1. CASE d = c
    <3>1. tracked'[c].last = None
      BY <1>2, <1>6, <2>1 DEF Track, TypeOK
    <3> QED
      BY <3>1 DEF Agrees
  <2>2. CASE d # c
    <3>1. tracked'[c] = tracked[c]
      BY <1>2, <1>6, <2>2 DEF Track, TypeOK
    <3> QED
      BY <1>1, <1>6, <3>1, AgreesFrame DEF Track
  <2> QED
    BY <2>1, <2>2
<1>7. ASSUME NEW d \in Conv, NEW ok \in BOOLEAN, WriteMetadata(d, ok)
      PROVE  Agrees(c, r)'
  <2>1. row'[r].conv = row[r].conv /\ row'[r].last = row[r].last
    BY <1>7, NoteOfRow DEF WriteMetadata
  <2> QED
    BY <1>1, <1>7, <2>1, AgreesFrame DEF WriteMetadata
<1>8. CASE Load
  <2>1. CASE tracked'[c] = tracked[c]
    BY <1>1, <1>8, <2>1, AgreesFrame DEF Load
  <2>2. ASSUME NEW q \in Loadable(c),
               tracked'[c] = [note |-> row[q].note, last |-> row[q].last]
        PROVE  Agrees(c, r)'
    <3>1. q \in Resource /\ row[q].conv = c /\ ResourceOf[c] = q
      BY <2>2 DEF Loadable, RowsAreOwn
    <3>2. row'[r].conv = c => r = q
      BY <1>8, <3>1 DEF Load, RowsAreOwn
    <3>3. tracked'[c].last = row[q].last /\ row' = row
      BY <1>8, <2>2 DEF Load
    <3> QED
      BY <3>2, <3>3 DEF Agrees
  <2> QED
    BY <1>2, <1>8, <2>1, <2>2, LoadEntries
<1>9. ASSUME NEW k \in Key, Skip(k) PROVE Agrees(c, r)'
  BY <1>1, <1>9, AgreesFrame DEF Skip
<1>10. ASSUME NEW k \in Key, SameStatus(k) PROVE Agrees(c, r)'
  BY <1>1, <1>2, <1>10, AgreesFrame, DroppedEntries DEF SameStatus
<1>11. ASSUME NEW k \in Key, NewStatus(k) PROVE Agrees(c, r)'
  <2>1. pc' = "record" /\ current' = k /\ UNCHANGED <<row, update>> /\ pc # "record"
    BY <1>11 DEF NewStatus
  <2>2. CASE k = c
    BY <2>1, <2>2 DEF Agrees
  <2>3. CASE k # c
    <3>1. tracked'[c] = tracked[c]
      BY <1>2, <1>11, <2>3, NewStatusEntries
    <3> QED
      BY <1>1, <2>1, <3>1, AgreesFrame
  <2> QED
    BY <2>2, <2>3
<1>12. ASSUME NEW ok \in BOOLEAN, Record(ok) PROVE Agrees(c, r)'
  <2>1. /\ current \in Conv /\ current \in ToLookAt /\ tracked' = tracked
        /\ todo[current].last = answer[current] /\ pc = "record"
        /\ update' = [update EXCEPT ![current] = IF ok THEN "recorded" ELSE "failed"]
    BY <1>12 DEF Record, TypeOK, UpdateInOrder
  <2>2. CASE c # current
    <3>1. update'[c] = update[c]
      BY <2>1, <2>2 DEF TypeOK
    <3>2. row'[r].conv = row[r].conv /\ (row[r].conv = c => row'[r].last = row[r].last)
      BY <1>12, <2>1, <2>2, LastOfRow DEF Record
    <3> QED
      BY <1>1, <2>1, <2>2, <3>1, <3>2, AgreesFrame
  <2>3. CASE c = current /\ ok
    <3>1. tracked[c].last \in {None, answer[c]}
      BY <2>1, <2>3 DEF CopyIsTracked
    <3>2. row'[r].conv = c => row'[r].last = answer[c]
      BY <1>12, <2>1, <2>3, LastOfRow DEF Record
    <3> QED
      BY <2>1, <3>1, <3>2 DEF Agrees
  <2>4. CASE c = current /\ ~ok
    <3>1. update'[c] = "failed"
      BY <2>1, <2>4 DEF TypeOK
    <3> QED
      BY <3>1 DEF Agrees
  <2> QED
    BY <2>2, <2>3, <2>4
<1>13. ASSUME NEW ok \in BOOLEAN, Show(ok)
       PROVE  Agrees(c, r)'
  <2>1. current \in Conv /\ current \in Key /\ update[current] = "recorded"
    BY <1>13 DEF Show, TypeOK, UpdateInOrder, Key
  <2>2. update'[c] # "failed" => update[c] # "failed"
    BY <1>13, <2>1 DEF Show, TypeOK
  <2>3. tracked'[c] \in {tracked[c], NotTracked}
    BY <1>2, <1>13, <2>1, DroppedEntries DEF Show
  <2> QED
    BY <1>1, <1>13, <2>2, <2>3, AgreesFrame DEF Show
<1>14. CASE Restart
  BY <1>2, <1>14 DEF Restart, Agrees, Entries
<1>15. CASE \/ \E d \in Conv : \E report \in ReportsOf[d] : ServerChanges(d, report)
            \/ \E d \in Conv : EndUntracked(d)
            \/ UNCHANGED vars
  BY <1>1, <1>15, AgreesFrame DEF ServerChanges, EndUntracked
<1>16. CASE \/ Poll \/ EndPoll \/ Die
            \/ \E known \in SUBSET asked : Fetch(known)
  BY <1>1, <1>16, AgreesFrame DEF Poll, EndPoll, Die, Fetch
<1> QED
  BY <1>3, <1>4, <1>5, <1>6, <1>7, <1>8, <1>9, <1>10, <1>11, <1>12, <1>13,
     <1>14, <1>15, <1>16 DEF Next, Monitor, Look

LEMMA LastStatusStep ==
    ASSUME IInv, [Next]_vars
    PROVE  LastStatusAgrees'
BY AgreesStep DEF Agrees, LastStatusAgrees

-----------------------------------------------------------------------------
(* The theorems.                                                           *)

LEMMA InvStep == IInv /\ [Next]_vars => IInv'
<1> SUFFICES ASSUME IInv, [Next]_vars PROVE IInv'
  OBVIOUS
<1> QED
  BY TypeStep, RowsStep, EntriesStep, CopyStep, UpdateStep, SendsStep,
     LastStatusStep
  DEF IInv

(* The invariant that ties rows, entries and status comments together      *)
(* holds of every behaviour of db.py and status_monitor.py.                *)
THEOREM Invariance == Spec => []IInv
<1>1. Init => IInv
  BY InitInv
<1>2. IInv /\ [Next]_vars => IInv'
  BY InvStep
<1> QED
  BY <1>1, <1>2, PTL DEF Spec

(* Every reachable state is well typed: in particular the entries a poll   *)
(* still has to look at are tracked, so its `del` never raises KeyError.   *)
THEOREM TypeCorrect == Spec => []TypeOK
<1>1. IInv => TypeOK
  BY DEF IInv
<1> QED
  BY <1>1, Invariance, PTL

(* _poll_once never writes the status of a conversation into the status    *)
(* comment of another resource.                                            *)
THEOREM StatusesGoToOwnResource == Spec => []SendsToOwnResource
<1>1. IInv => SendsToOwnResource
  BY DEF IInv
<1> QED
  BY <1>1, Invariance, PTL

(* The last_status a restart would load is the one the monitor last acted  *)
(* on, unless its record failed or is under way.                           *)
THEOREM RecordedStatusAgrees == Spec => []LastStatusAgrees
<1>1. IInv => LastStatusAgrees
  BY DEF IInv
<1> QED
  BY <1>1, Invariance, PTL
=============================================================================
