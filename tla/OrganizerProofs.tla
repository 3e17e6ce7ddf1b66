----------------------------- MODULE OrganizerProofs -----------------------------
(***************************************************************************)
(* Proofs about OrganizerStore and OrganizerTools: for any number of rows, *)
(* titles and deaths of a process.                                         *)
(***************************************************************************)
EXTENDS OrganizerTools, FiniteSetTheorems, TLAPS

----------------------------------------------------------------------------
\* Ids are given one after the other, behind those of store.json.
IdsInUse == NewId \in Nat /\ DOMAIN rows \cup LegacyIds = 1..(NewId - 1)

\* A key has one preference, and one is never done.
KeysUnique ==
    /\ \A i, j \in In("preferences") : rows[i].title = rows[j].title => i = j
    /\ \A i \in In("preferences") : ~rows[i].done

\* The tables, whatever the calls do.
RowsOK ==
    /\ rows \in [DOMAIN rows -> RowType] /\ DOMAIN rows \subseteq Ids
    /\ IdsInUse /\ KeysUnique
    /\ \A i \in LegacyIds \cap DOMAIN rows : rows[i].table = LegacyRows[i].table

\* What has been reported is there, a checklist with its items.
AckedOK ==
    /\ acked \subseteq DOMAIN rows
    /\ \A i \in acked \cap In("checklists") : ItemsOf(i) # {}

\* A call between its two statements holds the lock of its process.
CallsHold ==
    /\ call \in [Threads -> [op : Ops, id : Ids \cup {NoOne},
                             seen : SUBSET (Ids \X Procs), text : Titles \cup {NoOne}]]
    /\ holder \in [Procs -> Threads \cup {NoOne}]
    /\ \A t \in Threads : call[t].op # "none" => holder[ProcOf(t)] = t

\* The row a call has found is there, in the table the call is about.
Knows(t) ==
    LET c == call[t] IN
    /\ c.op = "complete" =>
         c.id \in In("reminders") \cup In("tasks") \cup In("checklist_items")
    /\ c.op = "append" => c.id \in In("checklists") /\ c.text \in Titles
    /\ c.op = "person_note" => c.id \in In("people") /\ Cardinality(c.seen) < 2
    /\ c.op = "preference" =>
         c.text \in Titles /\ (c.id # NoOne => c.id \in In("preferences"))

\* The notes that process p has taken.
Own(notes, p) == {n \in notes : n[2] = p}

Noting(t) == call[t].op = "person_note"

\* A call that adds a note has read all notes of its own process, and those of
\* the other process that it has read are there still or known to its call.
NotesKnown ==
    \A t \in Threads : Noting(t) =>
      /\ Own(rows[call[t].id].notes, ProcOf(t)) \subseteq call[t].seen
      /\ \A p \in Procs \ {ProcOf(t)} : Own(call[t].seen, p) \subseteq rows[call[t].id].notes
      /\ \A u \in Threads : Noting(u) /\ call[u].id = call[t].id /\ ProcOf(u) # ProcOf(t)
           => Own(call[t].seen, ProcOf(u)) \subseteq call[u].seen

\* The rest of the types, and what the runs check of the database.
RestOK ==
    /\ marker \in BOOLEAN /\ up \in [Procs -> {"down", "migrating", "up"}]
    /\ dropped \subseteq Procs \X Procs /\ deaths \in 0..MaxDeaths
    /\ marker => LegacyIds \subseteq DOMAIN rows
    /\ NotesLostOnlyAcrossProcesses

OrganizerInv ==
    /\ RowsOK /\ AckedOK /\ CallsHold /\ (\A t \in Threads : Knows(t))
    /\ NotesKnown /\ RestOK

\* What no step does to a row: take it away, move it or undo it.
RowsKept ==
    \A i \in DOMAIN rows :
      /\ i \in DOMAIN rows'
      /\ rows'[i].table = rows[i].table /\ rows'[i].title = rows[i].title
      /\ rows'[i].parent = rows[i].parent
      /\ rows[i].done => rows'[i].done

NotesSame == \A i \in DOMAIN rows : rows'[i].notes = rows[i].notes

----------------------------------------------------------------------------
\* Ids.
LEMMA Numbers ==
  /\ LegacyItems \in Nat /\ MaxRows \in Nat /\ WindowFactor \in Nat \ {0}
  /\ LegacyIds = 1..(2 + LegacyItems) /\ Ids = 1..(2 + LegacyItems + MaxRows)
  /\ LegacyIds \subseteq Ids /\ IsFiniteSet(Ids) /\ IsFiniteSet(LegacyIds)
<1>1. LegacyItems \in Nat /\ MaxRows \in Nat /\ WindowFactor \in Nat \ {0}
  BY StoreAssumption
<1>2. LegacyIds = 1..(2 + LegacyItems) /\ Ids = 1..(2 + LegacyItems + MaxRows)
  BY DEF LegacyIds, Ids
<1>3. LegacyIds \subseteq Ids
  BY <1>1, <1>2
<1>4. IsFiniteSet(Ids) /\ IsFiniteSet(LegacyIds)
  BY <1>1, <1>2, FS_Interval
<1> QED
  BY <1>1, <1>2, <1>3, <1>4

\* After n ids in use the next is n + 1.
LEMMA NextId ==
  ASSUME NEW n \in Nat, DOMAIN rows \cup LegacyIds = 1..n
  PROVE  NewId = n + 1
<1>1. Cardinality(1..n) = n
  BY FS_Interval
<1>2. Cardinality(DOMAIN rows \cup LegacyIds) = n
  BY <1>1, Zenon
<1> QED
  BY <1>2 DEF NewId

\* The id of a new row is free, and in range when there is room.
LEMMA IdIsFree ==
  ASSUME RowsOK
  PROVE  /\ NewId \in Nat /\ NewId > 2 + LegacyItems
         /\ \A i \in DOMAIN rows \cup LegacyIds : i \in Nat /\ i < NewId
         /\ \A n \in Nat : Cardinality(DOMAIN rows \ LegacyIds) + n <= MaxRows
              => NewId + n <= 3 + LegacyItems + MaxRows
<1>1. NewId \in Nat /\ DOMAIN rows \cup LegacyIds = 1..(NewId - 1)
  BY DEF RowsOK, IdsInUse
<1>2. \A i \in DOMAIN rows \cup LegacyIds : i \in Nat /\ i < NewId
  BY <1>1
<1>3. NewId > 2 + LegacyItems
  <2>1. 2 + LegacyItems \in LegacyIds
    BY Numbers
  <2> QED
    BY <1>1, <1>2, <2>1, Numbers
<1>4. DOMAIN rows \ LegacyIds = (3 + LegacyItems)..(NewId - 1)
  BY <1>1, <1>3, Numbers
<1>5. Cardinality(DOMAIN rows \ LegacyIds) = NewId - 1 - (3 + LegacyItems) + 1
  <2>1. Cardinality((3 + LegacyItems)..(NewId - 1))
           = IF 3 + LegacyItems > NewId - 1 THEN 0 ELSE (NewId - 1) - (3 + LegacyItems) + 1
    BY <1>1, Numbers, FS_Interval
  <2>2. Cardinality(DOMAIN rows \ LegacyIds) = Cardinality((3 + LegacyItems)..(NewId - 1))
    BY <1>4, Zenon
  <2> QED
    BY <1>1, <1>3, <2>1, <2>2, Numbers
<1> QED
  BY <1>1, <1>2, <1>3, <1>5, Numbers

\* The rows of store.json.
LEMMA LegacyTyped ==
  /\ LegacyRows \in [LegacyIds -> RowType] /\ NoOne \notin Ids
  /\ \A i \in LegacyIds : LegacyRows[i].table # "preferences" /\ ~LegacyRows[i].done
<1>1. LegacyTitle \in Titles /\ LegacyList \in Ids /\ NoOne \notin Ids
  BY StoreAssumption, Numbers DEF LegacyTitle, LegacyList
<1>2. \A i \in LegacyIds : i = LegacyNote \/ i = LegacyList \/ i \in LegacyItemIds
  BY Numbers DEF LegacyNote, LegacyList, LegacyItemIds
<1>3. \A table \in Tables, parent \in Ids \cup {NoOne} : Row(table, LegacyTitle, parent) \in RowType
  BY <1>1 DEF Row, RowType
<1>4. ASSUME NEW i \in LegacyIds
      PROVE  /\ LegacyRows[i] \in RowType
             /\ LegacyRows[i].table # "preferences" /\ ~LegacyRows[i].done
  <2>1. PICK table \in {"notes", "checklists", "checklist_items"}, parent \in Ids \cup {NoOne} :
           LegacyRows[i] = Row(table, LegacyTitle, parent)
    BY <1>1, <1>2 DEF LegacyRows
  <2>2. LegacyRows[i] \in RowType
    BY <1>3, <2>1 DEF Tables
  <2> QED
    BY <2>1, <2>2 DEF Row
<1>5. LegacyRows \in [LegacyIds -> RowType]
  BY <1>4 DEF LegacyRows
<1> QED
  BY <1>1, <1>4, <1>5

----------------------------------------------------------------------------
\* The changes of the tables.

\* An INSERT leaves the rows that are there.
LEMMA RowsWithIs ==
  ASSUME rows \in [DOMAIN rows -> RowType], NEW new, new \in [DOMAIN new -> RowType],
         rows' = RowsWith(new)
  PROVE  /\ DOMAIN rows' = DOMAIN rows \cup DOMAIN new
         /\ rows' \in [DOMAIN rows' -> RowType]
         /\ \A i \in DOMAIN rows : rows'[i] = rows[i]
         /\ \A i \in DOMAIN new \ DOMAIN rows : rows'[i] = new[i]
         /\ RowsKept /\ NotesSame
<1>1. /\ DOMAIN rows' = DOMAIN rows \cup DOMAIN new
      /\ \A i \in DOMAIN rows : rows'[i] = rows[i]
      /\ \A i \in DOMAIN new \ DOMAIN rows : rows'[i] = new[i]
  BY DEF RowsWith
<1>2. rows' \in [DOMAIN rows' -> RowType]
  BY <1>1 DEF RowsWith
<1>3. RowsKept /\ NotesSame
  BY <1>1 DEF RowsKept, NotesSame
<1> QED
  BY <1>1, <1>2, <1>3

\* New rows with the next ids, at most one of them a preference, with a new key.
LEMMA RowsAdded ==
  ASSUME RowsOK, NEW last \in Ids, NewId <= last,
         NEW new \in [NewId..last -> RowType], rows' = RowsWith(new),
         \A i \in NewId..last : ~new[i].done,
         \A i \in NewId..last : new[i].table = "preferences" =>
            NewId = last /\ FindPreference(new[i].title) = {}
  PROVE  /\ RowsOK' /\ RowsKept /\ NotesSame
         /\ DOMAIN rows' = DOMAIN rows \cup (NewId..last)
         /\ \A i \in NewId..last : rows'[i] = new[i] /\ i \notin DOMAIN rows
<1>1. /\ NewId \in Nat /\ last \in Nat /\ NewId > 2 + LegacyItems
      /\ \A i \in DOMAIN rows \cup LegacyIds : i \in Nat /\ i < NewId
  BY IdIsFree, Numbers
<1>2. DOMAIN new = NewId..last /\ new \in [DOMAIN new -> RowType]
  OBVIOUS
<1>3. /\ DOMAIN rows' = DOMAIN rows \cup (NewId..last)
      /\ rows' \in [DOMAIN rows' -> RowType]
      /\ \A i \in DOMAIN rows : rows'[i] = rows[i]
      /\ \A i \in (NewId..last) \ DOMAIN rows : rows'[i] = new[i]
      /\ RowsKept /\ NotesSame
  BY <1>2, RowsWithIs DEF RowsOK
<1>4. \A i \in NewId..last : i \notin DOMAIN rows /\ i \notin LegacyIds /\ rows'[i] = new[i]
  BY <1>1, <1>3
<1>5. DOMAIN rows' \subseteq Ids
  <2>1. NewId..last \subseteq Ids
    BY <1>1, Numbers
  <2> QED
    BY <1>3, <2>1 DEF RowsOK
<1>6. IdsInUse'
  <2>1. DOMAIN rows \cup LegacyIds = 1..(NewId - 1)
    BY DEF RowsOK, IdsInUse
  <2>2. DOMAIN rows' \cup LegacyIds = 1..last
    <3>1. (1..(NewId - 1)) \cup (NewId..last) = 1..last
      BY <1>1, Numbers
    <3>2. DOMAIN rows' \cup LegacyIds = (DOMAIN rows \cup LegacyIds) \cup (NewId..last)
      BY <1>3
    <3> QED
      BY <2>1, <3>1, <3>2
  <2>3. NewId' = last + 1
    <3>1. Cardinality(1..last) = last
      BY <1>1, FS_Interval
    <3>2. Cardinality(DOMAIN rows' \cup LegacyIds) = last
      BY <2>2, <3>1, Zenon
    <3> QED
      BY <1>1, <3>2 DEF NewId
  <2>4. (last + 1) - 1 = last
    BY <1>1
  <2> QED
    BY <1>1, <2>2, <2>3, <2>4 DEF IdsInUse
<1>7. KeysUnique'
  <2>1. \A i \in DOMAIN rows' : i \in DOMAIN rows \/ i \in NewId..last
    BY <1>3
  <2>2. ASSUME NEW i \in In("preferences")', NEW j \in In("preferences")',
               rows'[i].title = rows'[j].title
        PROVE  i = j
    <3>1. CASE i \in DOMAIN rows /\ j \in DOMAIN rows
      BY <1>3, <2>2, <3>1 DEF RowsOK, KeysUnique, In
    <3>2. CASE i \in NewId..last /\ j \in NewId..last
      BY <1>1, <1>4, <2>2, <3>2 DEF In
    <3>3. ASSUME NEW a \in In("preferences")', NEW b \in In("preferences")',
                 a \in NewId..last, b \in DOMAIN rows, rows'[a].title = rows'[b].title
          PROVE  FALSE
      <4>1. FindPreference(new[a].title) = {}
        BY <1>4, <3>3 DEF In
      <4>2. b \in FindPreference(new[a].title)
        BY <1>3, <1>4, <3>3 DEF In, FindPreference
      <4> QED
        BY <4>1, <4>2
    <3> QED
      BY <2>1, <2>2, <3>1, <3>2, <3>3 DEF In
  <2>3. \A i \in In("preferences")' : ~rows'[i].done
    BY <1>3, <1>4, <2>1 DEF RowsOK, KeysUnique, In
  <2> QED
    BY <2>2, <2>3 DEF KeysUnique
<1>8. \A i \in LegacyIds \cap DOMAIN rows' : rows'[i].table = LegacyRows[i].table
  BY <1>3, <1>4 DEF RowsOK
<1>9. RowsOK'
  BY <1>3, <1>5, <1>6, <1>7, <1>8 DEF RowsOK, LegacyRows
<1> QED
  BY <1>3, <1>4, <1>9

\* One new row.
LEMMA RowInserted ==
  ASSUME RowsOK, NewId \in Ids, NEW row \in RowType, ~row.done, InsertRow(row),
         row.table = "preferences" => FindPreference(row.title) = {}
  PROVE  /\ RowsOK' /\ RowsKept /\ NotesSame
         /\ DOMAIN rows' = DOMAIN rows \cup {NewId}
         /\ rows'[NewId] = row /\ NewId \notin DOMAIN rows
<1> DEFINE new == [i \in {NewId} |-> row]
<1>1. NewId \in Nat /\ NewId <= NewId
  BY Numbers
<1>2. NewId..NewId = {NewId}
  BY <1>1
<1>3. new \in [NewId..NewId -> RowType] /\ \A i \in NewId..NewId : new[i] = row
  BY <1>2
<1>4. rows' = RowsWith(new)
  BY DEF InsertRow
<1> HIDE DEF new
<1>5. /\ RowsOK' /\ RowsKept /\ NotesSame
      /\ DOMAIN rows' = DOMAIN rows \cup (NewId..NewId)
      /\ \A i \in NewId..NewId : rows'[i] = new[i] /\ i \notin DOMAIN rows
  BY <1>1, <1>3, <1>4, RowsAdded
<1> QED
  BY <1>2, <1>3, <1>5

\* A row written again keeps its table, its title and what it belongs to.
LEMMA RowWritten ==
  ASSUME RowsOK, NEW i \in DOMAIN rows, NEW row \in RowType, rows' = [rows EXCEPT ![i] = row],
         row.table = rows[i].table, row.title = rows[i].title, row.parent = rows[i].parent,
         rows[i].done => row.done, row.table = "preferences" => ~row.done
  PROVE  /\ RowsOK' /\ RowsKept /\ DOMAIN rows' = DOMAIN rows
         /\ rows'[i] = row /\ \A j \in DOMAIN rows \ {i} : rows'[j] = rows[j]
<1>1. /\ DOMAIN rows' = DOMAIN rows /\ rows' \in [DOMAIN rows' -> RowType]
      /\ rows'[i] = row /\ \A j \in DOMAIN rows \ {i} : rows'[j] = rows[j]
  BY DEF RowsOK
<1>2. RowsKept
  BY <1>1 DEF RowsKept
<1>3. NewId' = NewId
  <2>1. DOMAIN rows' \cup LegacyIds = DOMAIN rows \cup LegacyIds
    BY <1>1
  <2>2. Cardinality(DOMAIN rows' \cup LegacyIds) = Cardinality(DOMAIN rows \cup LegacyIds)
    BY <2>1, Zenon
  <2> QED
    BY <2>2 DEF NewId
<1>4. IdsInUse'
  BY <1>1, <1>3 DEF RowsOK, IdsInUse
<1>5. KeysUnique'
  <2>1. \A j \in DOMAIN rows : rows'[j].table = rows[j].table /\ rows'[j].title = rows[j].title
    BY <1>1
  <2>2. In("preferences")' = In("preferences")
    BY <1>1, <2>1 DEF In
  <2>3. \A j \in In("preferences") : ~rows'[j].done
    BY <1>1 DEF RowsOK, KeysUnique, In
  <2> QED
    BY <2>1, <2>2, <2>3 DEF RowsOK, KeysUnique, In
<1>6. RowsOK'
  BY <1>1, <1>4, <1>5 DEF RowsOK, LegacyRows
<1> QED
  BY <1>1, <1>2, <1>6

\* The migration adds the rows of store.json that are not there.
LEMMA RowsMigrated ==
  ASSUME RowsOK, Migrate
  PROVE  RowsOK' /\ RowsKept /\ NotesSame /\ LegacyIds \subseteq DOMAIN rows'
<1>1. /\ LegacyRows \in [LegacyIds -> RowType] /\ DOMAIN LegacyRows = LegacyIds
      /\ rows' = RowsWith(LegacyRows) /\ marker'
  BY LegacyTyped DEF Migrate, Migrated
<1>2. /\ DOMAIN rows' = DOMAIN rows \cup LegacyIds
      /\ rows' \in [DOMAIN rows' -> RowType]
      /\ \A i \in DOMAIN rows : rows'[i] = rows[i]
      /\ \A i \in LegacyIds \ DOMAIN rows : rows'[i] = LegacyRows[i]
      /\ RowsKept /\ NotesSame
  BY <1>1, RowsWithIs DEF RowsOK
<1>3. NewId' = NewId
  <2>1. DOMAIN rows' \cup LegacyIds = DOMAIN rows \cup LegacyIds
    BY <1>2
  <2>2. Cardinality(DOMAIN rows' \cup LegacyIds) = Cardinality(DOMAIN rows \cup LegacyIds)
    BY <2>1, Zenon
  <2> QED
    BY <2>2 DEF NewId
<1>4. IdsInUse'
  BY <1>2, <1>3 DEF RowsOK, IdsInUse
<1>5. In("preferences")' = In("preferences")
  BY <1>2, LegacyTyped DEF In
<1>6. KeysUnique'
  BY <1>2, <1>5 DEF RowsOK, KeysUnique, In
<1>7. RowsOK'
  BY <1>2, <1>4, <1>6, Numbers DEF RowsOK, LegacyRows
<1> QED
  BY <1>2, <1>7

\* A step that leaves the tables.
LEMMA RowsStay ==
  ASSUME RowsOK, UNCHANGED rows
  PROVE  RowsOK' /\ RowsKept /\ NotesSame
BY DEF RowsOK, KeysUnique, In, IdsInUse, NewId, LegacyRows, RowsKept, NotesSame

----------------------------------------------------------------------------
\* The calls.
LEMMA NoCallIs ==
  /\ NoCall \in [op : Ops, id : Ids \cup {NoOne}, seen : SUBSET (Ids \X Procs),
                 text : Titles \cup {NoOne}]
  /\ NoCall.op = "none"
BY DEF NoCall, Ops

\* What a reply has reported stays, and so does what it reports now.
LEMMA AckedKept ==
  ASSUME RowsOK, AckedOK, RowsKept, NEW ids, ids \subseteq DOMAIN rows', acked' = acked \cup ids,
         \A i \in ids : rows'[i].table = "checklists" => ItemsOf(i)' # {}
  PROVE  AckedOK'
<1>1. acked' \subseteq DOMAIN rows'
  BY DEF AckedOK, RowsKept
<1>2. ASSUME NEW i \in acked' \cap In("checklists")' PROVE ItemsOf(i)' # {}
  <2>1. CASE i \in ids
    BY <1>2, <2>1 DEF In
  <2>2. CASE i \in acked
    <3>1. PICK j \in In("checklist_items") : rows[j].parent = i
      BY <1>2, <2>2 DEF AckedOK, RowsKept, In, ItemsOf
    <3>2. j \in ItemsOf(i)'
      BY <3>1 DEF RowsKept, In, ItemsOf
    <3> QED
      BY <3>2
  <2> QED
    BY <1>2, <2>1, <2>2
<1> QED
  BY <1>1, <1>2 DEF AckedOK

\* One row that is no checklist is reported.
LEMMA RowAcked ==
  ASSUME RowsOK, AckedOK, RowsKept, NEW i, i \in DOMAIN rows', rows'[i].table # "checklists",
         acked' = acked \cup {i}
  PROVE  AckedOK'
<1> DEFINE ids == {i}
<1>1. ids \subseteq DOMAIN rows' /\ acked' = acked \cup ids
  OBVIOUS
<1>2. \A j \in ids : rows'[j].table = "checklists" => ItemsOf(j)' # {}
  <2>1. \A j \in ids : rows'[j].table # "checklists"
    OBVIOUS
  <2> QED
    BY <2>1
<1> HIDE DEF ids
<1> QED
  BY <1>1, <1>2, AckedKept

\* A call that goes on knows its row still, and one that has ended none.
LEMMA KnowsKept ==
  ASSUME RowsKept, NEW t \in Threads, Knows(t), call'[t] = call[t] \/ call'[t] = NoCall
  PROVE  Knows(t)'
<1>1. CASE call'[t] = call[t]
  BY <1>1 DEF Knows, RowsKept, In
<1>2. CASE call'[t] = NoCall
  BY <1>2, NoCallIs DEF Knows
<1> QED
  BY <1>1, <1>2

LEMMA NotesStay ==
  ASSUME NotesKnown, \A t \in Threads : Knows(t), NotesSame,
         \A t \in Threads : call'[t] = call[t] \/ call'[t] = NoCall
  PROVE  NotesKnown'
<1>1. \A t \in Threads : Noting(t)' => Noting(t) /\ call'[t] = call[t]
  BY NoCallIs DEF Noting
<1>2. \A t \in Threads : Noting(t)' => rows'[call[t].id].notes = rows[call[t].id].notes
  BY <1>1 DEF Noting, Knows, In, NotesSame
<1> QED
  BY <1>1, <1>2 DEF NotesKnown

\* A step outside the calls.
LEMMA CallsStay ==
  ASSUME OrganizerInv, RowsKept, NotesSame, UNCHANGED <<call, holder>>
  PROVE  CallsHold' /\ (\A t \in Threads : Knows(t)') /\ NotesKnown'
<1>1. CallsHold'
  BY DEF OrganizerInv, CallsHold
<1> QED
  BY <1>1, KnowsKept, NotesStay DEF OrganizerInv

\* The calls of a process exclude each other.
LEMMA Exclusion ==
  ASSUME CallsHold, NEW t \in Threads, NEW u \in Threads,
         ProcOf(u) = ProcOf(t), call[u].op # "none"
  PROVE  /\ ~LockFree(t)
         /\ call[t].op # "none" => u = t
BY ToolsAssumption DEF CallsHold, LockFree

\* The first statement of a call: what it has found, it knows.
LEMMA BeginKeeps ==
  ASSUME OrganizerInv, NEW t \in Threads, LockFree(t), NEW op \in Ops \ {"none"},
         NEW id \in Ids \cup {NoOne}, NEW seen \in SUBSET (Ids \X Procs),
         NEW text \in Titles \cup {NoOne}, Begin(t, op, id, seen, text),
         op = "complete" => id \in In("reminders") \cup In("tasks") \cup In("checklist_items"),
         op = "append" => id \in In("checklists") /\ text \in Titles,
         op = "person_note" => id \in In("people") /\ Cardinality(seen) < 2
                               /\ seen = rows[id].notes,
         op = "preference" => text \in Titles /\ (id # NoOne => id \in In("preferences"))
  PROVE  OrganizerInv' /\ RowsKept
<1>1. /\ call' = [call EXCEPT ![t] = [op |-> op, id |-> id, seen |-> seen, text |-> text]]
      /\ holder' = [holder EXCEPT ![ProcOf(t)] = t]
      /\ UNCHANGED <<rows, marker, up, acked, dropped, deaths>>
  BY DEF Begin, storeVars
<1>2. RowsOK' /\ RowsKept
  BY <1>1, RowsStay DEF OrganizerInv
<1>3. ProcOf(t) \in Procs /\ \A u \in Threads : ProcOf(u) \in Procs
  BY DEF ProcOf, Procs
<1>4. /\ call'[t] = [op |-> op, id |-> id, seen |-> seen, text |-> text]
      /\ \A u \in Threads \ {t} : call'[u] = call[u]
      /\ holder'[ProcOf(t)] = t
      /\ \A p \in Procs \ {ProcOf(t)} : holder'[p] = holder[p]
  BY <1>1, <1>3 DEF OrganizerInv, CallsHold
<1>5. \A u \in Threads : call[u].op # "none" => ProcOf(u) # ProcOf(t) /\ u # t
  BY Exclusion DEF OrganizerInv
<1>6. CallsHold'
  <2>1. call' \in [Threads -> [op : Ops, id : Ids \cup {NoOne},
                               seen : SUBSET (Ids \X Procs), text : Titles \cup {NoOne}]]
    BY <1>1 DEF OrganizerInv, CallsHold
  <2>2. holder' \in [Procs -> Threads \cup {NoOne}]
    BY <1>1 DEF OrganizerInv, CallsHold
  <2>3. ASSUME NEW u \in Threads, call'[u].op # "none" PROVE holder'[ProcOf(u)] = u
    <3>1. CASE u = t
      BY <1>4, <3>1
    <3>2. CASE u # t
      BY <1>3, <1>4, <1>5, <2>3, <3>2 DEF OrganizerInv, CallsHold
    <3> QED
      BY <3>1, <3>2
  <2> QED
    BY <2>1, <2>2, <2>3 DEF CallsHold
<1>7. ASSUME NEW u \in Threads PROVE Knows(u)'
  <2>1. CASE u = t
    BY <1>1, <1>4, <2>1 DEF Knows, In
  <2>2. CASE u # t
    BY <1>2, <1>4, <2>2, KnowsKept DEF OrganizerInv
  <2> QED
    BY <2>1, <2>2
<1>8. NotesKnown'
  <2>1. /\ Noting(t)' => op = "person_note" /\ call'[t].id = id /\ call'[t].seen = seen
        /\ Noting(t)' => rows'[id].notes = seen
        /\ \A u \in Threads \ {t} : Noting(u)' => Noting(u) /\ call'[u] = call[u]
    BY <1>1, <1>4 DEF Noting
  <2>2. ASSUME NEW u \in Threads, Noting(u)'
        PROVE  /\ Own(rows'[call'[u].id].notes, ProcOf(u)) \subseteq call'[u].seen
               /\ \A p \in Procs \ {ProcOf(u)} :
                     Own(call'[u].seen, p) \subseteq rows'[call'[u].id].notes
    <3>1. CASE u = t
      BY <2>1, <2>2, <3>1 DEF Own
    <3>2. CASE u # t
      BY <1>1, <2>1, <2>2, <3>2 DEF OrganizerInv, NotesKnown
    <3> QED
      BY <3>1, <3>2
  <2>3. ASSUME NEW u \in Threads, NEW v \in Threads, Noting(u)', Noting(v)',
               call'[v].id = call'[u].id, ProcOf(v) # ProcOf(u)
        PROVE  Own(call'[u].seen, ProcOf(v)) \subseteq call'[v].seen
    <3>1. CASE u = t
      <4>1. v # t /\ Noting(v) /\ call'[v] = call[v]
        BY <2>1, <2>3, <3>1
      <4>2. call[v].id = id /\ call'[u].seen = rows[id].notes
        BY <1>1, <2>1, <2>3, <3>1, <4>1
      <4> QED
        BY <4>1, <4>2 DEF OrganizerInv, NotesKnown
    <3>2. CASE u # t /\ v = t
      <4>1. Noting(u) /\ call'[u] = call[u] /\ call'[v].seen = rows[call[u].id].notes
        BY <1>1, <2>1, <2>3, <3>2
      <4> QED
        BY <1>3, <2>3, <4>1 DEF OrganizerInv, NotesKnown
    <3>3. CASE u # t /\ v # t
      BY <2>1, <2>3, <3>3 DEF OrganizerInv, NotesKnown
    <3> QED
      BY <3>1, <3>2, <3>3
  <2> QED
    BY <2>2, <2>3 DEF NotesKnown
<1>9. AckedOK' /\ RestOK'
  BY <1>1 DEF OrganizerInv, AckedOK, RestOK, In, ItemsOf, NotesLostOnlyAcrossProcesses
<1> QED
  BY <1>2, <1>6, <1>7, <1>8, <1>9 DEF OrganizerInv

\* The end of a call.
LEMMA EndKeeps ==
  ASSUME CallsHold, NEW t \in Threads, call[t].op # "none", End(t)
  PROVE  /\ CallsHold'
         /\ call'[t] = NoCall /\ \A u \in Threads \ {t} : call'[u] = call[u]
<1>1. /\ call' = [call EXCEPT ![t] = NoCall]
      /\ holder' = [holder EXCEPT ![ProcOf(t)] = NoOne]
  BY DEF End
<1>2. call'[t] = NoCall /\ \A u \in Threads \ {t} : call'[u] = call[u]
  BY <1>1 DEF CallsHold
<1>3. \A u \in Threads : ProcOf(u) \in Procs
  BY DEF ProcOf, Procs
<1>4. call' \in [Threads -> [op : Ops, id : Ids \cup {NoOne},
                             seen : SUBSET (Ids \X Procs), text : Titles \cup {NoOne}]]
  BY <1>1, NoCallIs DEF CallsHold
<1>5. holder' \in [Procs -> Threads \cup {NoOne}]
  BY <1>1 DEF CallsHold
<1>6. ASSUME NEW u \in Threads, call'[u].op # "none" PROVE holder'[ProcOf(u)] = u
  <2>1. u # t /\ call[u].op # "none"
    BY <1>2, <1>6, NoCallIs
  <2>2. ProcOf(u) # ProcOf(t)
    BY <2>1, Exclusion
  <2> QED
    BY <1>1, <1>3, <2>1, <2>2 DEF CallsHold
<1> QED
  BY <1>2, <1>4, <1>5, <1>6 DEF CallsHold

----------------------------------------------------------------------------
\* A process starts, migrates or dies.
LEMMA ProcessKeeps ==
  ASSUME OrganizerInv, NEW p \in Procs, StartStore(p) \/ MigrateStore(p) \/ ProcessDies(p)
  PROVE  OrganizerInv' /\ RowsKept
<1>1. CASE StartStore(p)
  <2>1. /\ UNCHANGED <<rows, marker, call, holder, acked, dropped, deaths>>
        /\ up' = [up EXCEPT ![p] = IF marker THEN "up" ELSE "migrating"]
    BY <1>1 DEF StartStore
  <2>2. RowsOK' /\ RowsKept /\ NotesSame
    BY <2>1, RowsStay DEF OrganizerInv
  <2>3. CallsHold' /\ (\A t \in Threads : Knows(t)') /\ NotesKnown'
    BY <2>1, <2>2, CallsStay
  <2>4. AckedOK' /\ RestOK'
    BY <2>1 DEF OrganizerInv, AckedOK, RestOK, In, ItemsOf, NotesLostOnlyAcrossProcesses
  <2> QED
    BY <2>2, <2>3, <2>4 DEF OrganizerInv
<1>2. CASE MigrateStore(p)
  <2>1. /\ Migrate /\ marker' /\ UNCHANGED <<call, holder, acked, dropped, deaths>>
        /\ up' = [up EXCEPT ![p] = "up"]
    BY <1>2 DEF MigrateStore, Migrate
  <2>2. RowsOK' /\ RowsKept /\ NotesSame /\ LegacyIds \subseteq DOMAIN rows'
    BY <2>1, RowsMigrated DEF OrganizerInv
  <2>3. CallsHold' /\ (\A t \in Threads : Knows(t)') /\ NotesKnown'
    BY <2>1, <2>2, CallsStay
  <2>4. AckedOK'
    <3>1. acked' = acked \cup {}
      BY <2>1
    <3> QED
      BY <2>2, <3>1, AckedKept DEF OrganizerInv
  <2>5. marker' \in BOOLEAN
    BY <1>2 DEF MigrateStore, Migrate
  <2>6. RestOK'
    BY <2>1, <2>2, <2>5 DEF OrganizerInv, RestOK, NotesLostOnlyAcrossProcesses
  <2> QED
    BY <2>2, <2>3, <2>4, <2>6 DEF OrganizerInv
<1>3. CASE ProcessDies(p)
  <2>1. /\ UNCHANGED <<rows, marker, acked, dropped>>
        /\ up' = [up EXCEPT ![p] = "down"]
        /\ call' = [t \in Threads |-> IF ProcOf(t) = p THEN NoCall ELSE call[t]]
        /\ holder' = [holder EXCEPT ![p] = NoOne]
        /\ deaths' = deaths + 1 /\ deaths < MaxDeaths
    BY <1>3 DEF ProcessDies, storeVars
  <2>2. RowsOK' /\ RowsKept /\ NotesSame
    BY <2>1, RowsStay DEF OrganizerInv
  <2>3. \A t \in Threads : call'[t] = (IF ProcOf(t) = p THEN NoCall ELSE call[t])
    BY <2>1
  <2>4. CallsHold'
    <3>1. call' \in [Threads -> [op : Ops, id : Ids \cup {NoOne},
                                 seen : SUBSET (Ids \X Procs), text : Titles \cup {NoOne}]]
      BY <2>1, NoCallIs DEF OrganizerInv, CallsHold
    <3>2. holder' \in [Procs -> Threads \cup {NoOne}]
      BY <2>1 DEF OrganizerInv, CallsHold
    <3>3. ASSUME NEW t \in Threads, call'[t].op # "none" PROVE holder'[ProcOf(t)] = t
      <4>1. ProcOf(t) # p /\ ProcOf(t) \in Procs /\ holder[ProcOf(t)] = t
        BY <2>3, <3>3, NoCallIs DEF OrganizerInv, CallsHold, ProcOf, Procs
      <4> QED
        BY <2>1, <4>1 DEF OrganizerInv, CallsHold
    <3> QED
      BY <3>1, <3>2, <3>3 DEF CallsHold
  <2>5. (\A t \in Threads : Knows(t)') /\ NotesKnown'
    <3>1. \A t \in Threads : call'[t] = call[t] \/ call'[t] = NoCall
      BY <2>3
    <3> QED
      BY <2>2, <3>1, KnowsKept, NotesStay DEF OrganizerInv
  <2>6. deaths' \in 0..MaxDeaths
    BY <2>1, ToolsAssumption DEF OrganizerInv, RestOK
  <2>7. AckedOK' /\ RestOK'
    BY <2>1, <2>6 DEF OrganizerInv, AckedOK, RestOK, In, ItemsOf, NotesLostOnlyAcrossProcesses
  <2> QED
    BY <2>2, <2>4, <2>5, <2>7 DEF OrganizerInv
<1> QED
  BY <1>1, <1>2, <1>3

----------------------------------------------------------------------------
\* Tools of one statement.
LEMMA ReplyKeeps ==
  ASSUME OrganizerInv, RowsOK', RowsKept, NotesSame, NEW ids, ids \subseteq DOMAIN rows',
         \A i \in ids : rows'[i].table = "checklists" => ItemsOf(i)' # {}, Reply(ids)
  PROVE  OrganizerInv'
<1>1. acked' = acked \cup ids /\ UNCHANGED <<marker, up, call, holder, dropped, deaths>>
  BY DEF Reply
<1>2. AckedOK'
  BY <1>1, AckedKept DEF OrganizerInv
<1>3. CallsHold' /\ (\A t \in Threads : Knows(t)') /\ NotesKnown'
  BY <1>1, CallsStay
<1>4. RestOK'
  BY <1>1 DEF OrganizerInv, RestOK, RowsKept, NotesLostOnlyAcrossProcesses
<1> QED
  BY <1>2, <1>3, <1>4 DEF OrganizerInv

LEMMA RowsFit ==
  ASSUME RowsOK, NEW t, NEW n \in 1..2, Ready(t, n)
  PROVE  NewId \in Ids /\ NewId + (n - 1) \in Ids
<1>1. /\ NewId \in Nat /\ NewId > 2 + LegacyItems
      /\ NewId + n <= 3 + LegacyItems + MaxRows
  BY IdIsFree DEF Ready
<1> QED
  BY <1>1, Numbers

LEMMA AddToolsKeep ==
  ASSUME OrganizerInv, NEW t \in Threads, AddTools(t)
  PROVE  OrganizerInv' /\ RowsKept
<1>1. ASSUME NEW table \in Tables \ {"checklists", "preferences"}, NEW x \in Titles,
             NEW parent \in Ids \cup {NoOne}, Ready(t, 1),
             InsertRow(Row(table, x, parent)), Reply({NewId})
      PROVE  OrganizerInv' /\ RowsKept
  <2>1. /\ Row(table, x, parent) \in RowType /\ ~Row(table, x, parent).done
        /\ Row(table, x, parent).table = table
    BY DEF Row, RowType
  <2>2. RowsOK /\ NewId \in Ids
    BY <1>1, RowsFit DEF OrganizerInv
  <2>3. /\ RowsOK' /\ RowsKept /\ NotesSame
        /\ DOMAIN rows' = DOMAIN rows \cup {NewId} /\ rows'[NewId] = Row(table, x, parent)
    BY <1>1, <2>1, <2>2, RowInserted
  <2>4. OrganizerInv'
    BY <1>1, <2>1, <2>3, ReplyKeeps
  <2> QED
    BY <2>3, <2>4
<1>2. CASE checklist_create(t)
  <2>1. PICK x \in Titles : Ready(t, 2) /\ CreateChecklist(x) /\ Reply({NewId, NewId + 1})
    BY <1>2 DEF checklist_create
  <2> DEFINE new == [i \in {NewId, NewId + 1} |->
                       IF i = NewId THEN Row("checklists", x, NoOne)
                       ELSE Row("checklist_items", x, NewId)]
  <2>2. RowsOK /\ NewId \in Ids /\ NewId + 1 \in Ids /\ NewId \in Nat /\ NewId <= NewId + 1
    BY <2>1, RowsFit, Numbers DEF OrganizerInv
  <2>3. NewId..(NewId + 1) = {NewId, NewId + 1}
    BY <2>2
  <2>4. /\ new \in [NewId..(NewId + 1) -> RowType] /\ NewId # NewId + 1
        /\ new[NewId] = Row("checklists", x, NoOne)
        /\ new[NewId + 1] = Row("checklist_items", x, NewId)
    BY <2>2, <2>3 DEF Row, RowType, Tables
  <2>5. rows' = RowsWith(new)
    BY <2>1 DEF CreateChecklist
  <2>6. \A i \in NewId..(NewId + 1) : ~new[i].done /\ new[i].table # "preferences"
    BY <2>3, <2>4 DEF Row
  <2> HIDE DEF new
  <2>7. /\ RowsOK' /\ RowsKept /\ NotesSame
        /\ DOMAIN rows' = DOMAIN rows \cup (NewId..(NewId + 1))
        /\ \A i \in NewId..(NewId + 1) : rows'[i] = new[i] /\ i \notin DOMAIN rows
    BY <2>2, <2>4, <2>5, <2>6, RowsAdded
  <2>8. /\ {NewId, NewId + 1} \subseteq DOMAIN rows'
        /\ rows'[NewId + 1].table = "checklist_items" /\ rows'[NewId + 1].parent = NewId
    BY <2>3, <2>4, <2>7 DEF Row
  <2>9. NewId + 1 \in {i \in In("checklist_items")' : rows'[i].parent = NewId}
    BY <2>8 DEF In
  <2>10. \A i \in {NewId, NewId + 1} : rows'[i].table = "checklists" => ItemsOf(i)' # {}
    BY <2>8, <2>9 DEF ItemsOf
  <2>11. OrganizerInv'
    BY <2>1, <2>7, <2>8, <2>10, ReplyKeeps
  <2> QED
    BY <2>7, <2>11
<1>3. CASE tasks_add(t) \/ decisions_add(t)
  <2>1. PICK table \in {"tasks", "decisions"}, x \in Titles, project \in {NoOne} \cup Ids :
           Ready(t, 1) /\ InsertRow(Row(table, x, project)) /\ Reply({NewId})
    BY <1>3 DEF tasks_add, decisions_add, AddTask, AddDecision
  <2> QED
    BY <1>1, <2>1 DEF Tables
<1>4. CASE \/ notes_add(t) \/ reminders_add(t) \/ itinerary_add(t)
           \/ projects_create(t) \/ daily_plan_save(t) \/ people_add(t)
  <2>1. PICK table \in {"notes", "reminders", "itinerary", "projects", "daily_plans", "people"},
             x \in Titles :
           Ready(t, 1) /\ InsertRow(Row(table, x, NoOne)) /\ Reply({NewId})
    BY <1>4 DEF notes_add, reminders_add, itinerary_add, projects_create, daily_plan_save,
                people_add, AddNote, AddReminder, AddItineraryItem, CreateProject,
                SaveDailyPlan, AddPerson, Insert
  <2> QED
    BY <1>1, <2>1 DEF Tables
<1> QED
  BY <1>2, <1>3, <1>4 DEF AddTools

----------------------------------------------------------------------------
\* Tools of two statements: what the first one finds.
LEMMA RowsFound ==
  /\ Findable(FindReminder) \subseteq In("reminders")
  /\ Findable(FindTask) \subseteq In("tasks")
  /\ Findable(FindPerson) \subseteq In("people")
  /\ Findable(FindChecklist) \subseteq In("checklists")
  /\ \A list, id, q : FindChecklistItem(list, id, q) \subseteq In("checklist_items")
<1>1. \A id, q : /\ FindReminder(id, q) \subseteq In("reminders")
                 /\ FindTask(id, q) \subseteq In("tasks")
                 /\ FindPerson(id, q) \subseteq In("people")
                 /\ FindChecklist(id, q) \subseteq In("checklists")
  BY DEF FindReminder, FindTask, FindPerson, FindChecklist, Find, Open
<1>2. \A list, id, q : FindChecklistItem(list, id, q) \subseteq In("checklist_items")
  BY DEF FindChecklistItem, Find, ItemsOf
<1>3. /\ Findable(FindReminder) \subseteq In("reminders")
      /\ Findable(FindTask) \subseteq In("tasks")
      /\ Findable(FindPerson) \subseteq In("people")
      /\ Findable(FindChecklist) \subseteq In("checklists")
  BY <1>1 DEF Findable
<1> QED
  BY <1>2, <1>3

LEMMA FindKeeps ==
  ASSUME OrganizerInv, NEW t \in Threads,
         \/ reminders_complete(t) \/ tasks_complete(t) \/ checklist_complete_item(t)
         \/ checklist_append(t) \/ people_note_add(t) \/ preferences_save(t)
  PROVE  OrganizerInv' /\ RowsKept
<1>1. \A n : Ready(t, n) => LockFree(t)
  BY DEF Ready
<1>2. /\ {} \in SUBSET (Ids \X Procs) /\ NoOne \in Titles \cup {NoOne}
      /\ {"complete", "append", "person_note", "preference"} \subseteq Ops \ {"none"}
      /\ \A i \in DOMAIN rows : i \in Ids \cup {NoOne} /\ rows[i] \in RowType
      /\ \A table : In(table) \subseteq DOMAIN rows
  BY DEF Ops, OrganizerInv, RowsOK, In
<1>3. CASE reminders_complete(t) \/ tasks_complete(t) \/ checklist_complete_item(t)
  <2>1. PICK i \in In("reminders") \cup In("tasks") \cup In("checklist_items") :
           LockFree(t) /\ Begin(t, "complete", i, {}, NoOne)
    <3>1. CASE reminders_complete(t) \/ tasks_complete(t)
      BY <1>1, <3>1, RowsFound DEF reminders_complete, tasks_complete
    <3>2. CASE checklist_complete_item(t)
      BY <1>1, <3>2, RowsFound DEF checklist_complete_item, Findable
    <3> QED
      BY <1>3, <3>1, <3>2
  <2> QED
    BY <1>2, <2>1, BeginKeeps
<1>4. CASE checklist_append(t)
  <2>1. PICK list \in In("checklists"), x \in Titles :
           LockFree(t) /\ Begin(t, "append", list, {}, x)
    BY <1>1, <1>4, RowsFound DEF checklist_append
  <2> QED
    BY <1>2, <2>1, BeginKeeps
<1>5. CASE people_note_add(t)
  <2>1. PICK i \in In("people") :
           /\ LockFree(t) /\ Cardinality(rows[i].notes) < 2
           /\ Begin(t, "person_note", i, rows[i].notes, NoOne)
    BY <1>1, <1>5, RowsFound DEF people_note_add
  <2>2. rows[i].notes \in SUBSET (Ids \X Procs)
    BY <1>2, <2>1 DEF RowType, Procs
  <2> QED
    BY <1>2, <2>1, <2>2, BeginKeeps
<1>6. CASE preferences_save(t)
  <2>1. PICK key \in Titles, i \in In("preferences") \cup {NoOne} :
           LockFree(t) /\ Begin(t, "preference", i, {}, key)
    BY <1>1, <1>6 DEF preferences_save, FindPreference
  <2> QED
    BY <1>2, <2>1, BeginKeeps
<1> QED
  BY <1>3, <1>4, <1>5, <1>6

----------------------------------------------------------------------------
\* The second statement.

\* It ends the call and leaves the notes on people.
LEMMA WriteKeeps ==
  ASSUME OrganizerInv, NEW t \in Threads, call[t].op # "none", End(t),
         RowsOK', RowsKept, NotesSame, AckedOK', dropped' = dropped
  PROVE  OrganizerInv'
<1>1. CallsHold' /\ \A u \in Threads : call'[u] = call[u] \/ call'[u] = NoCall
  BY EndKeeps DEF OrganizerInv
<1>2. (\A u \in Threads : Knows(u)') /\ NotesKnown'
  BY <1>1, KnowsKept, NotesStay DEF OrganizerInv
<1>3. RestOK'
  BY DEF OrganizerInv, RestOK, RowsKept, End, NotesLostOnlyAcrossProcesses
<1> QED
  BY <1>1, <1>2, <1>3 DEF OrganizerInv

LEMMA WriteCompleteKeeps ==
  ASSUME OrganizerInv, NEW t \in Threads, WriteComplete(t)
  PROVE  OrganizerInv' /\ RowsKept
<1> DEFINE i   == call[t].id
           row == [rows[i] EXCEPT !.done = TRUE]
<1>1. /\ call[t].op = "complete" /\ End(t) /\ dropped' = dropped /\ acked' = acked \cup {i}
      /\ rows' = [rows EXCEPT ![i] = row]
  BY DEF WriteComplete, CompleteRow
<1>2. i \in In("reminders") \cup In("tasks") \cup In("checklist_items")
  BY <1>1 DEF OrganizerInv, Knows
<1>3. /\ i \in DOMAIN rows /\ rows[i] \in RowType
      /\ rows[i].table \notin {"checklists", "preferences"}
  BY <1>2 DEF OrganizerInv, RowsOK, In
<1>4. /\ row \in RowType /\ row.done
      /\ row.table = rows[i].table /\ row.title = rows[i].title
      /\ row.parent = rows[i].parent /\ row.notes = rows[i].notes
  BY <1>3 DEF RowType
<1> HIDE DEF row, i
<1>5. /\ RowsOK' /\ RowsKept /\ DOMAIN rows' = DOMAIN rows
      /\ rows'[i] = row /\ \A j \in DOMAIN rows \ {i} : rows'[j] = rows[j]
  BY <1>1, <1>3, <1>4, RowWritten DEF OrganizerInv
<1>6. NotesSame
  BY <1>4, <1>5 DEF NotesSame
<1>7. OrganizerInv'
  <2>1. i \in DOMAIN rows' /\ rows'[i].table # "checklists"
    BY <1>3, <1>4, <1>5
  <2>2. AckedOK'
    BY <1>1, <1>5, <2>1, RowAcked DEF OrganizerInv
  <2>3. call[t].op # "none"
    BY <1>1
  <2> QED
    BY <1>1, <1>5, <1>6, <2>2, <2>3, WriteKeeps
<1> QED
  BY <1>5, <1>7

LEMMA WriteAppendKeeps ==
  ASSUME OrganizerInv, NEW t \in Threads, WriteAppend(t)
  PROVE  OrganizerInv' /\ RowsKept
<1> DEFINE row == Row("checklist_items", call[t].text, call[t].id)
<1>1. /\ call[t].op = "append" /\ End(t) /\ dropped' = dropped /\ acked' = acked \cup {NewId}
      /\ NewId \in Ids /\ InsertRow(row)
  BY DEF WriteAppend, AppendItem
<1>2. call[t].text \in Titles /\ call[t].id \in Ids
  BY <1>1 DEF OrganizerInv, Knows, RowsOK, In
<1>3. row \in RowType /\ ~row.done /\ row.table = "checklist_items"
  BY <1>2 DEF Row, RowType, Tables
<1> HIDE DEF row
<1>4. /\ RowsOK' /\ RowsKept /\ NotesSame
      /\ DOMAIN rows' = DOMAIN rows \cup {NewId} /\ rows'[NewId] = row
  BY <1>1, <1>3, RowInserted DEF OrganizerInv
<1>5. AckedOK'
  BY <1>1, <1>3, <1>4, RowAcked DEF OrganizerInv
<1>6. OrganizerInv'
  BY <1>1, <1>4, <1>5, WriteKeeps
<1> QED
  BY <1>4, <1>6

LEMMA WritePreferenceKeeps ==
  ASSUME OrganizerInv, NEW t \in Threads, WritePreference(t)
  PROVE  OrganizerInv' /\ RowsKept
<1> DEFINE c == call[t]
<1>1. /\ c.op = "preference" /\ End(t) /\ dropped' = dropped
      /\ NewId \in Ids /\ PreferenceWritten(c)
      /\ acked' = acked \cup {IF c.id # NoOne THEN c.id ELSE NewId}
  BY DEF WritePreference
<1>2. c.text \in Titles /\ (c.id # NoOne => c.id \in In("preferences"))
  BY <1>1 DEF OrganizerInv, Knows
<1>3. CASE c.id # NoOne
  <2> DEFINE row == [rows[c.id] EXCEPT !.done = FALSE]
  <2>1. rows' = [rows EXCEPT ![c.id] = row] /\ acked' = acked \cup {c.id}
    BY <1>1, <1>3 DEF PreferenceWritten, UpdatePreference
  <2>2. /\ c.id \in DOMAIN rows /\ rows[c.id] \in RowType /\ ~rows[c.id].done
        /\ rows[c.id].table = "preferences"
    BY <1>2, <1>3 DEF OrganizerInv, RowsOK, KeysUnique, In
  <2>3. /\ row \in RowType /\ ~row.done
        /\ row.table = rows[c.id].table /\ row.title = rows[c.id].title
        /\ row.parent = rows[c.id].parent /\ row.notes = rows[c.id].notes
    BY <2>2 DEF RowType
  <2> HIDE DEF row
  <2>4. /\ RowsOK' /\ RowsKept /\ DOMAIN rows' = DOMAIN rows
        /\ rows'[c.id] = row /\ \A j \in DOMAIN rows \ {c.id} : rows'[j] = rows[j]
    BY <2>1, <2>2, <2>3, RowWritten DEF OrganizerInv
  <2>5. NotesSame
    BY <2>3, <2>4 DEF NotesSame
  <2>6. OrganizerInv'
    <3>1. c.id \in DOMAIN rows' /\ rows'[c.id].table # "checklists"
      BY <2>2, <2>3, <2>4
    <3>2. AckedOK'
      BY <2>1, <2>4, <3>1, RowAcked DEF OrganizerInv
    <3> QED
      BY <1>1, <2>4, <2>5, <3>2, WriteKeeps
  <2> QED
    BY <2>4, <2>6
<1>4. CASE c.id = NoOne
  <2> DEFINE row == Row("preferences", c.text, NoOne)
  <2>1. InsertRow(row) /\ FindPreference(c.text) = {} /\ acked' = acked \cup {NewId}
    BY <1>1, <1>4 DEF PreferenceWritten, InsertPreference, Insert
  <2>2. row \in RowType /\ ~row.done /\ row.table = "preferences" /\ row.title = c.text
    BY <1>2 DEF Row, RowType, Tables
  <2> HIDE DEF row
  <2>3. /\ RowsOK' /\ RowsKept /\ NotesSame
        /\ DOMAIN rows' = DOMAIN rows \cup {NewId} /\ rows'[NewId] = row
    BY <1>1, <2>1, <2>2, RowInserted DEF OrganizerInv
  <2>4. AckedOK'
    BY <2>1, <2>2, <2>3, RowAcked DEF OrganizerInv
  <2>5. OrganizerInv'
    BY <1>1, <2>3, <2>4, WriteKeeps
  <2> QED
    BY <2>3, <2>5
<1> QED
  BY <1>3, <1>4

LEMMA WriteRaisesKeeps ==
  ASSUME OrganizerInv, NEW t \in Threads, WriteRaises(t)
  PROVE  OrganizerInv' /\ RowsKept
<1>1. /\ call[t].op # "none" /\ End(t) /\ UNCHANGED rows /\ dropped' = dropped
      /\ acked' = acked
  BY DEF WriteRaises
<1>2. RowsOK' /\ RowsKept /\ NotesSame
  BY <1>1, RowsStay DEF OrganizerInv
<1>3. AckedOK'
  BY <1>1 DEF OrganizerInv, AckedOK, In, ItemsOf
<1> QED
  BY <1>1, <1>2, <1>3, WriteKeeps

\* The notes of a person, written whole: none of this process's is lost.
LEMMA WritePersonNoteKeeps ==
  ASSUME OrganizerInv, NEW t \in Threads, WritePersonNote(t)
  PROVE  OrganizerInv' /\ RowsKept
<1> DEFINE c    == call[t]
           note == <<1 + Cardinality(c.seen), ProcOf(t)>>
           row  == [rows[c.id] EXCEPT !.notes = c.seen \cup {note}]
<1>1. /\ Noting(t) /\ End(t) /\ acked' = acked \cup {c.id}
      /\ rows' = [rows EXCEPT ![c.id] = row]
      /\ dropped' = dropped \cup {<<n[2], ProcOf(t)>> : n \in rows[c.id].notes \ c.seen}
  BY DEF WritePersonNote, SetNotes, Noting
<1>2. /\ c.id \in DOMAIN rows /\ rows[c.id] \in RowType /\ rows[c.id].table = "people"
      /\ c.seen \subseteq Ids \X Procs /\ Cardinality(c.seen) < 2
      /\ ProcOf(t) \in Procs
  BY <1>1 DEF OrganizerInv, Knows, CallsHold, RowsOK, In, Noting, ProcOf, Procs
<1>3. note \in Ids \X Procs
  <2>1. IsFiniteSet(Procs) /\ IsFiniteSet(Ids \X Procs)
    <3>1. IsFiniteSet({"first"} \cup {"second"})
      BY FS_Singleton, FS_Union
    <3>2. Procs = {"first"} \cup {"second"}
      BY DEF Procs
    <3>3. IsFiniteSet(Procs)
      BY <3>1, <3>2, Zenon
    <3> QED
      BY <3>3, Numbers, FS_Product
  <2>2. Cardinality(c.seen) \in Nat
    BY <1>2, <2>1, FS_Subset, FS_CardinalityType
  <2>3. 1 + Cardinality(c.seen) \in Ids
    BY <1>2, <2>2, Numbers
  <2> QED
    BY <1>2, <2>3
<1>4. /\ row \in RowType /\ row.table = rows[c.id].table /\ row.title = rows[c.id].title
      /\ row.parent = rows[c.id].parent /\ row.done = rows[c.id].done
      /\ row.notes = c.seen \cup {note}
  BY <1>2, <1>3 DEF RowType, Procs
<1> HIDE DEF row
<1>5. /\ RowsOK' /\ RowsKept /\ DOMAIN rows' = DOMAIN rows
      /\ rows'[c.id] = row /\ \A j \in DOMAIN rows \ {c.id} : rows'[j] = rows[j]
  BY <1>1, <1>2, <1>4, RowWritten DEF OrganizerInv
<1>6. call[t].op # "none"
  BY <1>1 DEF Noting
<1>7. CallsHold' /\ call'[t] = NoCall /\ \A u \in Threads \ {t} : call'[u] = call[u]
  BY <1>1, <1>6, EndKeeps DEF OrganizerInv
<1>8. \A u \in Threads : Knows(u)'
  BY <1>5, <1>7, KnowsKept DEF OrganizerInv
<1>9. NotesKnown'
  <2>1. \A u \in Threads : Noting(u)' =>
           /\ u # t /\ Noting(u) /\ call'[u] = call[u] /\ ProcOf(u) # ProcOf(t)
           /\ call[u].id \in DOMAIN rows
    <3>1. \A u \in Threads : Noting(u)' => u # t /\ Noting(u) /\ call'[u] = call[u]
      BY <1>7, NoCallIs DEF Noting
    <3>2. \A u \in Threads : Noting(u) /\ u # t => ProcOf(u) # ProcOf(t)
      BY <1>6, Exclusion DEF OrganizerInv, Noting
    <3>3. \A u \in Threads : Noting(u) => call[u].id \in DOMAIN rows
      BY DEF OrganizerInv, Knows, In, Noting
    <3> QED
      BY <3>1, <3>2, <3>3
  <2>2. ASSUME NEW u \in Threads, Noting(u)'
        PROVE  /\ Own(rows'[call[u].id].notes, ProcOf(u)) \subseteq call[u].seen
               /\ \A p \in Procs \ {ProcOf(u)} :
                     Own(call[u].seen, p) \subseteq rows'[call[u].id].notes
    <3>1. CASE call[u].id # c.id
      BY <1>5, <2>1, <2>2, <3>1 DEF OrganizerInv, NotesKnown
    <3>2. CASE call[u].id = c.id
      <4>1. rows'[call[u].id].notes = c.seen \cup {note}
        BY <1>4, <1>5, <3>2
      <4>2. Own(c.seen, ProcOf(u)) \subseteq call[u].seen
        BY <1>1, <2>1, <2>2, <3>2 DEF OrganizerInv, NotesKnown
      <4>3. Own(call[u].seen, ProcOf(t)) \subseteq c.seen
        BY <1>1, <2>1, <2>2, <3>2 DEF OrganizerInv, NotesKnown
      <4>4. note[2] # ProcOf(u)
        BY <2>1, <2>2
      <4>5. \A p \in Procs \ {ProcOf(u)} : p = ProcOf(t)
        BY <2>1, <2>2 DEF ProcOf, Procs
      <4> QED
        BY <4>1, <4>2, <4>3, <4>4, <4>5 DEF Own
    <3> QED
      BY <3>1, <3>2
  <2> QED
    BY <2>1, <2>2 DEF OrganizerInv, NotesKnown
<1>10. AckedOK'
  <2>1. c.id \in DOMAIN rows' /\ rows'[c.id].table # "checklists"
    BY <1>2, <1>4, <1>5
  <2> QED
    BY <1>1, <1>5, <2>1, RowAcked DEF OrganizerInv
<1>11. RestOK'
  <2>1. UNCHANGED <<marker, up, deaths>>
    BY <1>1 DEF End
  <2>2. \A n \in rows[c.id].notes \ c.seen : n[2] \in Procs /\ n[2] # ProcOf(t)
    <3>1. Own(rows[c.id].notes, ProcOf(t)) \subseteq c.seen
      BY <1>1 DEF OrganizerInv, NotesKnown
    <3>2. rows[c.id].notes \subseteq Ids \X Procs
      BY <1>2 DEF RowType, Procs
    <3> QED
      BY <3>1, <3>2 DEF Own
  <2>3. dropped' \subseteq Procs \X Procs /\ \A d \in dropped' : d[1] # d[2]
    BY <1>1, <1>2, <2>2 DEF OrganizerInv, RestOK, NotesLostOnlyAcrossProcesses
  <2> QED
    BY <1>5, <2>1, <2>3 DEF OrganizerInv, RestOK, NotesLostOnlyAcrossProcesses
<1> QED
  BY <1>5, <1>7, <1>8, <1>9, <1>10, <1>11 DEF OrganizerInv

----------------------------------------------------------------------------
\* The invariant is inductive.
LEMMA InvInit == ToolsInit => OrganizerInv
<1> SUFFICES ASSUME ToolsInit PROVE OrganizerInv
  OBVIOUS
<1>1. /\ DOMAIN rows = {} /\ rows \in [{} -> RowType] /\ marker = FALSE /\ acked = {}
      /\ up = [p \in Procs |-> "down"] /\ call = [t \in Threads |-> NoCall]
      /\ holder = [p \in Procs |-> NoOne] /\ dropped = {} /\ deaths = 0
  BY DEF ToolsInit
<1>2. RowsOK
  <2>1. 2 + LegacyItems \in Nat /\ DOMAIN rows \cup LegacyIds = 1..(2 + LegacyItems)
    BY <1>1, Numbers
  <2>2. NewId = 2 + LegacyItems + 1
    BY <2>1, NextId
  <2>3. IdsInUse
    BY <2>1, <2>2 DEF IdsInUse
  <2> QED
    BY <1>1, <2>3 DEF RowsOK, KeysUnique, In
<1>3. AckedOK
  BY <1>1 DEF AckedOK
<1>4. CallsHold
  BY <1>1, NoCallIs DEF CallsHold
<1>5. (\A t \in Threads : Knows(t)) /\ NotesKnown
  BY <1>1, NoCallIs DEF Knows, NotesKnown, Noting
<1>6. RestOK
  <2>1. marker \in BOOLEAN /\ (marker => LegacyIds \subseteq DOMAIN rows)
    BY <1>1
  <2>2. up \in [Procs -> {"down", "migrating", "up"}] /\ dropped \subseteq Procs \X Procs
    BY <1>1
  <2>3. deaths \in 0..MaxDeaths
    BY <1>1, ToolsAssumption
  <2>4. NotesLostOnlyAcrossProcesses
    BY <1>1 DEF NotesLostOnlyAcrossProcesses
  <2> QED
    BY <2>1, <2>2, <2>3, <2>4 DEF RestOK
<1> QED
  BY <1>2, <1>3, <1>4, <1>5, <1>6 DEF OrganizerInv

LEMMA InvKept ==
  ASSUME OrganizerInv, [ToolsNext]_toolVars
  PROVE  OrganizerInv' /\ RowsKept
<1>1. CASE UNCHANGED toolVars
  <2>1. UNCHANGED <<rows, marker, up, call, holder, acked, dropped, deaths>>
    BY <1>1 DEF toolVars, storeVars
  <2>2. RowsOK' /\ RowsKept /\ NotesSame
    BY <2>1, RowsStay DEF OrganizerInv
  <2>3. CallsHold' /\ (\A t \in Threads : Knows(t)') /\ NotesKnown'
    BY <2>1, <2>2, CallsStay
  <2>4. AckedOK' /\ RestOK'
    BY <2>1 DEF OrganizerInv, AckedOK, RestOK, In, ItemsOf, NotesLostOnlyAcrossProcesses
  <2> QED
    BY <2>2, <2>3, <2>4 DEF OrganizerInv
<1>2. CASE \E p \in Procs : StartStore(p) \/ MigrateStore(p) \/ ProcessDies(p)
  BY <1>2, ProcessKeeps
<1>3. CASE \E t \in Threads : AddTools(t)
  BY <1>3, AddToolsKeep
<1>4. ASSUME NEW t \in Threads, ChangeTools(t) PROVE OrganizerInv' /\ RowsKept
  <2>1. CASE \/ reminders_complete(t) \/ tasks_complete(t) \/ checklist_complete_item(t)
             \/ checklist_append(t) \/ people_note_add(t) \/ preferences_save(t)
    BY <2>1, FindKeeps
  <2>2. CASE \/ WriteComplete(t) \/ WriteAppend(t) \/ WritePersonNote(t)
             \/ WritePreference(t) \/ WriteRaises(t)
    BY <2>2, WriteCompleteKeeps, WriteAppendKeeps, WritePersonNoteKeeps,
       WritePreferenceKeeps, WriteRaisesKeeps
  <2> QED
    BY <1>4, <2>1, <2>2 DEF ChangeTools
<1> QED
  BY <1>1, <1>2, <1>3, <1>4 DEF ToolsNext

LEMMA InvAlways == ToolsSpec => []OrganizerInv
<1>1. ToolsInit => OrganizerInv
  BY InvInit
<1>2. OrganizerInv /\ [ToolsNext]_toolVars => OrganizerInv'
  BY InvKept
<1> QED
  BY <1>1, <1>2, PTL DEF ToolsSpec

----------------------------------------------------------------------------
\* Every variable of the store and of its callers has its type: a row goes into
\* a table of the schema, a call is one of the four that have two statements and
\* the RLock is held by one thread or nobody.
THEOREM ToolsTyped == ToolsSpec => []ToolsTypeOK
<1>1. OrganizerInv => ToolsTypeOK
  BY DEF OrganizerInv, RowsOK, AckedOK, CallsHold, RestOK, ToolsTypeOK
<1> QED
  BY <1>1, InvAlways, PTL

\* What a reply reports as stored is stored whole, and so is store.json once the
\* marker says so: no order of the statements of two processes, and no death
\* between two of them, leaves a checklist without its items, two preferences
\* with one key or a note lost inside a process.
THEOREM StoreIsWhole == ToolsSpec => []StoredWhole
<1>1. OrganizerInv => StoredWhole
  <2> SUFFICES ASSUME OrganizerInv PROVE StoredWhole
    OBVIOUS
  <2>1. LegacyKept
    BY DEF OrganizerInv, RowsOK, RestOK, LegacyKept
  <2> QED
    BY <2>1 DEF OrganizerInv, RowsOK, AckedOK, KeysUnique, RestOK, StoredWhole
<1> QED
  BY <1>1, InvAlways, PTL

\* No statement takes a row away, moves it to another table or opens again what
\* was completed: complete_reminder, complete_task and complete_checklist_item
\* stand against a migration that runs late and against a preference written by
\* the other process.
THEOREM NothingIsUndone == ToolsSpec => NothingUndone
<1>1. OrganizerInv /\ [ToolsNext]_toolVars
        => [\A i \in DOMAIN rows :
              /\ i \in DOMAIN rows'
              /\ rows'[i].table = rows[i].table
              /\ rows[i].done => rows'[i].done]_toolVars
  BY InvKept DEF RowsKept
<1> QED
  BY <1>1, InvAlways, PTL DEF ToolsSpec, NothingUndone

----------------------------------------------------------------------------
\* Listings.

\* What a method selects are rows of the database.
LEMMA Selected ==
  ASSUME OrganizerInv, NEW S \in Selections
  PROVE  IsFiniteSet(S)
<1>1. S \subseteq DOMAIN rows
  BY DEF Selections, notes_list, preferences_list, reminders_list, checklist_list,
         itinerary_list, tasks_list, projects_list, decisions_list, people_list,
         ListedNotes, ListedPreferences, ListedReminders, ListedChecklists,
         ListedItinerary, ListedTasks, ListedProjects, ListedDecisions, ListedPeople,
         Open, In
<1> QED
  BY <1>1, Numbers, FS_Subset DEF OrganizerInv, RowsOK

\* As many as there are of a finite set are all of them.
LEMMA AllOrMany ==
  ASSUME NEW S, IsFiniteSet(S), NEW n \in Nat, NEW T \in SomeOf(S, n)
  PROVE  /\ T \subseteq S /\ Cardinality(T) \in Nat
         /\ T = S \/ Cardinality(T) = n
         /\ Cardinality(S) <= n => T = S
<1>1. /\ T \subseteq S
      /\ Cardinality(T) = IF Cardinality(S) < n THEN Cardinality(S) ELSE n
  BY DEF SomeOf
<1>2. /\ Cardinality(S) \in Nat /\ Cardinality(T) \in Nat
      /\ Cardinality(T) = Cardinality(S) => T = S
  BY <1>1, FS_Subset, FS_CardinalityType
<1> QED
  BY <1>1, <1>2

\* Every listing fetches WindowFactor rows for one that is wanted and drops those
\* that do not match: when it returns fewer than were asked for it has left out
\* none, unless the table had more than it fetched.
THEOREM ListingsAreComplete == ToolsSpec => []ListingIsComplete
<1>1. ASSUME OrganizerInv, NEW S \in Selections, NEW q \in Queries, NEW limit \in 1..2,
             NEW got \in Listing(S, q, limit)
      PROVE  \/ Cardinality(got) >= limit
             \/ Matches(S, q) \subseteq got
             \/ Cardinality(S) > WindowFactor * limit
  <2>1. IsFiniteSet(S) /\ Cardinality(S) \in Nat
    BY <1>1, Selected, FS_CardinalityType
  <2>2. PICK fetched \in SomeOf(S, Window(limit)) : got \in SomeOf(Matches(fetched, q), limit)
    BY <1>1 DEF Listing
  <2>3. Window(limit) \in Nat /\ Window(limit) = WindowFactor * limit
    <3>1. WindowFactor \in Nat
      BY Numbers
    <3> QED
      BY <3>1 DEF Window
  <2>4. CASE Cardinality(S) <= Window(limit)
    <3>1. fetched = S
      BY <2>1, <2>2, <2>3, <2>4, AllOrMany
    <3>2. IsFiniteSet(Matches(S, q))
      <4>1. Matches(S, q) \subseteq S
        BY DEF Matches
      <4> QED
        BY <2>1, <4>1, FS_Subset
    <3>3. got = Matches(S, q) \/ Cardinality(got) = limit
      BY <2>2, <3>1, <3>2, AllOrMany
    <3> QED
      BY <3>3
  <2>5. CASE Cardinality(S) > Window(limit)
    BY <2>3, <2>5
  <2> QED
    BY <2>1, <2>3, <2>4, <2>5
<1>2. OrganizerInv => ListingIsComplete
  BY <1>1 DEF ListingIsComplete
<1> QED
  BY <1>2, InvAlways, PTL
=============================================================================
