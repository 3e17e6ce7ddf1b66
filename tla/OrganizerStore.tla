---------------------------- MODULE OrganizerStore ----------------------------
(***************************************************************************)
(* organizer/store.py, OrganizerStore without its scheduled events: the    *)
(* tables of notes, reminders, checklists, plans, people and preferences,  *)
(* and the statements on them, one operator per method or per statement of *)
(* a method that has two.  A statement that writes is one transaction.     *)
(*                                                                         *)
(* All tables are one function from ids to rows.  A row has a title (the   *)
(* text a query looks in), a flag (done, or completed), the row it belongs *)
(* to and, for a person, the notes taken, each with the process that took  *)
(* it.  Which rows come first in a listing is left open.                   *)
(***************************************************************************)
EXTENDS Integers, FiniteSets

CONSTANTS Titles,        \* texts of a row, and preference keys
          LegacyItems,   \* bound: items of the checklist in store.json
          WindowFactor,  \* rows fetched per row wanted (4 in the code)
          MaxRows,       \* bound: rows the users add
          NoOne          \* no row, no query, no title

VARIABLES rows,    \* the rows of all tables, by id
          marker   \* metadata has legacy_json_migrated

storeVars == <<rows, marker>>

Tables == {"notes", "reminders", "checklists", "checklist_items", "itinerary",
           "tasks", "projects", "daily_plans", "decisions", "people", "preferences"}

\* store.json: a note and a checklist with its items.
LegacyNote  == 1
LegacyList  == 2
LegacyItemIds == 3..(2 + LegacyItems)
LegacyIds   == 1..(2 + LegacyItems)

Ids == 1..(2 + LegacyItems + MaxRows)

ASSUME StoreAssumption ==
    /\ LegacyItems \in Nat /\ WindowFactor \in Nat \ {0} /\ MaxRows \in Nat
    /\ Titles # {} /\ NoOne \notin Titles /\ NoOne \notin Ids

\* _new_id: an id nobody has.
NewId == 1 + Cardinality(DOMAIN rows \cup LegacyIds)

Row(table, title, parent) ==
    [table |-> table, title |-> title, parent |-> parent, done |-> FALSE, notes |-> {}]

RowType == [table : Tables, title : Titles, parent : Ids \cup {NoOne},
            done : BOOLEAN, notes : SUBSET (Ids \X {"first", "second"})]

In(table) == {i \in DOMAIN rows : rows[i].table = table}
Open(table) == {i \in In(table) : ~rows[i].done}

\* The table after an INSERT: a row that is there stays as it is.
RowsWith(new) == [i \in DOMAIN rows \cup DOMAIN new |->
                    IF i \in DOMAIN rows THEN rows[i] ELSE new[i]]

InsertRow(row) == rows' = RowsWith([i \in {NewId} |-> row])

Insert(table, title) == InsertRow(Row(table, title, NoOne))

----------------------------------------------------------------------------
\* Methods that add one row.  A blank text raises before any statement.
AddNote(title)          == Insert("notes", title)
AddReminder(title)      == Insert("reminders", title)
AddItineraryItem(title) == Insert("itinerary", title)
CreateProject(title)    == Insert("projects", title)
SaveDailyPlan(title)    == Insert("daily_plans", title)
AddPerson(title)        == Insert("people", title)

\* project_id REFERENCES projects(id): one that is not there raises.
ProjectExists(project) == project = NoOne \/ project \in In("projects")

AddTask(title, project) ==
    /\ ProjectExists(project)
    /\ InsertRow(Row("tasks", title, project))

AddDecision(title, project) ==
    /\ ProjectExists(project)
    /\ InsertRow(Row("decisions", title, project))

\* Mutant of CreateChecklist: the items are left to a second transaction.
CreateChecklistBare(title) == Insert("checklists", title)

\* A checklist and its items, in one transaction.
CreateChecklist(title) ==
    rows' = RowsWith([i \in {NewId, NewId + 1} |->
                        IF i = NewId THEN Row("checklists", title, NoOne)
                        ELSE Row("checklist_items", title, NewId)])

----------------------------------------------------------------------------
\* Methods that look for a row in one statement and write in another.

\* _find_by_id_or_query and its two like: by id, or the only row there is,
\* or the only one the text matches.  Anything else raises.
Find(candidates, byId, id, query) ==
    IF id # NoOne THEN {id} \cap byId
    ELSE LET matches == {i \in candidates : query \in {NoOne, rows[i].title}}
         IN  IF Cardinality(matches) = 1 THEN matches ELSE {}

FindReminder(id, query)  == Find(Open("reminders"), In("reminders"), id, query)
FindTask(id, query)      == Find(Open("tasks"), In("tasks"), id, query)
FindPerson(id, query)    == Find(In("people"), In("people"), id, query)
FindChecklist(id, query) == Find(In("checklists"), In("checklists"), id, query)

ItemsOf(list) == {i \in In("checklist_items") : rows[i].parent = list}

\* An item is not found by an empty query.
FindChecklistItem(list, id, query) ==
    IF id = NoOne /\ query = NoOne THEN {}
    ELSE Find(ItemsOf(list), ItemsOf(list), id, query)

FindPreference(key) == {i \in In("preferences") : rows[i].title = key}

CompleteRow(i) == rows' = [rows EXCEPT ![i].done = TRUE]

AppendItem(list, title) == InsertRow(Row("checklist_items", title, list))

\* The notes column is written whole: what was read, and the new note.
SetNotes(person, notes) == rows' = [rows EXCEPT ![person].notes = notes]

\* A preference not found is inserted: key is UNIQUE, so the insert of one
\* that has come meanwhile raises.
InsertPreference(key) ==
    /\ FindPreference(key) = {}
    /\ Insert("preferences", key)

\* One that is found keeps its id.
UpdatePreference(i) == rows' = [rows EXCEPT ![i].done = FALSE]

----------------------------------------------------------------------------
\* Migration of store.json.

LegacyTitle == CHOOSE t \in Titles : TRUE

LegacyRows ==
    [i \in LegacyIds |->
        CASE i = LegacyNote      -> Row("notes", LegacyTitle, NoOne)
          [] i = LegacyList      -> Row("checklists", LegacyTitle, NoOne)
          [] i \in LegacyItemIds -> Row("checklist_items", LegacyTitle, LegacyList)]

\* Mutant of Migrated: INSERT OR REPLACE.
MigratedAgain == [i \in DOMAIN RowsWith(LegacyRows) |->
                    IF i \in LegacyIds THEN LegacyRows[i] ELSE rows[i]]

\* INSERT OR IGNORE.
Migrated == RowsWith(LegacyRows)

\* The rows and the marker, in one transaction.
Migrate == rows' = Migrated /\ marker' = TRUE

----------------------------------------------------------------------------
\* Listings: what SELECT ... LIMIT max(1, limit * 4) fetches is filtered by
\* the query, up to limit rows.

\* Mutant of Window: no more than are wanted.
WindowBare(limit) == limit

Window(limit) == WindowFactor * limit

SomeOf(S, n) == {T \in SUBSET S : Cardinality(T) = IF Cardinality(S) < n
                                                   THEN Cardinality(S) ELSE n}

Matches(S, query) == {i \in S : query \in {NoOne, rows[i].title}}

\* The lists a listing may return.
Listing(selected, query, limit) ==
    UNION {SomeOf(Matches(fetched, query), limit) :
             fetched \in SomeOf(selected, Window(limit))}

\* What each method selects before the query.
ListedNotes       == In("notes")
ListedChecklists  == In("checklists")
ListedItinerary   == In("itinerary")
ListedProjects    == In("projects")
ListedPeople      == In("people")
ListedPreferences == Open("preferences")
ListedReminders(includeDone)  == IF includeDone THEN In("reminders") ELSE Open("reminders")
ListedTasks(includeDone, project) ==
    {i \in IF includeDone THEN In("tasks") ELSE Open("tasks") :
        project \in {NoOne, rows[i].parent}}
ListedDecisions(project) == {i \in In("decisions") : project \in {NoOne, rows[i].parent}}
=============================================================================
