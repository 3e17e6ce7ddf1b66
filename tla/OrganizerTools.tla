---------------------------- MODULE OrganizerTools ----------------------------
(***************************************************************************)
(* organizer/tools.py over OrganizerStore: the tools the assistant calls,  *)
(* in two processes that share the database.  In the first one a turn runs *)
(* tools, and so does a worker of scheduler/executor.py whose step has     *)
(* timed out: it goes on while the next turn runs.  The threads of a       *)
(* process share one store and its RLock; nothing but the database keeps   *)
(* the processes apart.                                                    *)
(***************************************************************************)
EXTENDS OrganizerStore

CONSTANTS MaxDeaths   \* bound: how often a process dies

VARIABLES up,       \* "down", "migrating" or "up", by process
          call,     \* what a thread has read and is about to write
          holder,   \* who holds the RLock of a process
          acked,    \* history: rows a reply has reported as stored
          dropped,  \* history: notes on people overwritten, and by whom
          deaths    \* how often a process has died

toolVars == <<storeVars, up, call, holder, acked, dropped, deaths>>

Procs   == {"first", "second"}
Threads == {"turn", "late", "other"}

ASSUME ToolsAssumption == NoOne \notin Threads /\ MaxDeaths \in Nat

\* The late worker of ActionExecutor._run_tool belongs to the turn's process.
ProcOf(t) == IF t = "other" THEN "second" ELSE "first"

NoCall == [op |-> "none", id |-> NoOne, seen |-> {}, text |-> NoOne]

Ops == {"none", "complete", "append", "person_note", "preference"}

ToolsTypeOK ==
    /\ DOMAIN rows \subseteq Ids
    /\ \A i \in DOMAIN rows : rows[i] \in RowType
    /\ marker \in BOOLEAN
    /\ up \in [Procs -> {"down", "migrating", "up"}]
    /\ call \in [Threads -> [op : Ops, id : Ids \cup {NoOne},
                             seen : SUBSET (Ids \X Procs), text : Titles \cup {NoOne}]]
    /\ holder \in [Procs -> Threads \cup {NoOne}]
    /\ acked \subseteq Ids
    /\ dropped \subseteq Procs \X Procs
    /\ deaths \in 0..MaxDeaths

ToolsInit ==
    /\ rows = [i \in {} |-> NoOne] /\ marker = FALSE
    /\ up = [p \in Procs |-> "down"]
    /\ call = [t \in Threads |-> NoCall]
    /\ holder = [p \in Procs |-> NoOne]
    /\ acked = {} /\ dropped = {} /\ deaths = 0

----------------------------------------------------------------------------
\* OrganizerStore.__init__ : the schema, then the migration.

\* The marker is read; without it the rows of store.json follow.
StartStore(p) ==
    /\ up[p] = "down"
    /\ up' = [up EXCEPT ![p] = IF marker THEN "up" ELSE "migrating"]
    /\ UNCHANGED <<marker, rows, call, holder, acked, dropped, deaths>>

MigrateStore(p) ==
    /\ up[p] = "migrating"
    /\ Migrate
    /\ up' = [up EXCEPT ![p] = "up"]
    /\ UNCHANGED <<call, holder, acked, dropped, deaths>>

\* A process dies between two statements; a transaction is whole or not.
ProcessDies(p) ==
    /\ up[p] # "down" /\ deaths < MaxDeaths
    /\ deaths' = deaths + 1
    /\ up' = [up EXCEPT ![p] = "down"]
    /\ call' = [t \in Threads |-> IF ProcOf(t) = p THEN NoCall ELSE call[t]]
    /\ holder' = [holder EXCEPT ![p] = NoOne]
    /\ UNCHANGED <<storeVars, acked, dropped>>

----------------------------------------------------------------------------
\* Mutant of LockFree: the methods do not take the lock.
NoLockTaken(t) == TRUE

\* with self._lock
LockFree(t) == holder[ProcOf(t)] = NoOne

\* A thread of a live process that is in no call, and the store with room.
Ready(t, n) ==
    /\ up[ProcOf(t)] = "up" /\ call[t] = NoCall /\ LockFree(t)
    /\ Cardinality(DOMAIN rows \ LegacyIds) + n <= MaxRows

\* The reply of a tool names the rows it has stored.
Reply(ids) ==
    /\ acked' = acked \cup ids
    /\ UNCHANGED <<marker, up, call, holder, dropped, deaths>>

\* Tools of one statement.
notes_add(t)       == \E x \in Titles : Ready(t, 1) /\ AddNote(x) /\ Reply({NewId})
reminders_add(t)   == \E x \in Titles : Ready(t, 1) /\ AddReminder(x) /\ Reply({NewId})
itinerary_add(t)   == \E x \in Titles : Ready(t, 1) /\ AddItineraryItem(x) /\ Reply({NewId})
projects_create(t) == \E x \in Titles : Ready(t, 1) /\ CreateProject(x) /\ Reply({NewId})
daily_plan_save(t) == \E x \in Titles : Ready(t, 1) /\ SaveDailyPlan(x) /\ Reply({NewId})
people_add(t)      == \E x \in Titles : Ready(t, 1) /\ AddPerson(x) /\ Reply({NewId})

tasks_add(t) ==
    \E x \in Titles, project \in {NoOne} \cup Ids :
        Ready(t, 1) /\ AddTask(x, project) /\ Reply({NewId})

decisions_add(t) ==
    \E x \in Titles, project \in {NoOne} \cup Ids :
        Ready(t, 1) /\ AddDecision(x, project) /\ Reply({NewId})

checklist_create(t) ==
    \E x \in Titles : Ready(t, 2) /\ CreateChecklist(x) /\ Reply({NewId, NewId + 1})

----------------------------------------------------------------------------
\* Tools of two statements: the first finds, under the lock, ...
Begin(t, op, id, seen, text) ==
    /\ call' = [call EXCEPT ![t] = [op |-> op, id |-> id, seen |-> seen, text |-> text]]
    /\ holder' = [holder EXCEPT ![ProcOf(t)] = t]
    /\ UNCHANGED <<storeVars, up, acked, dropped, deaths>>

Queries == {NoOne} \cup Titles

\* What a call may find, whatever id and query it comes with.
Findable(Lookup(_, _)) ==
    UNION {Lookup(id, q) : id \in {NoOne} \cup Ids, q \in Queries}

reminders_complete(t) ==
    /\ Ready(t, 0)
    /\ \E i \in Findable(FindReminder) : Begin(t, "complete", i, {}, NoOne)

tasks_complete(t) ==
    /\ Ready(t, 0)
    /\ \E i \in Findable(FindTask) : Begin(t, "complete", i, {}, NoOne)

checklist_complete_item(t) ==
    /\ Ready(t, 0)
    /\ \E list \in Findable(FindChecklist) :
          \E i \in Findable(LAMBDA id, q : FindChecklistItem(list, id, q)) :
              Begin(t, "complete", i, {}, NoOne)

checklist_append(t) ==
    /\ Ready(t, 1)
    /\ \E list \in Findable(FindChecklist), x \in Titles :
          Begin(t, "append", list, {}, x)

people_note_add(t) ==
    /\ Ready(t, 0)
    /\ \E i \in Findable(FindPerson) :
          /\ Cardinality(rows[i].notes) < 2     \* bound
          /\ Begin(t, "person_note", i, rows[i].notes, NoOne)

preferences_save(t) ==
    /\ Ready(t, 1)
    /\ \E key \in Titles :
          \/ FindPreference(key) = {} /\ Begin(t, "preference", NoOne, {}, key)
          \/ \E i \in FindPreference(key) : Begin(t, "preference", i, {}, key)

\* ... and the second writes, which ends the call and releases the lock.
End(t) ==
    /\ call' = [call EXCEPT ![t] = NoCall]
    /\ holder' = [holder EXCEPT ![ProcOf(t)] = NoOne]
    /\ UNCHANGED <<marker, up, deaths>>

WriteComplete(t) ==
    /\ call[t].op = "complete"
    /\ CompleteRow(call[t].id)
    /\ acked' = acked \cup {call[t].id}
    /\ End(t) /\ UNCHANGED dropped

WriteAppend(t) ==
    /\ call[t].op = "append"
    /\ NewId \in Ids
    /\ AppendItem(call[t].id, call[t].text)
    /\ acked' = acked \cup {NewId}
    /\ End(t) /\ UNCHANGED dropped

\* A note is known by how many there were when it was taken.
WritePersonNote(t) ==
    LET c == call[t]
        note == <<1 + Cardinality(c.seen), ProcOf(t)>>
    IN
    /\ c.op = "person_note"
    /\ SetNotes(c.id, c.seen \cup {note})
    /\ dropped' = dropped \cup {<<n[2], ProcOf(t)>> : n \in rows[c.id].notes \ c.seen}
    /\ acked' = acked \cup {c.id}
    /\ End(t)

PreferenceWritten(c) ==
    IF c.id # NoOne THEN UpdatePreference(c.id) ELSE InsertPreference(c.text)

WritePreference(t) ==
    LET c == call[t] IN
    /\ c.op = "preference"
    /\ NewId \in Ids
    /\ PreferenceWritten(c)
    /\ acked' = acked \cup {IF c.id # NoOne THEN c.id ELSE NewId}
    /\ End(t) /\ UNCHANGED dropped

\* The database is locked by the other process, or the key is there: the
\* transaction is rolled back and the tool replies with the error.
WriteRaises(t) ==
    /\ call[t].op # "none"
    /\ End(t)
    /\ UNCHANGED <<rows, acked, dropped>>

----------------------------------------------------------------------------
\* Listing tools change nothing: the rows each may start from.
Projects == {NoOne} \cup In("projects")

notes_list       == {ListedNotes}
preferences_list == {ListedPreferences}
reminders_list   == {ListedReminders(done) : done \in BOOLEAN}
checklist_list   == {ListedChecklists}
itinerary_list   == {ListedItinerary}
tasks_list       == {ListedTasks(done, project) : done \in BOOLEAN, project \in Projects}
projects_list    == {ListedProjects}
decisions_list   == {ListedDecisions(project) : project \in Projects}
people_list      == {ListedPeople}

Selections == notes_list \cup preferences_list \cup reminders_list \cup checklist_list
              \cup itinerary_list \cup tasks_list \cup projects_list
              \cup decisions_list \cup people_list

----------------------------------------------------------------------------
AddTools(t) ==
    \/ notes_add(t) \/ reminders_add(t) \/ itinerary_add(t) \/ projects_create(t)
    \/ daily_plan_save(t) \/ people_add(t) \/ tasks_add(t) \/ decisions_add(t)
    \/ checklist_create(t)

ChangeTools(t) ==
    \/ reminders_complete(t) \/ tasks_complete(t) \/ checklist_complete_item(t)
    \/ checklist_append(t) \/ people_note_add(t) \/ preferences_save(t)
    \/ WriteComplete(t) \/ WriteAppend(t) \/ WritePersonNote(t)
    \/ WritePreference(t) \/ WriteRaises(t)

ToolsNext ==
    \/ \E p \in Procs : StartStore(p) \/ MigrateStore(p) \/ ProcessDies(p)
    \/ \E t \in Threads : AddTools(t) \/ ChangeTools(t)

ToolsSpec == ToolsInit /\ [][ToolsNext]_toolVars

----------------------------------------------------------------------------
\* Once the marker is set every record of store.json is in the database.
LegacyKept ==
    marker => /\ LegacyIds \subseteq DOMAIN rows
              /\ \A i \in LegacyIds : rows[i].table = LegacyRows[i].table

\* What a tool has completed stays completed, and no row changes its table or
\* goes away: not by a migration that comes late either.
NothingUndone ==
    [][\A i \in DOMAIN rows :
          /\ i \in DOMAIN rows'
          /\ rows'[i].table = rows[i].table
          /\ rows[i].done => rows'[i].done]_toolVars

\* A note on a person is only ever overwritten by the other process: the lock
\* covers a turn and the late worker of a scheduled step.
NotesLostOnlyAcrossProcesses == \A d \in dropped : d[1] # d[2]

\* What a reply reports as stored, or the marker as migrated, is stored whole:
\* the row is there, no two preferences have one key, a checklist has its
\* items and store.json all its records, and a note on a person stays unless
\* the other process overwrites it, whatever two processes that write and
\* migrate at the same time and deaths between the statements did.
StoredWhole ==
    /\ LegacyKept /\ NotesLostOnlyAcrossProcesses
    /\ acked \subseteq DOMAIN rows
    /\ \A i \in acked \cap In("checklists") : ItemsOf(i) # {}
    /\ \A i, j \in In("preferences") : rows[i].title = rows[j].title => i = j

\* A listing that returns fewer rows than were asked for has left out none
\* that matches, unless there was more than it fetches.
ListingIsComplete ==
    \A S \in Selections : \A q \in Queries, limit \in 1..2 :
        \A got \in Listing(S, q, limit) :
            \/ Cardinality(got) >= limit
            \/ Matches(S, q) \subseteq got
            \/ Cardinality(S) > WindowFactor * limit
=============================================================================
