---------------------------- MODULE KnowledgeBase ----------------------------
(***************************************************************************)
(* The copy of Confluence the answers are made from: knowledge_base/       *)
(* importer.py over the tables spaces and page_data (database/spaces.py,   *)
(* database/pages.py) and the vector database (database/_vector).          *)
(*                                                                         *)
(* A job is a run of bin/import_spaces, of the cron's bin/update_pages     *)
(* (which may end with knowledge_base/stats_exporter.py), or an action of  *)
(* the admin interface.  Nothing keeps jobs from overlapping.              *)
(* Confluence changes at any time, also between two calls of a job.  A     *)
(* page's version is the time it was last modified, so that its record and *)
(* its embedding say which version they were made from.                    *)
(***************************************************************************)
EXTENDS Integers, FiniteSets

CONSTANTS
    Spaces,
    Pages,
    Home,           \* the space of each page
    StatsPage,      \* the page the statistics are exported to
    Order,          \* position of each page when Confluence lists them
    Limit,          \* pages in one chunk of such a list, or of a query's result
    Jobs,
    Overlap,        \* update_space asks for this much more than is new
    Skew,           \* how far the local clock may be ahead of Confluence's
    EmptyUpsertFails,   \* upsert() of the vector engine wants one item
    MaxClock,       \* bound: modifications of pages
    MaxEvents,      \* bound: how often each event of EventKinds happens
    MaxKinds        \* bound: how many kinds of them happen in a behaviour

EventKinds == {"import", "pull", "export", "delete", "failure", "lost", "trash",
               "label", "unlabel", "archive", "close"}

\* A budget of this many is never used up.
Unlimited == -1

ASSUME KnowledgeBaseAssumption ==
    /\ Home \in [Pages -> Spaces]
    /\ StatsPage \in Pages
    /\ Order \in [Pages -> Nat]
    /\ \A p, q \in Pages : Order[p] = Order[q] => p = q
    /\ Limit \in Nat \ {0}
    /\ Overlap \in Nat /\ Skew \in Nat /\ Skew <= Overlap
    /\ EmptyUpsertFails \in BOOLEAN
    /\ MaxClock \in Nat
    /\ MaxEvents \in [EventKinds -> Nat \union {Unlimited}]
    /\ MaxKinds \in Nat

VARIABLES
    clock,      \* Confluence's clock: it ticks when a page is modified
    modified,   \* version of each page, NULL before it exists
    current,    \* pages that are neither in the trash nor archived
    labelled,   \* pages with one of the labels to ignore
    archived,   \* spaces Confluence lists as archived
    closed,     \* spaces the bot's account may not see
    spaceRow,   \* id of each space's row of spaces, or NULL
    rows,       \* rows ever inserted into spaces
    lastImport, \* last_import_date of each space
    record,     \* version in page_data of each page, NULL if it has no row
    embedded,   \* version behind the embedding of each page, or NULL
    collection, \* the vector database has the collection of pages
    overlooked, \* history: pages that are missing or out of date without an
                \* error, until they are modified or embedded again
    pc,         \* the step each job is at
    kind,       \* what it is: "import", "pull", "export" or "delete"
    space,      \* the space it works on
    todo,       \* spaces pull_updates has still to visit
    drop,       \* those it found archived
    id,         \* SpaceDTO.id of each space as it has read it
    since,      \* SpaceDTO.last_import_date
    date,       \* its import_date
    start,      \* where its list of pages, or its query, goes on
    listed,     \* the pages it has listed
    ids,        \* the pages its last query returned
    fetched,    \* version of each page it has retrieved, NULL for the others
    events      \* what is left of MaxEvents

confluence == <<clock, modified, current, labelled, archived, closed>>
spacesTable == <<spaceRow, rows, lastImport>>
vectors == <<embedded, collection>>
pagesStore == <<record, vectors, overlooked>>
run == <<kind, space, todo, drop, id, since, date>>
list == <<start, listed>>
locals == <<run, list, ids, fetched>>
vars == <<confluence, spacesTable, pagesStore, pc, locals, events>>

NULL == 0
NoSpace == "none"
NoDate == -1 - Overlap
Nothing == [p \in Pages |-> NULL]

Steps == {"idle", "next", "labels", "list", "prune", "prune_commit", "update", "search", "fetch",
          "find_space", "records", "embeddings", "remove", "remove_commit", "mark",
          "drop", "drop_commit", "export"}

PagesOf(s) == {p \in Pages : Home[p] = s}
RecordsOf(s) == {p \in PagesOf(s) : record[p] # NULL}

Init ==
    /\ clock = 0
    /\ modified = Nothing
    /\ current = {} /\ labelled = {}
    /\ archived = {} /\ closed = {}
    /\ spaceRow = [s \in Spaces |-> NULL]
    /\ rows = 0
    /\ lastImport = [s \in Spaces |-> NoDate]
    /\ record = Nothing /\ embedded = Nothing
    /\ collection = FALSE
    /\ overlooked = {}
    /\ pc = [j \in Jobs |-> "idle"]
    /\ kind = [j \in Jobs |-> "none"]
    /\ space = [j \in Jobs |-> NoSpace]
    /\ todo = [j \in Jobs |-> {}]
    /\ drop = [j \in Jobs |-> {}]
    /\ id = [j \in Jobs |-> [s \in Spaces |-> NULL]]
    /\ since = [j \in Jobs |-> [s \in Spaces |-> NoDate]]
    /\ date = [j \in Jobs |-> NoDate]
    /\ start = [j \in Jobs |-> 0]
    /\ listed = [j \in Jobs |-> {}]
    /\ ids = [j \in Jobs |-> {}]
    /\ fetched = [j \in Jobs |-> Nothing]
    /\ events = MaxEvents

-----------------------------------------------------------------------------
Goto(j, step) == pc' = [pc EXCEPT ![j] = step]

\* The job is over: it has returned, raised or died.
End(j) ==
    /\ Goto(j, "idle")
    /\ kind' = [kind EXCEPT ![j] = "none"]
    /\ space' = [space EXCEPT ![j] = NoSpace]
    /\ todo' = [todo EXCEPT ![j] = {}]
    /\ drop' = [drop EXCEPT ![j] = {}]
    /\ id' = [id EXCEPT ![j] = [s \in Spaces |-> NULL]]
    /\ since' = [since EXCEPT ![j] = [s \in Spaces |-> NoDate]]
    /\ date' = [date EXCEPT ![j] = NoDate]
    /\ start' = [start EXCEPT ![j] = 0]
    /\ listed' = [listed EXCEPT ![j] = {}]
    /\ ids' = [ids EXCEPT ![j] = {}]
    /\ fetched' = [fetched EXCEPT ![j] = Nothing]

\* The job has read these page ids and goes on.
Found(j, set, step) ==
    /\ ids' = [ids EXCEPT ![j] = set]
    /\ Goto(j, step)
    /\ UNCHANGED <<run, list, fetched>>

Stay(j, step) == Goto(j, step) /\ UNCHANGED locals

Happens(k) ==
    \/ events[k] = Unlimited /\ UNCHANGED events
    \/ /\ events[k] > 0
       /\ Cardinality({e \in EventKinds : events[e] # MaxEvents[e]} \union {k}) <= MaxKinds
       /\ events' = [events EXCEPT ![k] = @ - 1]

Visible(s) == IF s \in closed THEN {} ELSE PagesOf(s) \intersect current

NowMut == {clock + Skew + Overlap}      \* wrong: the overlap is on the wrong side

\* datetime.now(UTC) of the local machine.  A clock that is behind
\* Confluence's only makes the next update ask for more.
Now == {clock + d : d \in 0..Skew}

\* A page is written in Confluence.
Modify(p) ==
    /\ clock < MaxClock
    /\ clock' = clock + 1
    /\ modified' = [modified EXCEPT ![p] = clock + 1]
    /\ overlooked' = overlooked \ {p}

-----------------------------------------------------------------------------
(* How jobs start *)

\* import_confluence_space.
StartImport(j, s) ==
    /\ pc[j] = "idle"
    /\ Happens("import")
    /\ Goto(j, "labels")
    /\ kind' = [kind EXCEPT ![j] = "import"]
    /\ space' = [space EXCEPT ![j] = s]
    /\ \E now \in Now : date' = [date EXCEPT ![j] = now]
    /\ UNCHANGED <<todo, drop, id, since, list, ids, fetched>>
    /\ UNCHANGED <<confluence, spacesTable, pagesStore>>

\* pull_updates: the spaces, and those of them Confluence has archived.
StartPull(j) ==
    /\ pc[j] = "idle"
    /\ Happens("pull")
    /\ Goto(j, "next")
    /\ kind' = [kind EXCEPT ![j] = "pull"]
    /\ todo' = [todo EXCEPT ![j] = {s \in Spaces : spaceRow[s] # NULL}]
    /\ drop' = [drop EXCEPT ![j] = archived]
    /\ id' = [id EXCEPT ![j] = spaceRow]
    /\ since' = [since EXCEPT ![j] = lastImport]
    /\ UNCHANGED <<space, date, list, ids, fetched>>
    /\ UNCHANGED <<confluence, spacesTable, pagesStore>>

\* delete_with_pages_action of the admin interface.
StartDelete(j, s) ==
    /\ pc[j] = "idle"
    /\ spaceRow[s] # NULL
    /\ Happens("delete")
    /\ Goto(j, "drop")
    /\ kind' = [kind EXCEPT ![j] = "delete"]
    /\ space' = [space EXCEPT ![j] = s]
    /\ id' = [id EXCEPT ![j] = spaceRow]
    /\ UNCHANGED <<todo, drop, since, date, list, ids, fetched>>
    /\ UNCHANGED <<confluence, spacesTable, pagesStore>>

\* The loop of pull_updates.
NextSpace(j) ==
    /\ pc[j] = "next"
    /\ IF todo[j] = {}
         THEN End(j)
         ELSE \E s \in todo[j] :
                /\ Goto(j, IF s \in drop[j] THEN "drop" ELSE "labels")
                /\ space' = [space EXCEPT ![j] = s]
                /\ todo' = [todo EXCEPT ![j] = @ \ {s}]
                /\ ids' = [ids EXCEPT ![j] = {}]
                /\ date' = [date EXCEPT ![j] = NoDate]
                /\ fetched' = [fetched EXCEPT ![j] = Nothing]
                /\ start' = [start EXCEPT ![j] = 0]
                /\ listed' = [listed EXCEPT ![j] = {}]
                /\ UNCHANGED <<kind, drop, id, since>>
    /\ UNCHANGED <<confluence, spacesTable, pagesStore, events>>

DoneMut(j) == End(j)    \* wrong: the loop is left after one space

\* Done with a space.
Done(j) == IF kind[j] = "pull" THEN Stay(j, "next") ELSE End(j)

\* bin/update_pages --export-stats, when pull_updates has returned.
StartExport(j) ==
    /\ pc[j] = "next"
    /\ todo[j] = {}
    /\ Happens("export")
    /\ Goto(j, "export")
    /\ kind' = [kind EXCEPT ![j] = "export"]
    /\ space' = [space EXCEPT ![j] = Home[StatsPage]]
    /\ UNCHANGED <<todo, drop, id, since, date, list, ids, fetched>>
    /\ UNCHANGED <<confluence, spacesTable, pagesStore>>

-----------------------------------------------------------------------------
(* What Confluence is asked *)

\* export_spaces_stats writes its page; the rest of it is find_or_create and
\* update_space for the space of that page.  It catches every exception.
Export(j) ==
    /\ pc[j] = "export"
    /\ \/ /\ StatsPage \in Visible(space[j])
          /\ Modify(StatsPage)
          /\ Stay(j, "find_space")
       \/ /\ StatsPage \notin Visible(space[j]) \/ clock = MaxClock
          /\ End(j)
          /\ UNCHANGED <<clock, modified, overlooked>>
    /\ UNCHANGED <<current, labelled, archived, closed, spacesTable, record, vectors, events>>

\* One chunk of a query, then the next step.  As long as there are more pages than
\* that Confluence returns a link to the rest: it goes on behind the last page
\* returned, among the pages that match by then.
Query(j, matching, step) ==
    LET rest == {p \in matching : Order[p] >= start[j]} IN
    /\ \/ /\ Cardinality(rest) <= Limit
          /\ ids' = [ids EXCEPT ![j] = @ \union rest]
          /\ start' = [start EXCEPT ![j] = 0]
          /\ Goto(j, step)
       \/ \E last \in rest :
             LET chunk == {p \in rest : Order[p] <= Order[last]} IN
             /\ Cardinality(chunk) = Limit /\ chunk # rest
             /\ ids' = [ids EXCEPT ![j] = @ \union chunk]
             /\ start' = [start EXCEPT ![j] = Order[last] + 1]
             /\ UNCHANGED pc
    /\ UNCHANGED <<run, listed, fetched>>

\* get_space_page_ids_by_label, first of all of an import and of
\* __remove_non_relevant_pages.
Labels(j) ==
    /\ pc[j] = "labels"
    /\ Query(j, Visible(space[j]) \intersect labelled, "list")
    /\ UNCHANGED <<confluence, spacesTable, pagesStore, events>>

Position(p, set) == Cardinality({q \in set : Order[q] < Order[p]})

\* The pages of a space, from a position on.
Chunk(s, from) ==
    {p \in Visible(s) : Position(p, Visible(s)) \in from..(from + Limit - 1)}

\* get_space_page_ids, less the ignored; one chunk a call, until one is not full.
\* When a page goes between two calls those behind it move up, and one is
\* skipped.  InaccessibleSpaceError ends an import and makes pull_updates delete
\* the space.
List(j) ==
    /\ pc[j] = "list"
    /\ LET s == space[j]
           found == listed[j] \union Chunk(s, start[j]) IN
       \/ /\ s \in closed
          /\ IF kind[j] = "pull" THEN Stay(j, "drop") ELSE End(j)
          /\ UNCHANGED overlooked
       \/ /\ s \notin closed
          /\ Cardinality(Chunk(s, start[j])) = Limit
          /\ listed' = [listed EXCEPT ![j] = found]
          /\ start' = [start EXCEPT ![j] = @ + Limit]
          /\ UNCHANGED <<pc, run, ids, fetched, overlooked>>
       \/ /\ s \notin closed
          /\ Cardinality(Chunk(s, start[j])) < Limit
          /\ ids' = [ids EXCEPT ![j] = found \ @]
          /\ listed' = [listed EXCEPT ![j] = {}]
          /\ start' = [start EXCEPT ![j] = 0]
          /\ overlooked' = overlooked \union (Visible(s) \ found)
          /\ Goto(j, IF kind[j] = "pull" THEN "prune" ELSE "fetch")
          /\ UNCHANGED <<run, fetched>>
    /\ UNCHANGED <<confluence, spacesTable, record, vectors, events>>

QueryFromMut(from) == from    \* wrong: no overlap

\* Where the window of the next query begins.
QueryFrom(from) == from - Overlap

\* update_space takes the date before it asks what was modified.
Update(j) ==
    /\ pc[j] = "update"
    /\ IF since[j][space[j]] = NoDate
         THEN Done(j)
         ELSE /\ ids' = [ids EXCEPT ![j] = {}]
              /\ start' = [start EXCEPT ![j] = 0]
              /\ \E now \in Now : date' = [date EXCEPT ![j] = now]
              /\ Goto(j, "search")
              /\ UNCHANGED <<kind, space, todo, drop, id, since, listed, fetched>>
    /\ UNCHANGED <<confluence, spacesTable, pagesStore, events>>

\* __get_space_updated_page_ids: what was modified since the last import, and is
\* not to be ignored.
Search(j) ==
    /\ pc[j] = "search"
    /\ LET s == space[j] IN
       Query(j, {p \in Visible(s) \ labelled : modified[p] >= QueryFrom(since[j][s])}, "fetch")
    /\ UNCHANGED <<confluence, spacesTable, pagesStore, events>>

Retrieved(j) == [p \in Pages |->
    IF p \in ids[j] \intersect Visible(space[j]) THEN modified[p] ELSE NULL]

Inaccessible(j) == {p \in ids[j] : fetched[j][p] = NULL}
Accessible(j) == {p \in Pages : fetched[j][p] # NULL}

\* __retrieve_pages: a page that is gone by now is an InaccessiblePage, which
\* an import does not tolerate.
Fetch(j) ==
    /\ pc[j] = "fetch"
    /\ IF kind[j] = "import" /\ \E p \in ids[j] : Retrieved(j)[p] = NULL
         THEN End(j)
         ELSE /\ fetched' = [fetched EXCEPT ![j] = Retrieved(j)]
              /\ Goto(j, IF kind[j] = "import" THEN "find_space"
                         ELSE IF \E p \in ids[j] : Retrieved(j)[p] # NULL THEN "records"
                         ELSE "remove")
              /\ UNCHANGED <<run, list, ids>>
    /\ UNCHANGED <<confluence, spacesTable, pagesStore, events>>

-----------------------------------------------------------------------------
(* What is stored *)

\* find_or_create, by an import and by the export of the statistics.
FindSpace(j) ==
    /\ pc[j] = "find_space"
    /\ LET s == space[j]
           new == IF spaceRow[s] = NULL THEN rows + 1 ELSE spaceRow[s] IN
       /\ spaceRow' = [spaceRow EXCEPT ![s] = new]
       /\ rows' = IF spaceRow[s] = NULL THEN new ELSE rows
       /\ id' = [id EXCEPT ![j] = [@ EXCEPT ![s] = new]]
       /\ since' = [since EXCEPT ![j] = [@ EXCEPT ![s] = lastImport[s]]]
    /\ Goto(j, IF kind[j] = "import" THEN "records" ELSE "update")
    /\ UNCHANGED <<lastImport, kind, space, todo, drop, date, list, ids, fetched>>
    /\ UNCHANGED <<confluence, pagesStore, events>>

\* The space the job works on still has the row it has read.
SpaceThere(j) == spaceRow[space[j]] = id[j][space[j]]

\* __upsert_records: a transaction of its own.  Without the space's row its
\* foreign key fails.
Records(j) ==
    /\ pc[j] = "records"
    /\ IF SpaceThere(j) \/ Accessible(j) = {}
         THEN /\ record' = [p \in Pages |->
                    IF p \in Accessible(j) THEN fetched[j][p] ELSE record[p]]
              /\ Stay(j, "embeddings")
         ELSE End(j) /\ UNCHANGED record
    /\ UNCHANGED <<confluence, spacesTable, vectors, overlooked, events>>

\* upsert() of the vector engine: it stores the embeddings of some pages, and not
\* those of others it was also given.
Embed(j, stored, lost) ==
    /\ embedded' = [p \in Pages |-> IF p \in stored THEN fetched[j][p] ELSE embedded[p]]
    /\ overlooked' = (overlooked \ stored) \union lost

\* weaviate's insert_many raises if it can store nothing, and otherwise only
\* returns its errors, which upsert() does not read.
Unstored(all) == SUBSET all \ {{}, all}

EnsureCollection == collection' = TRUE

\* import_items: every embedding is computed before the first is stored.
Embeddings(j) ==
    /\ pc[j] = "embeddings"
    /\ LET all == Accessible(j) IN
       \/ /\ EmptyUpsertFails /\ all = {}
          /\ End(j)
          /\ UNCHANGED <<vectors, overlooked, events>>
       \/ /\ EmptyUpsertFails => all # {}
          /\ EnsureCollection
          /\ \/ Embed(j, all, {}) /\ UNCHANGED events
             \/ \E lost \in Unstored(all) : Happens("lost") /\ Embed(j, all \ lost, lost)
          /\ Stay(j, IF kind[j] = "import" THEN "mark" ELSE "remove")
    /\ UNCHANGED <<confluence, spacesTable, record>>

\* mark_imported: SpaceNotFoundError if the row is gone.
Mark(j) ==
    /\ pc[j] = "mark"
    /\ IF SpaceThere(j)
         THEN lastImport' = [lastImport EXCEPT ![space[j]] = date[j]] /\ Done(j)
         ELSE End(j) /\ UNCHANGED lastImport
    /\ UNCHANGED <<confluence, spaceRow, rows, pagesStore, events>>

-----------------------------------------------------------------------------
(* What is removed: delete_by_page_ids and delete_by_space take the embeddings
   first and commit the rows afterwards. *)

Without(store, set) == [p \in Pages |-> IF p \in set THEN NULL ELSE store[p]]

UnembeddedMut(set) == embedded      \* wrong: delete_embeddings is forgotten

\* delete_embeddings.
Unembedded(set) == Without(embedded, set)

\* delete_items raises without a collection, and the rows stay.
CanUnembed(set) == collection \/ set = {}

\* __remove_non_relevant_pages: what page_data has and Confluence has not.
Prune(j) ==
    /\ pc[j] = "prune"
    /\ LET s == space[j]
           gone == (IF SpaceThere(j) THEN RecordsOf(s) ELSE {}) \ ids[j] IN
       IF CanUnembed(gone)
         THEN /\ Found(j, gone, IF gone = {} THEN "update" ELSE "prune_commit")
              /\ embedded' = Unembedded(gone)
         ELSE End(j) /\ UNCHANGED embedded
    /\ UNCHANGED <<confluence, spacesTable, record, collection, overlooked, events>>

PruneCommit(j) ==
    /\ pc[j] = "prune_commit"
    /\ record' = Without(record, ids[j])
    /\ Stay(j, "update")
    /\ UNCHANGED <<confluence, spacesTable, vectors, overlooked, events>>

\* The pages update_space found inaccessible.
Remove(j) ==
    /\ pc[j] = "remove"
    /\ IF CanUnembed(Inaccessible(j))
         THEN /\ embedded' = Unembedded(Inaccessible(j))
              /\ Stay(j, IF Inaccessible(j) = {} THEN "mark" ELSE "remove_commit")
         ELSE End(j) /\ UNCHANGED embedded
    /\ UNCHANGED <<confluence, spacesTable, record, collection, overlooked, events>>

RemoveCommit(j) ==
    /\ pc[j] = "remove_commit"
    /\ record' = Without(record, Inaccessible(j))
    /\ Stay(j, "mark")
    /\ UNCHANGED <<confluence, spacesTable, vectors, overlooked, events>>

\* delete_space_and_related_pages: SpaceNotFoundError ends the job.
Drop(j) ==
    /\ pc[j] = "drop"
    /\ LET s == space[j] IN
       IF SpaceThere(j) /\ CanUnembed(RecordsOf(s))
         THEN /\ embedded' = Unembedded(RecordsOf(s))
              /\ overlooked' = overlooked \union RecordsOf(s)
              /\ Found(j, RecordsOf(s), "drop_commit")
         ELSE End(j) /\ UNCHANGED <<embedded, overlooked>>
    /\ UNCHANGED <<confluence, spacesTable, record, collection, events>>

\* Its commit.  Pages added meanwhile still refer to the row: IntegrityError.  A
\* row deleted meanwhile took the pages with it, and is only warned about.
DropCommit(j) ==
    /\ pc[j] = "drop_commit"
    /\ LET s == space[j]
           deletes == SpaceThere(j) /\ RecordsOf(s) \subseteq ids[j] IN
       /\ IF deletes
            THEN /\ record' = Without(record, ids[j])
                 /\ overlooked' = overlooked \ ids[j]
                 /\ spaceRow' = [spaceRow EXCEPT ![s] = NULL]
                 /\ lastImport' = [lastImport EXCEPT ![s] = NoDate]
            ELSE UNCHANGED <<record, overlooked, spaceRow, lastImport>>
       /\ IF SpaceThere(j) => deletes THEN Done(j) ELSE End(j)
    /\ UNCHANGED <<confluence, rows, vectors, events>>

\* An exception nobody catches, or the death of the process: pull_updates
\* leaves the rest of the spaces for the next time.  The vector engine stores
\* embeddings in chunks, the first of which may be there.
Fail(j) ==
    /\ pc[j] # "idle"
    /\ Happens("failure")
    /\ \/ pc[j] # "embeddings" /\ UNCHANGED <<vectors, overlooked>>
       \/ /\ pc[j] = "embeddings"
          /\ collection' \in {collection, TRUE}
          /\ \E stored \in SUBSET (IF collection' THEN Accessible(j) ELSE {}) :
               Embed(j, stored, {})
    /\ End(j)
    /\ UNCHANGED <<confluence, spacesTable, record>>

-----------------------------------------------------------------------------
(* Confluence *)

\* A page is created, edited, or restored.
Edit(p) ==
    /\ Modify(p)
    /\ current' = current \union {p}
    /\ UNCHANGED <<labelled, archived, closed, spacesTable, record, vectors>>
    /\ UNCHANGED <<pc, locals, events>>

Trash(p) ==
    /\ p \in current
    /\ Happens("trash")
    /\ current' = current \ {p}
    /\ UNCHANGED <<clock, modified, labelled, archived, closed>>
    /\ UNCHANGED <<spacesTable, pagesStore, pc, locals>>

\* Labels do not count as modifications.
Label(p) ==
    /\ p \in current \ labelled
    /\ Happens("label")
    /\ labelled' = labelled \union {p}
    /\ UNCHANGED <<clock, modified, current, archived, closed>>
    /\ UNCHANGED <<spacesTable, pagesStore, pc, locals>>

Unlabel(p) ==
    /\ p \in labelled
    /\ Happens("unlabel")
    /\ labelled' = labelled \ {p}
    /\ overlooked' = overlooked \union {p}
    /\ UNCHANGED <<clock, modified, current, archived, closed>>
    /\ UNCHANGED <<spacesTable, record, vectors, pc, locals>>

Archive(s) ==
    /\ s \notin archived
    /\ Happens("archive")
    /\ archived' = archived \union {s}
    /\ UNCHANGED <<clock, modified, current, labelled, closed>>
    /\ UNCHANGED <<spacesTable, pagesStore, pc, locals>>

Close(s) ==
    /\ s \notin closed
    /\ Happens("close")
    /\ closed' = closed \union {s}
    /\ UNCHANGED <<clock, modified, current, labelled, archived>>
    /\ UNCHANGED <<spacesTable, pagesStore, pc, locals>>

-----------------------------------------------------------------------------
Step(j) ==
    \/ NextSpace(j) \/ Labels(j) \/ List(j) \/ Update(j) \/ Search(j) \/ Fetch(j)
    \/ FindSpace(j) \/ Records(j) \/ Embeddings(j) \/ Mark(j)
    \/ Prune(j) \/ PruneCommit(j) \/ Remove(j) \/ RemoveCommit(j)
    \/ Drop(j) \/ DropCommit(j) \/ Export(j)

Confluence ==
    \/ \E p \in Pages : Edit(p) \/ Trash(p) \/ Label(p) \/ Unlabel(p)
    \/ \E s \in Spaces : Archive(s) \/ Close(s)

Next ==
    \/ \E j \in Jobs : Step(j) \/ StartPull(j) \/ StartExport(j) \/ Fail(j)
    \/ \E j \in Jobs, s \in Spaces : StartImport(j, s) \/ StartDelete(j, s)
    \/ Confluence

Spec == Init /\ [][Next]_vars

\* Jobs go on, and cron starts bin/update_pages again and again.
FairSpec ==
    /\ Spec
    /\ \A j \in Jobs : WF_vars(Step(j)) /\ WF_vars(StartPull(j))

-----------------------------------------------------------------------------
Dates == {NoDate} \union 0..(MaxClock + Skew)

\* Dates and versions never run ahead of the clocks they are taken from, and
\* what jobs hold of rows and pages was there once.
TypeOK ==
    /\ clock \in 0..MaxClock
    /\ modified \in [Pages -> 0..clock]
    /\ current \subseteq Pages /\ labelled \subseteq Pages
    /\ archived \subseteq Spaces /\ closed \subseteq Spaces
    /\ rows \in Nat
    /\ spaceRow \in [Spaces -> 0..rows]
    /\ lastImport \in [Spaces -> Dates]
    /\ record \in [Pages -> 0..clock]
    /\ embedded \in [Pages -> 0..clock]
    /\ collection \in BOOLEAN
    /\ overlooked \subseteq Pages
    /\ pc \in [Jobs -> Steps]
    /\ kind \in [Jobs -> {"none", "import", "pull", "export", "delete"}]
    /\ space \in [Jobs -> Spaces \union {NoSpace}]
    /\ todo \in [Jobs -> SUBSET Spaces]
    /\ drop \in [Jobs -> SUBSET Spaces]
    /\ id \in [Jobs -> [Spaces -> 0..rows]]
    /\ since \in [Jobs -> [Spaces -> Dates]]
    /\ date \in [Jobs -> Dates]
    /\ start \in [Jobs -> Nat]
    /\ listed \in [Jobs -> SUBSET Pages]
    /\ ids \in [Jobs -> SUBSET Pages]
    /\ fetched \in [Jobs -> [Pages -> 0..clock]]

\* The vector database never leads the retriever to a page without a record,
\* wherever a job stops (pages.py writes rows before embeddings and deletes them
\* after).
EmbeddingsHaveRecords == \A p \in Pages : embedded[p] # NULL => record[p] # NULL

\* Pages the knowledge base is to hold in their present version.
Wanted(p) ==
    /\ lastImport[Home[p]] # NoDate
    /\ Home[p] \notin archived \union closed
    /\ p \in current \ (labelled \union overlooked)

UpToDate(p) == record[p] = modified[p] /\ embedded[p] = modified[p]

\* importer.py:48, "Pull page updates in imported Confluence spaces that happened
\* since last time": no modification falls between two updates.  A page that is
\* not up to date is still inside the window of the next query, whatever changed
\* while a job was running, wherever it stopped, and however far the clocks are
\* apart.  (Pages the code gives up without an error are left out, see overlooked.)
StaleIsInWindow ==
    \A p \in Pages :
        Wanted(p) /\ ~UpToDate(p) => modified[p] >= QueryFrom(lastImport[Home[p]])

\* Once Confluence rests, the updates bring the knowledge base in line with it
\* for good: what is wanted is up to date, and nothing is kept of pages in the
\* trash or with a label to ignore, nor of archived and closed spaces; unless
\* nothing was ever embedded, when deletions raise.
Converges ==
    \A p \in Pages :
        /\ <>[](Wanted(p) => UpToDate(p))
        /\ <>[](collection /\ (p \notin current \/ p \in labelled
                                \/ Home[p] \in archived \union closed)
                    => record[p] = NULL)

=============================================================================
