------------------------- MODULE KnowledgeBase_proofs -------------------------
(***************************************************************************)
(* Proofs about KnowledgeBase, for any spaces, pages and events: its types *)
(* for any jobs; that embeddings lead to records and that no modification  *)
(* is missed, for one job at a time (two jobs do miss some).               *)
(***************************************************************************)
EXTENDS KnowledgeBase, TLAPS

\* A job that works on a space has one.
Placed == \A j \in Jobs : pc[j] \notin {"idle", "next"} => space[j] \in Spaces

Shape == TypeOK /\ Placed

-----------------------------------------------------------------------------
(* Types *)

LEMMA Numbers ==
    /\ MaxClock \in Nat /\ Overlap \in Nat /\ Skew \in Nat /\ Skew <= Overlap
    /\ NoDate \in Int /\ NoDate < 0 /\ NoDate \in Dates
    /\ Dates \subseteq Int
    /\ \A d \in Dates : d # NoDate => d \in 0..(MaxClock + Skew)
    /\ NULL = 0
  BY KnowledgeBaseAssumption DEF NoDate, Dates, NULL

\* The types of what belongs to jobs, of Confluence and of what is stored.
JobTypes ==
    /\ pc \in [Jobs -> Steps]
    /\ kind \in [Jobs -> {"none", "import", "pull", "export", "delete"}]
    /\ space \in [Jobs -> Spaces \union {NoSpace}]
    /\ todo \in [Jobs -> SUBSET Spaces]
    /\ drop \in [Jobs -> SUBSET Spaces]
    /\ id \in [Jobs -> [Spaces -> 0..rows]]
    /\ since \in [Jobs -> [Spaces -> Dates]]
    /\ date \in [Jobs -> Dates]
    /\ start \in [Jobs -> Nat]
    /\ listed \in [Jobs -> SUBSET Pages]
    /\ ids \in [Jobs -> SUBSET Pages]
    /\ fetched \in [Jobs -> [Pages -> 0..clock]]

ConfluenceTypes ==
    /\ clock \in 0..MaxClock
    /\ modified \in [Pages -> 0..clock]
    /\ current \subseteq Pages /\ labelled \subseteq Pages
    /\ archived \subseteq Spaces /\ closed \subseteq Spaces

StoreTypes ==
    /\ rows \in Nat
    /\ spaceRow \in [Spaces -> 0..rows]
    /\ lastImport \in [Spaces -> Dates]
    /\ record \in [Pages -> 0..clock]
    /\ embedded \in [Pages -> 0..clock]
    /\ collection \in BOOLEAN
    /\ overlooked \subseteq Pages

LEMMA TypeParts == TypeOK <=> JobTypes /\ ConfluenceTypes /\ StoreTypes
  BY DEF TypeOK, JobTypes, ConfluenceTypes, StoreTypes

LEMMA InitShape == Init => Shape
<1> SUFFICES ASSUME Init PROVE Shape
  OBVIOUS
<1>1. Placed
  BY DEF Init, Placed
<1>2. ConfluenceTypes
  BY Numbers DEF Init, ConfluenceTypes, Nothing, NULL
<1>3. StoreTypes
  <2>1. rows \in Nat /\ spaceRow \in [Spaces -> 0..rows]
    BY DEF Init, NULL
  <2>2. lastImport \in [Spaces -> Dates]
    BY Numbers DEF Init
  <2>3. record \in [Pages -> 0..clock] /\ embedded \in [Pages -> 0..clock]
    BY DEF Init, Nothing, NULL
  <2> QED
    BY <2>1, <2>2, <2>3 DEF Init, StoreTypes
<1>4. JobTypes
  <2>1. Nothing \in [Pages -> 0..clock] /\ NULL \in 0..rows
    BY DEF Init, Nothing, NULL
  <2>2. /\ pc \in [Jobs -> Steps]
        /\ kind \in [Jobs -> {"none", "import", "pull", "export", "delete"}]
        /\ space \in [Jobs -> Spaces \union {NoSpace}]
    BY DEF Init, Steps
  <2>3. /\ todo \in [Jobs -> SUBSET Spaces] /\ drop \in [Jobs -> SUBSET Spaces]
        /\ start \in [Jobs -> Nat]
        /\ listed \in [Jobs -> SUBSET Pages] /\ ids \in [Jobs -> SUBSET Pages]
    BY DEF Init
  <2>4. /\ id \in [Jobs -> [Spaces -> 0..rows]]
        /\ since \in [Jobs -> [Spaces -> Dates]]
        /\ date \in [Jobs -> Dates]
        /\ fetched \in [Jobs -> [Pages -> 0..clock]]
    BY <2>1, Numbers DEF Init
  <2> QED
    BY <2>2, <2>3, <2>4 DEF JobTypes
<1> QED
  BY <1>1, <1>2, <1>3, <1>4, TypeParts DEF Shape

\* A step changes what one job holds.
JobStep(j) ==
    /\ pc' = [pc EXCEPT ![j] = pc'[j]]
    /\ kind' = [kind EXCEPT ![j] = kind'[j]]
    /\ space' = [space EXCEPT ![j] = space'[j]]
    /\ todo' = [todo EXCEPT ![j] = todo'[j]]
    /\ drop' = [drop EXCEPT ![j] = drop'[j]]
    /\ id' = [id EXCEPT ![j] = id'[j]]
    /\ since' = [since EXCEPT ![j] = since'[j]]
    /\ date' = [date EXCEPT ![j] = date'[j]]
    /\ start' = [start EXCEPT ![j] = start'[j]]
    /\ listed' = [listed EXCEPT ![j] = listed'[j]]
    /\ ids' = [ids EXCEPT ![j] = ids'[j]]
    /\ fetched' = [fetched EXCEPT ![j] = fetched'[j]]

JobTypesOf(j) ==
    /\ pc'[j] \in Steps
    /\ kind'[j] \in {"none", "import", "pull", "export", "delete"}
    /\ space'[j] \in Spaces \union {NoSpace}
    /\ todo'[j] \subseteq Spaces
    /\ drop'[j] \subseteq Spaces
    /\ id'[j] \in [Spaces -> 0..rows']
    /\ since'[j] \in [Spaces -> Dates]
    /\ date'[j] \in Dates
    /\ start'[j] \in Nat
    /\ listed'[j] \subseteq Pages
    /\ ids'[j] \subseteq Pages
    /\ fetched'[j] \in [Pages -> 0..clock']
    /\ pc'[j] \notin {"idle", "next"} => space'[j] \in Spaces

LEMMA FunctionsOfJobs ==
    ASSUME TypeOK, NEW j \in Jobs
    PROVE  /\ pc = [pc EXCEPT ![j] = pc[j]]
           /\ kind = [kind EXCEPT ![j] = kind[j]]
           /\ space = [space EXCEPT ![j] = space[j]]
           /\ todo = [todo EXCEPT ![j] = todo[j]]
           /\ drop = [drop EXCEPT ![j] = drop[j]]
           /\ id = [id EXCEPT ![j] = id[j]]
           /\ since = [since EXCEPT ![j] = since[j]]
           /\ date = [date EXCEPT ![j] = date[j]]
           /\ start = [start EXCEPT ![j] = start[j]]
           /\ listed = [listed EXCEPT ![j] = listed[j]]
           /\ ids = [ids EXCEPT ![j] = ids[j]]
           /\ fetched = [fetched EXCEPT ![j] = fetched[j]]
  BY DEF TypeOK

\* The clocks and the ids of rows only go up.
Grows == rows' >= rows /\ clock' >= clock

LEMMA OneJobMoves ==
    ASSUME Shape, NEW j \in Jobs, JobStep(j), JobTypesOf(j), StoreTypes', ConfluenceTypes', Grows
    PROVE  Shape'
<1>1. rows \in Nat /\ rows' \in Nat /\ clock \in Nat /\ clock' \in Nat
  BY Numbers DEF Shape, TypeOK, StoreTypes, ConfluenceTypes
<1>2. 0..rows \subseteq 0..rows' /\ 0..clock \subseteq 0..clock'
  BY <1>1 DEF Grows
<1>3. /\ pc' \in [Jobs -> Steps]
      /\ kind' \in [Jobs -> {"none", "import", "pull", "export", "delete"}]
      /\ space' \in [Jobs -> Spaces \union {NoSpace}]
  BY DEF Shape, TypeOK, JobStep, JobTypesOf
<1>4. todo' \in [Jobs -> SUBSET Spaces] /\ drop' \in [Jobs -> SUBSET Spaces]
  BY DEF Shape, TypeOK, JobStep, JobTypesOf
<1>5. id' \in [Jobs -> [Spaces -> 0..rows']]
  <2>1. ASSUME NEW i \in Jobs PROVE id'[i] \in [Spaces -> 0..rows']
    <3>1. CASE i = j
      BY <3>1 DEF JobTypesOf
    <3>2. CASE i # j
      <4>1. id'[i] = id[i]
        BY <3>2 DEF JobStep, Shape, TypeOK
      <4>2. id[i] \in [Spaces -> 0..rows]
        BY DEF Shape, TypeOK
      <4> QED
        BY <1>2, <4>1, <4>2
    <3> QED
      BY <3>1, <3>2
  <2>2. id' = [i \in Jobs |-> id'[i]]
    BY DEF JobStep, Shape, TypeOK
  <2> QED
    BY <2>1, <2>2
<1>6. since' \in [Jobs -> [Spaces -> Dates]] /\ date' \in [Jobs -> Dates]
  BY DEF Shape, TypeOK, JobStep, JobTypesOf
<1>7. start' \in [Jobs -> Nat] /\ listed' \in [Jobs -> SUBSET Pages] /\ ids' \in [Jobs -> SUBSET Pages]
  BY DEF Shape, TypeOK, JobStep, JobTypesOf
<1>8. fetched' \in [Jobs -> [Pages -> 0..clock']]
  <2>1. ASSUME NEW i \in Jobs PROVE fetched'[i] \in [Pages -> 0..clock']
    <3>1. CASE i = j
      BY <3>1 DEF JobTypesOf
    <3>2. CASE i # j
      <4>1. fetched'[i] = fetched[i]
        BY <3>2 DEF JobStep, Shape, TypeOK
      <4>2. fetched[i] \in [Pages -> 0..clock]
        BY DEF Shape, TypeOK
      <4> QED
        BY <1>2, <4>1, <4>2
    <3> QED
      BY <3>1, <3>2
  <2>2. fetched' = [i \in Jobs |-> fetched'[i]]
    BY DEF JobStep, Shape, TypeOK
  <2> QED
    BY <2>1, <2>2
<1>9. JobTypes'
  BY <1>3, <1>4, <1>5, <1>6, <1>7, <1>8 DEF JobTypes
<1>10. Placed'
  BY DEF Shape, TypeOK, Placed, JobStep, JobTypesOf
<1> QED
  BY <1>9, <1>10, TypeParts DEF TypeOK, JobTypes, ConfluenceTypes, StoreTypes, Shape

\* One chunk of a query: it keeps what the job has found and leaves out no page that
\* matches, but those behind the place where it goes on.
LEMMA QueryGoesOn ==
    ASSUME Shape, NEW j \in Jobs, NEW matching \in SUBSET Pages, NEW step, Query(j, matching, step)
    PROVE  /\ UNCHANGED <<run, listed, fetched>> /\ start'[j] \in Nat
           /\ ids[j] \subseteq ids'[j] /\ ids'[j] \subseteq ids[j] \union matching
           /\ \/ /\ pc'[j] = step
                 /\ \A p \in matching : Order[p] >= start[j] => p \in ids'[j]
              \/ /\ pc'[j] = pc[j]
                 /\ \A p \in matching : Order[p] >= start[j] => p \in ids'[j] \/ Order[p] >= start'[j]
<1> DEFINE rest == {p \in matching : Order[p] >= start[j]}
<1>0. /\ DOMAIN pc = Jobs /\ DOMAIN ids = Jobs /\ DOMAIN start = Jobs /\ start[j] \in Nat
      /\ \A p \in Pages : Order[p] \in Nat
  BY KnowledgeBaseAssumption DEF Shape, TypeOK
<1>1. UNCHANGED <<run, listed, fetched>>
  BY DEF Query
<1>2. CASE /\ ids' = [ids EXCEPT ![j] = @ \union rest]
           /\ start' = [start EXCEPT ![j] = 0]
           /\ Goto(j, step)
  BY <1>0, <1>1, <1>2 DEF Goto
<1>3. CASE \E last \in rest :
             /\ ids' = [ids EXCEPT ![j] = @ \union {p \in rest : Order[p] <= Order[last]}]
             /\ start' = [start EXCEPT ![j] = Order[last] + 1]
             /\ UNCHANGED pc
  <2>1. PICK last \in rest :
             /\ ids' = [ids EXCEPT ![j] = @ \union {p \in rest : Order[p] <= Order[last]}]
             /\ start' = [start EXCEPT ![j] = Order[last] + 1]
             /\ UNCHANGED pc
    BY <1>3
  <2>2. /\ ids'[j] = ids[j] \union {p \in rest : Order[p] <= Order[last]}
        /\ start'[j] = Order[last] + 1 /\ pc'[j] = pc[j]
    BY <1>0, <2>1
  <2>3. start'[j] \in Nat
    BY <1>0, <2>2
  <2>4. ASSUME NEW p \in matching, Order[p] >= start[j] PROVE p \in ids'[j] \/ Order[p] >= start'[j]
    <3>1. Order[p] \in Nat /\ Order[last] \in Nat /\ p \in rest
      BY <1>0, <2>4
    <3> QED
      BY <2>2, <3>1
  <2> QED
    BY <1>1, <2>2, <2>3, <2>4
<1> QED
  BY <1>2, <1>3 DEF Query

\* The actions of one job.
JobAction(j) ==
    \/ Step(j) \/ StartPull(j) \/ StartExport(j) \/ Fail(j)
    \/ \E s \in Spaces : StartImport(j, s) \/ StartDelete(j, s)

LEMMA JobsMoveAlone ==
    ASSUME TypeOK, NEW j \in Jobs, JobAction(j)
    PROVE  JobStep(j)
<1> USE FunctionsOfJobs DEF JobStep
<1>1. ASSUME End(j) PROVE JobStep(j)
  BY <1>1 DEF End, Goto, TypeOK
<1>2. ASSUME NEW step, Stay(j, step) PROVE JobStep(j)
  BY <1>2 DEF Stay, Goto, locals, run, list, TypeOK
<1>3. ASSUME NEW set, NEW step, Found(j, set, step) PROVE JobStep(j)
  BY <1>3 DEF Found, Goto, run, list, TypeOK
<1>4. ASSUME Done(j) PROVE JobStep(j)
  BY <1>1, <1>2, <1>4 DEF Done
<1>query. ASSUME NEW set, NEW step, Query(j, set, step) PROVE JobStep(j)
  <2>1. /\ UNCHANGED <<run, listed, fetched>>
        /\ \E found : ids' = [ids EXCEPT ![j] = found]
        /\ \E next : start' = [start EXCEPT ![j] = next]
        /\ Goto(j, step) \/ UNCHANGED pc
    BY <1>query DEF Query
  <2> QED
    BY <2>1 DEF Goto, run, TypeOK
<1>5. CASE NextSpace(j)
  BY <1>1, <1>5 DEF NextSpace, Goto, list, TypeOK
<1>6. CASE Labels(j) \/ Search(j)
  BY <1>query, <1>6 DEF Labels, Search
<1>7. CASE List(j)
  BY <1>1, <1>2, <1>7 DEF List, Goto, run, TypeOK
<1>8. CASE Update(j)
  BY <1>4, <1>8 DEF Update, Goto, TypeOK
<1>9. CASE Fetch(j)
  BY <1>1, <1>9 DEF Fetch, Goto, run, list, TypeOK
<1>10. CASE FindSpace(j)
  BY <1>10 DEF FindSpace, Goto, list, TypeOK
<1>11. CASE Records(j) \/ Embeddings(j) \/ Mark(j)
  BY <1>1, <1>2, <1>4, <1>11 DEF Records, Embeddings, Mark
<1>12. CASE Prune(j) \/ PruneCommit(j) \/ Remove(j) \/ RemoveCommit(j)
  BY <1>1, <1>2, <1>3, <1>12 DEF Prune, PruneCommit, Remove, RemoveCommit
<1>13. CASE Drop(j) \/ DropCommit(j) \/ Export(j) \/ Fail(j)
  BY <1>1, <1>2, <1>3, <1>4, <1>13 DEF Drop, DropCommit, Export, Fail
<1>14. CASE StartPull(j) \/ StartExport(j)
  BY <1>14 DEF StartPull, StartExport, Goto, list, TypeOK
<1>15. CASE \E s \in Spaces : StartImport(j, s) \/ StartDelete(j, s)
  BY <1>15 DEF StartImport, StartDelete, Goto, list, TypeOK
<1> QED
  BY <1>5, <1>6, <1>7, <1>8, <1>9, <1>10, <1>11, <1>12, <1>13, <1>14, <1>15 DEF JobAction, Step

LEMMA PagesOfSpaces ==
    ASSUME Shape
    PROVE  \A s : Visible(s) \subseteq Pages /\ RecordsOf(s) \subseteq Pages
  BY DEF Visible, RecordsOf, PagesOf

\* The local clock is ahead of Confluence's by no more than Skew.
LEMMA NowIsADate ==
    ASSUME Shape, NEW now \in Now
    PROVE  /\ now \in 0..(MaxClock + Skew) /\ now \in Dates
           /\ now >= clock /\ now <= clock + Skew
  BY Numbers DEF Shape, TypeOK, Now, Dates

\* Confluence and what is stored keep their types.
LEMMA StoresKept ==
    ASSUME Shape, NEW j \in Jobs, JobAction(j)
    PROVE  ConfluenceTypes' /\ StoreTypes' /\ Grows
<1>0. /\ rows \in Nat /\ clock \in Nat /\ clock <= MaxClock /\ fetched[j] \in [Pages -> 0..clock]
      /\ ConfluenceTypes /\ StoreTypes
  BY Numbers DEF Shape, TypeOK, ConfluenceTypes, StoreTypes
<1>1. UNCHANGED confluence => ConfluenceTypes' /\ clock' = clock
  BY <1>0 DEF ConfluenceTypes, confluence
<1>2. ASSUME UNCHANGED <<clock, rows>> PROVE Grows
  BY <1>0, <1>2 DEF Grows
<1>3. ASSUME UNCHANGED <<confluence, spacesTable>>, record' \in [Pages -> 0..clock],
             embedded' \in [Pages -> 0..clock], collection' \in BOOLEAN, overlooked' \subseteq Pages
      PROVE  ConfluenceTypes' /\ StoreTypes' /\ Grows
  BY <1>0, <1>1, <1>2, <1>3 DEF confluence, spacesTable, StoreTypes
<1>4. ASSUME UNCHANGED <<confluence, spacesTable, pagesStore>> PROVE ConfluenceTypes' /\ StoreTypes' /\ Grows
  BY <1>0, <1>3, <1>4 DEF pagesStore, vectors, StoreTypes
<1>5. \A store, set : store \in [Pages -> 0..clock] => Without(store, set) \in [Pages -> 0..clock]
  BY <1>0 DEF Without, NULL
<1>6. ASSUME NEW stored \in SUBSET Pages, NEW lost \in SUBSET Pages, Embed(j, stored, lost)
      PROVE  embedded' \in [Pages -> 0..clock] /\ overlooked' \subseteq Pages
  BY <1>0, <1>6 DEF Embed, StoreTypes
<1>7. Accessible(j) \subseteq Pages
  BY DEF Accessible
<1>8. CASE NextSpace(j) \/ Labels(j) \/ Update(j) \/ Search(j) \/ Fetch(j)
  BY <1>4, <1>8 DEF NextSpace, Labels, Update, Search, Fetch
<1>9. CASE StartPull(j) \/ StartExport(j) \/ \E s \in Spaces : StartImport(j, s) \/ StartDelete(j, s)
  BY <1>4, <1>9 DEF StartPull, StartExport, StartImport, StartDelete
<1>10. CASE List(j)
  <2>1. overlooked' \subseteq Pages
    <3>1. overlooked' = overlooked \/ \E found : overlooked' = overlooked \union (Visible(space[j]) \ found)
      BY <1>10 DEF List
    <3> QED
      BY <1>0, <3>1, PagesOfSpaces DEF StoreTypes
  <2> QED
    BY <1>0, <1>3, <1>10, <2>1 DEF List, StoreTypes, vectors
<1>11. CASE FindSpace(j)
  <2>1. space[j] \in Spaces
    BY <1>11 DEF FindSpace, Shape, Placed
  <2> DEFINE new == IF spaceRow[space[j]] = NULL THEN rows + 1 ELSE spaceRow[space[j]]
  <2>2. /\ spaceRow' = [spaceRow EXCEPT ![space[j]] = new]
        /\ rows' = IF spaceRow[space[j]] = NULL THEN new ELSE rows
        /\ UNCHANGED <<lastImport, confluence, pagesStore>>
    BY <1>11 DEF FindSpace
  <2>3. rows' \in Nat /\ rows' >= rows /\ spaceRow' \in [Spaces -> 0..rows']
    BY <1>0, <2>1, <2>2 DEF StoreTypes
  <2> QED
    BY <1>0, <1>1, <2>2, <2>3 DEF StoreTypes, Grows, pagesStore, vectors, confluence
<1>12. CASE Records(j)
  <2>1. record' \in [Pages -> 0..clock]
    BY <1>0, <1>12 DEF Records, StoreTypes
  <2> QED
    BY <1>0, <1>3, <1>12, <2>1 DEF Records, StoreTypes, vectors
<1>13. CASE Embeddings(j)
  <2>1. embedded' \in [Pages -> 0..clock] /\ overlooked' \subseteq Pages /\ collection' \in BOOLEAN
    <3>1. CASE UNCHANGED <<vectors, overlooked>>
      BY <1>0, <3>1 DEF vectors, StoreTypes
    <3>2. CASE /\ EnsureCollection
               /\ \/ Embed(j, Accessible(j), {})
                  \/ \E lost \in Unstored(Accessible(j)) : Embed(j, Accessible(j) \ lost, lost)
      <4>1. CASE Embed(j, Accessible(j), {})
        BY <1>6, <1>7, <3>2, <4>1 DEF EnsureCollection
      <4>2. CASE \E lost \in Unstored(Accessible(j)) : Embed(j, Accessible(j) \ lost, lost)
        <5>1. PICK lost \in Unstored(Accessible(j)) : Embed(j, Accessible(j) \ lost, lost)
          BY <4>2
        <5>2. lost \subseteq Pages
          BY <1>7 DEF Unstored
        <5> QED
          BY <1>6, <1>7, <3>2, <5>1, <5>2 DEF EnsureCollection
      <4> QED
        BY <3>2, <4>1, <4>2
    <3> QED
      BY <1>13, <3>1, <3>2 DEF Embeddings
  <2> QED
    BY <1>0, <1>3, <1>13, <2>1 DEF Embeddings, StoreTypes
<1>14. CASE Mark(j)
  <2>1. lastImport' \in [Spaces -> Dates]
    BY <1>0, <1>14 DEF Mark, StoreTypes, Shape, TypeOK
  <2> QED
    BY <1>0, <1>1, <1>2, <1>14, <2>1 DEF Mark, StoreTypes, pagesStore, vectors, confluence
<1>15. CASE Prune(j) \/ Remove(j)
  <2>1. embedded' \in [Pages -> 0..clock]
    BY <1>0, <1>5, <1>15 DEF Prune, Remove, Unembedded, StoreTypes
  <2> QED
    BY <1>0, <1>3, <1>15, <2>1 DEF Prune, Remove, StoreTypes
<1>16. CASE PruneCommit(j) \/ RemoveCommit(j)
  <2>1. record' \in [Pages -> 0..clock]
    BY <1>0, <1>5, <1>16 DEF PruneCommit, RemoveCommit, StoreTypes
  <2> QED
    BY <1>0, <1>3, <1>16, <2>1 DEF PruneCommit, RemoveCommit, StoreTypes, vectors
<1>17. CASE Drop(j)
  <2>1. embedded' \in [Pages -> 0..clock] /\ overlooked' \subseteq Pages
    BY <1>0, <1>5, <1>17, PagesOfSpaces DEF Drop, Unembedded, StoreTypes
  <2> QED
    BY <1>0, <1>3, <1>17, <2>1 DEF Drop, StoreTypes
<1>18. CASE DropCommit(j)
  <2>1. /\ record' \in [Pages -> 0..clock] /\ overlooked' \subseteq Pages
        /\ spaceRow' \in [Spaces -> 0..rows] /\ lastImport' \in [Spaces -> Dates]
    <3>1. CASE UNCHANGED <<record, overlooked, spaceRow, lastImport>>
      BY <1>0, <3>1 DEF StoreTypes
    <3>2. CASE /\ record' = Without(record, ids[j]) /\ overlooked' = overlooked \ ids[j]
               /\ spaceRow' = [spaceRow EXCEPT ![space[j]] = NULL]
               /\ lastImport' = [lastImport EXCEPT ![space[j]] = NoDate]
      <4>1. record' \in [Pages -> 0..clock]
        BY <1>0, <1>5, <3>2 DEF StoreTypes
      <4>2. overlooked' \subseteq Pages
        BY <1>0, <3>2 DEF StoreTypes
      <4>3. spaceRow' \in [Spaces -> 0..rows]
        <5>1. NULL \in 0..rows /\ spaceRow \in [Spaces -> 0..rows]
          BY <1>0 DEF StoreTypes, NULL
        <5>2. spaceRow' = [spaceRow EXCEPT ![space[j]] = NULL]
          BY <3>2
        <5> QED
          BY <5>1, <5>2
      <4>4. lastImport' \in [Spaces -> Dates]
        BY <1>0, <3>2, Numbers DEF StoreTypes
      <4> QED
        BY <4>1, <4>2, <4>3, <4>4
    <3> QED
      BY <1>18, <3>1, <3>2 DEF DropCommit
  <2> QED
    BY <1>0, <1>1, <1>2, <1>18, <2>1 DEF DropCommit, StoreTypes, vectors, confluence
<1>19. CASE Export(j)
  <2>1. CASE UNCHANGED <<clock, modified, overlooked>>
    BY <1>0, <1>4, <1>19, <2>1 DEF Export, confluence, pagesStore
  <2>2. CASE Modify(StatsPage)
    <3>1. /\ clock' = clock + 1 /\ clock' \in 0..MaxClock /\ overlooked' \subseteq Pages
          /\ 0..clock \subseteq 0..clock'
      BY <1>0, <2>2, Numbers DEF Modify, StoreTypes
    <3>2. modified' \in [Pages -> 0..clock']
      <4>1. modified \in [Pages -> 0..clock'] /\ clock + 1 \in 0..clock'
        BY <1>0, <3>1 DEF ConfluenceTypes
      <4>2. modified' = [modified EXCEPT ![StatsPage] = clock + 1]
        BY <2>2 DEF Modify
      <4> QED
        BY <4>1, <4>2
    <3>3. record \in [Pages -> 0..clock'] /\ embedded \in [Pages -> 0..clock']
      BY <1>0, <3>1 DEF StoreTypes
    <3> QED
      BY <1>0, <1>19, <3>1, <3>2, <3>3 DEF Export, ConfluenceTypes, StoreTypes, Grows, spacesTable, vectors
  <2> QED
    BY <1>19, <2>1, <2>2 DEF Export
<1>20. CASE Fail(j)
  <2>1. embedded' \in [Pages -> 0..clock] /\ overlooked' \subseteq Pages /\ collection' \in BOOLEAN
    <3>1. CASE UNCHANGED <<vectors, overlooked>>
      BY <1>0, <3>1 DEF vectors, StoreTypes
    <3>2. CASE /\ collection' \in {collection, TRUE}
               /\ \E stored \in SUBSET (IF collection' THEN Accessible(j) ELSE {}) : Embed(j, stored, {})
      <4>1. PICK stored \in SUBSET (IF collection' THEN Accessible(j) ELSE {}) : Embed(j, stored, {})
        BY <3>2
      <4>2. stored \subseteq Pages
        BY <1>7
      <4> QED
        BY <1>0, <1>6, <3>2, <4>1, <4>2 DEF StoreTypes
    <3> QED
      BY <1>20, <3>1, <3>2 DEF Fail
  <2> QED
    BY <1>0, <1>3, <1>20, <2>1 DEF Fail, StoreTypes
<1> QED
  BY <1>8, <1>9, <1>10, <1>11, <1>12, <1>13, <1>14, <1>15, <1>16, <1>17, <1>18, <1>19, <1>20 DEF JobAction, Step

\* What a job holds keeps its types as the clock and the ids of rows go up.
Held(j) ==
    /\ id[j] \in [Spaces -> 0..rows'] /\ fetched[j] \in [Pages -> 0..clock']
    /\ kind[j] \in {"none", "import", "pull", "export", "delete"}
    /\ space[j] \in Spaces \union {NoSpace}
    /\ todo[j] \subseteq Spaces /\ drop[j] \subseteq Spaces
    /\ since[j] \in [Spaces -> Dates] /\ date[j] \in Dates /\ start[j] \in Nat
    /\ listed[j] \subseteq Pages /\ ids[j] \subseteq Pages

LEMMA HeldByJobs ==
    ASSUME Shape, NEW j \in Jobs, Grows, rows' \in Nat, clock' \in Nat
    PROVE  Held(j)
<1>1. 0..rows \subseteq 0..rows' /\ 0..clock \subseteq 0..clock'
  BY Numbers DEF Shape, TypeOK, Grows
<1>2. id[j] \in [Spaces -> 0..rows] /\ fetched[j] \in [Pages -> 0..clock]
  BY DEF Shape, TypeOK
<1>3. id[j] \in [Spaces -> 0..rows'] /\ fetched[j] \in [Pages -> 0..clock']
  BY <1>1, <1>2
<1> QED
  BY <1>3 DEF Shape, TypeOK, Held

LEMMA JobTypesKept ==
    ASSUME Shape, NEW j \in Jobs, JobAction(j)
    PROVE  JobTypesOf(j)
<1>0. /\ Held(j) /\ ConfluenceTypes' /\ StoreTypes' /\ Grows
      /\ rows' \in Nat /\ clock' \in Nat
      /\ pc[j] \notin {"idle", "next"} => space[j] \in Spaces
  <2>1. ConfluenceTypes' /\ StoreTypes' /\ Grows
    BY StoresKept
  <2>2. rows' \in Nat /\ clock' \in Nat
    BY <2>1, Numbers DEF ConfluenceTypes, StoreTypes
  <2> QED
    BY <2>1, <2>2, HeldByJobs DEF Shape, Placed
<1>functions. /\ DOMAIN pc = Jobs /\ DOMAIN kind = Jobs /\ DOMAIN space = Jobs
              /\ DOMAIN todo = Jobs /\ DOMAIN drop = Jobs /\ DOMAIN id = Jobs
              /\ DOMAIN since = Jobs /\ DOMAIN date = Jobs /\ DOMAIN start = Jobs
              /\ DOMAIN listed = Jobs /\ DOMAIN ids = Jobs /\ DOMAIN fetched = Jobs
              /\ pc \in [Jobs -> Steps]
  BY DEF Shape, TypeOK
<1>1. ASSUME End(j) PROVE JobTypesOf(j)
  <2>1. /\ [s \in Spaces |-> NULL] \in [Spaces -> 0..rows'] /\ Nothing \in [Pages -> 0..clock']
        /\ [s \in Spaces |-> NoDate] \in [Spaces -> Dates]
    BY <1>0, Numbers DEF Nothing, NULL
  <2> QED
    BY <1>1, <1>functions, <2>1, Numbers DEF End, Goto, JobTypesOf, Steps
<1>2. ASSUME NEW step \in Steps, Stay(j, step), pc[j] \notin {"idle", "next"} PROVE JobTypesOf(j)
  BY <1>0, <1>2, <1>functions DEF Stay, Goto, locals, run, list, Held, JobTypesOf
<1>3. ASSUME NEW set \in SUBSET Pages, NEW step \in Steps, Found(j, set, step), pc[j] \notin {"idle", "next"}
      PROVE  JobTypesOf(j)
  BY <1>0, <1>3, <1>functions DEF Found, Goto, run, list, Held, JobTypesOf
<1>4. ASSUME Done(j), pc[j] \notin {"idle", "next"} PROVE JobTypesOf(j)
  BY <1>1, <1>2, <1>4 DEF Done, Steps
<1>pages. Visible(space[j]) \subseteq Pages /\ RecordsOf(space[j]) \subseteq Pages
  BY PagesOfSpaces
<1>5. CASE NextSpace(j)
  <2>1. CASE todo[j] = {}
    BY <1>1, <1>5, <2>1 DEF NextSpace
  <2>2. CASE todo[j] # {}
    <3>1. PICK s \in todo[j] :
            /\ Goto(j, IF s \in drop[j] THEN "drop" ELSE "labels")
            /\ space' = [space EXCEPT ![j] = s]
            /\ todo' = [todo EXCEPT ![j] = @ \ {s}]
            /\ ids' = [ids EXCEPT ![j] = {}]
            /\ date' = [date EXCEPT ![j] = NoDate]
            /\ fetched' = [fetched EXCEPT ![j] = Nothing]
            /\ start' = [start EXCEPT ![j] = 0]
            /\ listed' = [listed EXCEPT ![j] = {}]
            /\ UNCHANGED <<kind, drop, id, since>>
      BY <1>5, <2>2 DEF NextSpace
    <3>2. Nothing \in [Pages -> 0..clock'] /\ s \in Spaces
      BY <1>0, <3>1 DEF Nothing, NULL, Held
    <3> QED
      BY <1>0, <1>functions, <3>1, <3>2, Numbers DEF Goto, list, Held, JobTypesOf, Steps
  <2> QED
    BY <2>1, <2>2
<1>query. ASSUME NEW set \in SUBSET Pages, NEW step \in Steps, Query(j, set, step), pc[j] \notin {"idle", "next"}
          PROVE  JobTypesOf(j)
  <2>1. /\ UNCHANGED <<run, listed, fetched>> /\ start'[j] \in Nat
        /\ ids'[j] \subseteq ids[j] \union set /\ pc'[j] \in {pc[j], step}
    BY <1>query, QueryGoesOn
  <2> QED
    BY <1>0, <1>query, <1>functions, <2>1 DEF run, Held, JobTypesOf
<1>6. CASE Labels(j) \/ Search(j)
  <2>1. /\ Visible(space[j]) \intersect labelled \in SUBSET Pages
        /\ {p \in Visible(space[j]) \ labelled : modified[p] >= QueryFrom(since[j][space[j]])} \in SUBSET Pages
    BY <1>pages
  <2> QED
    BY <1>6, <1>query, <2>1 DEF Labels, Search, Steps
<1>7. CASE List(j)
  <2>1. CASE UNCHANGED overlooked /\ IF kind[j] = "pull" THEN Stay(j, "drop") ELSE End(j)
    BY <1>1, <1>2, <1>7, <2>1 DEF List, Steps
  <2> DEFINE found == listed[j] \union Chunk(space[j], start[j])
  <2>2. found \subseteq Pages
    BY <1>0, <1>pages DEF Chunk, Held
  <2>3. CASE /\ listed' = [listed EXCEPT ![j] = found]
             /\ start' = [start EXCEPT ![j] = @ + Limit]
             /\ UNCHANGED <<pc, run, ids, fetched, overlooked>>
    <3>1. start[j] + Limit \in Nat
      BY <1>0, KnowledgeBaseAssumption DEF Held
    <3> QED
      BY <1>0, <1>7, <1>functions, <2>2, <2>3, <3>1 DEF List, run, Held, JobTypesOf
  <2>4. CASE /\ ids' = [ids EXCEPT ![j] = found \ @]
             /\ listed' = [listed EXCEPT ![j] = {}]
             /\ start' = [start EXCEPT ![j] = 0]
             /\ Goto(j, IF kind[j] = "pull" THEN "prune" ELSE "fetch")
             /\ UNCHANGED <<run, fetched>>
    BY <1>0, <1>7, <1>functions, <2>2, <2>4 DEF List, Goto, run, Held, JobTypesOf, Steps
  <2> QED
    BY <1>7, <2>1, <2>3, <2>4 DEF List
<1>8. CASE Update(j)
  <2>1. CASE Done(j)
    BY <1>4, <1>8, <2>1 DEF Update
  <2>2. CASE \E now \in Now : /\ ids' = [ids EXCEPT ![j] = {}]
                             /\ start' = [start EXCEPT ![j] = 0]
                             /\ date' = [date EXCEPT ![j] = now]
                             /\ Goto(j, "search")
                             /\ UNCHANGED <<kind, space, todo, drop, id, since, listed, fetched>>
    <3>1. PICK now \in Now : /\ ids' = [ids EXCEPT ![j] = {}]
                            /\ start' = [start EXCEPT ![j] = 0]
                            /\ date' = [date EXCEPT ![j] = now]
                            /\ Goto(j, "search")
                            /\ UNCHANGED <<kind, space, todo, drop, id, since, listed, fetched>>
      BY <2>2
    <3>2. now \in Dates
      BY <3>1, NowIsADate
    <3> QED
      BY <1>0, <1>8, <1>functions, <3>1, <3>2 DEF Update, Goto, Held, JobTypesOf, Steps
  <2> QED
    BY <1>8, <2>1, <2>2 DEF Update
<1>9. CASE Fetch(j)
  <2>1. CASE End(j)
    BY <1>1, <2>1
  <2>2. CASE /\ fetched' = [fetched EXCEPT ![j] = Retrieved(j)]
             /\ Goto(j, IF kind[j] = "import" THEN "find_space"
                        ELSE IF \E p \in ids[j] : Retrieved(j)[p] # NULL THEN "records"
                        ELSE "remove")
             /\ UNCHANGED <<run, list, ids>>
    <3>1. Retrieved(j) \in [Pages -> 0..clock']
      <4>1. UNCHANGED clock
        BY <1>9 DEF Fetch, confluence
      <4>2. modified \in [Pages -> 0..clock] /\ NULL \in 0..clock
        BY Numbers DEF Shape, TypeOK, NULL
      <4> QED
        BY <4>1, <4>2 DEF Retrieved
    <3>2. pc'[j] \in Steps
      BY <1>functions, <2>2 DEF Goto, Steps
    <3> QED
      BY <1>0, <1>9, <1>functions, <2>2, <3>1, <3>2 DEF Fetch, run, list, Held, JobTypesOf
  <2> QED
    BY <1>9, <2>1, <2>2 DEF Fetch
<1>10. CASE FindSpace(j)
  <2> DEFINE s == space[j]
             new == IF spaceRow[s] = NULL THEN rows + 1 ELSE spaceRow[s]
  <2>1. s \in Spaces
    BY <1>0, <1>10 DEF FindSpace
  <2>2. /\ id' = [id EXCEPT ![j] = [@ EXCEPT ![s] = new]]
        /\ since' = [since EXCEPT ![j] = [@ EXCEPT ![s] = lastImport[s]]]
        /\ spaceRow' = [spaceRow EXCEPT ![s] = new]
        /\ Goto(j, IF kind[j] = "import" THEN "records" ELSE "update")
        /\ UNCHANGED <<kind, space, todo, drop, date, list, ids, fetched>>
    BY <1>10 DEF FindSpace
  <2>3. new \in 0..rows'
    <3>1. spaceRow'[s] \in 0..rows'
      BY <1>0, <2>1 DEF StoreTypes
    <3>2. spaceRow'[s] = new
      BY <2>1, <2>2 DEF Shape, TypeOK
    <3> QED
      BY <3>1, <3>2
  <2> HIDE DEF new
  <2>4. id'[j] \in [Spaces -> 0..rows']
    BY <1>0, <1>functions, <2>2, <2>3 DEF Held
  <2>5. since'[j] \in [Spaces -> Dates]
    <3>1. lastImport[s] \in Dates
      BY <2>1 DEF Shape, TypeOK
    <3> QED
      BY <1>0, <1>functions, <2>2, <3>1 DEF Held
  <2> QED
    BY <1>0, <1>functions, <2>1, <2>2, <2>4, <2>5 DEF Goto, list, Held, JobTypesOf, Steps
<1>11. CASE Records(j) \/ Embeddings(j) \/ Mark(j)
  BY <1>1, <1>2, <1>4, <1>11 DEF Records, Embeddings, Mark, Steps
<1>12. CASE Prune(j) \/ PruneCommit(j) \/ Remove(j) \/ RemoveCommit(j)
  BY <1>1, <1>2, <1>3, <1>12, <1>pages DEF Prune, PruneCommit, Remove, RemoveCommit, Steps
<1>13. CASE Drop(j) \/ DropCommit(j) \/ Export(j) \/ Fail(j)
  BY <1>1, <1>2, <1>3, <1>4, <1>13, <1>pages DEF Drop, DropCommit, Export, Fail, Steps
<1>14. CASE StartPull(j)
  <2>1. spaceRow \in [Spaces -> 0..rows'] /\ lastImport \in [Spaces -> Dates]
        /\ archived \subseteq Spaces
    <3>1. UNCHANGED <<rows, spaceRow>>
      BY <1>14 DEF StartPull, spacesTable
    <3> QED
      BY <3>1 DEF Shape, TypeOK
  <2> QED
    BY <1>0, <1>14, <1>functions, <2>1 DEF StartPull, Goto, list, Held, JobTypesOf, Steps
<1>15. CASE StartExport(j)
  BY <1>0, <1>15, <1>functions, KnowledgeBaseAssumption DEF StartExport, Goto, list, Held, JobTypesOf, Steps
<1>16. CASE \E s \in Spaces : StartImport(j, s)
  <2>1. PICK s \in Spaces : StartImport(j, s)
    BY <1>16
  <2>2. PICK now \in Now : date' = [date EXCEPT ![j] = now]
    BY <2>1 DEF StartImport
  <2> QED
    BY <1>0, <1>functions, <2>1, <2>2, NowIsADate DEF StartImport, Goto, list, Held, JobTypesOf, Steps
<1>17. CASE \E s \in Spaces : StartDelete(j, s)
  <2>1. PICK s \in Spaces : StartDelete(j, s)
    BY <1>17
  <2>2. spaceRow \in [Spaces -> 0..rows']
    <3>1. UNCHANGED <<rows, spaceRow>>
      BY <2>1 DEF StartDelete, spacesTable
    <3> QED
      BY <3>1 DEF Shape, TypeOK
  <2> QED
    BY <1>0, <1>functions, <2>1, <2>2 DEF StartDelete, Goto, list, Held, JobTypesOf, Steps
<1> QED
  BY <1>5, <1>6, <1>7, <1>8, <1>9, <1>10, <1>11, <1>12, <1>13, <1>14, <1>15, <1>16, <1>17 DEF JobAction, Step

\* What happens in Confluence leaves the jobs alone.
LEMMA ConfluenceMoves ==
    ASSUME Shape, Confluence
    PROVE  Shape' /\ UNCHANGED <<pc, locals, spacesTable, record, vectors>>
<1>0. clock \in 0..MaxClock /\ clock \in Nat
  BY Numbers DEF Shape, TypeOK
<1>1. CASE \E p \in Pages : Edit(p)
  <2>1. PICK p \in Pages : Edit(p)
    BY <1>1
  <2>2. /\ clock' = clock + 1 /\ clock' \in 0..MaxClock /\ 0..clock \subseteq 0..clock'
        /\ clock + 1 \in 0..clock'
    BY <1>0, <2>1, Numbers DEF Edit, Modify
  <2>3. UNCHANGED <<pc, locals, spacesTable, record, vectors, labelled, archived, closed>>
    BY <2>1 DEF Edit
  <2>4. modified' \in [Pages -> 0..clock']
    <3>1. modified \in [Pages -> 0..clock']
      BY <2>2 DEF Shape, TypeOK
    <3>2. modified' = [modified EXCEPT ![p] = clock + 1]
      BY <2>1 DEF Edit, Modify
    <3> QED
      BY <2>2, <3>1, <3>2
  <2>5. record' \in [Pages -> 0..clock'] /\ embedded' \in [Pages -> 0..clock']
    BY <2>2, <2>3 DEF Shape, TypeOK, vectors
  <2>6. fetched' \in [Jobs -> [Pages -> 0..clock']]
    <3>1. \A i \in Jobs : fetched[i] \in [Pages -> 0..clock]
      BY DEF Shape, TypeOK
    <3>2. \A i \in Jobs : fetched[i] \in [Pages -> 0..clock']
      BY <2>2, <3>1
    <3>3. fetched \in [Jobs -> [Pages -> 0..clock']]
      BY <3>2 DEF Shape, TypeOK
    <3> QED
      BY <2>3, <3>3 DEF locals
  <2>7. current' \subseteq Pages /\ overlooked' \subseteq Pages
    BY <2>1 DEF Shape, TypeOK, Edit, Modify
  <2> QED
    BY <2>2, <2>3, <2>4, <2>5, <2>6, <2>7
       DEF Shape, TypeOK, Placed, locals, run, list, spacesTable, vectors
<1>2. CASE \E p \in Pages : Trash(p) \/ Label(p) \/ Unlabel(p)
  BY <1>2 DEF Shape, TypeOK, Placed, Trash, Label, Unlabel, pagesStore, vectors, spacesTable, locals, run, list
<1>3. CASE \E s \in Spaces : Archive(s) \/ Close(s)
  BY <1>3 DEF Shape, TypeOK, Placed, Archive, Close, pagesStore, vectors, spacesTable, locals, run, list
<1> QED
  BY <1>1, <1>2, <1>3 DEF Confluence

LEMMA NextIsOfOne == Next <=> Confluence \/ \E j \in Jobs : JobAction(j)
  BY DEF Next, JobAction

LEMMA NextShape == Shape /\ [Next]_vars => Shape'
<1> SUFFICES ASSUME Shape, [Next]_vars PROVE Shape'
  OBVIOUS
<1>1. CASE UNCHANGED vars
  BY <1>1 DEF Shape, TypeOK, Placed, vars, confluence, spacesTable, pagesStore, vectors, locals, run, list
<1>2. CASE Confluence
  BY <1>2, ConfluenceMoves
<1>3. ASSUME NEW j \in Jobs, JobAction(j) PROVE Shape'
  BY <1>3, JobsMoveAlone, JobTypesKept, StoresKept, OneJobMoves DEF Shape
<1> QED
  BY <1>1, <1>2, <1>3, NextIsOfOne

LEMMA AlwaysShape == Spec => []Shape
  BY InitShape, NextShape, PTL DEF Spec

\* Versions and dates never run ahead of the clocks they are taken from, and
\* every step of a job works on a space (importer.py).
THEOREM KnowledgeBaseTypes == Spec => []TypeOK
<1>1. Shape => TypeOK
  BY DEF Shape
<1> QED
  BY <1>1, AlwaysShape, PTL

-----------------------------------------------------------------------------
(* Records before embeddings, embeddings removed before records *)

OneJob == \A i, j \in Jobs : i = j

\* Before it stores embeddings, a job has written the records.
RecordedFirst ==
    \A j \in Jobs : pc[j] = "embeddings" => \A p \in Accessible(j) : record[p] # NULL

\* Before it removes records, it has removed the embeddings.
UnembeddedFirst ==
    \A j \in Jobs :
        /\ pc[j] \in {"prune_commit", "drop_commit"} => \A p \in ids[j] : embedded[p] = NULL
        /\ pc[j] = "remove_commit" => \A p \in Inaccessible(j) : embedded[p] = NULL

OrderInv == EmbeddingsHaveRecords /\ RecordedFirst /\ UnembeddedFirst

Ordered == {"embeddings", "prune_commit", "drop_commit", "remove_commit"}

LEMMA InitOrder == Init => OrderInv
  BY DEF Init, OrderInv, EmbeddingsHaveRecords, RecordedFirst, UnembeddedFirst, Nothing, NULL

LEMMA NextOrder ==
    ASSUME OneJob, Shape, OrderInv, [Next]_vars
    PROVE  OrderInv'
<1>0. Shape'
  BY NextShape
<1>1. CASE UNCHANGED vars
  BY <1>1 DEF OrderInv, EmbeddingsHaveRecords, RecordedFirst, UnembeddedFirst, Accessible, Inaccessible,
              vars, pagesStore, vectors, locals
<1>2. CASE Confluence
  <2>1. UNCHANGED <<pc, locals, record, vectors>>
    BY <1>2, ConfluenceMoves
  <2> QED
    BY <2>1 DEF OrderInv, EmbeddingsHaveRecords, RecordedFirst, UnembeddedFirst, Accessible, Inaccessible,
                vectors, locals
<1>3. ASSUME NEW j \in Jobs, JobAction(j) PROVE OrderInv'
  <2> USE DEF OneJob
  <2>0. /\ pc \in [Jobs -> Steps] /\ record \in [Pages -> 0..clock] /\ embedded \in [Pages -> 0..clock]
        /\ EmbeddingsHaveRecords
        /\ pc[j] = "embeddings" => \A p \in Accessible(j) : record[p] # NULL
        /\ pc[j] \in {"prune_commit", "drop_commit"} => \A p \in ids[j] : embedded[p] = NULL
        /\ pc[j] = "remove_commit" => \A p \in Inaccessible(j) : embedded[p] = NULL
    BY DEF Shape, TypeOK, OrderInv, RecordedFirst, UnembeddedFirst
  <2>1. ASSUME EmbeddingsHaveRecords', pc'[j] \notin Ordered PROVE OrderInv'
    BY <2>1 DEF OrderInv, RecordedFirst, UnembeddedFirst, Ordered
  <2>2. ASSUME UNCHANGED <<embedded, record>> PROVE EmbeddingsHaveRecords'
    BY <2>0, <2>2 DEF EmbeddingsHaveRecords
  <2>3. ASSUME NEW step, Stay(j, step) PROVE pc'[j] = step /\ UNCHANGED <<ids, fetched>>
    BY <2>0, <2>3 DEF Stay, Goto, locals
  <2>4. ASSUME NEW set, NEW step, Found(j, set, step) PROVE pc'[j] = step /\ ids'[j] = set
    BY <2>0, <2>4 DEF Found, Goto, Shape, TypeOK
  <2>query. ASSUME NEW set, NEW step, Query(j, set, step) PROVE pc'[j] \in {pc[j], step}
    BY <2>0, <2>query DEF Query, Goto
  <2>5. ASSUME End(j) PROVE pc'[j] = "idle"
    BY <2>0, <2>5 DEF End, Goto
  <2>6. ASSUME Done(j) PROVE pc'[j] \in {"next", "idle"}
    BY <2>3, <2>5, <2>6 DEF Done
  <2>7. CASE NextSpace(j) \/ Labels(j) \/ List(j) \/ Update(j) \/ Search(j) \/ Fetch(j) \/ FindSpace(j)
    <3>1. UNCHANGED <<embedded, record>>
      BY <2>7 DEF NextSpace, Labels, List, Update, Search, Fetch, FindSpace, pagesStore, vectors
    <3>2. pc'[j] \notin Ordered
      <4>1. CASE NextSpace(j)
        BY <2>0, <2>5, <4>1 DEF NextSpace, Goto, Ordered
      <4>2. CASE Labels(j) \/ Search(j)
        BY <2>query, <4>2 DEF Labels, Search, Ordered
      <4>3. CASE List(j)
        BY <2>0, <2>3, <2>5, <4>3 DEF List, Goto, Ordered
      <4>4. CASE Update(j)
        BY <2>0, <2>6, <4>4 DEF Update, Goto, Ordered
      <4>5. CASE Fetch(j)
        BY <2>0, <2>5, <4>5 DEF Fetch, Goto, Ordered
      <4>6. CASE FindSpace(j)
        BY <2>0, <4>6 DEF FindSpace, Goto, Ordered
      <4> QED
        BY <2>7, <4>1, <4>2, <4>3, <4>4, <4>5, <4>6
    <3> QED
      BY <2>1, <2>2, <3>1, <3>2
  <2>8. CASE StartPull(j) \/ StartExport(j) \/ \E s \in Spaces : StartImport(j, s) \/ StartDelete(j, s)
    <3>1. UNCHANGED <<embedded, record>>
      BY <2>8 DEF StartPull, StartExport, StartImport, StartDelete, pagesStore, vectors
    <3>2. pc'[j] \notin Ordered
      BY <2>0, <2>8 DEF StartPull, StartExport, StartImport, StartDelete, Goto, Ordered
    <3> QED
      BY <2>1, <2>2, <3>1, <3>2
  <2>9. CASE Records(j)
    <3>1. CASE End(j) /\ UNCHANGED record
      <4>1. pc'[j] \notin Ordered /\ UNCHANGED <<embedded, record>>
        BY <2>5, <2>9, <3>1 DEF Records, vectors, Ordered
      <4> QED
        BY <2>1, <2>2, <4>1
    <3>2. CASE /\ record' = [p \in Pages |-> IF p \in Accessible(j) THEN fetched[j][p] ELSE record[p]]
               /\ Stay(j, "embeddings")
      <4>1. pc'[j] = "embeddings" /\ UNCHANGED <<ids, fetched, embedded>>
        BY <2>3, <2>9, <3>2 DEF Records, vectors
      <4>2. EmbeddingsHaveRecords'
        BY <2>0, <3>2, <4>1 DEF EmbeddingsHaveRecords, Accessible
      <4>3. RecordedFirst' /\ UnembeddedFirst'
        BY <3>2, <4>1 DEF RecordedFirst, UnembeddedFirst, Accessible
      <4> QED
        BY <4>2, <4>3 DEF OrderInv
    <3> QED
      BY <2>9, <3>1, <3>2 DEF Records
  <2>10. ASSUME NEW stored \in SUBSET Accessible(j), NEW lost, Embed(j, stored, lost), UNCHANGED record,
                pc[j] = "embeddings"
         PROVE  EmbeddingsHaveRecords'
    BY <2>0, <2>10 DEF Embed, EmbeddingsHaveRecords
  <2>11. CASE Embeddings(j)
    <3>1. pc'[j] \notin Ordered
      BY <2>3, <2>5, <2>11 DEF Embeddings, Ordered
    <3>2. UNCHANGED record /\ pc[j] = "embeddings"
      BY <2>11 DEF Embeddings
    <3>3. EmbeddingsHaveRecords'
      <4>1. CASE UNCHANGED vectors
        BY <2>2, <3>2, <4>1 DEF vectors
      <4>2. CASE \E lost \in {{}} \union Unstored(Accessible(j)) : Embed(j, Accessible(j) \ lost, lost)
        BY <2>10, <3>2, <4>2
      <4> QED
        <5>1. Accessible(j) \ {} = Accessible(j)
          OBVIOUS
        <5> QED
          BY <2>11, <4>1, <4>2, <5>1 DEF Embeddings
    <3> QED
      BY <2>1, <3>1, <3>3
  <2>12. CASE Mark(j)
    <3>1. pc'[j] \notin Ordered /\ UNCHANGED <<embedded, record>>
      BY <2>5, <2>6, <2>12 DEF Mark, pagesStore, vectors, Ordered
    <3> QED
      BY <2>1, <2>2, <3>1
  <2>13. ASSUME UNCHANGED record, NEW set, embedded' = Unembedded(set) PROVE EmbeddingsHaveRecords'
    BY <2>0, <2>13 DEF Unembedded, Without, EmbeddingsHaveRecords
  <2>14. CASE Prune(j) \/ Drop(j)
    <3>1. UNCHANGED record
      BY <2>14 DEF Prune, Drop
    <3>2. CASE UNCHANGED embedded /\ End(j)
      BY <2>1, <2>2, <2>5, <3>1, <3>2 DEF Ordered
    <3>3. CASE \E set, step : /\ Found(j, set, step) /\ embedded' = Unembedded(set)
                              /\ step \in {"update", "prune_commit", "drop_commit"}
      <4>1. PICK set, step : /\ Found(j, set, step) /\ embedded' = Unembedded(set)
                             /\ step \in {"update", "prune_commit", "drop_commit"}
        BY <3>3
      <4>2. pc'[j] \in {"update", "prune_commit", "drop_commit"} /\ ids'[j] = set
        BY <2>4, <4>1
      <4>3. ids'[j] \subseteq Pages
        BY <1>0 DEF Shape, TypeOK
      <4>4. UnembeddedFirst' /\ RecordedFirst'
        <5>1. \A p \in set : embedded'[p] = NULL
          BY <4>1, <4>2, <4>3 DEF Unembedded, Without
        <5>2. \A p \in ids'[j] : embedded'[p] = NULL
          BY <4>2, <5>1
        <5> QED
          BY <4>2, <5>2 DEF UnembeddedFirst, RecordedFirst
      <4> QED
        BY <2>13, <3>1, <4>1, <4>4 DEF OrderInv
    <3> QED
      BY <2>14, <3>2, <3>3 DEF Prune, Drop
  <2>15. CASE Remove(j)
    <3>1. UNCHANGED record
      BY <2>15 DEF Remove
    <3>2. CASE UNCHANGED embedded /\ End(j)
      BY <2>1, <2>2, <2>5, <3>1, <3>2 DEF Ordered
    <3>3. CASE /\ embedded' = Unembedded(Inaccessible(j))
               /\ Stay(j, IF Inaccessible(j) = {} THEN "mark" ELSE "remove_commit")
      <4>1. pc'[j] \in {"mark", "remove_commit"} /\ UNCHANGED <<ids, fetched>>
        BY <2>3, <3>3
      <4>2. Inaccessible(j) \subseteq Pages /\ Inaccessible(j)' = Inaccessible(j)
        BY <4>1 DEF Inaccessible, Shape, TypeOK
      <4>3. UnembeddedFirst' /\ RecordedFirst'
        <5>1. \A p \in Inaccessible(j) : embedded'[p] = NULL
          BY <3>3, <4>2 DEF Unembedded, Without
        <5>2. (\A p \in Inaccessible(j) : embedded[p] = NULL)'
          BY <4>2, <5>1
        <5> QED
          BY <4>1, <5>2 DEF UnembeddedFirst, RecordedFirst
      <4> QED
        BY <2>13, <3>1, <3>3, <4>3 DEF OrderInv
    <3> QED
      BY <2>15, <3>2, <3>3 DEF Remove
  <2>16. ASSUME NEW set, UNCHANGED embedded, record' = Without(record, set),
                \A p \in set : p \in Pages => embedded[p] = NULL
         PROVE  EmbeddingsHaveRecords'
    BY <2>0, <2>16 DEF EmbeddingsHaveRecords, Without
  <2>17. CASE PruneCommit(j)
    <3>1. pc'[j] \notin Ordered
      BY <2>3, <2>17 DEF PruneCommit, Ordered
    <3>2. EmbeddingsHaveRecords'
      BY <2>0, <2>16, <2>17 DEF PruneCommit, vectors
    <3> QED
      BY <2>1, <3>1, <3>2
  <2>18. CASE RemoveCommit(j)
    <3>1. pc'[j] \notin Ordered
      BY <2>3, <2>18 DEF RemoveCommit, Ordered
    <3>2. EmbeddingsHaveRecords'
      BY <2>0, <2>16, <2>18 DEF RemoveCommit, vectors
    <3> QED
      BY <2>1, <3>1, <3>2
  <2>19. CASE DropCommit(j)
    <3>1. pc'[j] \notin Ordered
      BY <2>5, <2>6, <2>19 DEF DropCommit, Ordered
    <3>2. EmbeddingsHaveRecords'
      <4>1. UNCHANGED embedded /\ (UNCHANGED record \/ record' = Without(record, ids[j]))
        BY <2>19 DEF DropCommit, vectors
      <4>2. \A p \in ids[j] : embedded[p] = NULL
        BY <2>0, <2>19 DEF DropCommit
      <4> QED
        BY <2>2, <2>16, <4>1, <4>2
    <3> QED
      BY <2>1, <3>1, <3>2
  <2>20. CASE Export(j)
    <3>1. pc'[j] \notin Ordered /\ UNCHANGED <<embedded, record>>
      BY <2>3, <2>5, <2>20 DEF Export, vectors, Ordered
    <3> QED
      BY <2>1, <2>2, <3>1
  <2>21. CASE Fail(j)
    <3>1. pc'[j] \notin Ordered /\ UNCHANGED record
      BY <2>5, <2>21 DEF Fail, Ordered
    <3>2. EmbeddingsHaveRecords'
      <4>1. CASE UNCHANGED vectors
        BY <2>2, <3>1, <4>1 DEF vectors
      <4>2. CASE /\ pc[j] = "embeddings"
                 /\ \E stored \in SUBSET (IF collection' THEN Accessible(j) ELSE {}) : Embed(j, stored, {})
        <5>1. PICK stored \in SUBSET (IF collection' THEN Accessible(j) ELSE {}) : Embed(j, stored, {})
          BY <4>2
        <5>2. stored \subseteq Accessible(j)
          OBVIOUS
        <5> QED
          BY <2>10, <3>1, <4>2, <5>1, <5>2
      <4> QED
        BY <2>21, <4>1, <4>2 DEF Fail
    <3> QED
      BY <2>1, <3>1, <3>2
  <2> QED
    BY <1>3, <2>7, <2>8, <2>9, <2>11, <2>12, <2>14, <2>15, <2>17, <2>18, <2>19, <2>20, <2>21
       DEF JobAction, Step
<1> QED
  BY <1>1, <1>2, <1>3, NextIsOfOne

\* With one job at a time, the vector database never leads to a page without a
\* record, wherever the job fails (database/pages.py writes rows before
\* embeddings, and removes them after).
THEOREM EmbeddingsLeadToRecords ==
    ASSUME OneJob
    PROVE  Spec => []EmbeddingsHaveRecords
<1>1. OrderInv => EmbeddingsHaveRecords
  BY DEF OrderInv
<1>2. Shape /\ OrderInv /\ [Next]_vars => OrderInv'
  BY NextOrder
<1> QED
  BY <1>1, <1>2, InitOrder, AlwaysShape, PTL DEF Spec

-----------------------------------------------------------------------------
(* No modification falls between two updates *)

\* A page that is wanted if its space was imported.
Tracked(p) == Home[p] \notin archived \union closed /\ p \in current \ (labelled \union overlooked)

TrackedIn(s) == {p \in PagesOf(s) : Tracked(p)}

\* The window of the next query reaches back to the last modification of the
\* page, whether the job will have moved its beginning or not.
NewEnough(j, p) ==
    modified[p] >= QueryFrom(date[j]) /\ modified[p] >= QueryFrom(lastImport[Home[p]])

Settled(j, p) == UpToDate(p) \/ NewEnough(j, p)

DatesBehind ==
    /\ \A s \in Spaces : lastImport[s] <= clock + Skew
    /\ \A j \in Jobs : date[j] <= clock + Skew

CurrentExist == \A p \in current : modified[p] # NULL

\* The job has still to ask what has changed in its space.
MustAsk(j) ==
    \/ pc[j] \in {"prune", "prune_commit", "update"}
    \/ kind[j] = "pull" /\ pc[j] \in {"labels", "list"}

\* A job asks for no less than what has changed since the last import.
SinceBehind ==
    \A j \in Jobs :
      /\ \A s \in todo[j] : since[j][s] <= lastImport[s]
      /\ pc[j] = "idle" \/ kind[j] # "pull" => todo[j] = {}
      /\ pc[j] \notin {"idle", "next"} => space[j] \notin todo[j]
      /\ MustAsk(j) => since[j][space[j]] <= lastImport[space[j]]

\* The job works with the pages it has asked for.
Known(j) ==
    \/ pc[j] \in {"records", "embeddings", "remove", "remove_commit", "mark"}
    \/ pc[j] = "find_space" /\ kind[j] = "import"

Exporting(j) == pc[j] = "export" => kind[j] = "export"

\* What a job knows at each step: the pages it leaves out are settled, or have
\* been modified since it looked.
Listing(j) ==
    /\ pc[j] = "idle" => ids[j] = {}
    /\ pc[j] \in {"idle", "labels"} => listed[j] = {}
    /\ pc[j] = "list" => listed[j] \subseteq PagesOf(space[j])
    /\ pc[j] \in {"labels", "list"} => \A p \in ids[j] : Tracked(p) => NewEnough(j, p)

Listed(j) == pc[j] = "prune" => \A p \in TrackedIn(space[j]) : p \in ids[j] \/ NewEnough(j, p)

Pruned(j) == pc[j] = "prune_commit" => \A p \in ids[j] : Tracked(p) => NewEnough(j, p)

Dropped(j) == pc[j] = "drop_commit" => ids[j] \subseteq PagesOf(space[j])

\* Where a query goes on there are the pages it has still to find.
Ahead(j, p) == Order[p] >= start[j] /\ modified[p] >= QueryFrom(since[j][space[j]])

Searching(j) ==
    pc[j] = "search" => /\ ids[j] \subseteq PagesOf(space[j])
                        /\ \A p \in TrackedIn(space[j]) : p \in ids[j] \/ Settled(j, p) \/ Ahead(j, p)

Asked(j) ==
    pc[j] = "fetch" => /\ ids[j] \subseteq PagesOf(space[j])
                       /\ \A p \in TrackedIn(space[j]) : p \in ids[j] \/ Settled(j, p)

Got(j) ==
    Known(j) =>
      /\ \A p \in Pages : fetched[j][p] \notin {NULL, modified[p]} => NewEnough(j, p)
      /\ \A p \in ids[j] : Tracked(p) /\ fetched[j][p] = NULL => NewEnough(j, p)
      /\ \A p \in TrackedIn(space[j]) : fetched[j][p] = modified[p] \/ Settled(j, p)

Recorded(j) == pc[j] = "embeddings" => \A p \in Accessible(j) : record[p] = fetched[j][p]

Stored(j) ==
    pc[j] \in {"remove", "remove_commit", "mark"} => \A p \in TrackedIn(space[j]) : Settled(j, p)

InWindow(j) ==
    /\ Exporting(j) /\ Listing(j) /\ Listed(j) /\ Pruned(j) /\ Dropped(j)
    /\ Searching(j) /\ Asked(j) /\ Got(j) /\ Recorded(j) /\ Stored(j)

Behind == DatesBehind /\ CurrentExist

WindowInv == StaleIsInWindow /\ Behind /\ SinceBehind /\ \A j \in Jobs : InWindow(j)

LEMMA PageNumbers ==
    ASSUME Shape, NEW p \in Pages
    PROVE  /\ Home[p] \in Spaces /\ modified[p] \in Nat /\ record[p] \in Nat /\ embedded[p] \in Nat
           /\ lastImport[Home[p]] \in Int
           /\ \A j \in Jobs : date[j] \in Int /\ fetched[j][p] \in Nat
<1>1. Home[p] \in Spaces /\ clock \in Nat
  BY Numbers, KnowledgeBaseAssumption DEF Shape, TypeOK
<1>2. modified[p] \in 0..clock /\ record[p] \in 0..clock /\ embedded[p] \in 0..clock
  BY DEF Shape, TypeOK
<1>3. lastImport[Home[p]] \in Dates
  BY <1>1 DEF Shape, TypeOK
<1>4. ASSUME NEW j \in Jobs PROVE date[j] \in Dates /\ fetched[j][p] \in 0..clock
  <2>1. fetched[j] \in [Pages -> 0..clock]
    BY DEF Shape, TypeOK
  <2> QED
    BY <2>1 DEF Shape, TypeOK
<1>5. 0..clock \subseteq Nat /\ Dates \subseteq Int
  BY <1>1, Numbers
<1>6. \A j \in Jobs : date[j] \in Int /\ fetched[j][p] \in Nat
  BY <1>4, <1>5
<1> QED
  BY <1>1, <1>2, <1>3, <1>5, <1>6

\* The overlap is as long as the clocks may be apart.
LEMMA EditedIsNew ==
    ASSUME Shape, Behind, NEW j \in Jobs, NEW p \in Pages, modified'[p] = clock + 1,
           UNCHANGED lastImport, date'[j] = date[j]
    PROVE  NewEnough(j, p)' /\ modified'[p] >= QueryFrom(lastImport'[Home[p]])
  BY PageNumbers, Numbers DEF Shape, TypeOK, Behind, DatesBehind, NewEnough, QueryFrom

LEMMA InitWindow == Init => WindowInv
  BY Numbers, KnowledgeBaseAssumption
     DEF Init, WindowInv, StaleIsInWindow, Wanted, Behind, DatesBehind, CurrentExist, SinceBehind, MustAsk, InWindow,
         Exporting, Listing, Listed, Pruned, Dropped, Searching, Asked, Got, Known, Recorded, Stored

LEMMA NextBehind ==
    ASSUME Shape, Behind, [Next]_vars
    PROVE  Behind'
<1>0. /\ clock \in Nat /\ lastImport \in [Spaces -> Dates] /\ date \in [Jobs -> Dates]
      /\ modified \in [Pages -> 0..clock] /\ current \subseteq Pages
      /\ \A s \in Spaces : lastImport[s] <= clock + Skew
      /\ \A i \in Jobs : date[i] <= clock + Skew
      /\ \A p \in current : modified[p] # NULL
  BY Numbers DEF Shape, TypeOK, Behind, DatesBehind, CurrentExist
<1>1. ASSUME NEW p \in Pages, Modify(p), current' \subseteq current \union {p} PROVE CurrentExist'
  BY <1>0, <1>1 DEF Modify, CurrentExist, NULL
<1>2. ASSUME UNCHANGED <<modified, current>> PROVE CurrentExist'
  BY <1>0, <1>2 DEF CurrentExist
<1>3. ASSUME clock' \in Nat, clock' >= clock, UNCHANGED lastImport,
             \A i \in Jobs : date'[i] \in {date[i], NoDate} \/ date'[i] \in Now
      PROVE  DatesBehind'
  <2>1. ASSUME NEW s \in Spaces PROVE lastImport'[s] <= clock' + Skew
    <3>1. lastImport[s] \in Int /\ lastImport[s] <= clock + Skew
      BY <1>0, Numbers
    <3> QED
      BY <1>0, <1>3, <3>1, Numbers
  <2>2. ASSUME NEW i \in Jobs PROVE date'[i] <= clock' + Skew
    <3>1. date[i] <= clock + Skew /\ date[i] \in Int
      BY <1>0, <2>2, Numbers
    <3>2. NoDate <= clock + Skew
      BY <1>0, Numbers
    <3>3. \A now \in Now : now <= clock + Skew /\ now \in Int
      BY <1>0, Numbers DEF Now
    <3>4. date'[i] \in Int /\ date'[i] <= clock + Skew
      BY <1>3, <2>2, <3>1, <3>2, <3>3, Numbers
    <3> QED
      BY <1>0, <1>3, <3>4, Numbers
  <2> QED
    BY <2>1, <2>2 DEF DatesBehind
<1>4. CASE UNCHANGED vars
  <2>1. UNCHANGED <<clock, modified, current, lastImport, date>>
    BY <1>4 DEF vars, confluence, spacesTable, locals, run
  <2> QED
    BY <1>0, <2>1 DEF Behind, DatesBehind, CurrentExist
<1>5. CASE Confluence
  <2>1. UNCHANGED <<lastImport, date>>
    BY <1>5, ConfluenceMoves DEF spacesTable, locals, run
  <2>2. CASE \E p \in Pages : Edit(p)
    <3>1. PICK p \in Pages : Edit(p)
      BY <2>2
    <3>2. CurrentExist'
      BY <1>1, <3>1 DEF Edit
    <3>3. clock' \in Nat /\ clock' >= clock
      BY <1>0, <3>1 DEF Edit, Modify
    <3>4. DatesBehind'
      BY <1>3, <2>1, <3>3
    <3> QED
      BY <3>2, <3>4 DEF Behind
  <2>3. CASE \E p \in Pages : Trash(p)
    BY <1>0, <1>3, <2>1, <2>3 DEF Trash, Behind, CurrentExist
  <2>4. CASE \E p \in Pages : Label(p) \/ Unlabel(p)
    BY <1>0, <1>2, <1>3, <2>1, <2>4 DEF Label, Unlabel, Behind
  <2>5. CASE \E s \in Spaces : Archive(s) \/ Close(s)
    BY <1>0, <1>2, <1>3, <2>1, <2>5 DEF Archive, Close, Behind
  <2> QED
    BY <1>5, <2>2, <2>3, <2>4, <2>5 DEF Confluence
<1>6. ASSUME NEW j \in Jobs, JobAction(j) PROVE Behind'
  <2>0. /\ date' = [date EXCEPT ![j] = date'[j]]
        /\ ConfluenceTypes' /\ Grows
    BY <1>6, JobsMoveAlone, StoresKept DEF Shape, JobStep
  <2>1. clock' \in Nat /\ clock' >= clock
    BY <2>0, Numbers DEF ConfluenceTypes, Grows
  <2>2. CurrentExist'
    <3>1. CASE Export(j)
      BY <1>0, <1>1, <1>2, <3>1, KnowledgeBaseAssumption DEF Export
    <3>2. CASE ~Export(j)
      <4>1. UNCHANGED confluence
        BY <1>6, <3>2
           DEF JobAction, Step, NextSpace, Labels, List, Update, Search, Fetch, FindSpace, Records, Embeddings, Mark,
               Prune, PruneCommit, Remove, RemoveCommit, Drop, DropCommit, StartPull, StartExport, Fail,
               StartImport, StartDelete
      <4> QED
        BY <1>2, <4>1 DEF confluence
    <3> QED
      BY <3>1, <3>2
  <2>3. date'[j] \in {date[j], NoDate} \/ date'[j] \in Now
    <3>1. ASSUME End(j) PROVE date'[j] = NoDate
      BY <1>0, <3>1 DEF End
    <3>2. ASSUME UNCHANGED locals \/ UNCHANGED run \/ UNCHANGED date PROVE date'[j] = date[j]
      BY <3>2 DEF locals, run
    <3>3. ASSUME Done(j) PROVE date'[j] \in {date[j], NoDate}
      BY <3>1, <3>2, <3>3 DEF Done, Stay
    <3>4. CASE StartPull(j) \/ StartExport(j) \/ Fail(j)
      BY <3>1, <3>2, <3>4 DEF StartPull, StartExport, Fail
    <3>5. CASE \E s \in Spaces : StartImport(j, s) \/ StartDelete(j, s)
      BY <1>0, <3>2, <3>5 DEF StartImport, StartDelete
    <3>6. CASE NextSpace(j) \/ Labels(j) \/ List(j) \/ Search(j)
      BY <1>0, <3>1, <3>2, <3>6 DEF NextSpace, Labels, List, Search, Query, Stay
    <3>7. CASE Update(j) \/ Fetch(j)
      BY <1>0, <3>1, <3>2, <3>3, <3>7 DEF Update, Fetch
    <3>8. CASE FindSpace(j) \/ Records(j) \/ Embeddings(j) \/ Mark(j) \/ Export(j)
      BY <3>1, <3>2, <3>3, <3>8 DEF FindSpace, Records, Embeddings, Mark, Export, Stay
    <3>9. CASE Prune(j) \/ PruneCommit(j) \/ Remove(j) \/ RemoveCommit(j) \/ Drop(j) \/ DropCommit(j)
      BY <3>1, <3>2, <3>3, <3>9 DEF Prune, PruneCommit, Remove, RemoveCommit, Drop, DropCommit, Found, Stay
    <3> QED
      BY <1>6, <3>4, <3>5, <3>6, <3>7, <3>8, <3>9 DEF JobAction, Step
  <2>4. \A i \in Jobs : date'[i] \in {date[i], NoDate} \/ date'[i] \in Now
    BY <1>0, <2>0, <2>3
  <2>5. CASE UNCHANGED lastImport
    BY <1>3, <2>1, <2>2, <2>4, <2>5 DEF Behind
  <2>6. CASE Mark(j)
    <3>1. UNCHANGED clock /\ space[j] \in Spaces
      BY <2>6 DEF Mark, confluence, Shape, Placed
    <3>2. lastImport' \in {lastImport, [lastImport EXCEPT ![space[j]] = date[j]]}
      BY <2>6 DEF Mark
    <3>3. \A s \in Spaces : lastImport'[s] <= clock + Skew
      BY <1>0, <3>1, <3>2
    <3>4. \A i \in Jobs : date'[i] <= clock + Skew
      <4>1. date'[j] \in {date[j], NoDate}
        BY <1>0, <2>6 DEF Mark, Done, End, Stay, locals, run
      <4> QED
        BY <1>0, <2>0, <4>1, Numbers
    <3> QED
      BY <2>2, <3>1, <3>3, <3>4 DEF DatesBehind, Behind
  <2>7. CASE DropCommit(j)
    <3>1. UNCHANGED clock
      BY <2>7 DEF DropCommit, confluence
    <3>2. lastImport' \in {lastImport, [lastImport EXCEPT ![space[j]] = NoDate]}
      BY <2>7 DEF DropCommit
    <3>3. \A s \in Spaces : lastImport'[s] <= clock + Skew
      BY <1>0, <3>2, Numbers
    <3>4. \A i \in Jobs : date'[i] <= clock + Skew
      <4>1. date'[j] \in {date[j], NoDate}
        BY <1>0, <2>7 DEF DropCommit, Done, End, Stay, locals, run
      <4> QED
        BY <1>0, <2>0, <4>1, Numbers
    <3> QED
      BY <2>2, <3>1, <3>3, <3>4 DEF DatesBehind, Behind
  <2>8. CASE ~Mark(j) /\ ~DropCommit(j)
    <3>1. UNCHANGED lastImport
      BY <1>6, <2>8
         DEF JobAction, Step, NextSpace, Labels, List, Update, Search, Fetch, FindSpace, Records, Embeddings,
             Prune, PruneCommit, Remove, RemoveCommit, Drop, Export, StartPull, StartExport, Fail,
             StartImport, StartDelete, spacesTable
    <3> QED
      BY <2>5, <3>1
  <2> QED
    BY <2>6, <2>7, <2>8
<1> QED
  BY <1>4, <1>5, <1>6, NextIsOfOne

LEMMA NextSince ==
    ASSUME OneJob, Shape, SinceBehind, [Next]_vars
    PROVE  SinceBehind'
<1>1. CASE UNCHANGED vars
  BY <1>1 DEF SinceBehind, MustAsk, vars, spacesTable, locals, run
<1>2. CASE Confluence
  BY <1>2, ConfluenceMoves DEF SinceBehind, MustAsk, spacesTable, locals, run
<1>3. ASSUME NEW j \in Jobs, JobAction(j) PROVE SinceBehind'
  <2> USE DEF OneJob
  <2>0. /\ pc \in [Jobs -> Steps] /\ DOMAIN kind = Jobs /\ DOMAIN space = Jobs /\ DOMAIN todo = Jobs
        /\ DOMAIN since = Jobs /\ lastImport \in [Spaces -> Dates] /\ since[j] \in [Spaces -> Dates]
        /\ todo[j] \subseteq Spaces
        /\ pc[j] \notin {"idle", "next"} => space[j] \in Spaces
    BY DEF Shape, TypeOK, Placed
  <2>held. /\ \A s \in todo[j] : since[j][s] <= lastImport[s]
           /\ pc[j] = "idle" \/ kind[j] # "pull" => todo[j] = {}
           /\ pc[j] \notin {"idle", "next"} => space[j] \notin todo[j]
           /\ MustAsk(j) => since[j][space[j]] <= lastImport[space[j]]
    BY DEF SinceBehind, MustAsk
  <2>1. ASSUME End(j) PROVE SinceBehind'
    BY <2>0, <2>1 DEF End, Goto, SinceBehind, MustAsk
  <2>2. ASSUME UNCHANGED <<lastImport, todo, since, space, kind>>, pc[j] \notin {"idle", "next"}, pc'[j] # "idle",
               pc'[j] \in {"prune", "prune_commit", "update"}
                 => pc[j] \in {"prune", "prune_commit"} \/ (kind[j] = "pull" /\ pc[j] \in {"labels", "list"}),
               pc'[j] \in {"labels", "list"} => pc[j] \in {"labels", "list"}
        PROVE  SinceBehind'
    BY <2>held, <2>2 DEF SinceBehind, MustAsk
  <2>3. ASSUME NEW step, Stay(j, step) PROVE pc'[j] = step /\ UNCHANGED <<todo, since, space, kind>>
    BY <2>0, <2>3 DEF Stay, Goto, locals, run
  <2>4. ASSUME NEW set, NEW step, Found(j, set, step)
        PROVE  pc'[j] = step /\ UNCHANGED <<todo, since, space, kind>>
    BY <2>0, <2>4 DEF Found, Goto, run
  <2>5. ASSUME Done(j), UNCHANGED lastImport, pc[j] \notin {"idle", "next"} PROVE SinceBehind'
    BY <2>1, <2>2, <2>3, <2>5 DEF Done
  <2>6. CASE NextSpace(j)
    <3>1. CASE todo[j] = {}
      BY <2>1, <2>6, <3>1 DEF NextSpace
    <3>2. CASE todo[j] # {}
      <4>1. PICK s \in todo[j] :
              /\ Goto(j, IF s \in drop[j] THEN "drop" ELSE "labels")
              /\ space' = [space EXCEPT ![j] = s]
              /\ todo' = [todo EXCEPT ![j] = @ \ {s}]
              /\ UNCHANGED <<kind, since>>
        BY <2>6, <3>2 DEF NextSpace
      <4>2. UNCHANGED lastImport
        BY <2>6 DEF NextSpace, spacesTable
      <4>3. /\ pc'[j] \in {"drop", "labels"} /\ space'[j] = s /\ todo'[j] = todo[j] \ {s}
            /\ kind[j] = "pull"
        BY <2>0, <2>held, <4>1 DEF Goto
      <4> QED
        BY <2>held, <4>1, <4>2, <4>3 DEF SinceBehind, MustAsk
    <3> QED
      BY <3>1, <3>2
  <2>query. ASSUME NEW set, NEW step, Query(j, set, step)
            PROVE  pc'[j] \in {pc[j], step} /\ UNCHANGED <<todo, since, space, kind>>
    BY <2>0, <2>query DEF Query, Goto, run
  <2>7. CASE Labels(j) \/ Search(j)
    <3>1. UNCHANGED <<lastImport, todo, since, space, kind>>
      BY <2>query, <2>7 DEF Labels, Search, spacesTable
    <3>2. CASE Labels(j)
      BY <2>2, <2>query, <3>1, <3>2 DEF Labels
    <3>3. CASE Search(j)
      BY <2>2, <2>query, <3>1, <3>3 DEF Search
    <3> QED
      BY <2>7, <3>2, <3>3
  <2>8. CASE List(j)
    <3>1. UNCHANGED lastImport
      BY <2>8 DEF List, spacesTable
    <3>2. CASE IF kind[j] = "pull" THEN Stay(j, "drop") ELSE End(j)
      BY <2>1, <2>2, <2>3, <2>8, <3>1, <3>2 DEF List
    <3>3. CASE UNCHANGED <<pc, run>>
      BY <2>2, <2>8, <3>1, <3>3 DEF List, run
    <3>4. CASE Goto(j, IF kind[j] = "pull" THEN "prune" ELSE "fetch") /\ UNCHANGED run
      BY <2>0, <2>2, <2>8, <3>1, <3>4 DEF List, Goto, run
    <3> QED
      BY <2>8, <3>2, <3>3, <3>4 DEF List
  <2>9. CASE Update(j)
    <3>1. UNCHANGED lastImport
      BY <2>9 DEF Update, spacesTable
    <3>2. CASE Done(j)
      BY <2>5, <2>9, <3>1, <3>2 DEF Update
    <3>3. CASE Goto(j, "search") /\ UNCHANGED <<kind, space, todo, drop, id, since, listed, fetched>>
      BY <2>0, <2>2, <2>9, <3>1, <3>3 DEF Update, Goto
    <3> QED
      BY <2>9, <3>2, <3>3 DEF Update
  <2>10. CASE Fetch(j)
    <3>1. UNCHANGED lastImport
      BY <2>10 DEF Fetch, spacesTable
    <3>2. CASE End(j)
      BY <2>1, <3>2
    <3>3. CASE /\ Goto(j, IF kind[j] = "import" THEN "find_space"
                          ELSE IF \E p \in ids[j] : Retrieved(j)[p] # NULL THEN "records"
                          ELSE "remove")
               /\ UNCHANGED run
      <4>1. pc'[j] \in {"find_space", "records", "remove"} /\ UNCHANGED <<todo, since, space, kind>>
        BY <2>0, <3>3 DEF Goto, run
      <4> QED
        BY <2>2, <2>10, <3>1, <4>1 DEF Fetch
    <3> QED
      BY <2>10, <3>2, <3>3 DEF Fetch
  <2>11. CASE FindSpace(j)
    <3>1. /\ UNCHANGED <<lastImport, kind, space, todo>>
          /\ since' = [since EXCEPT ![j] = [@ EXCEPT ![space[j]] = lastImport[space[j]]]]
          /\ pc'[j] \in {"records", "update"} /\ space[j] \in Spaces /\ space[j] \notin todo[j]
      BY <2>0, <2>held, <2>11 DEF FindSpace, Goto
    <3>2. /\ since'[j][space[j]] = lastImport[space[j]]
          /\ \A s \in todo[j] : since'[j][s] = since[j][s]
      BY <2>0, <3>1
    <3>3. lastImport[space[j]] \in Int
      BY <2>0, <3>1, Numbers
    <3> QED
      BY <2>held, <3>1, <3>2, <3>3 DEF SinceBehind, MustAsk
  <2>12. CASE Records(j) \/ Embeddings(j)
    BY <2>1, <2>2, <2>3, <2>12 DEF Records, Embeddings, spacesTable
  <2>13. ASSUME Done(j), pc[j] \notin {"idle", "next"}, \A s \in Spaces \ {space[j]} : lastImport'[s] = lastImport[s]
         PROVE  SinceBehind'
    <3>1. CASE End(j)
      BY <2>1, <3>1
    <3>2. CASE Stay(j, "next")
      <4>1. pc'[j] = "next" /\ UNCHANGED <<todo, since, space, kind>>
        BY <2>3, <3>2
      <4>2. \A s \in todo[j] : lastImport'[s] = lastImport[s]
        BY <2>0, <2>held, <2>13
      <4> QED
        BY <2>held, <4>1, <4>2 DEF SinceBehind, MustAsk
    <3> QED
      BY <2>13, <3>1, <3>2 DEF Done
  <2>14. CASE Mark(j) \/ DropCommit(j)
    <3>1. \A s \in Spaces \ {space[j]} : lastImport'[s] = lastImport[s]
      BY <2>0, <2>14 DEF Mark, DropCommit
    <3> QED
      BY <2>1, <2>13, <2>14, <3>1 DEF Mark, DropCommit
  <2>15. CASE Prune(j) \/ Drop(j)
    <3>1. CASE End(j)
      BY <2>1, <3>1
    <3>2. CASE /\ pc[j] = "prune"
               /\ \E set, step : Found(j, set, step) /\ step \in {"update", "prune_commit"}
      <4>1. pc'[j] \in {"update", "prune_commit"} /\ UNCHANGED <<todo, since, space, kind>>
        BY <2>4, <3>2
      <4>2. UNCHANGED lastImport
        BY <2>15 DEF Prune, Drop, spacesTable
      <4> QED
        BY <2>2, <3>2, <4>1, <4>2
    <3>3. CASE pc[j] = "drop" /\ \E set : Found(j, set, "drop_commit")
      <4>1. pc'[j] = "drop_commit" /\ UNCHANGED <<todo, since, space, kind>>
        BY <2>4, <3>3
      <4>2. UNCHANGED lastImport
        BY <2>15 DEF Prune, Drop, spacesTable
      <4> QED
        BY <2>2, <3>3, <4>1, <4>2
    <3> QED
      BY <2>15, <3>1, <3>2, <3>3 DEF Prune, Drop
  <2>16. CASE PruneCommit(j) \/ Remove(j) \/ RemoveCommit(j)
    <3>1. CASE PruneCommit(j)
      BY <2>2, <2>3, <3>1 DEF PruneCommit, spacesTable
    <3>2. CASE Remove(j)
      BY <2>1, <2>2, <2>3, <3>2 DEF Remove, spacesTable
    <3>3. CASE RemoveCommit(j)
      BY <2>2, <2>3, <3>3 DEF RemoveCommit, spacesTable
    <3> QED
      BY <2>16, <3>1, <3>2, <3>3
  <2>17. CASE Export(j)
    BY <2>1, <2>2, <2>3, <2>17 DEF Export, spacesTable
  <2>18. CASE Fail(j)
    BY <2>1, <2>18 DEF Fail
  <2>19. CASE StartPull(j)
    <3>1. /\ pc'[j] = "next" /\ since'[j] = lastImport /\ todo'[j] \subseteq Spaces /\ kind'[j] = "pull"
          /\ UNCHANGED lastImport
      BY <2>0, <2>19 DEF StartPull, Goto, spacesTable
    <3>2. \A s \in Spaces : lastImport[s] \in Int
      BY <2>0, Numbers
    <3> QED
      BY <3>1, <3>2 DEF SinceBehind, MustAsk
  <2>20. CASE StartExport(j)
    <3>1. pc'[j] = "export" /\ todo'[j] = {} /\ kind'[j] = "export"
      BY <2>0, <2>20 DEF StartExport, Goto
    <3> QED
      BY <3>1 DEF SinceBehind, MustAsk
  <2>21. CASE \E s \in Spaces : StartImport(j, s) \/ StartDelete(j, s)
    <3>1. pc'[j] \in {"labels", "drop"} /\ todo'[j] = {} /\ kind'[j] \in {"import", "delete"}
      BY <2>0, <2>held, <2>21 DEF StartImport, StartDelete, Goto
    <3> QED
      BY <3>1 DEF SinceBehind, MustAsk
  <2> QED
    BY <1>3, <2>6, <2>7, <2>8, <2>9, <2>10, <2>11, <2>12, <2>14, <2>15, <2>16, <2>17, <2>18, <2>19, <2>20, <2>21
       DEF JobAction, Step
<1> QED
  BY <1>1, <1>2, <1>3, NextIsOfOne

\* A page that Confluence changes is new enough; the others stay what they are.
LEMMA ConfluenceWindow ==
    ASSUME Shape, WindowInv, Confluence
    PROVE  StaleIsInWindow' /\ \A j \in Jobs : InWindow(j)'
<1>0. UNCHANGED <<pc, kind, space, since, date, start, listed, ids, fetched, lastImport, record, embedded>>
  BY ConfluenceMoves DEF locals, run, list, spacesTable, vectors
<1>1. ASSUME NEW p \in Pages
      PROVE  \/ modified'[p] = clock + 1
             \/ modified'[p] = modified[p] /\ (Tracked(p)' => Tracked(p))
  <2>1. CASE \E q \in Pages : Edit(q)
    BY <2>1 DEF Edit, Modify, Tracked, Shape, TypeOK
  <2>2. CASE \E q \in Pages : Trash(q)
    BY <2>2 DEF Trash, Tracked, pagesStore
  <2>3. CASE \E q \in Pages : Label(q)
    BY <2>3 DEF Label, Tracked, pagesStore
  <2>4. CASE \E q \in Pages : Unlabel(q)
    BY <2>4 DEF Unlabel, Tracked
  <2>5. CASE \E s \in Spaces : Archive(s) \/ Close(s)
    BY <2>5 DEF Archive, Close, Tracked, pagesStore
  <2> QED
    BY <2>1, <2>2, <2>3, <2>4, <2>5 DEF Confluence
<1>2. ASSUME NEW j \in Jobs, NEW p \in Pages
      PROVE  /\ NewEnough(j, p) => NewEnough(j, p)'
             /\ Tracked(p)' => Tracked(p) \/ NewEnough(j, p)'
             /\ UpToDate(p) => UpToDate(p)' \/ NewEnough(j, p)'
             /\ modified'[p] = modified[p] \/ NewEnough(j, p)'
  <2>1. CASE modified'[p] = clock + 1
    BY <1>0, <2>1, EditedIsNew DEF WindowInv
  <2>2. CASE modified'[p] = modified[p] /\ (Tracked(p)' => Tracked(p))
    BY <1>0, <2>2 DEF NewEnough, QueryFrom, UpToDate
  <2> QED
    BY <1>1, <2>1, <2>2
<1>3. StaleIsInWindow'
  <2> SUFFICES ASSUME NEW p \in Pages, Wanted(p)', ~UpToDate(p)'
               PROVE  modified'[p] >= QueryFrom(lastImport'[Home[p]])
    BY DEF StaleIsInWindow, QueryFrom
  <2>1. Tracked(p)' /\ lastImport[Home[p]] # NoDate
    BY <1>0 DEF Wanted, Tracked
  <2>2. CASE modified'[p] = clock + 1
    BY <1>0, <2>2, PageNumbers, Numbers DEF WindowInv, Behind, DatesBehind, QueryFrom, Shape, TypeOK
  <2>3. CASE modified'[p] = modified[p] /\ (Tracked(p)' => Tracked(p))
    <3>1. Wanted(p) /\ ~UpToDate(p)
      BY <1>0, <2>1, <2>3 DEF Wanted, Tracked, UpToDate
    <3> QED
      BY <1>0, <2>3, <3>1 DEF WindowInv, StaleIsInWindow, QueryFrom
  <2> QED
    BY <1>1, <2>2, <2>3
<1>4. ASSUME NEW j \in Jobs PROVE InWindow(j)'
  <2>0. /\ InWindow(j) /\ ids[j] \subseteq Pages
        /\ pc'[j] = pc[j] /\ kind'[j] = kind[j] /\ space'[j] = space[j] /\ ids'[j] = ids[j]
        /\ fetched'[j] = fetched[j] /\ listed'[j] = listed[j]
    BY <1>0 DEF WindowInv, Shape, TypeOK
  <2>1. \A p \in Pages : Settled(j, p) => Settled(j, p)'
    BY <1>2 DEF Settled
  <2>2. (Known(j)' <=> Known(j)) /\ Accessible(j)' = Accessible(j)
    BY <2>0 DEF Known, Accessible
  <2>3. \A p \in TrackedIn(space[j])' : p \in Pages /\ (p \in TrackedIn(space[j]) \/ NewEnough(j, p)')
    <3> SUFFICES ASSUME NEW p \in Pages, Home[p] = space[j], Tracked(p)'
                 PROVE  p \in TrackedIn(space[j]) \/ NewEnough(j, p)'
      BY <2>0 DEF TrackedIn, PagesOf
    <3> QED
      BY <1>2 DEF TrackedIn, PagesOf
  <2>4. Listing(j)' /\ Pruned(j)'
    BY <1>2, <2>0 DEF InWindow, Exporting, Listing, Pruned, PagesOf
  <2>5. Listed(j)'
    BY <1>2, <2>0, <2>3 DEF InWindow, Listed
  <2>6. Dropped(j)' /\ Recorded(j)'
    BY <1>0, <2>0, <2>2 DEF InWindow, Dropped, Recorded, PagesOf
  <2>searching. Searching(j)'
    <3> SUFFICES ASSUME pc[j] = "search", NEW p \in TrackedIn(space[j])'
                 PROVE  p \in ids[j] \/ Settled(j, p)' \/ Ahead(j, p)'
      BY <2>0 DEF InWindow, Searching, PagesOf
    <3>1. p \in Pages /\ (p \in TrackedIn(space[j]) \/ NewEnough(j, p)')
      BY <2>3
    <3>2. CASE p \in TrackedIn(space[j]) /\ modified'[p] = modified[p]
      <4>1. p \in ids[j] \/ Settled(j, p) \/ Ahead(j, p)
        BY <2>0, <3>2 DEF InWindow, Searching
      <4>2. Ahead(j, p)' <=> Ahead(j, p)
        BY <1>0, <3>2 DEF Ahead, QueryFrom
      <4> QED
        BY <2>1, <3>1, <4>1, <4>2
    <3> QED
      BY <1>2, <3>1, <3>2 DEF Settled
  <2>7. Asked(j)'
    BY <2>0, <2>1, <2>3 DEF InWindow, Asked, Settled, PagesOf
  <2>8. Got(j)'
    <3> SUFFICES ASSUME Known(j) PROVE (/\ \A p \in Pages : fetched[j][p] \notin {NULL, modified[p]} => NewEnough(j, p)
                                        /\ \A p \in ids[j] : Tracked(p) /\ fetched[j][p] = NULL => NewEnough(j, p)
                                        /\ \A p \in TrackedIn(space[j]) : fetched[j][p] = modified[p] \/ Settled(j, p))'
      BY <2>2 DEF Got
    <3>0. Got(j)
      BY <2>0 DEF InWindow
    <3>1. (\A p \in Pages : fetched[j][p] \notin {NULL, modified[p]} => NewEnough(j, p))'
      BY <1>2, <2>0, <3>0 DEF Got
    <3>2. (\A p \in ids[j] : Tracked(p) /\ fetched[j][p] = NULL => NewEnough(j, p))'
      BY <1>2, <2>0, <3>0 DEF Got
    <3>3. (\A p \in TrackedIn(space[j]) : fetched[j][p] = modified[p] \/ Settled(j, p))'
      BY <1>2, <2>0, <2>1, <2>3, <3>0 DEF Got, Settled
    <3> QED
      BY <3>1, <3>2, <3>3
  <2>9. Stored(j)' /\ Exporting(j)'
    BY <2>0, <2>1, <2>3 DEF InWindow, Stored, Exporting, Settled
  <2> QED
    BY <2>4, <2>5, <2>6, <2>searching, <2>7, <2>8, <2>9 DEF InWindow
<1> QED
  BY <1>3, <1>4

LEMMA JobStale ==
    ASSUME OneJob, Shape, WindowInv, NEW j \in Jobs, JobAction(j)
    PROVE  StaleIsInWindow'
<1>0. /\ StaleIsInWindow /\ InWindow(j) /\ j \in Jobs
      /\ record \in [Pages -> 0..clock] /\ embedded \in [Pages -> 0..clock]
      /\ lastImport \in [Spaces -> Dates] /\ fetched[j] \in [Pages -> 0..clock] /\ ids[j] \subseteq Pages
  BY DEF WindowInv, Shape, TypeOK
<1>1. ASSUME UNCHANGED <<confluence, lastImport>>,
             \A p \in Pages : Tracked(p)' /\ ~UpToDate(p)' => NewEnough(j, p) \/ (Tracked(p) /\ ~UpToDate(p))
      PROVE  StaleIsInWindow'
  <2> SUFFICES ASSUME NEW p \in Pages, Wanted(p)', ~UpToDate(p)'
               PROVE  modified[p] >= QueryFrom(lastImport[Home[p]])
    BY <1>1 DEF StaleIsInWindow, QueryFrom, confluence
  <2>1. Tracked(p)' /\ lastImport[Home[p]] # NoDate
    BY <1>1 DEF Wanted, Tracked
  <2>2. NewEnough(j, p) \/ (Wanted(p) /\ ~UpToDate(p))
    BY <1>1, <2>1 DEF Wanted, Tracked
  <2> QED
    BY <1>0, <2>2 DEF NewEnough, StaleIsInWindow
<1>2. ASSUME UNCHANGED <<confluence, lastImport, record, embedded>>, overlooked \subseteq overlooked'
      PROVE  StaleIsInWindow'
  BY <1>1, <1>2 DEF Tracked, UpToDate, confluence
<1>3. CASE NextSpace(j) \/ Labels(j) \/ Update(j) \/ Search(j) \/ Fetch(j)
  BY <1>2, <1>3 DEF NextSpace, Labels, Update, Search, Fetch, spacesTable, pagesStore, vectors
<1>4. CASE List(j) \/ FindSpace(j)
  BY <1>2, <1>4 DEF List, FindSpace, spacesTable, pagesStore, vectors
<1>5. CASE StartPull(j) \/ StartExport(j) \/ \E s \in Spaces : StartImport(j, s) \/ StartDelete(j, s)
  BY <1>2, <1>5 DEF StartPull, StartExport, StartImport, StartDelete, spacesTable, pagesStore, vectors
<1>6. CASE Records(j)
  <2>1. UNCHANGED <<confluence, lastImport, embedded, overlooked>> /\ pc[j] = "records"
    BY <1>6 DEF Records, spacesTable, vectors
  <2>2. CASE UNCHANGED record
    BY <1>2, <2>1, <2>2
  <2>3. CASE record' = [p \in Pages |-> IF p \in Accessible(j) THEN fetched[j][p] ELSE record[p]]
    <3>1. \A p \in Pages : fetched[j][p] \notin {NULL, modified[p]} => NewEnough(j, p)
      BY <1>0, <2>1 DEF InWindow, Got, Known
    <3>2. ASSUME NEW p \in Pages, Tracked(p)', ~UpToDate(p)' PROVE NewEnough(j, p) \/ (Tracked(p) /\ ~UpToDate(p))
      BY <2>1, <2>3, <3>1, <3>2 DEF Tracked, UpToDate, Accessible, confluence
    <3> QED
      BY <1>1, <2>1, <3>2
  <2> QED
    BY <1>6, <2>2, <2>3 DEF Records
<1>7. ASSUME NEW stored \in SUBSET Accessible(j), NEW lost, Embed(j, stored, lost), pc[j] = "embeddings",
             UNCHANGED <<confluence, lastImport, record>>
      PROVE  StaleIsInWindow'
  <2>1. /\ \A p \in Pages : fetched[j][p] \notin {NULL, modified[p]} => NewEnough(j, p)
        /\ \A p \in Accessible(j) : record[p] = fetched[j][p]
    BY <1>0, <1>7 DEF InWindow, Got, Known, Recorded
  <2>2. ASSUME NEW p \in Pages, Tracked(p)', ~UpToDate(p)' PROVE NewEnough(j, p) \/ (Tracked(p) /\ ~UpToDate(p))
    <3>1. CASE p \in stored
      <4>1. embedded'[p] = fetched[j][p] /\ record[p] = fetched[j][p] /\ fetched[j][p] # NULL
        BY <1>7, <2>1, <3>1 DEF Embed, Accessible
      <4>2. fetched[j][p] # modified[p]
        BY <1>7, <2>2, <4>1 DEF UpToDate, confluence
      <4> QED
        BY <2>1, <4>1, <4>2
    <3>2. CASE p \notin stored
      <4>1. embedded'[p] = embedded[p] /\ (p \in overlooked => p \in overlooked')
        BY <1>7, <3>2 DEF Embed
      <4> QED
        BY <1>7, <2>2, <4>1 DEF Tracked, UpToDate, confluence
    <3> QED
      BY <3>1, <3>2
  <2> QED
    BY <1>1, <1>7, <2>2
<1>8. CASE Embeddings(j)
  <2>1. UNCHANGED <<confluence, lastImport, record>> /\ pc[j] = "embeddings"
    BY <1>8 DEF Embeddings, spacesTable
  <2>2. CASE UNCHANGED <<vectors, overlooked>>
    BY <1>2, <2>1, <2>2 DEF vectors
  <2>3. CASE \E lost \in {{}} \union Unstored(Accessible(j)) : Embed(j, Accessible(j) \ lost, lost)
    BY <1>7, <2>1, <2>3
  <2>4. Accessible(j) \ {} = Accessible(j)
    OBVIOUS
  <2> QED
    BY <1>8, <2>2, <2>3, <2>4 DEF Embeddings
<1>9. CASE Mark(j)
  <2>1. UNCHANGED <<confluence, record, embedded, overlooked>> /\ pc[j] = "mark"
    BY <1>9 DEF Mark, pagesStore, vectors
  <2>2. CASE UNCHANGED lastImport
    BY <1>2, <2>1, <2>2
  <2>3. CASE lastImport' = [lastImport EXCEPT ![space[j]] = date[j]]
    <3> SUFFICES ASSUME NEW p \in Pages, Wanted(p)', ~UpToDate(p)'
                 PROVE  modified[p] >= QueryFrom(lastImport'[Home[p]])
      BY <2>1 DEF StaleIsInWindow, QueryFrom, confluence
    <3>0. Home[p] \in Spaces
      BY PageNumbers
    <3>1. Tracked(p) /\ ~UpToDate(p)
      BY <2>1 DEF Wanted, Tracked, UpToDate, confluence
    <3>2. CASE Home[p] = space[j]
      <4>1. p \in TrackedIn(space[j])
        BY <3>1, <3>2 DEF TrackedIn, PagesOf
      <4>2. NewEnough(j, p)
        BY <1>0, <2>1, <3>1, <4>1 DEF InWindow, Stored, Settled
      <4>3. lastImport'[Home[p]] = date[j]
        BY <1>0, <2>3, <3>0, <3>2
      <4> QED
        BY <4>2, <4>3 DEF NewEnough
    <3>3. CASE Home[p] # space[j]
      <4>1. lastImport'[Home[p]] = lastImport[Home[p]]
        BY <1>0, <2>3, <3>0, <3>3
      <4>2. Wanted(p)
        BY <3>1, <4>1 DEF Wanted, Tracked
      <4> QED
        BY <1>0, <3>1, <4>1, <4>2 DEF StaleIsInWindow
    <3> QED
      BY <3>2, <3>3
  <2> QED
    BY <1>9, <2>2, <2>3 DEF Mark
<1>10. ASSUME UNCHANGED <<confluence, lastImport, overlooked>>, NEW set,
              \/ embedded' = Unembedded(set) /\ UNCHANGED record
              \/ UNCHANGED embedded /\ record' = Without(record, set),
              \A p \in Pages : p \in set /\ Tracked(p) => NewEnough(j, p)
       PROVE  StaleIsInWindow'
  <2>1. ASSUME NEW p \in Pages, Tracked(p)', ~UpToDate(p)' PROVE NewEnough(j, p) \/ (Tracked(p) /\ ~UpToDate(p))
    <3>1. Tracked(p)
      BY <1>10, <2>1 DEF Tracked, confluence
    <3>2. CASE p \in set
      BY <1>10, <3>1, <3>2
    <3>3. CASE p \notin set
      <4>1. UpToDate(p)' <=> UpToDate(p)
        BY <1>0, <1>10, <3>3 DEF UpToDate, Unembedded, Without, confluence
      <4> QED
        BY <2>1, <3>1, <4>1
    <3> QED
      BY <3>2, <3>3
  <2> QED
    BY <1>1, <1>10, <2>1
<1>11. CASE Prune(j)
  <2>1. UNCHANGED <<confluence, lastImport, overlooked, record>> /\ pc[j] = "prune"
    BY <1>11 DEF Prune, spacesTable
  <2>2. CASE UNCHANGED embedded
    BY <1>2, <2>1, <2>2
  <2>3. CASE \E set : embedded' = Unembedded(set) /\ set \subseteq RecordsOf(space[j]) \ ids[j]
    <3>1. PICK set : embedded' = Unembedded(set) /\ set \subseteq RecordsOf(space[j]) \ ids[j]
      BY <2>3
    <3>2. \A p \in Pages : p \in set /\ Tracked(p) => NewEnough(j, p)
      BY <1>0, <2>1, <3>1 DEF InWindow, Listed, TrackedIn, RecordsOf
    <3> QED
      BY <1>10, <2>1, <3>1, <3>2
  <2> QED
    BY <1>11, <2>2, <2>3 DEF Prune
<1>12. CASE PruneCommit(j)
  <2>1. UNCHANGED <<confluence, lastImport, overlooked, embedded>> /\ pc[j] = "prune_commit"
        /\ record' = Without(record, ids[j])
    BY <1>12 DEF PruneCommit, spacesTable, vectors
  <2>2. \A p \in Pages : p \in ids[j] /\ Tracked(p) => NewEnough(j, p)
    BY <1>0, <2>1 DEF InWindow, Pruned
  <2> QED
    BY <1>10, <2>1, <2>2
<1>13. CASE Remove(j) \/ RemoveCommit(j)
  <2>1. UNCHANGED <<confluence, lastImport, overlooked>> /\ pc[j] \in {"remove", "remove_commit"}
    BY <1>13 DEF Remove, RemoveCommit, spacesTable
  <2>2. \A p \in Pages : p \in Inaccessible(j) /\ Tracked(p) => NewEnough(j, p)
    BY <1>0, <2>1 DEF InWindow, Got, Known, Inaccessible
  <2>3. CASE UNCHANGED <<record, embedded>>
    BY <1>2, <2>1, <2>3
  <2>4. CASE \/ embedded' = Unembedded(Inaccessible(j)) /\ UNCHANGED record
             \/ UNCHANGED embedded /\ record' = Without(record, Inaccessible(j))
    BY <1>10, <2>1, <2>2, <2>4
  <2> QED
    BY <1>13, <2>3, <2>4 DEF Remove, RemoveCommit, vectors
<1>14. CASE Drop(j)
  <2>1. UNCHANGED <<confluence, lastImport, record>>
    BY <1>14 DEF Drop, spacesTable
  <2>2. CASE UNCHANGED <<embedded, overlooked>>
    BY <1>2, <2>1, <2>2
  <2>3. CASE embedded' = Unembedded(RecordsOf(space[j])) /\ overlooked' = overlooked \union RecordsOf(space[j])
    <3>1. ASSUME NEW p \in Pages, Tracked(p)', ~UpToDate(p)' PROVE Tracked(p) /\ ~UpToDate(p)
      <4>1. p \notin RecordsOf(space[j]) /\ Tracked(p)
        BY <2>1, <2>3, <3>1 DEF Tracked, confluence
      <4>2. embedded'[p] = embedded[p]
        BY <2>3, <4>1 DEF Unembedded, Without
      <4> QED
        BY <2>1, <3>1, <4>1, <4>2 DEF UpToDate, confluence
    <3> QED
      BY <1>1, <2>1, <3>1
  <2> QED
    BY <1>14, <2>2, <2>3 DEF Drop
<1>15. CASE DropCommit(j)
  <2>1. UNCHANGED <<confluence, embedded>> /\ ids[j] \subseteq PagesOf(space[j])
    BY <1>0, <1>15 DEF DropCommit, InWindow, Dropped, vectors
  <2>2. CASE UNCHANGED <<record, overlooked, lastImport>>
    BY <1>2, <2>1, <2>2
  <2>3. CASE /\ record' = Without(record, ids[j]) /\ overlooked' = overlooked \ ids[j]
             /\ lastImport' = [lastImport EXCEPT ![space[j]] = NoDate]
    <3> SUFFICES ASSUME NEW p \in Pages, Wanted(p)', ~UpToDate(p)'
                 PROVE  modified[p] >= QueryFrom(lastImport'[Home[p]])
      BY <2>1 DEF StaleIsInWindow, QueryFrom, confluence
    <3>1. Home[p] \in Spaces
      BY PageNumbers
    <3>2. Home[p] # space[j]
      BY <1>0, <2>3, <3>1 DEF Wanted
    <3>3. p \notin ids[j] /\ lastImport'[Home[p]] = lastImport[Home[p]]
      BY <1>0, <2>1, <2>3, <3>1, <3>2 DEF PagesOf
    <3>4. record'[p] = record[p] /\ (p \in overlooked => p \in overlooked')
      BY <2>3, <3>3 DEF Without
    <3>5. Wanted(p) /\ ~UpToDate(p)
      BY <2>1, <3>3, <3>4 DEF Wanted, UpToDate, confluence
    <3> QED
      BY <1>0, <3>3, <3>5 DEF StaleIsInWindow
  <2> QED
    BY <1>15, <2>2, <2>3 DEF DropCommit
<1>16. CASE Export(j)
  <2>1. UNCHANGED <<current, labelled, archived, closed, lastImport, record, embedded>>
    BY <1>16 DEF Export, spacesTable, vectors
  <2>2. CASE UNCHANGED <<clock, modified, overlooked>>
    BY <1>2, <2>1, <2>2 DEF confluence
  <2>3. CASE Modify(StatsPage)
    <3> SUFFICES ASSUME NEW p \in Pages, Wanted(p)', ~UpToDate(p)'
                 PROVE  modified'[p] >= QueryFrom(lastImport[Home[p]])
      BY <2>1 DEF StaleIsInWindow, QueryFrom
    <3>1. CASE p = StatsPage
      <4>1. modified'[p] = clock + 1
        BY <2>3, <3>1 DEF Modify, Shape, TypeOK
      <4> QED
        BY <4>1, PageNumbers, Numbers DEF WindowInv, Behind, DatesBehind, QueryFrom, Shape, TypeOK
    <3>2. CASE p # StatsPage
      <4>1. modified'[p] = modified[p] /\ (p \in overlooked => p \in overlooked')
        BY <2>3, <3>2 DEF Modify, Shape, TypeOK
      <4>2. Wanted(p) /\ ~UpToDate(p)
        BY <2>1, <4>1 DEF Wanted, UpToDate
      <4> QED
        BY <1>0, <4>1, <4>2 DEF StaleIsInWindow
    <3> QED
      BY <3>1, <3>2
  <2> QED
    BY <1>16, <2>2, <2>3 DEF Export
<1>17. CASE Fail(j)
  <2>1. UNCHANGED <<confluence, lastImport, record>>
    BY <1>17 DEF Fail, spacesTable
  <2>2. CASE UNCHANGED <<vectors, overlooked>>
    BY <1>2, <2>1, <2>2 DEF vectors
  <2>3. CASE /\ pc[j] = "embeddings"
             /\ \E stored \in SUBSET (IF collection' THEN Accessible(j) ELSE {}) : Embed(j, stored, {})
    <3>1. PICK stored \in SUBSET (IF collection' THEN Accessible(j) ELSE {}) : Embed(j, stored, {})
      BY <2>3
    <3>2. stored \subseteq Accessible(j)
      OBVIOUS
    <3> QED
      BY <1>7, <2>1, <2>3, <3>1, <3>2
  <2> QED
    BY <1>17, <2>2, <2>3 DEF Fail
<1> QED
  BY <1>3, <1>4, <1>5, <1>6, <1>8, <1>9, <1>11, <1>12, <1>13, <1>14, <1>15, <1>16, <1>17 DEF JobAction, Step

\* What the job knows at the step it comes to.
LEMMA JobWindow ==
    ASSUME OneJob, Shape, WindowInv, NEW j \in Jobs, JobAction(j)
    PROVE  InWindow(j)'
<1>0. /\ StaleIsInWindow /\ CurrentExist /\ SinceBehind /\ InWindow(j)
      /\ pc \in [Jobs -> Steps] /\ DOMAIN ids = Jobs /\ DOMAIN listed = Jobs /\ DOMAIN fetched = Jobs
      /\ DOMAIN kind = Jobs /\ DOMAIN space = Jobs /\ DOMAIN date = Jobs
      /\ record \in [Pages -> 0..clock] /\ embedded \in [Pages -> 0..clock]
      /\ fetched[j] \in [Pages -> 0..clock] /\ ids[j] \subseteq Pages
  BY DEF WindowInv, Behind, Shape, TypeOK
<1>1. ASSUME \/ pc'[j] \in {"next", "update", "drop"}
             \/ pc'[j] = "find_space" /\ kind'[j] # "import"
             \/ pc'[j] = "export" /\ kind'[j] = "export"
      PROVE  InWindow(j)'
  BY <1>1
     DEF InWindow, Exporting, Listing, Listed, Pruned, Dropped, Searching, Asked, Got, Known, Recorded, Stored
<1>2. ASSUME pc'[j] \in {"idle", "labels"}, listed'[j] = {}, ids'[j] = {} PROVE InWindow(j)'
  BY <1>2
     DEF InWindow, Exporting, Listing, Listed, Pruned, Dropped, Searching, Asked, Got, Known, Recorded, Stored
<1>3. ASSUME End(j) PROVE InWindow(j)'
  BY <1>0, <1>2, <1>3 DEF End, Goto
<1>4. ASSUME NEW step, Stay(j, step)
      PROVE  pc'[j] = step /\ UNCHANGED <<kind, space, date, listed, ids, fetched>>
  BY <1>0, <1>4 DEF Stay, Goto, locals, run, list
<1>5. ASSUME NEW set, NEW step, Found(j, set, step)
      PROVE  pc'[j] = step /\ ids'[j] = set /\ UNCHANGED <<kind, space, date, listed, fetched>>
  BY <1>0, <1>5 DEF Found, Goto, run, list
<1>6. ASSUME Done(j) PROVE InWindow(j)'
  BY <1>1, <1>3, <1>4, <1>6 DEF Done
<1>7. ASSUME UNCHANGED <<confluence, lastImport, date>>, NEW p PROVE NewEnough(j, p)' <=> NewEnough(j, p)
  BY <1>7 DEF NewEnough, QueryFrom, confluence
<1>8. ASSUME UNCHANGED <<confluence, overlooked>>, NEW p PROVE Tracked(p)' <=> Tracked(p)
  BY <1>8 DEF Tracked, confluence
<1>9. CASE NextSpace(j)
  <2>1. CASE End(j)
    BY <1>3, <2>1
  <2>2. CASE \E s \in todo[j] : /\ Goto(j, IF s \in drop[j] THEN "drop" ELSE "labels")
                              /\ ids' = [ids EXCEPT ![j] = {}]
                              /\ listed' = [listed EXCEPT ![j] = {}]
    <3>1. pc'[j] \in {"drop", "labels"} /\ listed'[j] = {} /\ ids'[j] = {}
      BY <1>0, <2>2 DEF Goto
    <3> QED
      BY <1>1, <1>2, <3>1
  <2> QED
    BY <1>9, <2>1, <2>2 DEF NextSpace
<1>10. CASE \E s \in Spaces : StartImport(j, s) \/ StartDelete(j, s)
  <2>1. CASE \E s \in Spaces : StartImport(j, s)
    <3>1. pc[j] = "idle" /\ pc'[j] = "labels" /\ listed'[j] = listed[j] /\ ids'[j] = ids[j]
      BY <1>0, <2>1 DEF StartImport, Goto, list
    <3>2. listed[j] = {} /\ ids[j] = {}
      BY <1>0, <3>1 DEF InWindow, Exporting, Listing
    <3> QED
      BY <1>2, <3>1, <3>2
  <2>2. CASE \E s \in Spaces : StartDelete(j, s)
    <3>1. pc'[j] = "drop"
      BY <1>0, <2>2 DEF StartDelete, Goto
    <3> QED
      BY <1>1, <3>1
  <2> QED
    BY <1>10, <2>1, <2>2
<1>11. CASE StartPull(j) \/ StartExport(j)
  <2>1. pc'[j] = "next" \/ (pc'[j] = "export" /\ kind'[j] = "export")
    BY <1>0, <1>11 DEF StartPull, StartExport, Goto
  <2> QED
    BY <1>1, <2>1
<1>12. CASE Labels(j)
  <2>0. /\ UNCHANGED <<confluence, lastImport, overlooked>> /\ pc[j] = "labels" /\ listed[j] = {}
        /\ \A p \in ids[j] : Tracked(p) => NewEnough(j, p)
        /\ Visible(space[j]) \intersect labelled \in SUBSET Pages
    BY <1>0, <1>12, PagesOfSpaces DEF Labels, spacesTable, pagesStore, InWindow, Listing
  <2>1. /\ pc'[j] \in {"labels", "list"} /\ listed'[j] = {} /\ UNCHANGED date
        /\ ids'[j] \subseteq ids[j] \union (Visible(space[j]) \intersect labelled)
    BY <1>12, <2>0, QueryGoesOn DEF Labels, run
  <2>2. ASSUME NEW p \in ids'[j], Tracked(p)' PROVE NewEnough(j, p)'
    <3>1. Tracked(p)
      BY <1>8, <2>0, <2>2
    <3>2. p \in ids[j]
      BY <2>1, <3>1 DEF Tracked
    <3> QED
      BY <1>7, <2>0, <2>1, <3>1, <3>2
  <2> QED
    BY <2>1, <2>2
       DEF InWindow, Exporting, Listing, Listed, Pruned, Dropped, Searching, Asked, Got, Known, Recorded, Stored
<1>13. CASE List(j)
  <2> DEFINE s == space[j]
             found == listed[j] \union Chunk(s, start[j])
  <2>0. /\ UNCHANGED <<confluence, lastImport, record, embedded>> /\ pc[j] = "list"
        /\ listed[j] \subseteq PagesOf(s)
        /\ \A p \in ids[j] : Tracked(p) => NewEnough(j, p)
    BY <1>0, <1>13 DEF List, spacesTable, vectors, InWindow, Listing
  <2>1. CASE IF kind[j] = "pull" THEN Stay(j, "drop") ELSE End(j)
    BY <1>1, <1>3, <1>4, <2>1
  <2>2. found \subseteq PagesOf(s)
    BY <2>0 DEF Chunk, Visible
  <2>3. CASE /\ listed' = [listed EXCEPT ![j] = found]
             /\ UNCHANGED <<pc, run, ids, fetched, overlooked>>
    <3>1. pc'[j] = "list" /\ listed'[j] \subseteq PagesOf(space'[j]) /\ ids'[j] = ids[j] /\ UNCHANGED date
      BY <1>0, <2>0, <2>2, <2>3 DEF run
    <3>2. \A p \in ids[j] : Tracked(p)' => NewEnough(j, p)'
      BY <1>7, <1>8, <2>0, <2>3, <3>1
    <3> QED
      BY <3>1, <3>2
         DEF InWindow, Exporting, Listing, Listed, Pruned, Dropped, Searching, Asked, Got, Known, Recorded, Stored, PagesOf
  <2>4. CASE /\ ids' = [ids EXCEPT ![j] = found \ @]
             /\ overlooked' = overlooked \union (Visible(s) \ found)
             /\ Goto(j, IF kind[j] = "pull" THEN "prune" ELSE "fetch")
             /\ UNCHANGED <<run, fetched>>
             /\ s \notin closed
    <3>1. /\ pc'[j] \in {"prune", "fetch"} /\ ids'[j] = found \ ids[j] /\ ids'[j] \subseteq PagesOf(space'[j])
          /\ UNCHANGED <<space, date>>
      BY <1>0, <2>2, <2>4 DEF Goto, run
    <3>2. ASSUME NEW p \in PagesOf(s), Tracked(p)' PROVE p \in ids'[j] \/ NewEnough(j, p)'
      <4>1. Tracked(p) /\ p \in found
        BY <2>0, <2>4, <3>2 DEF Tracked, Visible, confluence
      <4> QED
        BY <1>7, <2>0, <3>1, <4>1
    <3>3. (\A p \in TrackedIn(space[j]) : p \in ids[j] \/ NewEnough(j, p))'
      BY <3>1, <3>2 DEF TrackedIn, PagesOf
    <3> QED
      BY <3>1, <3>3
         DEF InWindow, Exporting, Listing, Listed, Pruned, Dropped, Searching, Asked, Got, Known, Recorded, Stored, Settled, PagesOf
  <2> QED
    BY <1>13, <2>1, <2>3, <2>4 DEF List
<1>14. CASE Prune(j)
  <2>0. /\ UNCHANGED <<confluence, lastImport, overlooked>> /\ pc[j] = "prune"
        /\ \A p \in TrackedIn(space[j]) : p \in ids[j] \/ NewEnough(j, p)
    BY <1>0, <1>14 DEF Prune, spacesTable, InWindow, Listed
  <2>1. CASE End(j)
    BY <1>3, <2>1
  <2>2. CASE \E set, step : /\ Found(j, set, step) /\ step \in {"update", "prune_commit"}
                            /\ set \subseteq RecordsOf(space[j]) \ ids[j]
    <3>1. PICK set, step : /\ Found(j, set, step) /\ step \in {"update", "prune_commit"}
                           /\ set \subseteq RecordsOf(space[j]) \ ids[j]
      BY <2>2
    <3>2. pc'[j] \in {"update", "prune_commit"} /\ ids'[j] = set /\ UNCHANGED date
      BY <1>5, <3>1
    <3>3. \A p \in set : Tracked(p)' => NewEnough(j, p)'
      BY <1>7, <1>8, <2>0, <3>1, <3>2 DEF TrackedIn, RecordsOf
    <3> QED
      BY <3>2, <3>3
         DEF InWindow, Exporting, Listing, Listed, Pruned, Dropped, Searching, Asked, Got, Known, Recorded, Stored
  <2> QED
    BY <1>14, <2>1, <2>2 DEF Prune
<1>15. CASE Drop(j)
  <2>1. CASE End(j)
    BY <1>3, <2>1
  <2>2. CASE Found(j, RecordsOf(space[j]), "drop_commit")
    <3>1. pc'[j] = "drop_commit" /\ ids'[j] \subseteq PagesOf(space'[j])
      BY <1>5, <2>2 DEF RecordsOf
    <3> QED
      BY <3>1
         DEF InWindow, Exporting, Listing, Listed, Pruned, Dropped, Searching, Asked, Got, Known, Recorded, Stored, PagesOf
  <2> QED
    BY <1>15, <2>1, <2>2 DEF Drop
<1>16. CASE Update(j)
  <2> DEFINE s == space[j]
  <2>1. CASE Done(j)
    <3> QED
      BY <1>6, <2>1
  <2>2. CASE /\ since[j][s] # NoDate /\ ids' = [ids EXCEPT ![j] = {}] /\ start' = [start EXCEPT ![j] = 0]
             /\ Goto(j, "search") /\ UNCHANGED <<kind, space, since>>
    <3>0. /\ UNCHANGED <<confluence, lastImport, record, embedded, overlooked>> /\ pc[j] = "update"
          /\ s \in Spaces
      BY <1>16 DEF Update, spacesTable, pagesStore, vectors, Shape, Placed
    <3>1. pc'[j] = "search" /\ ids'[j] = {} /\ start'[j] = 0
      BY <1>0, <2>2 DEF Goto, Shape, TypeOK
    <3>2. since[j][s] <= lastImport[s] /\ since[j][s] \in Int /\ lastImport[s] \in Int /\ lastImport[s] # NoDate
      <4>1. since[j][s] <= lastImport[s] /\ since[j][s] \in Dates /\ lastImport[s] \in Dates
        BY <1>0, <3>0 DEF SinceBehind, MustAsk, Shape, TypeOK
      <4>2. since[j][s] \in Int /\ lastImport[s] \in Int
        BY <4>1, Numbers
      <4>3. since[j][s] \in 0..(MaxClock + Skew)
        BY <2>2, <4>1, Numbers
      <4>4. since[j][s] >= 0 /\ NoDate < 0 /\ NoDate \in Int
        BY <4>2, <4>3, Numbers
      <4> HIDE DEF s
      <4> QED
        BY <4>1, <4>2, <4>4
    <3>3. ASSUME NEW p \in PagesOf(s), Tracked(p)' PROVE Ahead(j, p)' \/ UpToDate(p)'
      <4>1. Tracked(p) /\ Home[p] = s /\ p \in Pages
        BY <1>8, <3>0, <3>3 DEF PagesOf
      <4>2. CASE modified[p] >= QueryFrom(since[j][s])
        <5>1. Order[p] \in Nat
          BY <4>1, KnowledgeBaseAssumption
        <5>2. Order[p] >= start'[j]
          BY <3>1, <5>1
        <5> QED
          BY <2>2, <3>0, <4>2, <5>2 DEF Ahead, QueryFrom, confluence
      <4>3. CASE ~(modified[p] >= QueryFrom(since[j][s]))
        <5>1. ~(modified[p] >= QueryFrom(lastImport[s]))
          BY <3>2, <4>1, <4>3, PageNumbers, Numbers DEF QueryFrom
        <5>2. UpToDate(p)
          BY <1>0, <3>2, <4>1, <5>1 DEF StaleIsInWindow, Wanted, Tracked
        <5> QED
          BY <3>0, <5>2 DEF UpToDate, confluence
      <4> QED
        BY <4>2, <4>3
    <3>4. Searching(j)'
      BY <2>2, <3>1, <3>3 DEF Searching, TrackedIn, PagesOf, Settled
    <3> QED
      BY <3>1, <3>4
         DEF InWindow, Exporting, Listing, Listed, Pruned, Dropped, Asked, Got, Known, Recorded, Stored
  <2> QED
    BY <1>16, <2>1, <2>2 DEF Update
<1>search. CASE Search(j)
  <2> DEFINE s == space[j]
             set == {p \in Visible(s) \ labelled : modified[p] >= QueryFrom(since[j][s])}
  <2>0. /\ UNCHANGED <<confluence, lastImport, record, embedded, overlooked>> /\ pc[j] = "search"
        /\ ids[j] \subseteq PagesOf(s)
        /\ \A p \in TrackedIn(s) : p \in ids[j] \/ Settled(j, p) \/ Ahead(j, p)
        /\ set \in SUBSET Pages /\ set \subseteq PagesOf(s)
    BY <1>0, <1>search, PagesOfSpaces
       DEF Search, spacesTable, pagesStore, vectors, InWindow, Searching, Visible
  <2>1. Query(j, set, "fetch")
    BY <1>search DEF Search
  <2>2. /\ UNCHANGED <<space, date, since>> /\ ids[j] \subseteq ids'[j] /\ ids'[j] \subseteq PagesOf(s)
        /\ \/ pc'[j] = "fetch" /\ \A p \in set : Order[p] >= start[j] => p \in ids'[j]
           \/ /\ pc'[j] = "search"
              /\ \A p \in set : Order[p] >= start[j] => p \in ids'[j] \/ Order[p] >= start'[j]
    BY <2>0, <2>1, QueryGoesOn DEF run
  <2>3. ASSUME NEW p \in PagesOf(s), Tracked(p)'
        PROVE  p \in ids'[j] \/ Settled(j, p)' \/ (pc'[j] = "search" /\ Ahead(j, p)')
    <3>1. Tracked(p) /\ p \in TrackedIn(s) /\ p \in Visible(s) \ labelled
      BY <1>8, <2>0, <2>3 DEF TrackedIn, Tracked, Visible, PagesOf
    <3>2. CASE Settled(j, p)
      BY <1>7, <2>0, <2>2, <3>2 DEF Settled, UpToDate, confluence
    <3>3. CASE Ahead(j, p)
      <4>1. p \in set /\ Order[p] >= start[j]
        BY <3>1, <3>3 DEF Ahead
      <4>2. Order[p] >= start'[j] => Ahead(j, p)'
        BY <2>0, <2>2, <3>3 DEF Ahead, QueryFrom, confluence
      <4> QED
        BY <2>2, <4>1, <4>2
    <3> QED
      BY <2>0, <2>2, <3>1, <3>2, <3>3
  <2>4. Searching(j)' /\ Asked(j)'
    BY <2>2, <2>3 DEF Searching, Asked, TrackedIn, PagesOf
  <2> QED
    BY <2>2, <2>4 DEF InWindow, Exporting, Listing, Listed, Pruned, Dropped, Got, Known, Recorded, Stored
<1>17. CASE Fetch(j)
  <2>0. /\ UNCHANGED <<confluence, lastImport, record, embedded, overlooked>> /\ pc[j] = "fetch"
        /\ ids[j] \subseteq PagesOf(space[j])
        /\ \A p \in TrackedIn(space[j]) : p \in ids[j] \/ Settled(j, p)
    BY <1>0, <1>17 DEF Fetch, spacesTable, pagesStore, vectors, InWindow, Asked
  <2>1. CASE End(j)
    BY <1>3, <2>1
  <2>2. CASE /\ fetched' = [fetched EXCEPT ![j] = Retrieved(j)]
             /\ Goto(j, IF kind[j] = "import" THEN "find_space"
                        ELSE IF \E p \in ids[j] : Retrieved(j)[p] # NULL THEN "records"
                        ELSE "remove")
             /\ UNCHANGED <<run, list, ids>>
    <3>1. /\ fetched'[j] = Retrieved(j) /\ UNCHANGED <<ids, space, kind, date>>
          /\ pc'[j] \in {"find_space", "records", "remove"}
          /\ pc'[j] = "remove" => \A p \in ids[j] : Retrieved(j)[p] = NULL
      BY <1>0, <2>2 DEF Goto, run
    <3>2. ASSUME NEW p \in Pages
          PROVE  /\ fetched'[j][p] \in {NULL, modified[p]}
                 /\ p \in ids[j] /\ Tracked(p) => fetched'[j][p] = modified[p] /\ modified[p] # NULL
      <4>1. fetched'[j][p] = IF p \in ids[j] \intersect Visible(space[j]) THEN modified[p] ELSE NULL
        BY <3>1 DEF Retrieved
      <4>2. p \in ids[j] /\ Tracked(p) => p \in Visible(space[j]) /\ modified[p] # NULL
        BY <1>0, <2>0 DEF Tracked, Visible, PagesOf, CurrentExist
      <4> QED
        BY <4>1, <4>2
    <3>3. ASSUME NEW p \in Pages, Settled(j, p) PROVE Settled(j, p)'
      BY <1>7, <2>0, <3>1, <3>3 DEF Settled, UpToDate, confluence
    <3>4. UNCHANGED modified
      BY <2>0 DEF confluence
    <3>5. (\A p \in Pages : fetched[j][p] \in {NULL, modified[p]})'
      BY <3>2, <3>4
    <3>6. (\A p \in ids[j] : Tracked(p) => fetched[j][p] # NULL)'
      BY <1>0, <1>8, <2>0, <3>1, <3>2
    <3>7. (\A p \in TrackedIn(space[j]) : fetched[j][p] = modified[p] \/ Settled(j, p))'
      <4> SUFFICES ASSUME NEW p \in Pages, Home[p] = space[j], Tracked(p)'
                   PROVE  fetched'[j][p] = modified[p] \/ Settled(j, p)'
        BY <3>1, <3>4 DEF TrackedIn, PagesOf
      <4> QED
        BY <1>8, <2>0, <3>2, <3>3 DEF TrackedIn, PagesOf
    <3>8. pc'[j] = "remove" => (\A p \in TrackedIn(space[j]) : Settled(j, p))'
      <4> SUFFICES ASSUME pc'[j] = "remove", NEW p \in Pages, Home[p] = space[j], Tracked(p)'
                   PROVE  Settled(j, p)'
        BY <3>1 DEF TrackedIn, PagesOf
      <4>1. Tracked(p) /\ p \notin ids[j]
        BY <1>8, <2>0, <3>1, <3>2
      <4> QED
        BY <2>0, <3>3, <4>1 DEF TrackedIn, PagesOf
    <3> QED
      BY <3>1, <3>5, <3>6, <3>7, <3>8
         DEF InWindow, Exporting, Listing, Listed, Pruned, Dropped, Searching, Asked, Got, Known, Recorded, Stored
  <2> QED
    BY <1>17, <2>1, <2>2 DEF Fetch
<1>same. ASSUME UNCHANGED <<confluence, lastImport, overlooked>>, UNCHANGED <<kind, space, date, ids, fetched>>
         PROVE  /\ \A p \in Pages : NewEnough(j, p)' <=> NewEnough(j, p)
                /\ \A p \in Pages : Tracked(p)' <=> Tracked(p)
                /\ TrackedIn(space[j])' = TrackedIn(space[j]) /\ TrackedIn(space[j]) \subseteq Pages
                /\ UNCHANGED modified
  BY <1>7, <1>8, <1>same DEF TrackedIn, PagesOf, confluence
<1>18. CASE FindSpace(j)
  <2>0. /\ UNCHANGED <<confluence, lastImport, record, embedded, overlooked>> /\ pc[j] = "find_space"
        /\ UNCHANGED <<kind, space, date, ids, fetched>>
        /\ pc'[j] = IF kind[j] = "import" THEN "records" ELSE "update"
    BY <1>0, <1>18 DEF FindSpace, Goto, pagesStore, vectors
  <2>1. CASE kind[j] # "import"
    BY <1>1, <2>0, <2>1
  <2>2. CASE kind[j] = "import"
    <3>1. Got(j) /\ Known(j) /\ pc'[j] = "records"
      BY <1>0, <2>0, <2>2 DEF InWindow, Known
    <3>2. \A p \in Pages : Settled(j, p)' <=> Settled(j, p)
      BY <1>same, <2>0 DEF Settled, UpToDate
    <3>3. Got(j)'
      BY <1>0, <1>same, <2>0, <3>1, <3>2 DEF Got
    <3> QED
      BY <3>1, <3>3
         DEF InWindow, Exporting, Listing, Listed, Pruned, Dropped, Searching, Asked, Recorded, Stored
  <2> QED
    BY <2>1, <2>2
<1>19. CASE Records(j)
  <2>1. CASE End(j)
    BY <1>3, <2>1
  <2>2. CASE /\ record' = [p \in Pages |-> IF p \in Accessible(j) THEN fetched[j][p] ELSE record[p]]
             /\ Stay(j, "embeddings")
    <3>1. /\ UNCHANGED <<confluence, lastImport, overlooked, embedded>> /\ pc[j] = "records"
          /\ UNCHANGED <<kind, space, date, ids, fetched>> /\ pc'[j] = "embeddings"
      BY <1>4, <1>19, <2>2 DEF Records, spacesTable, vectors
    <3>2. Got(j) /\ Known(j)
      BY <1>0, <3>1 DEF InWindow, Known
    <3>3. ASSUME NEW p \in Pages, Settled(j, p) PROVE Settled(j, p)' \/ NewEnough(j, p)
      <4>1. CASE p \in Accessible(j)
        BY <1>same, <2>2, <3>1, <3>2, <3>3, <4>1 DEF Settled, UpToDate, Accessible, Got
      <4>2. CASE p \notin Accessible(j)
        BY <1>same, <2>2, <3>1, <3>3, <4>2 DEF Settled, UpToDate
      <4> QED
        BY <4>1, <4>2
    <3>4. ASSUME NEW p \in Pages, Settled(j, p) PROVE Settled(j, p)'
      BY <1>same, <3>1, <3>3, <3>4 DEF Settled
    <3>5. Got(j)'
      BY <1>0, <1>same, <3>1, <3>2, <3>4 DEF Got
    <3>6. Recorded(j)'
      BY <2>2, <3>1 DEF Recorded, Accessible
    <3> QED
      BY <3>1, <3>5, <3>6 DEF InWindow, Exporting, Listing, Listed, Pruned, Dropped, Searching, Asked, Stored
  <2> QED
    BY <1>19, <2>1, <2>2 DEF Records
<1>20. CASE Embeddings(j)
  <2>0. /\ UNCHANGED <<confluence, lastImport, record>> /\ pc[j] = "embeddings"
        /\ Got(j) /\ Known(j) /\ \A p \in Accessible(j) : record[p] = fetched[j][p]
    BY <1>0, <1>20 DEF Embeddings, spacesTable, InWindow, Known, Recorded
  <2>1. CASE End(j)
    BY <1>3, <2>1
  <2>2. CASE /\ \E lost \in {{}} \union Unstored(Accessible(j)) : Embed(j, Accessible(j) \ lost, lost)
             /\ Stay(j, IF kind[j] = "import" THEN "mark" ELSE "remove")
    <3>1. PICK lost \in {{}} \union Unstored(Accessible(j)) : Embed(j, Accessible(j) \ lost, lost)
      BY <2>2
    <3>2. UNCHANGED <<kind, space, date, ids, fetched>> /\ pc'[j] \in {"mark", "remove"}
      BY <1>4, <2>2
    <3>3. UNCHANGED modified /\ \A p \in Pages : NewEnough(j, p)' <=> NewEnough(j, p)
      BY <1>7, <2>0, <3>2 DEF confluence
    <3>4. ASSUME NEW p \in Pages, fetched[j][p] = NULL, Tracked(p)' PROVE Tracked(p)
      BY <2>0, <3>1, <3>4 DEF Embed, Tracked, Accessible, confluence
    <3>5. ASSUME NEW p \in Pages, Home[p] = space[j], Tracked(p)' PROVE Settled(j, p)'
      <4>1. CASE p \in Accessible(j)
        <5>1. p \notin lost
          BY <3>1, <3>5 DEF Embed, Tracked
        <5>2. embedded'[p] = fetched[j][p] /\ record'[p] = fetched[j][p] /\ fetched[j][p] # NULL
          BY <2>0, <3>1, <4>1, <5>1 DEF Embed, Accessible
        <5>3. CASE fetched[j][p] = modified[p]
          BY <3>3, <5>2, <5>3 DEF Settled, UpToDate
        <5>4. CASE fetched[j][p] # modified[p]
          BY <2>0, <3>3, <5>2, <5>4 DEF Got, Settled
        <5> QED
          BY <5>3, <5>4
      <4>2. CASE p \notin Accessible(j)
        <5>1. fetched[j][p] = NULL /\ embedded'[p] = embedded[p]
          BY <3>1, <4>2 DEF Embed, Accessible
        <5>2. Tracked(p) /\ p \in TrackedIn(space[j]) /\ modified[p] # NULL
          BY <1>0, <3>4, <3>5, <5>1 DEF TrackedIn, PagesOf, Tracked, CurrentExist
        <5>3. Settled(j, p)
          BY <2>0, <5>1, <5>2 DEF Got
        <5> QED
          BY <2>0, <3>3, <5>1, <5>3 DEF Settled, UpToDate
      <4> QED
        BY <4>1, <4>2
    <3>6. (\A p \in TrackedIn(space[j]) : Settled(j, p))'
      BY <3>2, <3>5 DEF TrackedIn, PagesOf
    <3>7. (\A p \in Pages : fetched[j][p] \notin {NULL, modified[p]} => NewEnough(j, p))'
      BY <2>0, <3>2, <3>3 DEF Got
    <3>8. (\A p \in ids[j] : Tracked(p) /\ fetched[j][p] = NULL => NewEnough(j, p))'
      BY <1>0, <2>0, <3>2, <3>3, <3>4 DEF Got
    <3> QED
      BY <3>2, <3>6, <3>7, <3>8
         DEF InWindow, Exporting, Listing, Listed, Pruned, Dropped, Searching, Asked, Got, Recorded, Stored
  <2>3. Accessible(j) \ {} = Accessible(j)
    OBVIOUS
  <2> QED
    BY <1>20, <2>1, <2>2, <2>3 DEF Embeddings
<1>21. CASE Remove(j) \/ RemoveCommit(j)
  <2>0. /\ UNCHANGED <<confluence, lastImport, overlooked>> /\ pc[j] \in {"remove", "remove_commit"}
    BY <1>21 DEF Remove, RemoveCommit, spacesTable
  <2>1. CASE End(j)
    BY <1>3, <2>1
  <2>2. CASE /\ \/ embedded' = Unembedded(Inaccessible(j)) /\ UNCHANGED record
                \/ UNCHANGED embedded /\ record' = Without(record, Inaccessible(j))
             /\ \E step \in {"mark", "remove_commit"} : Stay(j, step)
    <3>1. UNCHANGED <<kind, space, date, ids, fetched>> /\ pc'[j] \in {"mark", "remove_commit"}
      BY <1>4, <2>2
    <3>2. Got(j) /\ Known(j) /\ \A p \in TrackedIn(space[j]) : Settled(j, p)
      BY <1>0, <2>0 DEF InWindow, Known, Stored
    <3>3. ASSUME NEW p \in TrackedIn(space[j]) PROVE Settled(j, p)'
      <4>0. p \in Pages /\ Tracked(p) /\ Settled(j, p)
        BY <3>2, <3>3 DEF TrackedIn, PagesOf
      <4>1. CASE p \in Inaccessible(j)
        BY <1>same, <2>0, <3>1, <3>2, <4>0, <4>1 DEF Inaccessible, Got, Settled
      <4>2. CASE p \notin Inaccessible(j)
        BY <1>same, <2>0, <2>2, <3>1, <4>0, <4>2 DEF Unembedded, Without, Settled, UpToDate
      <4> QED
        BY <4>1, <4>2
    <3>4. (\A p \in TrackedIn(space[j]) : Settled(j, p))'
      BY <1>same, <2>0, <3>1, <3>3
    <3>5. Got(j)'
      BY <1>0, <1>same, <2>0, <3>1, <3>2, <3>4 DEF Got
    <3> QED
      BY <3>1, <3>4, <3>5
         DEF InWindow, Exporting, Listing, Listed, Pruned, Dropped, Searching, Asked, Recorded, Stored
  <2> QED
    BY <1>21, <2>1, <2>2 DEF Remove, RemoveCommit, vectors
<1>22. CASE PruneCommit(j)
  BY <1>1, <1>4, <1>22 DEF PruneCommit
<1>23. CASE Mark(j) \/ DropCommit(j)
  BY <1>3, <1>6, <1>23 DEF Mark, DropCommit
<1>24. CASE Export(j)
  <2>1. pc[j] = "export" /\ (End(j) \/ Stay(j, "find_space"))
    BY <1>24 DEF Export
  <2>2. CASE Stay(j, "find_space")
    <3>1. pc'[j] = "find_space" /\ kind'[j] = kind[j]
      BY <1>4, <2>2
    <3>2. kind[j] # "import"
      BY <1>0, <2>1 DEF InWindow, Exporting
    <3> QED
      BY <1>1, <3>1, <3>2
  <2> QED
    BY <1>3, <2>1, <2>2
<1>25. CASE Fail(j)
  BY <1>3, <1>25 DEF Fail
<1> QED
  BY <1>9, <1>10, <1>11, <1>12, <1>13, <1>14, <1>15, <1>16, <1>search, <1>17, <1>18, <1>19, <1>20, <1>21,
     <1>22, <1>23, <1>24, <1>25 DEF JobAction, Step

LEMMA NextWindow ==
    ASSUME OneJob, Shape, WindowInv, [Next]_vars
    PROVE  WindowInv'
<1>1. Behind' /\ SinceBehind'
  BY NextBehind, NextSince DEF WindowInv
<1>2. CASE UNCHANGED vars
  <2>1. StaleIsInWindow'
    BY <1>2 DEF WindowInv, StaleIsInWindow, Wanted, UpToDate, QueryFrom, vars, confluence, spacesTable,
                pagesStore, vectors
  <2>2. ASSUME NEW j \in Jobs PROVE InWindow(j)'
    <3>1. UNCHANGED <<modified, current, labelled, archived, closed, lastImport, record, embedded, overlooked>>
      BY <1>2 DEF vars, confluence, spacesTable, pagesStore, vectors
    <3>2. UNCHANGED <<pc, kind, space, since, date, start, listed, ids, fetched>>
      BY <1>2 DEF vars, locals, run, list
    <3> QED
      BY <3>1, <3>2
         DEF WindowInv, InWindow, Exporting, Listing, Listed, Pruned, Dropped, Searching, Asked, Got, Known, Recorded,
             Stored, Ahead, Settled, UpToDate, NewEnough, QueryFrom, TrackedIn, Tracked, Accessible, PagesOf
  <2> QED
    BY <1>1, <2>1, <2>2 DEF WindowInv
<1>3. CASE Confluence
  BY <1>1, <1>3, ConfluenceWindow DEF WindowInv
<1>4. ASSUME NEW j \in Jobs, JobAction(j) PROVE WindowInv'
  <2>1. StaleIsInWindow' /\ InWindow(j)'
    BY <1>4, JobStale, JobWindow
  <2>2. ASSUME NEW i \in Jobs PROVE InWindow(i)'
    <3>1. i = j
      BY <2>2 DEF OneJob
    <3> QED
      BY <2>1, <3>1
  <2> QED
    BY <1>1, <2>1, <2>2 DEF WindowInv
<1> QED
  BY <1>2, <1>3, <1>4, NextIsOfOne

\* With one job at a time, every modification falls into the window of an update
\* (importer.py:48, 79), whatever changes in Confluence between two steps of a
\* job, wherever the job fails, and however far the clocks are apart up to the
\* overlap.
THEOREM UpdatesLeaveNoGap ==
    ASSUME OneJob
    PROVE  Spec => []StaleIsInWindow
<1>1. WindowInv => StaleIsInWindow
  BY DEF WindowInv
<1>2. Shape /\ WindowInv /\ [Next]_vars => WindowInv'
  BY NextWindow
<1> QED
  BY <1>1, <1>2, InitWindow, AlwaysShape, PTL DEF Spec

=============================================================================
