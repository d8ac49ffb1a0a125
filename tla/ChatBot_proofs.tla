--------------------------- MODULE ChatBot_proofs ---------------------------
(***************************************************************************)
(* Proofs about ChatBot, for any number of processes, messages, deliveries *)
(* and events; and that a bot with one worker implements Answers.          *)
(***************************************************************************)
EXTENDS ChatBot, SequenceTheorems, TLAPS

\* The question a message is, or belongs to.
ThreadOf(m) == IF m \in Questions THEN m ELSE Thread[m]

\* The steps of a question, of a follow-up, of either and of a click.
QuestionSteps == {"add", "add_answer", "mark_answer"}
FollowUpSteps == {"find", "append_read", "append_write", "answer_read", "answer_write",
                  "mark_read", "mark_write"}
EitherSteps == {"start", "query", "post"}
ClickSteps == {"find_rated", "add_score", "received"}

\* Those at which a process holds a row.
RowSteps == (QuestionSteps \union FollowUpSteps \union EitherSteps) \ {"start", "add", "find"}

\* A task works on a message of its kind, and on a row of the message's thread.
TaskOK(p) ==
    /\ pc[p] \in QuestionSteps => msg[p] \in Questions
    /\ pc[p] \in FollowUpSteps => msg[p] \in FollowUps
    /\ pc[p] \in EitherSteps => msg[p] \in Questions \union FollowUps
    /\ pc[p] \in ClickSteps => msg[p] \in Clicks
    /\ pc[p] \in RowSteps => row[p] \in RowsOf(ThreadOf(msg[p]))

Work ==
    /\ \A p \in Processes : TaskOK(p)
    /\ parked \subseteq Questions \union FollowUps

Shape == TypeOK /\ Work

-----------------------------------------------------------------------------
(* Types, and what tasks hold *)

LEMMA ThreadType ==
    /\ \A m \in Messages : ThreadOf(m) \in Questions
    /\ \A m \in FollowUps \union Clicks : ThreadOf(m) = Thread[m] /\ Thread[m] \in Questions
    /\ Messages = Questions \union FollowUps \union Clicks
  BY InteractionsAssumption, ChatBotAssumption DEF ThreadOf, Messages

\* The types of what belongs to tasks.
TaskTypes ==
    /\ row \in [Processes -> 0..rows]
    /\ history \in [Processes -> SUBSET (Questions \union FollowUps)]
    /\ snapshot \in [Processes -> Comments]
    /\ pc \in [Processes -> Steps]
    /\ msg \in [Processes -> Messages \union {NoMessage}]

\* Of the table.
TableTypes ==
    /\ rows \in 0..MaxRows
    /\ thread \in [1..rows -> Questions]
    /\ answers \subseteq 1..rows
    /\ marked \subseteq 1..rows
    /\ comments \in [Rows -> Comments]

\* Of the rest.
BotTypes ==
    /\ delivered \in [Messages -> Nat]
    /\ seen \in [FollowUps -> SUBSET Messages]
    /\ known \subseteq Questions
    /\ routed \in [Messages -> Nat]
    /\ queue \in Seq(Messages)
    /\ broken \in BOOLEAN
    /\ parked \subseteq Messages
    /\ posted \in [Messages -> Nat]
    /\ timers \subseteq Processes \X Questions
    /\ prompts \subseteq Questions
    /\ scores \in [Questions -> Nat]
    /\ events \in [EventKinds -> Nat]

LEMMA ShapeParts == Shape <=> TaskTypes /\ TableTypes /\ BotTypes /\ Work
  BY DEF Shape, TypeOK, InteractionsTypeOK, TaskTypes, TableTypes, BotTypes

LEMMA InitShape == Init => Shape
<1> SUFFICES ASSUME Init PROVE Shape
  OBVIOUS
<1>1. TaskTypes /\ TableTypes
  BY InteractionsAssumption
  DEF Init, InteractionsInit, TaskTypes, TableTypes, Rows, NoRow, Comments, Steps
<1>2. BotTypes
  <2>1. queue \in Seq(Messages)
    BY DEF Init
  <2>2. broken \in BOOLEAN /\ events \in [EventKinds -> Nat]
    BY ChatBotAssumption DEF Init
  <2> QED
    BY <2>1, <2>2 DEF Init, BotTypes
<1>3. Work
  BY DEF Init, Work, TaskOK, QuestionSteps, FollowUpSteps, EitherSteps, ClickSteps, RowSteps
<1> QED
  BY <1>1, <1>2, <1>3, ShapeParts

\* The table is the same, or has one row more.
TableGrows ==
    /\ rows' \in {rows, rows + 1}
    /\ \A i \in DOMAIN thread : i \in DOMAIN thread' /\ thread'[i] = thread[i]

\* A step changes what one task holds.
TaskStep(p) ==
    /\ row' = [row EXCEPT ![p] = row'[p]]
    /\ history' = [history EXCEPT ![p] = history'[p]]
    /\ snapshot' = [snapshot EXCEPT ![p] = snapshot'[p]]
    /\ pc' = [pc EXCEPT ![p] = pc'[p]]
    /\ msg' = [msg EXCEPT ![p] = msg'[p]]

TaskTypesOf(p) ==
    /\ row'[p] \in 0..rows'
    /\ history'[p] \in SUBSET (Questions \union FollowUps)
    /\ snapshot'[p] \in Comments
    /\ pc'[p] \in Steps
    /\ msg'[p] \in Messages \union {NoMessage}

LEMMA OneTaskMoves ==
    ASSUME Shape, NEW p \in Processes, TaskStep(p), TaskTypesOf(p), TaskOK(p)',
           TableTypes', TableGrows, BotTypes', parked' \subseteq Questions \union FollowUps
    PROVE  Shape'
<1>1. TaskTypes'
  <2>1. row' \in [Processes -> 0..rows']
    <3>1. rows \in Nat /\ rows' \in Nat /\ rows <= rows'
      BY InteractionsAssumption DEF Shape, TypeOK, InteractionsTypeOK, TableGrows
    <3>2. \A q \in Processes : row[q] \in 0..rows'
      BY <3>1 DEF Shape, TypeOK, InteractionsTypeOK
    <3>3. row \in [Processes -> 0..rows']
      BY <3>2 DEF Shape, TypeOK, InteractionsTypeOK
    <3> QED
      BY <3>3 DEF TaskStep, TaskTypesOf
  <2>2. history' \in [Processes -> SUBSET (Questions \union FollowUps)]
    BY DEF Shape, TypeOK, InteractionsTypeOK, TaskStep, TaskTypesOf
  <2>3. snapshot' \in [Processes -> Comments]
    BY DEF Shape, TypeOK, InteractionsTypeOK, TaskStep, TaskTypesOf
  <2>4. pc' \in [Processes -> Steps] /\ msg' \in [Processes -> Messages \union {NoMessage}]
    BY DEF Shape, TypeOK, TaskStep, TaskTypesOf
  <2> QED
    BY <2>1, <2>2, <2>3, <2>4 DEF TaskTypes
<1>2. ASSUME NEW q \in Processes \ {p} PROVE TaskOK(q)'
  <2>1. pc'[q] = pc[q] /\ msg'[q] = msg[q] /\ row'[q] = row[q] /\ TaskOK(q)
    BY DEF Shape, TypeOK, InteractionsTypeOK, Work, TaskStep
  <2>2. \A t \in Questions : RowsOf(t) \subseteq RowsOf(t)'
    BY DEF TableGrows, RowsOf
  <2>3. pc[q] \in RowSteps => ThreadOf(msg[q]) \in Questions
    BY <2>1, ThreadType DEF TaskOK, RowSteps
  <2> QED
    BY <2>1, <2>2, <2>3 DEF TaskOK
<1>3. Work'
  BY <1>2 DEF Work
<1> QED
  BY <1>1, <1>3 DEF Shape, TypeOK, InteractionsTypeOK, TaskTypes, TableTypes, BotTypes

\* The actions of one task.
TaskAction(p) == Take(p) \/ (\E m \in Messages : Resume(p, m)) \/ Step(p) \/ Fail(p)

LEMMA FunctionsOfTasks ==
    ASSUME Shape, NEW p \in Processes
    PROVE  /\ row = [row EXCEPT ![p] = row[p]]
           /\ history = [history EXCEPT ![p] = history[p]]
           /\ snapshot = [snapshot EXCEPT ![p] = snapshot[p]]
           /\ pc = [pc EXCEPT ![p] = pc[p]]
           /\ msg = [msg EXCEPT ![p] = msg[p]]
  BY DEF Shape, TypeOK, InteractionsTypeOK

\* Of its row, its DTO and its message, an action only changes what is the task's.
LEMMA TasksMoveAlone ==
    ASSUME Shape, NEW p \in Processes, TaskAction(p)
    PROVE  TaskStep(p)
<1> USE FunctionsOfTasks DEF TaskStep, Shape, TypeOK, InteractionsTypeOK, transactions
<1>1. ASSUME End(p) PROVE TaskStep(p)
  BY <1>1 DEF End, Begin, Forget
<1>2. ASSUME NEW step, Goto(p, step), UNCHANGED <<row, history, snapshot>> PROVE TaskStep(p)
  BY <1>2 DEF Goto
<1>3. ASSUME NEW step, NEW m, Begin(p, step, m), UNCHANGED <<row, history, snapshot>>
      PROVE  TaskStep(p)
  BY <1>3 DEF Begin
<1>4. ASSUME NEW step, Goto(p, step), ReadComments(p) PROVE TaskStep(p)
  BY <1>4 DEF Goto, ReadComments
<1>5. CASE Take(p) \/ \E m \in Messages : Resume(p, m)
  BY <1>3, <1>5 DEF Take, Resume
<1>6. CASE Start(p)
  BY <1>1, <1>2, <1>6 DEF Start
<1>7. CASE Add(p)
  BY <1>7 DEF Add, AddQuestion, Goto
<1>8. CASE Find(p)
  BY <1>1, <1>8 DEF Find, FindByThread, Goto
<1>9. CASE AppendRead(p) \/ AnswerRead(p) \/ MarkRead(p)
  BY <1>1, <1>4, <1>9 DEF AppendRead, AnswerRead, MarkRead
<1>10. CASE AppendWrite(p) \/ AnswerWrite(p)
  BY <1>10 DEF AppendWrite, AnswerWrite, SeeComments, Goto
<1>11. CASE Query(p) \/ StoreAnswer(p) \/ Post(p) \/ AddScore(p)
  BY <1>2, <1>11 DEF Query, StoreAnswer, Post, AddScore
<1>12. CASE PostTimesOut(p)
  BY <1>1, <1>2, <1>12 DEF PostTimesOut
<1>13. CASE MarkAnswer(p) \/ MarkWrite(p) \/ Received(p) \/ Fail(p)
  BY <1>1, <1>13 DEF MarkAnswer, MarkWrite, Received, Fail
<1>14. CASE FindRated(p)
  BY <1>1, <1>2, <1>14 DEF FindRated
<1> QED
  BY <1>5, <1>6, <1>7, <1>8, <1>9, <1>10, <1>11, <1>12, <1>13, <1>14 DEF TaskAction, Step

\* What a task has to do with the rest of the bot keeps its types.
LEMMA BotTypesKept ==
    ASSUME Shape, NEW p \in Processes, TaskAction(p)
    PROVE  BotTypes' /\ parked' \subseteq Questions \union FollowUps
<1>1. ASSUME NEW k \in EventKinds, Happens(k) PROVE events' \in [EventKinds -> Nat]
  BY <1>1 DEF Shape, TypeOK, Happens
<1>2. UNCHANGED <<delivered, seen, known, routed, broken>>
  BY DEF TaskAction, Step, Take, Resume, Start, Add, Find, AppendRead, AppendWrite, Query, StoreAnswer,
     AnswerRead, AnswerWrite, Post, PostTimesOut, MarkAnswer, MarkRead, MarkWrite, FindRated, AddScore,
     Received, Fail, bot, slack
<1>3. CASE Take(p)
  <2>1. queue' \in Seq(Messages)
    BY <1>3 DEF Shape, TypeOK, Take
  <2> QED
    BY <1>2, <1>3, <2>1 DEF Shape, TypeOK, Work, BotTypes, Take, slack
<1>4. CASE \E m \in Messages : Resume(p, m)
  BY <1>2, <1>4 DEF Shape, TypeOK, Work, BotTypes, Resume, bot, slack
<1>5. CASE Start(p)
  <2>1. parked' \subseteq Questions \union FollowUps
    BY <1>5 DEF Shape, Work, TaskOK, Start, EitherSteps
  <2>2. events' \in [EventKinds -> Nat]
    BY <1>1, <1>5 DEF Shape, TypeOK, Start, EventKinds
  <2> QED
    BY <1>2, <1>5, <2>1, <2>2 DEF Shape, TypeOK, BotTypes, Start, bot, slack, Messages
<1>6. CASE Add(p) \/ Find(p) \/ AppendRead(p) \/ AppendWrite(p) \/ Query(p) \/ StoreAnswer(p)
           \/ AnswerRead(p) \/ AnswerWrite(p) \/ MarkRead(p) \/ MarkWrite(p) \/ FindRated(p)
  <2>1. UNCHANGED <<bot, slack, parked, timers, scores, events>>
    BY <1>6 DEF Add, Find, AppendRead, AppendWrite, Query, StoreAnswer, AnswerRead, AnswerWrite,
       MarkRead, MarkWrite, FindRated
  <2> QED
    BY <2>1 DEF Shape, TypeOK, Work, BotTypes, bot, slack
<1>7. CASE Post(p) \/ PostTimesOut(p)
  <2>1. events' \in [EventKinds -> Nat]
    BY <1>1, <1>7 DEF Shape, TypeOK, Post, PostTimesOut, EventKinds
  <2>2. posted' \in [Messages -> Nat]
    <3>1. msg[p] \in Messages /\ posted \in [Messages -> Nat]
      BY <1>7, ThreadType DEF Shape, TypeOK, Work, TaskOK, EitherSteps, Post, PostTimesOut
    <3>2. \E copies \in {1, 2} : posted' = [posted EXCEPT ![msg[p]] = @ + copies]
      BY <1>7 DEF Post, PostTimesOut
    <3> QED
      BY <3>1, <3>2
  <2> QED
    BY <1>2, <1>7, <2>1, <2>2 DEF Shape, TypeOK, Work, BotTypes, Post, PostTimesOut, bot
<1>8. CASE MarkAnswer(p)
  <2>1. <<p, msg[p]>> \in Processes \X Questions
    BY <1>8 DEF Shape, Work, TaskOK, MarkAnswer, QuestionSteps
  <2> QED
    BY <1>8, <2>1 DEF Shape, TypeOK, Work, BotTypes, MarkAnswer, bot, slack
<1>9. CASE AddScore(p)
  <2>1. Thread[msg[p]] \in Questions
    BY <1>9, ThreadType DEF Shape, Work, TaskOK, ClickSteps, AddScore
  <2>2. scores' \in [Questions -> Nat]
    BY <1>9, <2>1 DEF Shape, TypeOK, AddScore
  <2> QED
    BY <1>9, <2>2 DEF Shape, TypeOK, Work, BotTypes, AddScore, bot, slack
<1>10. CASE Received(p)
  BY <1>2, <1>10 DEF Shape, TypeOK, Work, BotTypes, Received, bot
<1>11. CASE Fail(p)
  <2>1. events' \in [EventKinds -> Nat]
    BY <1>1, <1>11 DEF Fail, EventKinds
  <2> QED
    BY <1>11, <2>1 DEF Shape, TypeOK, Work, BotTypes, Fail, bot, slack
<1> QED
  BY <1>3, <1>4, <1>5, <1>6, <1>7, <1>8, <1>9, <1>10, <1>11 DEF TaskAction, Step

\* The table keeps its types, and only grows.
LEMMA TableKept ==
    ASSUME Shape, NEW p \in Processes, TaskAction(p)
    PROVE  TableTypes' /\ TableGrows
<1>1. ASSUME UNCHANGED table PROVE TableTypes' /\ TableGrows
  BY <1>1 DEF Shape, TypeOK, InteractionsTypeOK, TableTypes, TableGrows, table
<1>2. pc[p] \in RowSteps => row[p] \in 1..rows
  BY DEF Shape, TypeOK, InteractionsTypeOK, Work, TaskOK, RowsOf
<1>3. ASSUME NEW f \in FollowUps, NEW key \in CommentKeys, WriteComments(p, f, key)
      PROVE  TableTypes' /\ TableGrows
  <2>1. Changed(p, f, key) \in Comments
    BY DEF Shape, TypeOK, InteractionsTypeOK, Changed, Comments
  <2> QED
    BY <1>3, <2>1 DEF Shape, TypeOK, InteractionsTypeOK, TableTypes, TableGrows, WriteComments
<1>4. CASE Add(p)
  <2>1. msg[p] \in Questions
    BY <1>4 DEF Shape, Work, TaskOK, QuestionSteps, Add
  <2>2. /\ rows \in Nat /\ rows < MaxRows /\ rows' = rows + 1
        /\ thread \in [1..rows -> Questions]
        /\ thread' = [i \in 1..rows + 1 |-> IF i \in DOMAIN thread THEN thread[i] ELSE msg[p]]
        /\ UNCHANGED <<answers, marked, comments>>
    BY <1>4, InteractionsAssumption DEF Shape, TypeOK, InteractionsTypeOK, Add, AddQuestion
  <2>3. rows' \in 0..MaxRows /\ thread' \in [1..rows' -> Questions]
    BY <2>1, <2>2, InteractionsAssumption
  <2>4. TableGrows
    BY <2>2 DEF TableGrows
  <2> QED
    BY <2>2, <2>3, <2>4 DEF Shape, TypeOK, InteractionsTypeOK, TableTypes
<1>5. CASE AppendWrite(p) \/ AnswerWrite(p) \/ MarkWrite(p)
  <2>1. msg[p] \in FollowUps
    BY <1>5 DEF Shape, Work, TaskOK, FollowUpSteps, AppendWrite, AnswerWrite, MarkWrite
  <2> QED
    BY <1>3, <1>5, <2>1 DEF AppendWrite, AnswerWrite, MarkWrite, CommentKeys
<1>6. CASE StoreAnswer(p) \/ MarkAnswer(p)
  <2>1. row[p] \in 1..rows
    BY <1>2, <1>6 DEF RowSteps, QuestionSteps, StoreAnswer, MarkAnswer
  <2> QED
    BY <1>6, <2>1
    DEF Shape, TypeOK, InteractionsTypeOK, TableTypes, TableGrows, StoreAnswer, MarkAnswer,
        AddAnswer, MarkAnswerPosted
<1>7. CASE \/ Take(p) \/ \E m \in Messages : Resume(p, m)
           \/ Start(p) \/ Find(p) \/ AppendRead(p) \/ Query(p) \/ AnswerRead(p) \/ MarkRead(p)
           \/ Post(p) \/ PostTimesOut(p) \/ FindRated(p) \/ AddScore(p) \/ Received(p) \/ Fail(p)
  <2>1. UNCHANGED table
    BY <1>7 DEF Take, Resume, Start, Find, AppendRead, Query, AnswerRead, MarkRead, Post, PostTimesOut,
       FindRated, AddScore, Received, Fail, FindByThread, ReadComments
  <2> QED
    BY <1>1, <2>1
<1> QED
  BY <1>4, <1>5, <1>6, <1>7 DEF TaskAction, Step

\* After its step the task still works on a message of its kind, and on its row.
LEMMA TaskKept ==
    ASSUME Shape, NEW p \in Processes, TaskAction(p)
    PROVE  TaskTypesOf(p) /\ TaskOK(p)'
<1> USE DEF QuestionSteps, FollowUpSteps, EitherSteps, ClickSteps, RowSteps
<1> DEFINE Goal == TaskTypesOf(p) /\ TaskOK(p)'
<1>1. /\ row[p] \in 0..rows
      /\ history[p] \in SUBSET (Questions \union FollowUps)
      /\ snapshot[p] \in Comments
      /\ pc[p] \in Steps
      /\ msg[p] \in Messages \union {NoMessage}
      /\ rows \in Nat /\ rows' \in Nat /\ rows <= rows'
      /\ TaskOK(p)
  <2>1. rows \in Nat /\ rows' \in Nat /\ rows <= rows'
    BY TableKept, InteractionsAssumption DEF Shape, TypeOK, InteractionsTypeOK, TableTypes, TableGrows
  <2> QED
    BY <2>1 DEF Shape, TypeOK, InteractionsTypeOK, Work
<1>2. /\ row \in [Processes -> 0..rows]
      /\ history \in [Processes -> SUBSET (Questions \union FollowUps)]
      /\ snapshot \in [Processes -> Comments]
      /\ pc \in [Processes -> Steps]
      /\ msg \in [Processes -> Messages \union {NoMessage}]
  BY DEF Shape, TypeOK, InteractionsTypeOK
<1>3. ASSUME NEW t \in Questions, row[p] \in RowsOf(t) PROVE row[p] \in RowsOf(t)'
  BY <1>3, TableKept DEF TableGrows, RowsOf
<1>4. ASSUME End(p) PROVE Goal
  <2>1. /\ pc'[p] = "idle" /\ msg'[p] = NoMessage
        /\ row'[p] = 0 /\ history'[p] = {} /\ snapshot'[p] = {}
    BY <1>2, <1>4 DEF End, Begin, Forget, NoRow
  <2> QED
    BY <1>1, <2>1 DEF TaskTypesOf, TaskOK, Steps, Comments
\* The task goes on with what it has.
<1>5. ASSUME NEW step \in Steps, Goto(p, step), UNCHANGED row,
             history'[p] \in SUBSET (Questions \union FollowUps), snapshot'[p] \in Comments,
             step \in QuestionSteps => msg[p] \in Questions,
             step \in FollowUpSteps => msg[p] \in FollowUps,
             step \in EitherSteps => msg[p] \in Questions \union FollowUps,
             step \in ClickSteps => msg[p] \in Clicks,
             step \in RowSteps => pc[p] \in RowSteps
      PROVE  Goal
  <2>1. pc'[p] = step /\ msg'[p] = msg[p] /\ row'[p] = row[p]
    BY <1>2, <1>5 DEF Goto
  <2>2. step \in RowSteps => row'[p] \in RowsOf(ThreadOf(msg[p]))'
    <3>1. step \in RowSteps => msg[p] \in Messages
      BY <1>5, ThreadType
    <3> QED
      BY <1>1, <1>3, <1>5, <2>1, <3>1, ThreadType DEF TaskOK
  <2> QED
    BY <1>1, <1>5, <2>1, <2>2 DEF TaskTypesOf, TaskOK
<1>6. CASE Take(p)
  <2>1. Head(queue) \in Messages
    BY <1>6 DEF Shape, TypeOK, Take
  <2>2. /\ pc'[p] = IF Head(queue) \in Clicks THEN "find_rated" ELSE "start"
        /\ msg'[p] = Head(queue)
        /\ UNCHANGED <<row, history, snapshot>>
    BY <1>2, <1>6 DEF Take, Begin, transactions
  <2> QED
    BY <1>1, <2>1, <2>2, ThreadType DEF TaskTypesOf, TaskOK, Steps
<1>7. CASE \E m \in Messages : Resume(p, m)
  <2>1. PICK m \in parked : Resume(p, m)
    BY <1>7 DEF Resume
  <2>2. /\ pc'[p] = "start" /\ msg'[p] = m
        /\ UNCHANGED <<row, history, snapshot>>
    BY <1>2, <2>1 DEF Resume, Begin, transactions
  <2>3. m \in Questions \union FollowUps /\ m \in Messages
    BY ThreadType DEF Shape, Work
  <2> QED
    BY <1>1, <2>2, <2>3 DEF TaskTypesOf, TaskOK, Steps
<1>8. CASE Start(p)
  <2>1. msg[p] \in Questions \union FollowUps
    BY <1>1, <1>8 DEF TaskOK, Start
  <2>2. ASSUME Goto(p, IF IsFollowUp(p) THEN "find" ELSE "add"), UNCHANGED transactions PROVE Goal
    BY <1>1, <1>5, <2>1, <2>2 DEF IsFollowUp, transactions, Steps
  <2> QED
    BY <1>4, <1>8, <2>2 DEF Start
<1>9. CASE Add(p)
  <2>1. msg[p] \in Questions /\ thread \in [1..rows -> Questions]
    BY <1>1, <1>9 DEF Shape, TypeOK, InteractionsTypeOK, TaskOK, Add
  <2>2. /\ pc'[p] = "query" /\ msg'[p] = msg[p]
        /\ rows' = rows + 1 /\ row'[p] = rows + 1
        /\ UNCHANGED <<history, snapshot>>
        /\ thread' = [i \in 1..rows + 1 |-> IF i \in DOMAIN thread THEN thread[i] ELSE msg[p]]
    BY <1>1, <1>2, <1>9 DEF Add, AddQuestion, Goto
  <2>3. row'[p] \in RowsOf(msg[p])'
    BY <1>1, <2>1, <2>2 DEF RowsOf
  <2> QED
    BY <1>1, <2>1, <2>2, <2>3 DEF TaskTypesOf, TaskOK, Steps, ThreadOf
<1>10. CASE Find(p)
  <2>1. msg[p] \in FollowUps /\ ThreadOf(msg[p]) = Thread[msg[p]] /\ Thread[msg[p]] \in Questions
    BY <1>1, <1>10, ThreadType DEF TaskOK, Find
  <2>2. ASSUME FindByThread(p, Thread[msg[p]]), Goto(p, "append_read") PROVE Goal
    <3>1. PICK i \in RowsOf(Thread[msg[p]]) :
            /\ row' = [row EXCEPT ![p] = i]
            /\ history' = [history EXCEPT ![p] = IF i \in answers THEN {Thread[msg[p]]} ELSE {}]
      BY <2>2 DEF FindByThread
    <3>2. /\ pc'[p] = "append_read" /\ msg'[p] = msg[p] /\ row'[p] = i
          /\ history'[p] \in SUBSET Questions /\ snapshot' = snapshot
          /\ thread' = thread /\ rows' = rows
      BY <1>2, <2>1, <2>2, <3>1 DEF FindByThread, Goto, table
    <3>3. i \in 1..rows /\ i \in RowsOf(Thread[msg[p]])'
      BY <3>2 DEF Shape, TypeOK, InteractionsTypeOK, RowsOf
    <3> QED
      BY <1>1, <2>1, <3>2, <3>3 DEF TaskTypesOf, TaskOK, Steps
  <2> QED
    BY <1>4, <1>10, <2>2 DEF Find
<1>11. ASSUME ReadComments(p), NEW step \in {"append_write", "answer_write", "mark_write"},
              Goto(p, step), msg[p] \in FollowUps, pc[p] \in RowSteps
       PROVE  Goal
  <2>1. comments[row[p]] \in Comments
    <3>1. row[p] \in 1..rows
      BY <1>1, <1>11 DEF Shape, TypeOK, InteractionsTypeOK, TaskOK, RowsOf
    <3> QED
      BY <3>1, InteractionsAssumption DEF Shape, TypeOK, InteractionsTypeOK, Rows
  <2>2. snapshot'[p] \in Comments /\ history' = history /\ row' = row
    BY <1>2, <1>11, <2>1 DEF ReadComments
  <2>3. step \in Steps
    BY DEF Steps
  <2> QED
    BY <1>1, <1>5, <1>11, <2>2, <2>3
<1>12. CASE AppendRead(p) \/ AnswerRead(p) \/ MarkRead(p)
  <2>1. msg[p] \in FollowUps /\ pc[p] \in RowSteps
    BY <1>1, <1>12 DEF TaskOK, AppendRead, AnswerRead, MarkRead
  <2> QED
    BY <1>4, <1>11, <1>12, <2>1 DEF AppendRead, AnswerRead, MarkRead
<1>13. CASE AppendWrite(p) \/ AnswerWrite(p)
  <2>1. msg[p] \in FollowUps /\ pc[p] \in RowSteps
    BY <1>1, <1>13 DEF TaskOK, AppendWrite, AnswerWrite
  <2>2. PICK key \in CommentKeys : SeeComments(p, msg[p], key)
    BY <1>13 DEF AppendWrite, AnswerWrite, CommentKeys
  <2>3. history'[p] \in SUBSET (Questions \union FollowUps) /\ UNCHANGED <<row, snapshot>>
    BY <1>1, <1>2, <2>2 DEF SeeComments
  <2>4. PICK step \in {"query", "post"} : Goto(p, step)
    BY <1>13 DEF AppendWrite, AnswerWrite
  <2>5. step \in Steps
    BY DEF Steps
  <2> QED
    BY <1>1, <1>5, <2>1, <2>3, <2>4, <2>5
<1>14. CASE Query(p)
  <2>1. msg[p] \in Questions \union FollowUps
    BY <1>1, <1>14 DEF TaskOK, Query
  <2> QED
    BY <1>1, <1>5, <1>14, <2>1 DEF Query, IsFollowUp, transactions, Steps
<1>15. CASE StoreAnswer(p)
  <2>1. msg[p] \in Questions
    BY <1>1, <1>15 DEF TaskOK, StoreAnswer
  <2> QED
    BY <1>1, <1>5, <1>15, <2>1 DEF StoreAnswer, transactions, Steps
<1>16. CASE Post(p) \/ PostTimesOut(p)
  <2>1. msg[p] \in Questions \union FollowUps /\ pc[p] = "post"
    BY <1>1, <1>16 DEF TaskOK, Post, PostTimesOut
  <2>2. ASSUME Goto(p, AfterPost(p)), UNCHANGED transactions PROVE Goal
    BY <1>1, <1>5, <2>1, <2>2 DEF AfterPost, IsFollowUp, transactions, Steps
  <2> QED
    BY <1>4, <1>16, <2>2 DEF Post, PostTimesOut
<1>17. CASE MarkAnswer(p) \/ MarkWrite(p) \/ Received(p) \/ Fail(p)
  BY <1>4, <1>17 DEF MarkAnswer, MarkWrite, Received, Fail
<1>18. CASE FindRated(p) \/ AddScore(p)
  <2>1. msg[p] \in Clicks
    BY <1>1, <1>18 DEF TaskOK, FindRated, AddScore
  <2>2. ASSUME NEW step \in {"add_score", "received"}, Goto(p, step), UNCHANGED transactions PROVE Goal
    BY <1>1, <1>5, <2>1, <2>2 DEF transactions, Steps
  <2> QED
    BY <1>4, <1>18, <2>2 DEF FindRated, AddScore
<1> QED
  BY <1>6, <1>7, <1>8, <1>9, <1>10, <1>12, <1>13, <1>14, <1>15, <1>16, <1>17, <1>18 DEF TaskAction, Step

LEMMA TaskActionShape ==
    ASSUME Shape, NEW p \in Processes, TaskAction(p)
    PROVE  Shape'
  BY TasksMoveAlone, TaskKept, TableKept, BotTypesKept, OneTaskMoves

\* Steps of the bot's own threads, and of timers.
LEMMA ListenerShape ==
    ASSUME Shape,
           \/ \E m \in Messages : Deliver(m) \/ Submit(m)
           \/ \E p \in Processes, q \in Questions : Prompt(p, q)
    PROVE  Shape'
<1>1. UNCHANGED <<table, transactions, tasks, parked>>
  BY DEF Deliver, Submit, Prompt
<1>2. TaskTypes' /\ TableTypes' /\ Work'
  BY <1>1 DEF Shape, TypeOK, InteractionsTypeOK, TaskTypes, TableTypes, Work, TaskOK, RowsOf,
     table, transactions, tasks
<1>3. BotTypes'
  <2>1. CASE \E m \in Messages : Deliver(m)
    <3>1. PICK m \in Messages : Deliver(m)
      BY <2>1
    <3>2. /\ delivered' \in [Messages -> Nat] /\ routed' \in [Messages -> Nat]
          /\ known' \subseteq Questions
      <4>1. delivered' = [delivered EXCEPT ![m] = @ + 1]
        BY <3>1 DEF Deliver
      <4>2. \/ routed' = [routed EXCEPT ![m] = @ + 1] /\ known' = known \union ({m} \intersect Questions)
            \/ routed' = routed /\ known' = known
        BY <3>1 DEF Deliver
      <4> QED
        BY <4>1, <4>2 DEF Shape, TypeOK
    <3>3. seen' \in [FollowUps -> SUBSET Messages]
      BY <3>1 DEF Shape, TypeOK, Deliver, Answered
    <3> QED
      BY <1>1, <3>1, <3>2, <3>3 DEF Shape, TypeOK, BotTypes, Deliver
  <2>2. CASE \E m \in Messages : Submit(m)
    <3>1. PICK m \in Messages : Submit(m)
      BY <2>2
    <3>2. routed' \in [Messages -> Nat]
      BY <3>1 DEF Shape, TypeOK, Submit
    <3>3. queue' \in Seq(Messages)
      BY <3>1 DEF Shape, TypeOK, Submit
    <3> QED
      BY <1>1, <3>1, <3>2, <3>3 DEF Shape, TypeOK, BotTypes, Submit, slack
  <2>3. CASE \E p \in Processes, q \in Questions : Prompt(p, q)
    BY <1>1, <2>3 DEF Shape, TypeOK, BotTypes, Prompt, bot
  <2> QED
    BY <2>1, <2>2, <2>3
<1> QED
  BY <1>2, <1>3 DEF Shape, TypeOK, InteractionsTypeOK, TaskTypes, TableTypes, BotTypes

\* The death of a worker, and a restart.
LEMMA AccidentShape ==
    ASSUME Shape, WorkerDies \/ Restart
    PROVE  Shape'
<1>1. WorkersLost /\ UNCHANGED <<table, parked, slack, scores>>
  BY DEF WorkerDies, Restart
<1>2. rows \in Nat
  BY InteractionsAssumption DEF Shape, TypeOK, InteractionsTypeOK
<1>3. TaskTypes'
  <2>1. row' \in [Processes -> 0..rows]
    BY <1>1, <1>2 DEF Shape, TypeOK, InteractionsTypeOK, WorkersLost, NoRow
  <2>2. history' \in [Processes -> SUBSET (Questions \union FollowUps)]
    BY <1>1 DEF Shape, TypeOK, InteractionsTypeOK, WorkersLost
  <2>3. snapshot' \in [Processes -> Comments]
    BY <1>1 DEF Shape, TypeOK, InteractionsTypeOK, WorkersLost, Comments
  <2>4. pc' \in [Processes -> Steps] /\ msg' \in [Processes -> Messages \union {NoMessage}]
    BY <1>1 DEF Shape, TypeOK, WorkersLost, Steps
  <2> QED
    BY <1>1, <2>1, <2>2, <2>3, <2>4 DEF TaskTypes, table
<1>4. TableTypes'
  BY <1>1 DEF Shape, TypeOK, InteractionsTypeOK, TableTypes, table
<1>5. ASSUME NEW p \in Processes PROVE TaskOK(p)'
  <2>1. CASE p \in Workers
    BY <1>1, <2>1 DEF WorkersLost, TaskOK, QuestionSteps, FollowUpSteps, EitherSteps, ClickSteps, RowSteps
  <2>2. CASE p \notin Workers
    BY <1>1, <2>2 DEF Shape, Work, WorkersLost, TaskOK, RowsOf, table
  <2> QED
    BY <2>1, <2>2
<1>6. Work'
  BY <1>1, <1>5 DEF Shape, Work
<1>7. BotTypes'
  <2>1. events' \in [EventKinds -> Nat]
    BY DEF Shape, TypeOK, WorkerDies, Restart, Happens
  <2>2. queue' \in Seq(Messages) /\ broken' \in BOOLEAN /\ routed' \in [Messages -> Nat]
    <3>1. queue' = <<>> /\ broken' \in BOOLEAN
      BY DEF WorkerDies, Restart
    <3>2. routed' \in [Messages -> Nat]
      BY DEF Shape, TypeOK, WorkerDies, Restart
    <3> QED
      BY <3>1, <3>2
  <2>3. known' \subseteq Questions
    BY DEF Shape, TypeOK, InteractionsTypeOK, WorkerDies, Restart, KnownFromRows
  <2>4. timers' \subseteq Processes \X Questions
    BY <1>1 DEF Shape, TypeOK, WorkersLost
  <2> QED
    BY <1>1, <2>1, <2>2, <2>3, <2>4 DEF Shape, TypeOK, BotTypes, slack
<1> QED
  BY <1>3, <1>4, <1>6, <1>7 DEF Shape, TypeOK, InteractionsTypeOK, TaskTypes, TableTypes, BotTypes

\* Next, by who moves.
LEMMA NextCases ==
    ASSUME [Next]_vars
    PROVE  \/ \E p \in Processes : TaskAction(p)
           \/ \E m \in Messages : Deliver(m) \/ Submit(m)
           \/ \E p \in Processes, q \in Questions : Prompt(p, q)
           \/ WorkerDies \/ Restart
           \/ UNCHANGED vars
  BY DEF Next, TaskAction

LEMMA NextShape == Shape /\ [Next]_vars => Shape'
<1> SUFFICES ASSUME Shape, [Next]_vars PROVE Shape'
  OBVIOUS
<1>1. CASE UNCHANGED vars
  <2>1. TaskTypes' /\ TableTypes' /\ Work'
    BY <1>1 DEF Shape, TypeOK, InteractionsTypeOK, TaskTypes, TableTypes, Work, TaskOK, RowsOf,
       vars, table, transactions, tasks
  <2>2. BotTypes'
    BY <1>1 DEF Shape, TypeOK, BotTypes, vars, bot, slack
  <2> QED
    BY <2>1, <2>2 DEF Shape, TypeOK, InteractionsTypeOK, TaskTypes, TableTypes, BotTypes
<1> QED
  BY <1>1, NextCases, TaskActionShape, ListenerShape, AccidentShape

LEMMA AlwaysShape == Spec => []Shape
  BY InitShape, NextShape, PTL DEF Spec

\* The messages in flight, parked and in work are messages of Slack, and the
\* table is well formed.
THEOREM BotTypesAlways == Spec => []TypeOK
<1>1. Shape => TypeOK
  BY DEF Shape
<1> QED
  BY <1>1, AlwaysShape, PTL

-----------------------------------------------------------------------------
(* Stored before posted *)

\* A task that posts the answer to a question has stored it.
StoredFirst ==
    \A p \in Processes : pc[p] \in {"post", "mark_answer"} /\ msg[p] \in Questions => row[p] \in answers

\* The answers are stored for good.
LEMMA AnswersStay ==
    ASSUME Shape, [Next]_vars
    PROVE  /\ answers \subseteq answers'
           /\ \A q \in Questions : RowsOf(q) \subseteq RowsOf(q)'
<1>1. ASSUME TableGrows PROVE \A q \in Questions : RowsOf(q) \subseteq RowsOf(q)'
  BY <1>1 DEF TableGrows, RowsOf
<1>2. ASSUME UNCHANGED table PROVE answers \subseteq answers' /\ TableGrows
  BY <1>2 DEF table, TableGrows
<1>3. ASSUME NEW p \in Processes, TaskAction(p) PROVE answers \subseteq answers' /\ TableGrows
  <2>1. answers \subseteq answers'
    BY <1>3 DEF TaskAction, Step, Take, Resume, Start, Add, Find, AppendRead, AppendWrite, Query, StoreAnswer,
     AnswerRead, AnswerWrite, Post, PostTimesOut, MarkAnswer, MarkRead, MarkWrite, FindRated, AddScore,
     Received, Fail, AddQuestion, FindByThread, ReadComments, WriteComments, AddAnswer, MarkAnswerPosted, table
  <2> QED
    BY <1>3, <2>1, TableKept
<1>4. ASSUME ~\E p \in Processes : TaskAction(p) PROVE UNCHANGED table
  BY <1>4, NextCases DEF Deliver, Submit, Prompt, WorkerDies, Restart, vars
<1> QED
  BY <1>1, <1>2, <1>3, <1>4

\* Only a post of one's own message changes what is posted, and adds to it.
LEMMA PostedChanges ==
    ASSUME Shape, [Next]_vars
    PROVE  /\ \A m \in Messages : posted'[m] >= posted[m]
           /\ \/ posted' = posted
              \/ \E p \in Processes :
                    /\ Post(p) \/ PostTimesOut(p)
                    /\ msg[p] \in Messages \ Clicks
                    /\ posted'[msg[p]] > 0
                    /\ \A m \in Messages \ {msg[p]} : posted'[m] = posted[m]
<1>0. posted \in [Messages -> Nat] /\ posted' \in [Messages -> Nat]
  BY NextShape DEF Shape, TypeOK
<1>1. ASSUME NEW p \in Processes, Post(p) \/ PostTimesOut(p)
      PROVE  /\ msg[p] \in Messages \ Clicks
             /\ posted'[msg[p]] > posted[msg[p]]
             /\ \A m \in Messages \ {msg[p]} : posted'[m] = posted[m]
  <2>1. msg[p] \in Messages \ Clicks
    BY <1>1, ThreadType, ChatBotAssumption DEF Shape, Work, TaskOK, EitherSteps, Post, PostTimesOut
  <2>2. PICK copies \in {1, 2} : posted' = [posted EXCEPT ![msg[p]] = @ + copies]
    BY <1>1 DEF Post, PostTimesOut
  <2> QED
    BY <1>0, <2>1, <2>2
<1>2. ASSUME NEW p \in Processes, TaskAction(p), ~(Post(p) \/ PostTimesOut(p)) PROVE posted' = posted
  BY <1>2 DEF TaskAction, Step, Take, Resume, Start, Add, Find, AppendRead, AppendWrite, Query, StoreAnswer,
     AnswerRead, AnswerWrite, MarkAnswer, MarkRead, MarkWrite, FindRated, AddScore, Received, Fail, slack
<1>3. ASSUME ~\E p \in Processes : TaskAction(p) PROVE posted' = posted
  BY <1>3, NextCases DEF Deliver, Submit, Prompt, WorkerDies, Restart, vars, slack
<1>4. CASE \E p \in Processes : Post(p) \/ PostTimesOut(p)
  BY <1>0, <1>1, <1>4
<1>5. CASE posted' = posted
  BY <1>0, <1>5
<1> QED
  BY <1>2, <1>3, <1>4, <1>5

\* Of the tasks that are not at work in a step, and of all tasks in a step of nobody, nothing
\* changes but that a worker may be lost.
LEMMA OtherTasks ==
    ASSUME Shape, [Next]_vars, NEW q \in Processes, ~TaskAction(q)
    PROVE  \/ /\ pc'[q] = pc[q] /\ msg'[q] = msg[q]
              /\ row'[q] = row[q] /\ snapshot'[q] = snapshot[q] /\ history'[q] = history[q]
           \/ /\ pc'[q] = "idle" /\ msg'[q] = NoMessage
              /\ row'[q] = NoRow /\ snapshot'[q] = {} /\ history'[q] = {}
<1>1. ASSUME NEW p \in Processes, TaskAction(p)
      PROVE  /\ pc'[q] = pc[q] /\ msg'[q] = msg[q]
             /\ row'[q] = row[q] /\ snapshot'[q] = snapshot[q] /\ history'[q] = history[q]
  BY <1>1, TasksMoveAlone DEF Shape, TypeOK, InteractionsTypeOK, TaskStep
<1>2. CASE WorkerDies \/ Restart
  BY <1>2 DEF WorkerDies, Restart, WorkersLost
<1>3. ASSUME UNCHANGED <<transactions, tasks>>
      PROVE  /\ pc'[q] = pc[q] /\ msg'[q] = msg[q]
             /\ row'[q] = row[q] /\ snapshot'[q] = snapshot[q] /\ history'[q] = history[q]
  BY <1>3 DEF transactions, tasks
<1> QED
  BY <1>1, <1>2, <1>3, NextCases DEF Deliver, Submit, Prompt, vars

\* What a task does on its way to "post" and on from it.
LEMMA PostSteps ==
    ASSUME Shape, NEW p \in Processes, TaskAction(p), pc'[p] \in {"post", "mark_answer"}
    PROVE  \/ StoreAnswer(p) /\ row'[p] \in answers'
           \/ AnswerWrite(p) /\ msg'[p] \in FollowUps
           \/ /\ Post(p) \/ PostTimesOut(p)
              /\ pc[p] = "post" /\ row'[p] = row[p] /\ msg'[p] = msg[p]
<1>1. ASSUME End(p) PROVE FALSE
  BY <1>1 DEF Shape, TypeOK, End, Begin
<1>2. ASSUME NEW step, Goto(p, step) PROVE pc'[p] = step /\ msg'[p] = msg[p]
  BY <1>2 DEF Shape, TypeOK, Goto
<1>3. ASSUME NEW step, NEW m, Begin(p, step, m) PROVE pc'[p] = step
  BY <1>3 DEF Shape, TypeOK, Begin
<1>4. CASE StoreAnswer(p)
  BY <1>4 DEF StoreAnswer, AddAnswer, transactions
<1>5. CASE AnswerWrite(p)
  BY <1>2, <1>5 DEF Shape, Work, TaskOK, FollowUpSteps, AnswerWrite
<1>6. CASE Post(p) \/ PostTimesOut(p)
  BY <1>1, <1>2, <1>6 DEF Post, PostTimesOut, transactions
<1>7. CASE Take(p) \/ \E m \in Messages : Resume(p, m)
  BY <1>3, <1>7 DEF Take, Resume
<1>8. CASE \/ Start(p) \/ Add(p) \/ Find(p) \/ AppendRead(p) \/ AppendWrite(p) \/ Query(p)
           \/ AnswerRead(p) \/ MarkAnswer(p) \/ MarkRead(p) \/ MarkWrite(p)
           \/ FindRated(p) \/ AddScore(p) \/ Received(p) \/ Fail(p)
  BY <1>1, <1>2, <1>8 DEF Start, Add, Find, AppendRead, AppendWrite, Query, AnswerRead, MarkAnswer, MarkRead,
     MarkWrite, FindRated, AddScore, Received, Fail
<1> QED
  BY <1>4, <1>5, <1>6, <1>7, <1>8 DEF TaskAction, Step

LEMMA NextStored ==
    Shape /\ StoredFirst /\ PostedAnswerStored /\ [Next]_vars => StoredFirst' /\ PostedAnswerStored'
<1> SUFFICES ASSUME Shape, StoredFirst, PostedAnswerStored, [Next]_vars
             PROVE  StoredFirst' /\ PostedAnswerStored'
  OBVIOUS
<1>1. StoredFirst'
  <2> SUFFICES ASSUME NEW p \in Processes, pc'[p] \in {"post", "mark_answer"}, msg'[p] \in Questions
               PROVE  row'[p] \in answers'
    BY DEF StoredFirst
  <2>1. CASE TaskAction(p)
    BY <2>1, PostSteps, AnswersStay, InteractionsAssumption DEF StoredFirst
  <2>2. CASE ~TaskAction(p)
    BY <2>2, OtherTasks, AnswersStay DEF StoredFirst
  <2> QED
    BY <2>1, <2>2
<1>2. PostedAnswerStored'
  <2> SUFFICES ASSUME NEW q \in Questions, posted'[q] > 0
               PROVE  RowsOf(q)' \intersect answers' # {}
    BY DEF PostedAnswerStored
  <2>1. CASE posted'[q] = posted[q]
    BY <2>1, AnswersStay DEF PostedAnswerStored
  <2>2. CASE posted'[q] # posted[q]
    <3>1. PICK p \in Processes : (Post(p) \/ PostTimesOut(p)) /\ msg[p] = q
      BY <2>2, PostedChanges, ThreadType
    <3>2. pc[p] = "post"
      BY <3>1 DEF Post, PostTimesOut
    <3>3. row[p] \in answers
      BY <3>1, <3>2 DEF StoredFirst
    <3>4. row[p] \in RowsOf(q)
      BY <3>1, <3>2 DEF Shape, Work, TaskOK, EitherSteps, RowSteps, ThreadOf
    <3> QED
      BY <3>3, <3>4, AnswersStay
  <2> QED
    BY <2>1, <2>2
<1> QED
  BY <1>1, <1>2

\* No answer to a question is in Slack that a row of its thread does not hold.
THEOREM StoredBeforePosted == Spec => []PostedAnswerStored
<1>1. Init => StoredFirst /\ PostedAnswerStored
  BY ThreadType DEF Init, StoredFirst, PostedAnswerStored
<1> QED
  BY <1>1, AlwaysShape, NextStored, PTL DEF Spec

-----------------------------------------------------------------------------
(* Posted before marked *)

\* A comments column, on record or as a transaction has read it, marks no
\* answer as posted that was not.
NoFalseMark(column) ==
    \A f \in FollowUps : <<f, "assistant_response_posted_on_slack">> \in column => posted[f] > 0

\* A task that marks an answer has posted it; nor does a mark ever come from a
\* stale column.
PostedFirst ==
    /\ \A p \in Processes : pc[p] \in {"mark_answer", "mark_read", "mark_write"} => posted[msg[p]] > 0
    /\ \A i \in Rows : NoFalseMark(comments[i])
    /\ \A p \in Processes : NoFalseMark(snapshot[p])
    /\ \A i \in marked : posted[thread[i]] > 0

LEMMA PostedFirstSuffices == Shape /\ PostedFirst => MarkedIsPosted
  BY InteractionsAssumption
  DEF Shape, TypeOK, InteractionsTypeOK, PostedFirst, NoFalseMark, MarkedIsPosted, MarkedPosted, RowsOf, Rows

\* What a task does on its way to its marks.
LEMMA MarkSteps ==
    ASSUME Shape, NEW p \in Processes, TaskAction(p),
           pc'[p] \in {"mark_answer", "mark_read", "mark_write"}
    PROVE  /\ msg'[p] = msg[p]
           /\ Post(p) \/ PostTimesOut(p) \/ pc[p] = "mark_read"
<1>1. ASSUME End(p) PROVE FALSE
  BY <1>1 DEF Shape, TypeOK, End, Begin
<1>2. ASSUME NEW step, Goto(p, step) PROVE pc'[p] = step /\ msg'[p] = msg[p]
  BY <1>2 DEF Shape, TypeOK, Goto
<1>3. ASSUME NEW step, NEW m, Begin(p, step, m) PROVE pc'[p] = step
  BY <1>3 DEF Shape, TypeOK, Begin
<1>4. CASE Post(p) \/ PostTimesOut(p) \/ MarkRead(p)
  BY <1>1, <1>2, <1>4 DEF Post, PostTimesOut, MarkRead
<1>5. CASE Take(p) \/ \E m \in Messages : Resume(p, m)
  BY <1>3, <1>5 DEF Take, Resume
<1>6. CASE \/ Start(p) \/ Add(p) \/ Find(p) \/ AppendRead(p) \/ AppendWrite(p) \/ Query(p)
           \/ StoreAnswer(p) \/ AnswerRead(p) \/ AnswerWrite(p) \/ MarkAnswer(p) \/ MarkWrite(p)
           \/ FindRated(p) \/ AddScore(p) \/ Received(p) \/ Fail(p)
  BY <1>1, <1>2, <1>6 DEF Start, Add, Find, AppendRead, AppendWrite, Query, StoreAnswer, AnswerRead, AnswerWrite,
     MarkAnswer, MarkWrite, FindRated, AddScore, Received, Fail
<1> QED
  BY <1>4, <1>5, <1>6 DEF TaskAction, Step

\* What is written to a comments column, and what is read from it.
LEMMA ColumnSteps ==
    ASSUME Shape, NEW p \in Processes, TaskAction(p)
    PROVE  /\ \/ comments' = comments
              \/ /\ row[p] \in Rows
                 /\ \E key \in {"text", "assistant_response"} :
                        comments' = [comments EXCEPT ![row[p]] = snapshot[p] \union {<<msg[p], key>>}]
              \/ /\ row[p] \in Rows /\ pc[p] = "mark_write"
                 /\ comments' = [comments EXCEPT ![row[p]] =
                        snapshot[p] \union {<<msg[p], "assistant_response_posted_on_slack">>}]
           /\ snapshot'[p] \in {snapshot[p], {}, comments[row[p]]}
           /\ snapshot'[p] = comments[row[p]] => snapshot'[p] \in {snapshot[p], {}} \/ row[p] \in Rows
<1>0. pc[p] \in RowSteps => row[p] \in Rows
  BY InteractionsAssumption DEF Shape, TypeOK, InteractionsTypeOK, Work, TaskOK, RowsOf, Rows
<1>1. ASSUME End(p) PROVE snapshot'[p] = {}
  BY <1>1 DEF Shape, TypeOK, InteractionsTypeOK, End, Forget
<1>2. ASSUME ReadComments(p) PROVE snapshot'[p] = comments[row[p]] /\ comments' = comments
  BY <1>2 DEF Shape, TypeOK, InteractionsTypeOK, ReadComments, table
<1>3. CASE AppendRead(p) \/ AnswerRead(p) \/ MarkRead(p)
  BY <1>0, <1>1, <1>2, <1>3 DEF AppendRead, AnswerRead, MarkRead, RowSteps, FollowUpSteps, table
<1>4. CASE AppendWrite(p) \/ AnswerWrite(p) \/ MarkWrite(p)
  BY <1>0, <1>1, <1>4 DEF AppendWrite, AnswerWrite, MarkWrite, WriteComments, SeeComments, Changed,
     RowSteps, FollowUpSteps
<1>5. CASE \/ Take(p) \/ \E m \in Messages : Resume(p, m)
           \/ Start(p) \/ Add(p) \/ Find(p) \/ Query(p) \/ StoreAnswer(p)
           \/ Post(p) \/ PostTimesOut(p) \/ MarkAnswer(p)
           \/ FindRated(p) \/ AddScore(p) \/ Received(p) \/ Fail(p)
  BY <1>1, <1>5 DEF Take, Resume, Start, Add, Find, Query, StoreAnswer, Post, PostTimesOut, MarkAnswer,
     FindRated, AddScore, Received, Fail, AddQuestion, FindByThread, AddAnswer, MarkAnswerPosted,
     table, transactions
<1> QED
  BY <1>3, <1>4, <1>5 DEF TaskAction, Step

\* What is marked.
LEMMA MarkedChanges ==
    ASSUME Shape, [Next]_vars
    PROVE  \/ marked' = marked
           \/ \E p \in Processes :
                /\ MarkAnswer(p) /\ marked' = marked \union {row[p]}
                /\ msg[p] \in Questions /\ row[p] \in RowsOf(msg[p])
<1>1. ASSUME NEW p \in Processes, MarkAnswer(p)
      PROVE  /\ marked' = marked \union {row[p]}
             /\ msg[p] \in Questions /\ row[p] \in RowsOf(msg[p])
  BY <1>1 DEF Shape, Work, TaskOK, QuestionSteps, RowSteps, ThreadOf, MarkAnswer, MarkAnswerPosted
<1>2. ASSUME NEW p \in Processes, TaskAction(p), ~MarkAnswer(p) PROVE marked' = marked
  BY <1>2 DEF TaskAction, Step, Take, Resume, Start, Add, Find, AppendRead, AppendWrite, Query, StoreAnswer,
     AnswerRead, AnswerWrite, Post, PostTimesOut, MarkRead, MarkWrite, FindRated, AddScore, Received, Fail,
     AddQuestion, FindByThread, ReadComments, WriteComments, AddAnswer, table
<1>3. ASSUME ~\E p \in Processes : TaskAction(p) PROVE marked' = marked
  BY <1>3, NextCases DEF Deliver, Submit, Prompt, WorkerDies, Restart, vars, table
<1> QED
  BY <1>1, <1>2, <1>3

\* Threads of rows are for good.
LEMMA ThreadsStay ==
    ASSUME Shape, [Next]_vars, NEW i \in 1..rows
    PROVE  i \in 1..rows' /\ thread'[i] = thread[i]
<1>1. ASSUME TableGrows PROVE i \in 1..rows' /\ thread'[i] = thread[i]
  BY <1>1, NextShape DEF Shape, TypeOK, InteractionsTypeOK, TableGrows
<1>2. ASSUME UNCHANGED table PROVE TableGrows
  BY <1>2 DEF table, TableGrows
<1>3. ASSUME ~\E p \in Processes : TaskAction(p) PROVE UNCHANGED table
  BY <1>3, NextCases DEF Deliver, Submit, Prompt, WorkerDies, Restart, vars
<1> QED
  BY <1>1, <1>2, <1>3, TableKept

LEMMA NextPostedFirst == Shape /\ PostedFirst /\ [Next]_vars => PostedFirst'
<1> SUFFICES ASSUME Shape, PostedFirst, [Next]_vars PROVE PostedFirst'
  OBVIOUS
<1>1. \A m \in Messages : posted[m] > 0 => posted'[m] > 0
  BY PostedChanges, NextShape DEF Shape, TypeOK
<1>2. ASSUME NEW p \in Processes, pc'[p] \in {"mark_answer", "mark_read", "mark_write"}
      PROVE  posted'[msg'[p]] > 0
  <2>1. CASE TaskAction(p)
    <3>1. CASE Post(p) \/ PostTimesOut(p)
      <4>1. msg'[p] = msg[p] /\ msg[p] \in Messages
        BY <1>2, <2>1, <3>1, MarkSteps, ThreadType
        DEF Shape, Work, TaskOK, EitherSteps, Post, PostTimesOut
      <4>2. PICK copies \in {1, 2} : posted' = [posted EXCEPT ![msg[p]] = @ + copies]
        BY <3>1 DEF Post, PostTimesOut
      <4> QED
        BY <4>1, <4>2 DEF Shape, TypeOK
    <3>2. CASE pc[p] = "mark_read"
      BY <1>1, <1>2, <2>1, <3>2, MarkSteps, ThreadType DEF PostedFirst, Shape, Work, TaskOK, FollowUpSteps
    <3> QED
      BY <1>2, <2>1, <3>1, <3>2, MarkSteps
  <2>2. CASE ~TaskAction(p)
    <3>1. pc'[p] = pc[p] /\ msg'[p] = msg[p]
      BY <1>2, <2>2, OtherTasks
    <3>2. msg[p] \in Messages
      BY <1>2, <3>1, ThreadType DEF Shape, Work, TaskOK, QuestionSteps, FollowUpSteps
    <3> QED
      BY <1>1, <1>2, <3>1, <3>2 DEF PostedFirst
  <2> QED
    BY <2>1, <2>2
<1>3. ASSUME NEW column, NoFalseMark(column) PROVE \A f \in FollowUps :
        <<f, "assistant_response_posted_on_slack">> \in column => posted'[f] > 0
  BY <1>1, <1>3, ThreadType DEF NoFalseMark
<1>4. ASSUME NEW i \in Rows PROVE NoFalseMark(comments[i])'
  <2>1. CASE comments' = comments
    BY <1>3, <2>1 DEF PostedFirst, NoFalseMark
  <2>2. ASSUME NEW p \in Processes, TaskAction(p), comments' # comments PROVE NoFalseMark(comments[i])'
    <3>1. comments'[i] \in Comments /\ comments \in [Rows -> Comments]
      BY NextShape DEF Shape, TypeOK, InteractionsTypeOK
    <3>2. PICK key \in CommentKeys :
            /\ comments' = [comments EXCEPT ![row[p]] = snapshot[p] \union {<<msg[p], key>>}]
            /\ key = "assistant_response_posted_on_slack" => pc[p] = "mark_write"
      BY <2>2, ColumnSteps DEF CommentKeys
    <3>3. CASE i # row[p]
      <4>1. comments'[i] = comments[i]
        BY <3>1, <3>2, <3>3
      <4> QED
        BY <1>3, <4>1 DEF PostedFirst, NoFalseMark
    <3>4. CASE i = row[p]
      <4>1. comments'[i] = snapshot[p] \union {<<msg[p], key>>}
        BY <3>1, <3>2, <3>4
      <4>2. ASSUME NEW f \in FollowUps, <<f, "assistant_response_posted_on_slack">> \in comments'[i]
            PROVE  posted'[f] > 0
        <5>1. CASE <<f, "assistant_response_posted_on_slack">> \in snapshot[p]
          BY <1>1, <5>1, ThreadType DEF PostedFirst, NoFalseMark
        <5>2. CASE <<f, "assistant_response_posted_on_slack">> = <<msg[p], key>>
          BY <1>1, <3>2, <5>2, ThreadType DEF PostedFirst
        <5> QED
          BY <4>1, <4>2, <5>1, <5>2
      <4> QED
        BY <4>2 DEF NoFalseMark
    <3> QED
      BY <3>3, <3>4
  <2>3. ASSUME ~\E p \in Processes : TaskAction(p) PROVE comments' = comments
    BY <2>3, NextCases DEF Deliver, Submit, Prompt, WorkerDies, Restart, vars, table
  <2> QED
    BY <2>1, <2>2, <2>3
<1>5. ASSUME NEW p \in Processes PROVE NoFalseMark(snapshot[p])'
  <2>1. \/ snapshot'[p] \in {snapshot[p], {}}
        \/ row[p] \in Rows /\ snapshot'[p] = comments[row[p]]
    BY ColumnSteps, OtherTasks
  <2>2. NoFalseMark({})
    BY DEF NoFalseMark
  <2>3. NoFalseMark(snapshot'[p])
    BY <2>1, <2>2 DEF PostedFirst
  <2> QED
    BY <1>3, <2>3 DEF NoFalseMark
<1>6. ASSUME NEW i \in marked' PROVE posted'[thread'[i]] > 0
  <2>1. CASE i \in marked
    <3>1. i \in 1..rows /\ posted[thread[i]] > 0
      BY <2>1 DEF Shape, TypeOK, InteractionsTypeOK, PostedFirst
    <3>2. thread[i] \in Messages
      BY <3>1, ThreadType DEF Shape, TypeOK, InteractionsTypeOK
    <3> QED
      BY <1>1, <3>1, <3>2, ThreadsStay
  <2>2. CASE i \notin marked
    <3>1. PICK p \in Processes : /\ MarkAnswer(p) /\ i = row[p]
                                 /\ msg[p] \in Questions /\ row[p] \in RowsOf(msg[p])
      BY <1>6, <2>2, MarkedChanges
    <3>2. posted[msg[p]] > 0 /\ msg[p] \in Messages
      BY <3>1, ThreadType DEF PostedFirst, MarkAnswer
    <3>3. i \in 1..rows /\ thread[i] = msg[p]
      BY <3>1 DEF Shape, TypeOK, InteractionsTypeOK, RowsOf
    <3> QED
      BY <1>1, <3>2, <3>3, ThreadsStay
  <2> QED
    BY <2>1, <2>2
<1> QED
  BY <1>2, <1>4, <1>5, <1>6 DEF PostedFirst

\* Nothing is marked as posted, question or comment, that was not.
THEOREM PostedBeforeMarked == Spec => []MarkedIsPosted
<1>1. Init => PostedFirst
  BY DEF Init, InteractionsInit, PostedFirst, NoFalseMark
<1> QED
  BY <1>1, AlwaysShape, NextPostedFirst, PostedFirstSuffices, PTL DEF Spec

-----------------------------------------------------------------------------
(* Marked before scored *)

Promised(q) == RowsOf(q) \intersect marked # {}

\* Timers, prompts and clicks, wherever they are on their way to a score, are
\* about answers that are marked as posted.
PromptedLast ==
    /\ \A t \in timers : Promised(t[2])
    /\ \A q \in prompts : Promised(q)
    /\ \A c \in Clicks : routed[c] > 0 => Promised(Thread[c])
    /\ \A k \in 1..Len(queue) : queue[k] \in Clicks => Promised(Thread[queue[k]])
    /\ \A p \in Processes : msg[p] \in Clicks => Promised(Thread[msg[p]])

\* A mark is never taken back.
LEMMA PromisesStay ==
    ASSUME Shape, [Next]_vars
    PROVE  \A q \in Questions : Promised(q) => Promised(q)'
<1>1. marked \subseteq marked'
  BY MarkedChanges
<1> QED
  BY <1>1, AnswersStay DEF Promised

\* How a click gets on: a timer is set by the task that has marked the answer,
\* shown by Prompt, clicked on in Deliver, submitted, taken and scored.
LEMMA ClickMoves ==
    ASSUME Shape, [Next]_vars
    PROVE  /\ \A t \in timers' : t \in timers \/ \E p \in Processes : MarkAnswer(p) /\ t = <<p, msg[p]>>
           /\ \A q \in prompts' : q \in prompts \/ \E t \in timers : q = t[2]
           /\ \A c \in Clicks : routed'[c] > 0 => routed[c] > 0 \/ Thread[c] \in prompts
           /\ \A q \in Questions : scores'[q] > 0 =>
                scores[q] > 0 \/ \E p \in Processes : msg[p] \in Clicks /\ q = Thread[msg[p]]
<1>1. ASSUME NEW p \in Processes, TaskAction(p), ~MarkAnswer(p) PROVE timers' = timers
  BY <1>1 DEF TaskAction, Step, Take, Resume, Start, Add, Find, AppendRead, AppendWrite, Query, StoreAnswer,
     AnswerRead, AnswerWrite, Post, PostTimesOut, MarkRead, MarkWrite, FindRated, AddScore, Received, Fail
<1>2. ASSUME NEW p \in Processes, TaskAction(p) PROVE prompts' \subseteq prompts /\ routed' = routed
  BY <1>2 DEF TaskAction, Step, Take, Resume, Start, Add, Find, AppendRead, AppendWrite, Query, StoreAnswer,
     AnswerRead, AnswerWrite, Post, PostTimesOut, MarkAnswer, MarkRead, MarkWrite, FindRated, AddScore,
     Received, Fail, bot, slack
<1>3. ASSUME NEW p \in Processes, TaskAction(p), ~AddScore(p) PROVE scores' = scores
  BY <1>3 DEF TaskAction, Step, Take, Resume, Start, Add, Find, AppendRead, AppendWrite, Query, StoreAnswer,
     AnswerRead, AnswerWrite, Post, PostTimesOut, MarkAnswer, MarkRead, MarkWrite, FindRated,
     Received, Fail
<1>4. \A t \in timers' : t \in timers \/ \E p \in Processes : MarkAnswer(p) /\ t = <<p, msg[p]>>
  <2>1. ASSUME NEW p \in Processes, MarkAnswer(p) PROVE timers' = timers \union {<<p, msg[p]>>}
    BY <2>1 DEF MarkAnswer
  <2>2. ASSUME ~\E p \in Processes : TaskAction(p) PROVE timers' \subseteq timers
    BY <2>2, NextCases DEF Deliver, Submit, Prompt, WorkerDies, Restart, WorkersLost, vars
  <2> QED
    BY <1>1, <2>1, <2>2
<1>5. \A q \in prompts' : q \in prompts \/ \E t \in timers : q = t[2]
  <2>1. ASSUME NEW p \in Processes, NEW q \in Questions, Prompt(p, q)
        PROVE  prompts' = prompts \union {q} /\ <<p, q>> \in timers
    BY <2>1 DEF Prompt
  <2>2. ASSUME ~\E p \in Processes : TaskAction(p), ~\E p \in Processes, q \in Questions : Prompt(p, q)
        PROVE  prompts' = prompts
    BY <2>2, NextCases DEF Deliver, Submit, WorkerDies, Restart, vars, slack
  <2>3. CASE \E p \in Processes, q \in Questions : Prompt(p, q)
    BY <2>1, <2>3
  <2> QED
    BY <1>2, <2>2, <2>3
<1>6. ASSUME NEW c \in Clicks, routed'[c] > 0 PROVE routed[c] > 0 \/ Thread[c] \in prompts
  <2>1. c \in Messages
    BY ThreadType
  <2>2. ASSUME NEW m \in Messages, Deliver(m) PROVE routed[c] > 0 \/ Thread[c] \in prompts
    <3>1. CASE m = c
      BY <2>2, <3>1 DEF Deliver
    <3>2. CASE m # c
      BY <1>6, <2>1, <2>2, <3>2 DEF Shape, TypeOK, Deliver
    <3> QED
      BY <3>1, <3>2
  <2>3. ASSUME NEW m \in Messages, Submit(m) PROVE routed[c] > 0
    BY <1>6, <2>1, <2>3 DEF Shape, TypeOK, Submit
  <2>4. CASE WorkerDies \/ Restart
    BY <1>6, <2>1, <2>4 DEF WorkerDies, Restart
  <2>5. CASE \/ \E p \in Processes, q \in Questions : Prompt(p, q)
             \/ UNCHANGED vars
    BY <1>6, <2>5 DEF Prompt, vars, bot
  <2> QED
    BY <1>2, <1>6, <2>2, <2>3, <2>4, <2>5, NextCases
<1>7. ASSUME NEW q \in Questions, scores'[q] > 0
      PROVE  scores[q] > 0 \/ \E p \in Processes : msg[p] \in Clicks /\ q = Thread[msg[p]]
  <2>1. ASSUME NEW p \in Processes, AddScore(p)
        PROVE  msg[p] \in Clicks /\ scores' = [scores EXCEPT ![Thread[msg[p]]] = @ + 1]
    BY <2>1 DEF Shape, Work, TaskOK, ClickSteps, AddScore
  <2>2. ASSUME ~\E p \in Processes : TaskAction(p) PROVE scores' = scores
    BY <2>2, NextCases DEF Deliver, Submit, Prompt, WorkerDies, Restart, vars
  <2>3. ASSUME NEW p \in Processes, AddScore(p)
        PROVE  scores[q] > 0 \/ \E r \in Processes : msg[r] \in Clicks /\ q = Thread[msg[r]]
    BY <1>7, <2>1, <2>3 DEF Shape, TypeOK
  <2> QED
    BY <1>3, <1>7, <2>2, <2>3
<1> QED
  BY <1>4, <1>5, <1>6, <1>7

\* What is queued and worked on comes from what is routed, parked and queued.
LEMMA QueueMoves ==
    ASSUME Shape, [Next]_vars
    PROVE  /\ \A k \in 1..Len(queue') :
                \/ \E j \in 1..Len(queue) : queue'[k] = queue[j]
                \/ queue'[k] \in Messages /\ routed[queue'[k]] > 0
           /\ \A p \in Processes : msg'[p] # NoMessage =>
                \/ msg'[p] = msg[p]
                \/ \E j \in 1..Len(queue) : msg'[p] = queue[j]
                \/ msg'[p] \in parked
<1>0. queue \in Seq(Messages)
  BY DEF Shape, TypeOK
<1>1. ASSUME NEW p \in Processes, TaskAction(p), ~Take(p) PROVE queue' = queue
  BY <1>1 DEF TaskAction, Step, Resume, Start, Add, Find, AppendRead, AppendWrite, Query, StoreAnswer,
     AnswerRead, AnswerWrite, Post, PostTimesOut, MarkAnswer, MarkRead, MarkWrite, FindRated, AddScore,
     Received, Fail, bot
<1>2. ASSUME NEW k \in 1..Len(queue')
      PROVE  \/ \E j \in 1..Len(queue) : queue'[k] = queue[j]
             \/ queue'[k] \in Messages /\ routed[queue'[k]] > 0
  <2>1. CASE queue' = queue
    BY <1>2, <2>1
  <2>2. CASE queue' = <<>>
    BY <1>2, <2>2
  <2>3. ASSUME NEW p \in Processes, Take(p) PROVE \E j \in 1..Len(queue) : queue'[k] = queue[j]
    <3>1. queue # <<>> /\ queue' = Tail(queue)
      BY <2>3 DEF Take
    <3> QED
      BY <1>0, <1>2, <3>1
  <2>4. ASSUME NEW m \in Messages, Submit(m)
        PROVE  \/ \E j \in 1..Len(queue) : queue'[k] = queue[j]
               \/ queue'[k] \in Messages /\ routed[queue'[k]] > 0
    <3>1. routed[m] > 0 /\ queue' \in {queue, Append(queue, m)}
      BY <2>4 DEF Submit
    <3>2. CASE queue' = Append(queue, m)
      BY <1>0, <1>2, <3>1, <3>2
    <3> QED
      BY <2>1, <3>1, <3>2
  <2> QED
    BY <1>1, <2>1, <2>2, <2>3, <2>4, NextCases DEF Deliver, Prompt, WorkerDies, Restart, vars, bot
<1>3. ASSUME NEW p \in Processes, msg'[p] # NoMessage
      PROVE  \/ msg'[p] = msg[p]
             \/ \E j \in 1..Len(queue) : msg'[p] = queue[j]
             \/ msg'[p] \in parked
  <2>1. ASSUME NEW step, NEW m, Begin(p, step, m) PROVE msg'[p] = m
    BY <2>1 DEF Shape, TypeOK, Begin
  <2>2. CASE Take(p)
    BY <1>0, <2>1, <2>2 DEF Take
  <2>3. CASE \E m \in Messages : Resume(p, m)
    BY <2>1, <2>3 DEF Resume
  <2>4. ASSUME Step(p) \/ Fail(p) PROVE msg'[p] \in {msg[p], NoMessage}
    <3>1. ASSUME End(p) PROVE msg'[p] = NoMessage
      BY <2>1, <3>1 DEF End
    <3>2. ASSUME NEW step, Goto(p, step) PROVE msg'[p] = msg[p]
      BY <3>2 DEF Goto
    <3> QED
      BY <2>4, <3>1, <3>2 DEF Step, Start, Add, Find, AppendRead, AppendWrite, Query, StoreAnswer,
         AnswerRead, AnswerWrite, Post, PostTimesOut, MarkAnswer, MarkRead, MarkWrite, FindRated, AddScore,
         Received, Fail
  <2> QED
    BY <1>3, <2>2, <2>3, <2>4, OtherTasks DEF TaskAction
<1> QED
  BY <1>2, <1>3

LEMMA NextPromptedLast ==
    Shape /\ PromptedLast /\ ScoredIsMarked /\ [Next]_vars => PromptedLast' /\ ScoredIsMarked'
<1> SUFFICES ASSUME Shape, PromptedLast, ScoredIsMarked, [Next]_vars
             PROVE  PromptedLast' /\ ScoredIsMarked'
  OBVIOUS
<1>1. ASSUME NEW t \in timers' PROVE Promised(t[2])'
  <2>1. CASE t \in timers
    BY <2>1, PromisesStay DEF PromptedLast, Shape, TypeOK
  <2>2. ASSUME NEW p \in Processes, MarkAnswer(p), t = <<p, msg[p]>> PROVE Promised(t[2])'
    <3>1. msg[p] \in Questions /\ row[p] \in RowsOf(msg[p]) /\ row[p] \in marked'
      <4>1. pc[p] = "mark_answer" /\ row[p] \in marked'
        BY <2>2 DEF MarkAnswer, MarkAnswerPosted
      <4> QED
        BY <4>1 DEF Shape, Work, TaskOK, QuestionSteps, RowSteps, ThreadOf
    <3> QED
      BY <2>2, <3>1, AnswersStay DEF Promised
  <2> QED
    BY <2>1, <2>2, ClickMoves
<1>2. ASSUME NEW q \in prompts' PROVE Promised(q)'
  BY <1>2, ClickMoves, PromisesStay DEF PromptedLast, Shape, TypeOK
<1>3. ASSUME NEW c \in Clicks, routed'[c] > 0 PROVE Promised(Thread[c])'
  BY <1>3, ClickMoves, PromisesStay, ThreadType DEF PromptedLast
<1>4. \A m \in Clicks : Promised(Thread[m]) => Promised(Thread[m])'
  BY PromisesStay, ThreadType
<1>5. ASSUME NEW c \in Clicks, NEW k \in 1..Len(queue'), queue'[k] = c PROVE Promised(Thread[c])'
  BY <1>4, <1>5, QueueMoves DEF PromptedLast
<1>6. ASSUME NEW c \in Clicks, NEW p \in Processes, msg'[p] = c PROVE Promised(Thread[c])'
  <2>1. msg'[p] # NoMessage /\ msg'[p] \notin parked
    BY <1>6, ChatBotAssumption, ThreadType DEF Shape, Work
  <2> QED
    BY <1>4, <1>6, <2>1, QueueMoves DEF PromptedLast
<1>7. ScoredIsMarked'
  <2> SUFFICES ASSUME NEW q \in Questions, scores'[q] > 0 PROVE Promised(q)'
    BY DEF ScoredIsMarked, Promised
  <2> QED
    BY ClickMoves, PromisesStay DEF PromptedLast, ScoredIsMarked, Promised
<1> QED
  BY <1>1, <1>2, <1>3, <1>5, <1>6, <1>7 DEF PromptedLast

\* Users rate only answers the database says were posted, for any number of
\* workers, deliveries, clicks, failures, deaths and restarts.
THEOREM ScoresArePromised == Spec => []ScoredIsMarked
<1>1. Init => PromptedLast /\ ScoredIsMarked
  BY ThreadType, ChatBotAssumption DEF Init, PromptedLast, ScoredIsMarked
<1> QED
  BY <1>1, AlwaysShape, NextPromptedLast, PTL DEF Spec

-----------------------------------------------------------------------------
(* Known before recorded *)

\* A question on its way to a row is known already: the router adds it first.
KnownFirst ==
    /\ \A q \in Questions : routed[q] > 0 => q \in known
    /\ \A k \in 1..Len(queue) : queue[k] \in Questions => queue[k] \in known
    /\ \A p \in Processes : msg[p] \in Questions => msg[p] \in known

LEMMA NextKnownFirst ==
    ASSUME WebThreads = {}
    PROVE  Shape /\ KnownFirst /\ KnownCoversRows /\ [Next]_vars => KnownFirst' /\ KnownCoversRows'
<1> SUFFICES ASSUME Shape, KnownFirst, KnownCoversRows, [Next]_vars
             PROVE  KnownFirst' /\ KnownCoversRows'
  OBVIOUS
<1>1. Questions \subseteq Messages /\ NoMessage \notin Questions
  BY ThreadType, ChatBotAssumption
<1>2. CASE Restart
  <2>1. known' = {thread[i] : i \in DOMAIN thread} /\ thread' = thread
    BY <1>2 DEF Restart, KnownFromRows, table
  <2>2. queue' = <<>> /\ \A m \in Messages : routed'[m] = 0
    BY <1>2 DEF Restart
  <2>3. \A p \in Processes : msg'[p] = NoMessage
    BY <1>2, ChatBotAssumption DEF Restart, WorkersLost
  <2> QED
    BY <1>1, <2>1, <2>2, <2>3 DEF KnownFirst, KnownCoversRows
<1>3. CASE ~Restart
  <2>1. known \subseteq known'
    BY <1>3, NextCases DEF TaskAction, Step, Take, Resume, Start, Add, Find, AppendRead, AppendWrite, Query,
       StoreAnswer, AnswerRead, AnswerWrite, Post, PostTimesOut, MarkAnswer, MarkRead, MarkWrite, FindRated,
       AddScore, Received, Fail, Deliver, Submit, Prompt, WorkerDies, vars, bot
  <2>2. ASSUME NEW q \in Questions, routed'[q] > 0 PROVE q \in known'
    <3>1. ASSUME NEW m \in Messages, Deliver(m) PROVE q \in known'
      <4>1. CASE m = q
        BY <2>1, <2>2, <3>1, <4>1 DEF Deliver, KnownFirst
      <4>2. CASE m # q
        BY <1>1, <2>1, <2>2, <3>1, <4>2 DEF Shape, TypeOK, Deliver, KnownFirst
      <4> QED
        BY <4>1, <4>2
    <3>2. ASSUME NEW m \in Messages, Submit(m) PROVE q \in known'
      BY <1>1, <2>1, <2>2, <3>2 DEF Shape, TypeOK, Submit, KnownFirst
    <3>3. CASE routed' = routed
      BY <2>1, <2>2, <3>3 DEF KnownFirst
    <3>4. ASSUME NEW p \in Processes, TaskAction(p) PROVE routed' = routed
      BY <3>4 DEF TaskAction, Step, Take, Resume, Start, Add, Find, AppendRead, AppendWrite, Query, StoreAnswer,
         AnswerRead, AnswerWrite, Post, PostTimesOut, MarkAnswer, MarkRead, MarkWrite, FindRated, AddScore,
         Received, Fail, bot
    <3> QED
      BY <1>3, <3>1, <3>2, <3>3, <3>4, NextCases DEF Prompt, WorkerDies, vars, bot
  <2>3. ASSUME NEW q \in Questions, NEW k \in 1..Len(queue'), queue'[k] = q PROVE q \in known'
    BY <2>1, <2>3, QueueMoves DEF KnownFirst
  <2>4. ASSUME NEW q \in Questions, NEW p \in Processes, msg'[p] = q PROVE q \in known'
    <3>1. CASE msg[p] = q
      BY <2>1, <2>4, <3>1 DEF KnownFirst
    <3>2. CASE \E j \in 1..Len(queue) : q = queue[j]
      BY <2>1, <3>2 DEF KnownFirst
    <3>3. ASSUME msg[p] # q, ~\E j \in 1..Len(queue) : q = queue[j] PROVE FALSE
      <4>1. TaskAction(p)
        BY <1>1, <2>4, <3>3, OtherTasks
      <4>2. ~\E m \in Messages : Resume(p, m)
        BY DEF Resume
      <4>3. ASSUME NEW step, NEW m, Begin(p, step, m) PROVE msg'[p] = m
        BY <4>3 DEF Shape, TypeOK, Begin
      <4>4. ~Take(p)
        <5>1. ASSUME Take(p) PROVE queue # <<>> /\ msg'[p] = Head(queue)
          BY <4>3, <5>1 DEF Take
        <5>2. queue \in Seq(Messages)
          BY DEF Shape, TypeOK
        <5> QED
          BY <2>4, <3>3, <5>1, <5>2
      <4>5. ASSUME Step(p) \/ Fail(p) PROVE msg'[p] \in {msg[p], NoMessage}
        <5>1. ASSUME End(p) PROVE msg'[p] = NoMessage
          BY <4>3, <5>1 DEF End
        <5>2. ASSUME NEW step, Goto(p, step) PROVE msg'[p] = msg[p]
          BY <5>2 DEF Goto
        <5> QED
          BY <4>5, <5>1, <5>2 DEF Step, Start, Add, Find, AppendRead, AppendWrite, Query, StoreAnswer,
             AnswerRead, AnswerWrite, Post, PostTimesOut, MarkAnswer, MarkRead, MarkWrite, FindRated, AddScore,
             Received, Fail
      <4> QED
        BY <1>1, <2>4, <3>3, <4>1, <4>2, <4>4, <4>5 DEF TaskAction
    <3> QED
      BY <3>1, <3>2, <3>3
  <2>5. ASSUME NEW i \in DOMAIN thread' PROVE thread'[i] \in known'
    <3>1. ASSUME NEW p \in Processes, Add(p) PROVE thread'[i] \in known'
      <4>1. msg[p] \in known
        BY <3>1 DEF Shape, Work, TaskOK, QuestionSteps, Add, KnownFirst
      <4>2. thread' = [j \in 1..rows + 1 |-> IF j \in DOMAIN thread THEN thread[j] ELSE msg[p]]
        BY <3>1 DEF Add, AddQuestion
      <4> QED
        BY <2>1, <4>1, <4>2 DEF KnownCoversRows
    <3>2. ASSUME NEW p \in Processes, TaskAction(p), ~Add(p) PROVE thread' = thread
      BY <3>2 DEF TaskAction, Step, Take, Resume, Start, Find, AppendRead, AppendWrite, Query, StoreAnswer,
         AnswerRead, AnswerWrite, Post, PostTimesOut, MarkAnswer, MarkRead, MarkWrite, FindRated, AddScore,
         Received, Fail, FindByThread, ReadComments, WriteComments, AddAnswer, MarkAnswerPosted, table
    <3>3. ASSUME ~\E p \in Processes : TaskAction(p) PROVE thread' = thread
      BY <3>3, NextCases DEF Deliver, Submit, Prompt, WorkerDies, Restart, vars, table
    <3>4. CASE thread' = thread
      BY <2>1, <2>5, <3>4 DEF KnownCoversRows
    <3> QED
      BY <3>1, <3>2, <3>3, <3>4
  <2> QED
    BY <2>2, <2>3, <2>4, <2>5 DEF KnownFirst, KnownCoversRows
<1> QED
  BY <1>2, <1>3

\* The bot process knows every thread there is a row of, whatever fails, dies or
\* is restarted, unless the web process resumes questions.
THEOREM RecordedIsKnown ==
    ASSUME WebThreads = {}
    PROVE  Spec => []KnownCoversRows
<1>1. Init => KnownFirst /\ KnownCoversRows
  BY ThreadType, ChatBotAssumption DEF Init, InteractionsInit, KnownFirst, KnownCoversRows
<1>2. Shape /\ KnownFirst /\ KnownCoversRows /\ [Next]_vars => KnownFirst' /\ KnownCoversRows'
  BY NextKnownFirst
<1> QED
  BY <1>1, <1>2, AlwaysShape, PTL DEF Spec

-----------------------------------------------------------------------------
(* A pool of one worker implements Answers *)

OneProcess == \A p, q \in Processes : p = q

\* A transaction writes back the column as it is, and the comment it answers
\* stays answered; rows to come have no comments.
Aligned ==
    /\ \A p \in Processes :
        pc[p] \in {"post", "mark_read", "mark_write"} /\ msg[p] \in FollowUps
            => <<msg[p], "assistant_response">> \in comments[row[p]]
    /\ \A p \in Processes :
        pc[p] \in {"append_write", "answer_write", "mark_write"} => snapshot[p] = comments[row[p]]
    /\ \A i \in Rows : i > rows => comments[i] = {}

\* A task adds an entry to a comments column.
Writes(p, key) ==
    /\ comments' = [comments EXCEPT ![row[p]] = @ \union {<<msg[p], key>>}]
    /\ UNCHANGED <<rows, thread, answers, marked, posted, scores>>

\* What only looks at the table, Slack and the scores.
Looks == UNCHANGED <<table, posted, scores>>

\* Who writes to the table, to Slack and to the scores.
LEMMA Writers ==
    ASSUME Shape, Aligned, [Next]_vars
    PROVE  \/ Looks
           \/ \E p \in Processes :
                \/ Add(p) \/ StoreAnswer(p) \/ Post(p) \/ PostTimesOut(p) \/ MarkAnswer(p) \/ AddScore(p)
                \/ AppendWrite(p) /\ Writes(p, "text")
                \/ AnswerWrite(p) /\ Writes(p, "assistant_response")
                \/ MarkWrite(p) /\ Writes(p, "assistant_response_posted_on_slack")
<1>1. ASSUME NEW p \in Processes, TaskAction(p),
             ~(\/ Add(p) \/ StoreAnswer(p) \/ Post(p) \/ PostTimesOut(p) \/ MarkAnswer(p) \/ AddScore(p)
               \/ AppendWrite(p) \/ AnswerWrite(p) \/ MarkWrite(p))
      PROVE  Looks
  BY <1>1 DEF TaskAction, Step, Take, Resume, Start, Find, AppendRead, Query, AnswerRead, MarkRead,
     FindRated, Received, Fail, FindByThread, ReadComments, slack, Looks
<1>2. ASSUME ~\E p \in Processes : TaskAction(p) PROVE Looks
  BY <1>2, NextCases DEF Deliver, Submit, Prompt, WorkerDies, Restart, vars, slack, Looks
<1>3. ASSUME NEW p \in Processes, NEW key, WriteComments(p, msg[p], key),
             pc[p] \in {"append_write", "answer_write", "mark_write"}, UNCHANGED <<slack, scores>>
      PROVE  Writes(p, key)
  <2>1. snapshot[p] = comments[row[p]]
    BY <1>3 DEF Aligned
  <2> QED
    BY <1>3, <2>1 DEF WriteComments, Changed, Writes, slack
<1>4. ASSUME NEW p \in Processes
      PROVE  /\ AppendWrite(p) => Writes(p, "text")
             /\ AnswerWrite(p) => Writes(p, "assistant_response")
             /\ MarkWrite(p) => Writes(p, "assistant_response_posted_on_slack")
  BY <1>3 DEF AppendWrite, AnswerWrite, MarkWrite
<1> QED
  BY <1>1, <1>2, <1>4

\* The row a task writes to is one of its message's thread.
LEMMA OwnRow ==
    ASSUME Shape, NEW p \in Processes, pc[p] \in RowSteps
    PROVE  /\ row[p] \in RowsOf(ThreadOf(msg[p]))
           /\ row[p] \in 1..rows /\ row[p] \in Rows
           /\ thread[row[p]] = ThreadOf(msg[p])
  BY InteractionsAssumption DEF Shape, TypeOK, InteractionsTypeOK, Work, TaskOK, RowsOf, Rows

\* The steps of a task to where its column matters.
LEMMA AlignedSteps ==
    ASSUME Shape, NEW p \in Processes, TaskAction(p),
           pc'[p] \in {"post", "mark_read", "mark_write", "append_write", "answer_write"}
    PROVE  /\ msg'[p] = msg[p] /\ row'[p] = row[p]
           /\ \/ StoreAnswer(p) /\ msg[p] \in Questions
              \/ AnswerWrite(p) /\ pc'[p] = "post"
              \/ (Post(p) \/ PostTimesOut(p)) /\ pc[p] = "post" /\ pc'[p] = "mark_read"
              \/ /\ MarkRead(p) /\ pc[p] = "mark_read" /\ pc'[p] = "mark_write"
                 /\ snapshot'[p] = comments[row[p]]
              \/ /\ AppendRead(p) \/ AnswerRead(p)
                 /\ pc'[p] \in {"append_write", "answer_write"} /\ snapshot'[p] = comments[row[p]]
<1> USE DEF Shape, TypeOK, InteractionsTypeOK
<1>1. ASSUME End(p) PROVE FALSE
  BY <1>1 DEF End, Begin
<1>2. ASSUME NEW step, Goto(p, step) PROVE pc'[p] = step /\ msg'[p] = msg[p]
  BY <1>2 DEF Goto
<1>3. ASSUME NEW step, NEW m, Begin(p, step, m) PROVE pc'[p] = step
  BY <1>3 DEF Begin
<1>4. ASSUME ReadComments(p) PROVE snapshot'[p] = comments[row[p]] /\ row' = row
  BY <1>4 DEF ReadComments
<1>5. CASE StoreAnswer(p)
  BY <1>2, <1>5 DEF StoreAnswer, Work, TaskOK, QuestionSteps, transactions
<1>6. CASE AnswerWrite(p)
  BY <1>2, <1>6 DEF AnswerWrite, SeeComments
<1>7. CASE Post(p) \/ PostTimesOut(p)
  BY <1>1, <1>2, <1>7 DEF Post, PostTimesOut, AfterPost, transactions
<1>8. CASE MarkRead(p) \/ AppendRead(p) \/ AnswerRead(p)
  BY <1>1, <1>2, <1>4, <1>8 DEF MarkRead, AppendRead, AnswerRead
<1>9. CASE Take(p) \/ \E m \in Messages : Resume(p, m)
  BY <1>3, <1>9 DEF Take, Resume
<1>10. CASE \/ Start(p) \/ Add(p) \/ Find(p) \/ AppendWrite(p) \/ Query(p) \/ MarkAnswer(p) \/ MarkWrite(p)
            \/ FindRated(p) \/ AddScore(p) \/ Received(p) \/ Fail(p)
  BY <1>1, <1>2, <1>10 DEF Start, Add, Find, AppendWrite, Query, MarkAnswer, MarkWrite, FindRated, AddScore,
     Received, Fail
<1> QED
  BY <1>5, <1>6, <1>7, <1>8, <1>9, <1>10 DEF TaskAction, Step

LEMMA NextAligned ==
    ASSUME OneProcess
    PROVE  Shape /\ Aligned /\ [Next]_vars => Aligned'
<1> SUFFICES ASSUME Shape, Aligned, [Next]_vars PROVE Aligned'
  OBVIOUS
<1>0. /\ rows \in Nat /\ rows' \in {rows, rows + 1}
      /\ comments \in [Rows -> Comments] /\ comments' \in [Rows -> Comments]
  <2>1. rows \in Nat
    BY InteractionsAssumption DEF Shape, TypeOK, InteractionsTypeOK
  <2>2. rows' \in {rows, rows + 1}
    <3>1. ASSUME ~\E p \in Processes : TaskAction(p) PROVE rows' = rows
      BY <3>1, NextCases DEF Deliver, Submit, Prompt, WorkerDies, Restart, vars, table
    <3> QED
      BY <3>1, TableKept DEF TableGrows
  <2> QED
    BY <2>1, <2>2, NextShape DEF Shape, TypeOK, InteractionsTypeOK
<1>1. ASSUME NEW p \in Processes, TaskAction(p), ~(AppendWrite(p) \/ AnswerWrite(p) \/ MarkWrite(p))
      PROVE  comments' = comments
  BY <1>1 DEF TaskAction, Step, Take, Resume, Start, Add, Find, AppendRead, Query, StoreAnswer,
     AnswerRead, Post, PostTimesOut, MarkAnswer, MarkRead, FindRated, AddScore,
     Received, Fail, AddQuestion, FindByThread, ReadComments, AddAnswer, MarkAnswerPosted, table
<1>2. ASSUME ~\E p \in Processes : TaskAction(p) PROVE comments' = comments
  BY <1>2, NextCases DEF Deliver, Submit, Prompt, WorkerDies, Restart, vars, table
<1>3. ASSUME NEW p \in Processes, pc'[p] \in {"post", "mark_read", "mark_write"}, msg'[p] \in FollowUps
      PROVE  <<msg'[p], "assistant_response">> \in comments'[row'[p]]
  <2>1. CASE TaskAction(p)
    <3>1. CASE AnswerWrite(p)
      <4>1. Writes(p, "assistant_response") /\ pc[p] \in RowSteps
        BY <3>1 DEF AnswerWrite, WriteComments, Changed, Aligned, Writes, slack, RowSteps, FollowUpSteps
      <4>2. row[p] \in Rows /\ msg'[p] = msg[p] /\ row'[p] = row[p]
        BY <1>3, <2>1, <4>1, OwnRow, AlignedSteps
      <4> QED
        BY <1>0, <4>1, <4>2 DEF Writes
    <3>2. CASE ~AnswerWrite(p)
      <4>1. /\ msg'[p] = msg[p] /\ row'[p] = row[p] /\ pc[p] \in {"post", "mark_read"}
            /\ Post(p) \/ PostTimesOut(p) \/ MarkRead(p)
        BY <1>3, <2>1, <3>2, AlignedSteps, InteractionsAssumption
      <4>2. comments' = comments
        BY <1>1, <2>1, <4>1 DEF Post, PostTimesOut, MarkRead, AppendWrite, AnswerWrite, MarkWrite
      <4> QED
        BY <1>3, <4>1, <4>2 DEF Aligned
    <3> QED
      BY <3>1, <3>2
  <2>2. CASE ~TaskAction(p)
    <3>1. comments' = comments
      BY <1>2, <2>2 DEF OneProcess
    <3> QED
      BY <1>3, <2>2, <3>1, OtherTasks DEF Aligned
  <2> QED
    BY <2>1, <2>2
<1>4. ASSUME NEW p \in Processes, pc'[p] \in {"append_write", "answer_write", "mark_write"}
      PROVE  snapshot'[p] = comments'[row'[p]]
  <2>1. CASE TaskAction(p)
    <3>1. /\ row'[p] = row[p] /\ snapshot'[p] = comments[row[p]]
          /\ AppendRead(p) \/ AnswerRead(p) \/ MarkRead(p)
      BY <1>4, <2>1, AlignedSteps DEF StoreAnswer, Goto, Shape, TypeOK
    <3>2. comments' = comments
      BY <1>1, <2>1, <3>1 DEF AppendRead, AnswerRead, MarkRead, AppendWrite, AnswerWrite, MarkWrite
    <3> QED
      BY <3>1, <3>2
  <2>2. CASE ~TaskAction(p)
    <3>1. comments' = comments
      BY <1>2, <2>2 DEF OneProcess
    <3> QED
      BY <1>4, <2>2, <3>1, OtherTasks DEF Aligned
  <2> QED
    BY <2>1, <2>2
<1>5. ASSUME NEW i \in Rows, i > rows' PROVE comments'[i] = {}
  <2>1. i > rows /\ comments[i] = {}
    BY <1>0, <1>5, InteractionsAssumption DEF Aligned, Rows
  <2>2. ASSUME NEW p \in Processes, NEW key, Writes(p, key), pc[p] \in RowSteps PROVE comments'[i] = comments[i]
    <3>1. row[p] \in 1..rows
      BY <2>2, OwnRow
    <3>2. row[p] # i
      BY <1>0, <2>1, <3>1
    <3> QED
      BY <1>0, <2>2, <3>2 DEF Writes
  <2>3. ASSUME NEW p \in Processes, AppendWrite(p) \/ AnswerWrite(p) \/ MarkWrite(p)
        PROVE  pc[p] \in RowSteps
    BY <2>3 DEF AppendWrite, AnswerWrite, MarkWrite, RowSteps, FollowUpSteps
  <2>4. CASE \E p \in Processes : AppendWrite(p) \/ AnswerWrite(p) \/ MarkWrite(p)
    <3>1. PICK p \in Processes : AppendWrite(p) \/ AnswerWrite(p) \/ MarkWrite(p)
      BY <2>4
    <3>2. \E key \in CommentKeys : Writes(p, key)
      BY <3>1 DEF AppendWrite, AnswerWrite, MarkWrite, WriteComments, Changed, Aligned, Writes, slack, CommentKeys
    <3> QED
      BY <2>1, <2>2, <2>3, <3>1, <3>2
  <2> QED
    BY <1>1, <1>2, <2>1, <2>4
<1> QED
  BY <1>3, <1>4, <1>5 DEF Aligned

\* What the promise is about, in terms of the bot.
Stored == {q \in Questions : RowsOf(q) \intersect answers # {}} \union {f \in FollowUps : Responded(f)}
Confirmed == {q \in Questions : RowsOf(q) \intersect marked # {}} \union {f \in FollowUps : MarkedPosted(f)}
Rated == {q \in Questions : scores[q] > 0}

\* An entry for a comment adds the comment to those it is about, and no other.
LEMMA EntryCounts ==
    ASSUME Shape, NEW p \in Processes, NEW key, pc[p] \in RowSteps, msg[p] \in FollowUps, Writes(p, key),
           NEW f \in FollowUps, NEW k
    PROVE  (\E i \in RowsOf(Thread[f]) : <<f, k>> \in comments[i])'
                <=> (\E i \in RowsOf(Thread[f]) : <<f, k>> \in comments[i]) \/ <<f, k>> = <<msg[p], key>>
<1>1. /\ RowsOf(Thread[f])' = RowsOf(Thread[f])
      /\ RowsOf(Thread[f]) \subseteq Rows
  BY InteractionsAssumption DEF Shape, TypeOK, InteractionsTypeOK, Writes, RowsOf, Rows
<1>2. /\ row[p] \in RowsOf(Thread[msg[p]])
      /\ row[p] \in Rows
  BY OwnRow, ThreadType
<1>3. comments \in [Rows -> Comments]
  BY DEF Shape, TypeOK, InteractionsTypeOK
<1>4. \A i \in Rows : comments'[i] = IF i = row[p] THEN comments[i] \union {<<msg[p], key>>} ELSE comments[i]
  BY <1>2, <1>3 DEF Writes
<1> QED
  BY <1>1, <1>2, <1>4

\* The steps that keep a promise, and how.
LEMMA PromiseSteps ==
    ASSUME OneProcess, Shape, Shape', StoredFirst, PostedFirst, PromptedLast, Aligned, [Next]_vars
    PROVE  \/ UNCHANGED <<Stored, Answered, Confirmed, Rated>>
           \/ \E m \in Questions \union FollowUps :
                /\ Stored' = Stored \union {m}
                /\ UNCHANGED <<Answered, Confirmed, Rated>>
           \/ \E m \in Stored :
                /\ Answered' = Answered \union {m}
                /\ UNCHANGED <<Stored, Confirmed, Rated>>
           \/ \E m \in Answered \intersect (Questions \union FollowUps) :
                /\ Confirmed' = Confirmed \union {m}
                /\ UNCHANGED <<Stored, Answered, Rated>>
           \/ \E q \in Confirmed \intersect Questions :
                /\ Rated' = Rated \union {q}
                /\ UNCHANGED <<Stored, Answered, Confirmed>>
<1> DEFINE Goal ==
           \/ UNCHANGED <<Stored, Answered, Confirmed, Rated>>
           \/ \E m \in Questions \union FollowUps :
                /\ Stored' = Stored \union {m}
                /\ UNCHANGED <<Answered, Confirmed, Rated>>
           \/ \E m \in Stored :
                /\ Answered' = Answered \union {m}
                /\ UNCHANGED <<Stored, Confirmed, Rated>>
           \/ \E m \in Answered \intersect (Questions \union FollowUps) :
                /\ Confirmed' = Confirmed \union {m}
                /\ UNCHANGED <<Stored, Answered, Rated>>
           \/ \E q \in Confirmed \intersect Questions :
                /\ Rated' = Rated \union {q}
                /\ UNCHANGED <<Stored, Answered, Confirmed>>
<1> HIDE DEF Goal
<1>1. posted' = posted => UNCHANGED Answered
  BY DEF Answered
<1>2. scores' = scores => UNCHANGED Rated
  BY DEF Rated
<1>3. UNCHANGED <<thread, answers, comments>> => UNCHANGED Stored
  BY DEF Stored, RowsOf, Responded
<1>4. UNCHANGED <<thread, marked, comments>> => UNCHANGED Confirmed
  BY DEF Confirmed, RowsOf, MarkedPosted
<1>5. CASE Looks
  BY <1>1, <1>2, <1>3, <1>4, <1>5 DEF Looks, table, Goal
<1>6. ASSUME NEW p \in Processes, Add(p) PROVE Goal
  <2>1. /\ rows' = rows + 1 /\ rows + 1 \in Rows
        /\ thread' = [i \in 1..rows + 1 |-> IF i \in DOMAIN thread THEN thread[i] ELSE msg[p]]
        /\ UNCHANGED <<answers, marked, comments, posted, scores>>
    BY <1>6, InteractionsAssumption DEF Add, AddQuestion, slack, Shape, TypeOK, InteractionsTypeOK, Rows
  <2>2. /\ rows \in Nat /\ DOMAIN thread = 1..rows
        /\ answers \subseteq 1..rows /\ marked \subseteq 1..rows
    BY InteractionsAssumption DEF Shape, TypeOK, InteractionsTypeOK
  <2>3. comments[rows + 1] = {}
    BY <2>1, <2>2 DEF Aligned
  <2>4. \A q : RowsOf(q) \subseteq RowsOf(q)' /\ RowsOf(q)' \subseteq RowsOf(q) \union {rows + 1}
    BY <2>1, <2>2 DEF RowsOf
  <2>5. rows + 1 \notin answers /\ rows + 1 \notin marked
    BY <2>2
  <2>6. \A q \in Questions : /\ RowsOf(q)' \intersect answers' = RowsOf(q) \intersect answers
                             /\ RowsOf(q)' \intersect marked' = RowsOf(q) \intersect marked
    BY <2>1, <2>4, <2>5
  <2>7. \A f \in FollowUps : (Responded(f)' <=> Responded(f)) /\ (MarkedPosted(f)' <=> MarkedPosted(f))
    BY <2>1, <2>3, <2>4 DEF Responded, MarkedPosted
  <2> QED
    BY <1>1, <1>2, <2>1, <2>6, <2>7 DEF Stored, Confirmed, Goal
<1>7. ASSUME NEW p \in Processes, StoreAnswer(p) PROVE Goal
  <2>1. /\ msg[p] \in Questions /\ row[p] \in RowsOf(msg[p]) /\ thread[row[p]] = msg[p]
        /\ answers' = answers \union {row[p]}
        /\ UNCHANGED <<thread, marked, comments, posted, scores>>
    BY <1>7, OwnRow DEF StoreAnswer, AddAnswer, slack, Shape, Work, TaskOK, QuestionSteps, RowSteps, ThreadOf
  <2>2. \A q \in Questions : RowsOf(q)' \intersect answers' # {}
            <=> RowsOf(q) \intersect answers # {} \/ q = msg[p]
    BY <2>1 DEF RowsOf
  <2>3. \A f \in FollowUps : Responded(f)' <=> Responded(f)
    BY <2>1 DEF RowsOf, Responded
  <2>4. Stored' = Stored \union {msg[p]}
    BY <2>1, <2>2, <2>3 DEF Stored
  <2> QED
    BY <1>1, <1>2, <1>4, <2>1, <2>4 DEF Goal
<1>8. ASSUME NEW p \in Processes, Post(p) \/ PostTimesOut(p) PROVE Goal
  <2>1. /\ pc[p] = "post" /\ UNCHANGED <<table, scores>>
        /\ \E copies \in {1, 2} : posted' = [posted EXCEPT ![msg[p]] = @ + copies]
    BY <1>8 DEF Post, PostTimesOut
  <2>2. msg[p] \in Questions \union FollowUps /\ msg[p] \in Messages
    BY <2>1, ThreadType DEF Shape, Work, TaskOK, EitherSteps
  <2>3. Answered' = Answered \union {msg[p]}
    BY <2>1, <2>2 DEF Answered, Shape, TypeOK
  <2>4. row[p] \in RowsOf(ThreadOf(msg[p]))
    BY <2>1, OwnRow DEF RowSteps, EitherSteps
  <2>5. ASSUME msg[p] \in Questions PROVE msg[p] \in Stored
    BY <2>1, <2>4, <2>5 DEF StoredFirst, Stored, ThreadOf
  <2>6. ASSUME msg[p] \in FollowUps PROVE msg[p] \in Stored
    BY <2>1, <2>4, <2>6, ThreadType DEF Aligned, Stored, Responded
  <2>7. msg[p] \in Stored
    BY <2>2, <2>5, <2>6
  <2> QED
    BY <1>2, <1>3, <1>4, <2>1, <2>3, <2>7 DEF table, Goal
<1>9. ASSUME NEW p \in Processes, MarkAnswer(p) PROVE Goal
  <2>1. /\ msg[p] \in Questions /\ row[p] \in RowsOf(msg[p]) /\ thread[row[p]] = msg[p]
        /\ marked' = marked \union {row[p]} /\ posted[msg[p]] > 0
        /\ UNCHANGED <<thread, answers, comments, posted, scores>>
    BY <1>9, OwnRow DEF MarkAnswer, MarkAnswerPosted, slack, Shape, Work, TaskOK, QuestionSteps, RowSteps,
       ThreadOf, PostedFirst
  <2>2. \A q \in Questions : RowsOf(q)' \intersect marked' # {}
            <=> RowsOf(q) \intersect marked # {} \/ q = msg[p]
    BY <2>1 DEF RowsOf
  <2>3. \A f \in FollowUps : MarkedPosted(f)' <=> MarkedPosted(f)
    BY <2>1 DEF RowsOf, MarkedPosted
  <2>4. Confirmed' = Confirmed \union {msg[p]}
    BY <2>1, <2>2, <2>3 DEF Confirmed
  <2>5. msg[p] \in Answered
    BY <2>1, ThreadType DEF Answered
  <2> QED
    BY <1>1, <1>2, <1>3, <2>1, <2>4, <2>5 DEF Goal
<1>10. ASSUME NEW p \in Processes, AddScore(p) PROVE Goal
  <2>1. /\ msg[p] \in Clicks /\ Thread[msg[p]] \in Questions
        /\ scores' = [scores EXCEPT ![Thread[msg[p]]] = @ + 1]
        /\ UNCHANGED <<table, posted>>
    BY <1>10, ThreadType DEF AddScore, slack, Shape, Work, TaskOK, ClickSteps
  <2>2. Rated' = Rated \union {Thread[msg[p]]}
    BY <2>1 DEF Rated, Shape, TypeOK
  <2>3. Thread[msg[p]] \in Confirmed
    BY <2>1 DEF PromptedLast, Promised, Confirmed
  <2> QED
    BY <1>1, <1>3, <1>4, <2>1, <2>2, <2>3 DEF table, Goal
<1>11. ASSUME NEW p \in Processes, AppendWrite(p) \/ AnswerWrite(p) \/ MarkWrite(p)
       PROVE  pc[p] \in RowSteps /\ msg[p] \in FollowUps
  BY <1>11 DEF AppendWrite, AnswerWrite, MarkWrite, RowSteps, FollowUpSteps, Shape, Work, TaskOK
<1>12. ASSUME NEW p \in Processes, NEW key, Writes(p, key), pc[p] \in RowSteps, msg[p] \in FollowUps
       PROVE  /\ key # "assistant_response" => UNCHANGED Stored
              /\ key = "assistant_response" => Stored' = Stored \union {msg[p]}
              /\ key # "assistant_response_posted_on_slack" => UNCHANGED Confirmed
              /\ key = "assistant_response_posted_on_slack" => Confirmed' = Confirmed \union {msg[p]}
              /\ UNCHANGED <<Answered, Rated>>
  <2>1. \A q \in Questions : /\ RowsOf(q)' \intersect answers' = RowsOf(q) \intersect answers
                             /\ RowsOf(q)' \intersect marked' = RowsOf(q) \intersect marked
    BY <1>12 DEF Writes, RowsOf
  <2>2. \A f \in FollowUps :
            Responded(f)' <=> Responded(f) \/ <<f, "assistant_response">> = <<msg[p], key>>
    BY <1>12, EntryCounts DEF Responded
  <2>3. \A f \in FollowUps :
            MarkedPosted(f)' <=> MarkedPosted(f) \/ <<f, "assistant_response_posted_on_slack">> = <<msg[p], key>>
    BY <1>12, EntryCounts DEF MarkedPosted
  <2>4. /\ key # "assistant_response" => UNCHANGED Stored
        /\ key = "assistant_response" => Stored' = Stored \union {msg[p]}
    BY <1>12, <2>1, <2>2 DEF Stored
  <2>5. /\ key # "assistant_response_posted_on_slack" => UNCHANGED Confirmed
        /\ key = "assistant_response_posted_on_slack" => Confirmed' = Confirmed \union {msg[p]}
    BY <1>12, <2>1, <2>3 DEF Confirmed
  <2> QED
    BY <1>1, <1>2, <1>12, <2>4, <2>5 DEF Writes
<1>13. ASSUME NEW p \in Processes, AppendWrite(p), Writes(p, "text") PROVE Goal
  BY <1>11, <1>12, <1>13 DEF Goal
<1>14. ASSUME NEW p \in Processes, AnswerWrite(p), Writes(p, "assistant_response") PROVE Goal
  BY <1>11, <1>12, <1>14 DEF Goal
<1>15. ASSUME NEW p \in Processes, MarkWrite(p), Writes(p, "assistant_response_posted_on_slack") PROVE Goal
  <2>1. msg[p] \in Answered
    BY <1>11, <1>15, ThreadType DEF MarkWrite, PostedFirst, Answered
  <2> QED
    BY <1>11, <1>12, <1>15, <2>1 DEF Goal
<1>16. ASSUME ~Looks PROVE Goal
  <2>1. PICK p \in Processes :
            \/ Add(p) \/ StoreAnswer(p) \/ Post(p) \/ PostTimesOut(p) \/ MarkAnswer(p) \/ AddScore(p)
            \/ AppendWrite(p) /\ Writes(p, "text")
            \/ AnswerWrite(p) /\ Writes(p, "assistant_response")
            \/ MarkWrite(p) /\ Writes(p, "assistant_response_posted_on_slack")
    BY <1>16, Writers
  <2> QED
    BY <2>1, <1>6, <1>7, <1>8, <1>9, <1>10, <1>13, <1>14, <1>15
<1> QED
  BY <1>5, <1>16 DEF Goal

LEMMA AlwaysPrepared ==
    ASSUME OneProcess
    PROVE  Spec => [](Shape /\ StoredFirst /\ PostedFirst /\ PromptedLast /\ Aligned)
<1>1. Init => /\ StoredFirst /\ PostedAnswerStored /\ PostedFirst /\ PromptedLast
              /\ ScoredIsMarked /\ Aligned
  BY ThreadType, ChatBotAssumption
  DEF Init, InteractionsInit, StoredFirst, PostedAnswerStored, PostedFirst, NoFalseMark, PromptedLast,
      ScoredIsMarked, Aligned
<1>2. Shape /\ Aligned /\ [Next]_vars => Aligned'
  BY NextAligned
<1> QED
  BY <1>1, <1>2, AlwaysShape, NextStored, NextPostedFirst, NextPromptedLast, PTL DEF Spec

\* The bot with one worker implements Answers: whatever fails, times out, dies or
\* is restarted, each message's answer is stored, shown, confirmed and rated in
\* this order, and nothing of it is taken back.
THEOREM BotKeepsPromise ==
    ASSUME OneProcess
    PROVE  Spec => KeepsPromise
<1>1. Init => Promise!Init
  BY ChatBotAssumption DEF Init, InteractionsInit, Promise!Init, Answered, RowsOf, Responded, MarkedPosted
<1>2. Shape /\ StoredFirst /\ PostedFirst /\ PromptedLast /\ Aligned /\ Shape' /\ [Next]_vars
        => [Promise!Next]_(Promise!answersVars)
  <2> SUFFICES ASSUME Shape, StoredFirst, PostedFirst, PromptedLast, Aligned, Shape', [Next]_vars
               PROVE  [Promise!Next]_(Promise!answersVars)
    OBVIOUS
  <2>1. Stored \subseteq Questions \union FollowUps
    BY DEF Stored
  <2> QED
    BY <2>1, PromiseSteps
    DEF Promise!Next, Promise!Store, Promise!Show, Promise!Confirm, Promise!Rate, Promise!answersVars,
        Stored, Confirmed, Rated
<1> QED
  BY <1>1, <1>2, AlwaysPrepared, PTL DEF Spec, KeepsPromise, Promise!Spec

=============================================================================
