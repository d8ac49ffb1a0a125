------------------------ MODULE ChatBotHistory_proofs ------------------------
(***************************************************************************)
(* Proofs about what a follow-up is answered with, and how often: that its *)
(* history holds what was in Slack when it was written, and that it is     *)
(* answered once.  They rest on a thread having one row, which it has when *)
(* Slack delivers the question once: thread_id is not unique, and a second *)
(* delivery inserts a second row.                                          *)
(***************************************************************************)
EXTENDS ChatBot_proofs

\* Slack delivers no question a second time.  Follow-ups and clicks it may.
QuestionsOnce == \A q \in Questions : MaxDeliveries[q] <= 1

-----------------------------------------------------------------------------
(* Delivered first *)

\* A message between its delivery and the end of its task, parked or not.
InHand(m) ==
    \/ routed[m] > 0
    \/ \E k \in 1..Len(queue) : queue[k] = m
    \/ m \in parked
    \/ \E p \in Processes : msg[p] = m

\* What the bot has in hand was delivered, and what a follow-up saw is in Slack.
DeliveredFirst ==
    /\ \A m \in Messages : InHand(m) => delivered[m] > 0
    /\ \A f \in FollowUps : \A m \in seen[f] : posted[m] > 0

\* Deliveries are all that changes what was delivered and seen, or puts a new
\* message in hand.
LEMMA Deliveries ==
    ASSUME Shape, [Next]_vars
    PROVE  \/ delivered' = delivered /\ seen' = seen /\ (\A m \in Messages : routed'[m] <= routed[m])
           \/ \E m \in Messages : Deliver(m)
<1>1. ASSUME NEW p \in Processes, TaskAction(p) PROVE UNCHANGED <<delivered, seen, routed>>
  BY <1>1 DEF TaskAction, Step, Take, Resume, Start, Add, Find, AppendRead, AppendWrite, Query, StoreAnswer,
     AnswerRead, AnswerWrite, Post, PostTimesOut, MarkAnswer, MarkRead, MarkWrite, FindRated, AddScore,
     Received, Fail, bot, slack
<1>2. routed \in [Messages -> Nat]
  BY DEF Shape, TypeOK
<1>3. ASSUME NEW m \in Messages, Submit(m)
      PROVE  delivered' = delivered /\ seen' = seen /\ (\A n \in Messages : routed'[n] <= routed[n])
  BY <1>2, <1>3 DEF Submit, slack
<1>4. CASE \E p \in Processes, q \in Questions : Prompt(p, q)
  BY <1>2, <1>4 DEF Prompt, bot
<1>5. CASE WorkerDies
  BY <1>2, <1>5 DEF WorkerDies, slack
<1>6. CASE Restart
  BY <1>2, <1>6 DEF Restart, slack
<1>7. CASE UNCHANGED vars
  BY <1>2, <1>7 DEF vars, bot, slack
<1> QED
  BY <1>1, <1>2, <1>3, <1>4, <1>5, <1>6, <1>7, NextCases

LEMMA DeliverCounts ==
    ASSUME Shape, NEW m \in Messages, Deliver(m)
    PROVE  /\ delivered'[m] = delivered[m] + 1
           /\ \A n \in Messages \ {m} : delivered'[n] = delivered[n] /\ routed'[n] = routed[n]
           /\ routed'[m] \in {routed[m], routed[m] + 1}
           /\ \A f \in FollowUps : seen'[f] = seen[f] \/ (seen'[f] = Answered /\ f = m /\ delivered[m] = 0)
           /\ UNCHANGED <<table, transactions, tasks, queue, parked, posted>>
<1>1. /\ delivered'[m] = delivered[m] + 1
      /\ \A n \in Messages \ {m} : delivered'[n] = delivered[n]
  BY DEF Shape, TypeOK, Deliver
<1>2. \A n \in Messages \ {m} : routed'[n] = routed[n]
  BY DEF Shape, TypeOK, Deliver
<1>3. routed'[m] \in {routed[m], routed[m] + 1}
  BY DEF Shape, TypeOK, Deliver
<1>4. \A f \in FollowUps : seen'[f] = seen[f] \/ (seen'[f] = Answered /\ f = m /\ delivered[m] = 0)
  BY DEF Deliver
<1>5. UNCHANGED <<table, transactions, tasks, queue, parked, posted>>
  BY DEF Deliver
<1> QED
  BY <1>1, <1>2, <1>3, <1>4, <1>5

\* What is parked was parked before, or was in a task's hands.
LEMMA ParkedMoves ==
    ASSUME Shape, [Next]_vars
    PROVE  \A m \in parked' : m \in parked \/ \E p \in Processes : Start(p) /\ msg[p] = m
<1>1. ASSUME NEW p \in Processes, TaskAction(p), ~Start(p) PROVE parked' \subseteq parked
  BY <1>1 DEF TaskAction, Step, Take, Resume, Add, Find, AppendRead, AppendWrite, Query, StoreAnswer,
     AnswerRead, AnswerWrite, Post, PostTimesOut, MarkAnswer, MarkRead, MarkWrite, FindRated, AddScore,
     Received, Fail
<1>2. ASSUME NEW p \in Processes, Start(p) PROVE parked' \subseteq parked \union {msg[p]}
  BY <1>2 DEF Start
<1>3. ASSUME ~\E p \in Processes : TaskAction(p) PROVE parked' = parked
  BY <1>3, NextCases DEF Deliver, Submit, Prompt, WorkerDies, Restart, vars
<1> QED
  BY <1>1, <1>2, <1>3

LEMMA InHandMoves ==
    ASSUME Shape, [Next]_vars, NEW m \in Messages, InHand(m)'
    PROVE  InHand(m) \/ Deliver(m)
<1>1. CASE routed'[m] > 0
  <2>1. CASE \A n \in Messages : routed'[n] <= routed[n]
    <3>1. routed[m] \in Nat /\ routed'[m] \in Nat
      BY NextShape DEF Shape, TypeOK
    <3> QED
      BY <1>1, <2>1, <3>1 DEF InHand
  <2>2. CASE \E n \in Messages : Deliver(n)
    BY <1>1, <2>2, DeliverCounts DEF InHand
  <2> QED
    BY <2>1, <2>2, Deliveries
<1>2. CASE \E k \in 1..Len(queue') : queue'[k] = m
  BY <1>2, QueueMoves DEF InHand
<1>3. CASE m \in parked'
  BY <1>3, ParkedMoves DEF InHand
<1>4. CASE \E p \in Processes : msg'[p] = m
  <2>1. m # NoMessage
    BY ChatBotAssumption
  <2> QED
    BY <1>4, <2>1, QueueMoves DEF InHand
<1> QED
  BY <1>1, <1>2, <1>3, <1>4 DEF InHand

LEMMA NextDelivered == Shape /\ DeliveredFirst /\ [Next]_vars => DeliveredFirst'
<1> SUFFICES ASSUME Shape, DeliveredFirst, [Next]_vars PROVE DeliveredFirst'
  OBVIOUS
<1>0. /\ delivered \in [Messages -> Nat] /\ seen \in [FollowUps -> SUBSET Messages]
      /\ posted \in [Messages -> Nat] /\ posted' \in [Messages -> Nat]
  BY NextShape DEF Shape, TypeOK
<1>1. ASSUME NEW m \in Messages, InHand(m)' PROVE delivered'[m] > 0
  <2>1. delivered'[m] >= delivered[m]
    BY <1>0, Deliveries, DeliverCounts
  <2>2. CASE Deliver(m)
    BY <1>0, <2>2, DeliverCounts
  <2>3. CASE InHand(m)
    BY <1>0, <2>1, <2>3, NextShape DEF DeliveredFirst, Shape, TypeOK
  <2> QED
    BY <1>1, <2>2, <2>3, InHandMoves
<1>2. ASSUME NEW f \in FollowUps, NEW m \in seen'[f] PROVE posted'[m] > 0
  <2>1. m \in seen[f] \/ m \in Answered
    BY Deliveries, DeliverCounts
  <2>2. m \in Messages /\ posted[m] > 0
    BY <1>0, <2>1 DEF DeliveredFirst, Answered
  <2> QED
    BY <1>0, <2>2, PostedChanges
<1> QED
  BY <1>1, <1>2 DEF DeliveredFirst

LEMMA InitDelivered == Init => DeliveredFirst
  BY ThreadType, ChatBotAssumption DEF Init, DeliveredFirst, InHand

\* What a follow-up in hand has seen is settled.
LEMMA SeenSettled ==
    ASSUME Shape, DeliveredFirst, [Next]_vars, NEW f \in FollowUps, InHand(f)
    PROVE  seen'[f] = seen[f]
<1>1. f \in Messages /\ delivered[f] > 0
  BY ThreadType DEF DeliveredFirst
<1> QED
  BY <1>1, Deliveries, DeliverCounts

-----------------------------------------------------------------------------
(* One row for a thread *)

\* Where a question without a row can be: in the queue, or with a task.
InQueue(q) == {k \in 1..Len(queue) : queue[k] = q}
AtStart(q) == {p \in Processes : msg[p] = q /\ pc[p] \in {"start", "add"}}

Pending(q) == routed[q] > 0 \/ InQueue(q) # {} \/ q \in parked \/ AtStart(q) # {}

\* It is in one place at a time.
AtOnePlace(q) ==
    /\ routed[q] > 0 => routed[q] = 1 /\ InQueue(q) = {} /\ q \notin parked /\ AtStart(q) = {}
    /\ InQueue(q) # {} => q \notin parked /\ AtStart(q) = {}
    /\ q \in parked => AtStart(q) = {}
    /\ \A j, k \in InQueue(q) : j = k
    /\ \A p, r \in AtStart(q) : p = r

\* And gets its row as it leaves the last of them.
RowLast(q) ==
    /\ delivered[q] <= 1
    /\ delivered[q] = 0 \/ Pending(q) => RowsOf(q) = {}
    /\ \A i, j \in RowsOf(q) : i = j

RowsOnce == \A q \in Questions : AtOnePlace(q) /\ RowLast(q)

\* A question arrives at a task by Take and Resume only.
LEMMA Arrivals ==
    ASSUME Shape, [Next]_vars, NEW q \in Questions, NEW p \in AtStart(q)'
    PROVE  \/ p \in AtStart(q)
           \/ Take(p) /\ Head(queue) = q
           \/ Resume(p, q)
<1>1. p \in Processes /\ msg'[p] = q /\ pc'[p] \in {"start", "add"} /\ q # NoMessage
  BY ThreadType, ChatBotAssumption DEF AtStart
<1>2. ASSUME NEW step, NEW m, Begin(p, step, m) PROVE msg'[p] = m
  BY <1>1, <1>2 DEF Shape, TypeOK, Begin
<1>3. ASSUME NEW step, Goto(p, step) PROVE pc'[p] = step /\ msg'[p] = msg[p]
  BY <1>1, <1>3 DEF Shape, TypeOK, Goto
<1>4. ~End(p)
  BY <1>1, <1>2 DEF End
<1>5. CASE ~TaskAction(p)
  BY <1>1, <1>5, OtherTasks DEF AtStart
<1>6. CASE Take(p)
  BY <1>1, <1>2, <1>6 DEF Take
<1>7. CASE \E m \in Messages : Resume(p, m)
  BY <1>1, <1>2, <1>7 DEF Resume
<1>8. CASE Start(p)
  BY <1>1, <1>3, <1>4, <1>8 DEF Start, AtStart
<1>9. CASE \/ Add(p) \/ Find(p) \/ AppendRead(p) \/ AppendWrite(p) \/ Query(p)
           \/ StoreAnswer(p) \/ AnswerRead(p) \/ AnswerWrite(p) \/ Post(p) \/ PostTimesOut(p)
           \/ MarkAnswer(p) \/ MarkRead(p) \/ MarkWrite(p)
           \/ FindRated(p) \/ AddScore(p) \/ Received(p) \/ Fail(p)
  BY <1>1, <1>3, <1>4, <1>9 DEF Add, Find, AppendRead, AppendWrite, Query, StoreAnswer, AnswerRead, AnswerWrite,
     Post, PostTimesOut, AfterPost, MarkAnswer, MarkRead, MarkWrite, FindRated, AddScore, Received, Fail
<1> QED
  BY <1>5, <1>6, <1>7, <1>8, <1>9 DEF TaskAction, Step

\* Only Add inserts a row, of its task's question.
LEMMA RowsInserted ==
    ASSUME Shape, [Next]_vars, NEW q \in Questions
    PROVE  \/ RowsOf(q)' = RowsOf(q)
           \/ \E p \in Processes :
                /\ Add(p) /\ p \in AtStart(q) /\ p \notin AtStart(q)'
                /\ RowsOf(q)' = RowsOf(q) \union {rows + 1}
<1>1. ASSUME thread' = thread PROVE RowsOf(q)' = RowsOf(q)
  BY <1>1 DEF RowsOf
<1>2. ASSUME NEW p \in Processes, Add(p)
      PROVE  \/ RowsOf(q)' = RowsOf(q)
             \/ /\ p \in AtStart(q) /\ p \notin AtStart(q)'
                /\ RowsOf(q)' = RowsOf(q) \union {rows + 1}
  <2>1. /\ pc[p] = "add" /\ pc'[p] = "query"
        /\ thread' = [i \in 1..rows + 1 |-> IF i \in DOMAIN thread THEN thread[i] ELSE msg[p]]
        /\ DOMAIN thread = 1..rows /\ rows \in Nat
    BY <1>2, InteractionsAssumption DEF Shape, TypeOK, InteractionsTypeOK, Add, AddQuestion, Goto
  <2>2. RowsOf(q)' = IF msg[p] = q THEN RowsOf(q) \union {rows + 1} ELSE RowsOf(q)
    BY <2>1 DEF RowsOf
  <2> QED
    BY <2>1, <2>2 DEF AtStart
<1>3. ASSUME NEW p \in Processes, TaskAction(p), ~Add(p) PROVE thread' = thread
  BY <1>3 DEF TaskAction, Step, Take, Resume, Start, Find, AppendRead, AppendWrite, Query, StoreAnswer,
     AnswerRead, AnswerWrite, Post, PostTimesOut, MarkAnswer, MarkRead, MarkWrite, FindRated, AddScore,
     Received, Fail, FindByThread, ReadComments, WriteComments, AddAnswer, MarkAnswerPosted, table
<1>4. ASSUME ~\E p \in Processes : TaskAction(p) PROVE thread' = thread
  BY <1>4, NextCases DEF Deliver, Submit, Prompt, WorkerDies, Restart, vars, table
<1> QED
  BY <1>1, <1>2, <1>3, <1>4

\* The steps that move no question into the queue or to a task.
LEMMA PlacesKept ==
    ASSUME NEW q \in Questions, AtOnePlace(q), routed[q] \in Nat, routed'[q] \in Nat, routed'[q] <= routed[q],
           queue' = queue \/ queue' = <<>>, q \in parked' => q \in parked, AtStart(q)' \subseteq AtStart(q)
    PROVE  AtOnePlace(q)' /\ (Pending(q)' => Pending(q))
<1>1. InQueue(q)' \subseteq InQueue(q)
  <2>1. queue' = queue => InQueue(q)' = InQueue(q)
    BY DEF InQueue
  <2>2. queue' = <<>> => InQueue(q)' = {}
    BY DEF InQueue
  <2> QED
    BY <2>1, <2>2
<1> QED
  BY <1>1 DEF AtOnePlace, Pending

LEMMA NextRowsOnce ==
    ASSUME QuestionsOnce
    PROVE  Shape /\ DeliveredFirst /\ RowsOnce /\ [Next]_vars => RowsOnce'
<1> SUFFICES ASSUME Shape, DeliveredFirst, RowsOnce, [Next]_vars, NEW q \in Questions
             PROVE  AtOnePlace(q)' /\ RowLast(q)'
  BY DEF RowsOnce
<1>0. /\ q \in Messages /\ q # NoMessage
      /\ routed[q] \in Nat /\ routed'[q] \in Nat
      /\ delivered[q] \in Nat /\ delivered'[q] \in Nat
      /\ queue \in Seq(Messages)
      /\ msg \in [Processes -> Messages \union {NoMessage}] /\ pc \in [Processes -> Steps]
  <2>1. Shape /\ Shape'
    BY NextShape
  <2>2. q \in Messages /\ q # NoMessage
    BY ThreadType, ChatBotAssumption
  <2> QED
    BY <2>1, <2>2 DEF Shape, TypeOK
<1>1. AtOnePlace(q) /\ RowLast(q)
  BY DEF RowsOnce
<1>2. InHand(q) => delivered[q] > 0
  BY <1>0 DEF DeliveredFirst
<1>3. Pending(q) => InHand(q)
  BY DEF Pending, InHand, InQueue, AtStart
\* The first delivery.
<1>4. CASE Deliver(q)
  <2>1. delivered[q] = 0 /\ delivered'[q] = 1
    <3>1. delivered[q] < MaxDeliveries[q] /\ delivered'[q] = delivered[q] + 1
      BY <1>0, <1>4, DeliverCounts DEF Deliver
    <3>2. MaxDeliveries[q] \in Nat /\ MaxDeliveries[q] <= 1
      BY <1>0, ChatBotAssumption DEF QuestionsOnce
    <3> QED
      BY <1>0, <3>1, <3>2
  <2>2. ~InHand(q) /\ ~Pending(q) /\ RowsOf(q) = {}
    BY <1>1, <1>2, <1>3, <2>1 DEF RowLast
  <2>3. /\ routed'[q] \in {0, 1}
        /\ InQueue(q)' = {} /\ q \notin parked' /\ AtStart(q)' = {} /\ RowsOf(q)' = {}
    BY <1>0, <1>4, <2>2, DeliverCounts DEF Pending, InQueue, AtStart, RowsOf, table, tasks
  <2> QED
    BY <2>1, <2>3 DEF AtOnePlace, RowLast
\* In every other step, q is delivered or not as before.
<1>5. ASSUME ~Deliver(q), AtOnePlace(q)', Pending(q)' => Pending(q) PROVE AtOnePlace(q)' /\ RowLast(q)'
  <2>1. delivered'[q] = delivered[q]
    BY <1>0, <1>5, Deliveries, DeliverCounts
  <2>2. CASE RowsOf(q)' = RowsOf(q)
    BY <1>1, <1>5, <2>1, <2>2 DEF RowLast
  <2>3. ASSUME NEW p \in Processes, Add(p), p \in AtStart(q), p \notin AtStart(q)',
               RowsOf(q)' = RowsOf(q) \union {rows + 1}
        PROVE  RowLast(q)'
    <3>1. Pending(q) /\ delivered[q] > 0
      BY <1>2, <1>3, <2>3 DEF Pending
    <3>2. routed[q] = 0 /\ InQueue(q) = {} /\ q \notin parked /\ AtStart(q) = {p}
      BY <1>0, <1>1, <2>3 DEF AtOnePlace
    <3>3. routed'[q] = 0 /\ InQueue(q)' = {} /\ q \notin parked' /\ AtStart(q)' = {}
      <4>1. UNCHANGED <<routed, queue, parked>>
        BY <2>3 DEF Add, bot
      <4>2. ASSUME NEW r \in AtStart(q)' PROVE FALSE
        <5>1. r \notin AtStart(q)
          BY <2>3, <3>2, <4>2
        <5>2. queue' # Tail(queue) \/ ~Take(r)
          BY <2>3 DEF Add, Take, Goto, Begin, Shape, TypeOK
        <5> QED
          BY <1>0, <2>3, <3>2, <4>1, <4>2, <5>1, Arrivals DEF Resume, Take, InQueue
      <4> QED
        BY <3>2, <4>1, <4>2 DEF InQueue
    <3>4. ~Pending(q)' /\ RowsOf(q)' = {rows + 1}
      BY <1>1, <2>3, <3>1, <3>3 DEF Pending, RowLast
    <3> QED
      BY <1>1, <2>1, <3>1, <3>4 DEF RowLast
  <2> QED
    BY <1>5, <2>2, <2>3, RowsInserted
\* The first in the queue.
<1>6. ASSUME NEW p \in Processes, Take(p) PROVE AtOnePlace(q)' /\ (Pending(q)' => Pending(q))
  <2>1. /\ queue # <<>> /\ queue' = Tail(queue) /\ UNCHANGED <<routed, parked>>
        /\ pc' = [pc EXCEPT ![p] = IF Head(queue) \in Clicks THEN "find_rated" ELSE "start"]
        /\ msg' = [msg EXCEPT ![p] = Head(queue)]
    BY <1>6 DEF Take, Begin
  <2>2. /\ Len(queue) \in Nat \ {0} /\ Len(queue') = Len(queue) - 1
        /\ \A k \in 1..Len(queue') : queue'[k] = queue[k + 1]
        /\ Head(queue) = queue[1]
    BY <1>0, <2>1
  <2>3. InQueue(q)' = {k \in 1..Len(queue') : k + 1 \in InQueue(q)}
    BY <2>2 DEF InQueue
  <2>4. CASE Head(queue) = q
    <3>1. 1 \in InQueue(q)
      BY <2>2, <2>4 DEF InQueue
    <3>2. InQueue(q)' = {} /\ AtStart(q) = {} /\ routed[q] = 0 /\ q \notin parked
      BY <1>0, <1>1, <2>2, <2>3, <3>1 DEF AtOnePlace
    <3>3. AtStart(q)' \subseteq {p}
      BY <1>0, <2>1, <3>2 DEF AtStart
    <3> QED
      BY <2>1, <3>1, <3>2, <3>3 DEF AtOnePlace, Pending
  <2>5. CASE Head(queue) # q
    <3>1. AtStart(q)' \subseteq AtStart(q)
      BY <1>0, <2>1, <2>5 DEF AtStart
    <3>2. \A j, k \in InQueue(q)' : j = k
      BY <1>1, <2>2, <2>3 DEF AtOnePlace
    <3> QED
      BY <1>1, <2>1, <2>3, <3>1, <3>2 DEF AtOnePlace, Pending
  <2> QED
    BY <2>4, <2>5
<1>7. ASSUME NEW m \in Messages, Submit(m) PROVE AtOnePlace(q)' /\ (Pending(q)' => Pending(q))
  <2>1. /\ routed[m] > 0 /\ routed' = [routed EXCEPT ![m] = @ - 1]
        /\ queue' = queue \/ queue' = Append(queue, m)
        /\ UNCHANGED <<parked, pc, msg>>
    BY <1>7 DEF Submit, tasks
  <2>2. AtStart(q)' = AtStart(q)
    BY <2>1 DEF AtStart
  <2>3. routed'[q] <= routed[q]
    BY <1>0, <2>1 DEF Shape, TypeOK
  <2>4. CASE queue' = queue
    BY <1>0, <1>1, <2>1, <2>2, <2>3, <2>4, PlacesKept
  <2>5. CASE queue' = Append(queue, m)
    <3>1. /\ Len(queue) \in Nat /\ Len(queue') = Len(queue) + 1
          /\ \A k \in 1..Len(queue) : queue'[k] = queue[k]
          /\ queue'[Len(queue) + 1] = m
      BY <1>0, <2>5
    <3>2. CASE m = q
      <4>1. routed[q] = 1 /\ InQueue(q) = {} /\ q \notin parked /\ AtStart(q) = {}
        BY <1>1, <2>1, <3>2 DEF AtOnePlace
      <4>2. routed'[q] = 0
        BY <2>1, <3>2, <4>1 DEF Shape, TypeOK
      <4>3. InQueue(q)' = {Len(queue) + 1}
        BY <3>1, <3>2, <4>1 DEF InQueue
      <4> QED
        BY <2>1, <2>2, <4>1, <4>2, <4>3 DEF AtOnePlace, Pending
    <3>3. CASE m # q
      <4>1. InQueue(q)' = InQueue(q)
        BY <3>1, <3>3 DEF InQueue
      <4>2. routed'[q] = routed[q]
        BY <1>0, <2>1, <3>3 DEF Shape, TypeOK
      <4> QED
        BY <1>1, <2>1, <2>2, <4>1, <4>2 DEF AtOnePlace, Pending
    <3> QED
      BY <3>2, <3>3
  <2> QED
    BY <2>1, <2>4, <2>5
<1>8. ASSUME NEW p \in Processes, Resume(p, q) PROVE AtOnePlace(q)' /\ (Pending(q)' => Pending(q))
  <2>1. /\ q \in parked /\ parked' = parked \ {q} /\ UNCHANGED <<routed, queue>>
        /\ msg' = [msg EXCEPT ![p] = q]
    BY <1>8 DEF Resume, Begin, bot
  <2>2. routed[q] = 0 /\ InQueue(q) = {} /\ AtStart(q) = {}
    BY <1>0, <1>1, <2>1 DEF AtOnePlace
  <2>3. AtStart(q)' \subseteq {p}
    <3>1. ASSUME NEW r \in AtStart(q)', r # p PROVE FALSE
      BY <1>0, <1>8, <2>1, <2>2, <3>1, Arrivals DEF AtStart, Resume, Begin
    <3> QED
      BY <3>1
  <2>4. InQueue(q)' = {}
    BY <2>1, <2>2 DEF InQueue
  <2> QED
    BY <2>1, <2>2, <2>3, <2>4 DEF AtOnePlace, Pending
<1>9. ASSUME NEW p \in Processes, Start(p) PROVE AtOnePlace(q)' /\ (Pending(q)' => Pending(q))
  <2>1. /\ parked' \subseteq parked \union {msg[p]} /\ UNCHANGED <<routed, queue>>
        /\ pc[p] = "start"
        /\ \A r \in Processes \ {p} : pc'[r] = pc[r] /\ msg'[r] = msg[r]
        /\ parked' = parked \/ msg'[p] = NoMessage
        /\ msg'[p] \in {msg[p], NoMessage}
    BY <1>0, <1>9 DEF Start, Goto, End, Begin, bot
  <2>2. AtStart(q)' \subseteq AtStart(q)
    BY <1>0, <2>1 DEF AtStart
  <2>3. CASE q \in parked' => q \in parked
    BY <1>0, <1>1, <2>1, <2>2, <2>3, PlacesKept
  <2>4. CASE q \in parked' /\ q \notin parked
    <3>1. msg[p] = q /\ msg'[p] # q /\ AtStart(q) = {p}
      BY <1>0, <1>1, <2>1, <2>4 DEF AtStart, AtOnePlace
    <3>2. routed[q] = 0 /\ InQueue(q) = {}
      BY <1>0, <1>1, <3>1 DEF AtOnePlace
    <3>3. AtStart(q)' = {} /\ InQueue(q)' = {} /\ routed'[q] = 0
      BY <2>1, <2>2, <3>1, <3>2 DEF AtStart, InQueue
    <3> QED
      BY <3>1, <3>3 DEF AtOnePlace, Pending
  <2> QED
    BY <2>3, <2>4
\* The rest moves no question on.
<1>10. ASSUME NEW p \in Processes, TaskAction(p), ~Take(p), ~Start(p), ~Resume(p, q)
       PROVE  AtOnePlace(q)' /\ (Pending(q)' => Pending(q))
  <2>1. /\ UNCHANGED <<routed, queue>> /\ parked' \subseteq parked
    BY <1>10 DEF TaskAction, Step, Resume, Add, Find, AppendRead, AppendWrite, Query, StoreAnswer,
       AnswerRead, AnswerWrite, Post, PostTimesOut, MarkAnswer, MarkRead, MarkWrite, FindRated, AddScore,
       Received, Fail, bot
  <2>2. AtStart(q)' \subseteq AtStart(q)
    <3>1. ASSUME NEW r \in AtStart(q)', r \notin AtStart(q), r = p PROVE FALSE
      BY <1>10, <3>1, Arrivals
    <3>2. ASSUME NEW r \in Processes, r # p PROVE pc'[r] = pc[r] /\ msg'[r] = msg[r]
      BY <1>0, <1>10, <3>2, TasksMoveAlone DEF TaskStep
    <3> QED
      BY <3>1, <3>2 DEF AtStart
  <2> QED
    BY <1>0, <1>1, <2>1, <2>2, PlacesKept
<1>11. ASSUME ~\E p \in Processes : TaskAction(p), ~\E m \in Messages : Submit(m), ~Deliver(q)
       PROVE  AtOnePlace(q)' /\ (Pending(q)' => Pending(q))
  <2>1. AtStart(q)' \subseteq AtStart(q)
    BY <1>0, <1>11, Arrivals DEF TaskAction, AtStart
  <2>2. /\ routed'[q] <= routed[q]
        /\ queue' = queue \/ queue' = <<>>
        /\ parked' = parked
    <3>1. ASSUME NEW m \in Messages, Deliver(m) PROVE routed'[q] = routed[q] /\ UNCHANGED <<queue, parked>>
      BY <1>0, <1>11, <3>1, DeliverCounts
    <3>2. CASE Restart
      BY <1>0, <3>2 DEF Restart
    <3>3. CASE WorkerDies
      BY <1>0, <3>3 DEF WorkerDies
    <3>4. CASE (\E p \in Processes, r \in Questions : Prompt(p, r)) \/ UNCHANGED vars
      <4>1. UNCHANGED <<bot, parked>>
        BY <3>4 DEF Prompt, vars
      <4> QED
        BY <1>0, <4>1 DEF bot
    <3> QED
      BY <1>0, <1>11, <3>1, <3>2, <3>3, <3>4, NextCases
  <2> QED
    BY <1>0, <1>1, <2>1, <2>2, PlacesKept
<1>12. CASE ~Deliver(q)
  BY <1>5, <1>6, <1>7, <1>8, <1>9, <1>10, <1>11, <1>12
<1> QED
  BY <1>4, <1>12

LEMMA InitRowsOnce == Init => RowsOnce
  BY ThreadType, ChatBotAssumption
  DEF Init, InteractionsInit, RowsOnce, AtOnePlace, RowLast, Pending, InQueue, AtStart, RowsOf

LEMMA AlwaysOnce ==
    ASSUME QuestionsOnce
    PROVE  Spec => [](Shape /\ DeliveredFirst /\ RowsOnce)
<1>1. Shape /\ DeliveredFirst /\ RowsOnce /\ [Next]_vars => RowsOnce'
  BY NextRowsOnce
<1> QED
  BY <1>1, AlwaysShape, InitDelivered, NextDelivered, InitRowsOnce, PTL DEF Spec

-----------------------------------------------------------------------------
(* The history has the answer *)

\* From the row it has found to the query, a follow-up has the answer to the
\* question in its history, if that was in Slack when it was written.
AnswerInHistory ==
    \A p \in Processes :
        /\ pc[p] \in {"append_read", "append_write", "query"}
        /\ msg[p] \in FollowUps
        /\ Thread[msg[p]] \in seen[msg[p]]
        => Thread[msg[p]] \in history[p]

\* How a follow-up gets to its query.
LEMMA HistorySteps ==
    ASSUME Shape, NEW p \in Processes, TaskAction(p),
           pc'[p] \in {"append_read", "append_write", "query"}, msg'[p] \in FollowUps
    PROVE  /\ msg'[p] = msg[p]
           /\ \/ /\ Find(p) /\ pc'[p] = "append_read"
                 /\ \E i \in RowsOf(Thread[msg[p]]) :
                        history'[p] = IF i \in answers THEN {Thread[msg[p]]} ELSE {}
              \/ /\ AppendRead(p) /\ pc[p] = "append_read" /\ pc'[p] = "append_write"
                 /\ history'[p] = history[p]
              \/ /\ AppendWrite(p) /\ pc[p] = "append_write" /\ pc'[p] = "query"
                 /\ history'[p] = history[p]
                        \union {c \in FollowUps : <<c, "assistant_response">> \in Changed(p, msg[p], "text")}
<1> USE DEF Shape, TypeOK, InteractionsTypeOK
<1>1. ASSUME End(p) PROVE FALSE
  BY <1>1 DEF End, Begin
<1>2. ASSUME NEW step, Goto(p, step) PROVE pc'[p] = step /\ msg'[p] = msg[p]
  BY <1>2 DEF Goto
<1>3. ASSUME NEW step, NEW m, Begin(p, step, m) PROVE pc'[p] = step
  BY <1>3 DEF Begin
<1>4. CASE Find(p)
  BY <1>1, <1>2, <1>4 DEF Find, FindByThread
<1>5. CASE AppendRead(p)
  BY <1>1, <1>2, <1>5 DEF AppendRead, ReadComments
<1>6. CASE AppendWrite(p)
  BY <1>2, <1>6 DEF AppendWrite, SeeComments
<1>7. CASE Add(p)
  BY <1>2, <1>7, InteractionsAssumption DEF Add, Work, TaskOK, QuestionSteps
<1>8. CASE Take(p) \/ \E m \in Messages : Resume(p, m)
  BY <1>3, <1>8 DEF Take, Resume
<1>9. CASE \/ Start(p) \/ Query(p) \/ StoreAnswer(p) \/ AnswerRead(p) \/ AnswerWrite(p)
           \/ Post(p) \/ PostTimesOut(p) \/ MarkAnswer(p) \/ MarkRead(p) \/ MarkWrite(p)
           \/ FindRated(p) \/ AddScore(p) \/ Received(p) \/ Fail(p)
  BY <1>1, <1>2, <1>9 DEF Start, Query, StoreAnswer, AnswerRead, AnswerWrite, Post, PostTimesOut, AfterPost,
     MarkAnswer, MarkRead, MarkWrite, FindRated, AddScore, Received, Fail
<1> QED
  BY <1>4, <1>5, <1>6, <1>7, <1>8, <1>9 DEF TaskAction, Step

\* The one row of a thread whose question was answered in Slack has the answer.
LEMMA OneRowAnswered ==
    ASSUME RowsOnce, PostedAnswerStored, NEW q \in Questions, posted[q] > 0, NEW i \in RowsOf(q)
    PROVE  i \in answers
  BY DEF RowsOnce, RowLast, PostedAnswerStored

LEMMA NextAnswerInHistory ==
    Shape /\ DeliveredFirst /\ RowsOnce /\ PostedAnswerStored /\ AnswerInHistory /\ [Next]_vars
        => AnswerInHistory'
<1> SUFFICES ASSUME Shape, DeliveredFirst, RowsOnce, PostedAnswerStored, AnswerInHistory, [Next]_vars,
                    NEW p \in Processes, pc'[p] \in {"append_read", "append_write", "query"},
                    msg'[p] \in FollowUps, Thread[msg'[p]] \in seen'[msg'[p]]
             PROVE  Thread[msg'[p]] \in history'[p]
  BY DEF AnswerInHistory
<1>1. msg'[p] = msg[p]
  <2>1. msg'[p] # NoMessage
    BY ThreadType, ChatBotAssumption
  <2> QED
    BY <2>1, HistorySteps, OtherTasks
<1>2. Thread[msg[p]] \in seen[msg[p]] /\ Thread[msg[p]] \in Questions /\ posted[Thread[msg[p]]] > 0
  <2>1. InHand(msg[p])
    BY DEF InHand
  <2> QED
    BY <1>1, <2>1, SeenSettled, ThreadType DEF DeliveredFirst
<1>3. CASE TaskAction(p)
  <2>1. CASE Find(p) /\ pc'[p] = "append_read"
    BY <1>1, <1>2, <1>3, <2>1, HistorySteps, OneRowAnswered DEF AppendRead, AppendWrite
  <2>2. CASE pc[p] \in {"append_read", "append_write"} /\ history[p] \subseteq history'[p]
    BY <1>1, <1>2, <2>2 DEF AnswerInHistory
  <2> QED
    BY <1>3, <2>1, <2>2, HistorySteps
<1>4. CASE ~TaskAction(p)
  BY <1>1, <1>2, <1>4, OtherTasks DEF AnswerInHistory
<1> QED
  BY <1>3, <1>4

LEMMA AlwaysAnswerInHistory ==
    ASSUME QuestionsOnce
    PROVE  Spec => []AnswerInHistory
<1>1. Spec => [](Shape /\ DeliveredFirst /\ RowsOnce)
  BY AlwaysOnce
<1>2. Init => AnswerInHistory
  BY DEF Init, AnswerInHistory
<1> QED
  BY <1>1, <1>2, StoredBeforePosted, NextAnswerInHistory, PTL DEF Spec

\* A follow-up written after its question was answered in Slack is answered with
\* that answer in its history, for any number of workers, follow-ups, failures,
\* deaths and restarts, if the question is delivered once.
THEOREM HistoryHasTheAnswer ==
    ASSUME QuestionsOnce
    PROVE  Spec => []HistoryHasAnswer
<1>1. AnswerInHistory => HistoryHasAnswer
  BY DEF AnswerInHistory, HistoryHasAnswer
<1>2. Spec => []AnswerInHistory
  BY AlwaysAnswerInHistory
<1> QED
  BY <1>1, <1>2, PTL

-----------------------------------------------------------------------------
(* The history is complete *)

\* What is in Slack is in the database, answers to comments too.
ShownStored == Answered \subseteq Stored


Prepared == Shape /\ StoredFirst /\ PostedFirst /\ PromptedLast /\ Aligned

LEMMA NextShownStored ==
    ASSUME OneProcess
    PROVE  Prepared /\ ShownStored /\ [Next]_vars => ShownStored'
  BY PromiseSteps, NextShape DEF Prepared, ShownStored

\* In the one row of the thread, all its answers are read at once.
LEMMA NextComplete ==
    ASSUME OneProcess
    PROVE  Prepared /\ DeliveredFirst /\ RowsOnce /\ ShownStored /\ AnswerInHistory /\ AnswerInHistory'
                /\ HistoryComplete /\ [Next]_vars => HistoryComplete'
<1> SUFFICES ASSUME Prepared, DeliveredFirst, RowsOnce, ShownStored, AnswerInHistory, AnswerInHistory',
                    HistoryComplete, [Next]_vars,
                    NEW p \in Processes, pc'[p] = "query", msg'[p] \in FollowUps,
                    NEW m \in InThread(Thread[msg'[p]]), m \in seen'[msg'[p]]
             PROVE  m \in history'[p]
  BY DEF HistoryComplete
<1>0. Shape /\ Aligned
  BY DEF Prepared
<1>1. msg'[p] = msg[p]
  <2>1. msg'[p] # NoMessage
    BY ThreadType, ChatBotAssumption
  <2> QED
    BY <1>0, <2>1, HistorySteps, OtherTasks
<1>2. m \in seen[msg[p]]
  <2>1. InHand(msg[p])
    BY DEF InHand
  <2> QED
    BY <1>0, <1>1, <2>1, SeenSettled
<1>3. CASE m = Thread[msg[p]]
  BY <1>1, <1>3 DEF AnswerInHistory
<1>4. CASE m \in FollowUps /\ Thread[m] = Thread[msg[p]] /\ TaskAction(p)
  <2>1. /\ AppendWrite(p) /\ pc[p] = "append_write"
        /\ history'[p] = history[p]
                \union {c \in FollowUps : <<c, "assistant_response">> \in Changed(p, msg[p], "text")}
    BY <1>0, <1>4, HistorySteps
  <2>2. Responded(m)
    <3>1. m \in Messages /\ posted[m] > 0
      BY <1>1, <1>2, <1>4, ThreadType DEF DeliveredFirst
    <3> QED
      BY <1>4, <3>1, InteractionsAssumption DEF ShownStored, Answered, Stored
  <2>3. row[p] \in RowsOf(Thread[m])
    BY <1>0, <1>1, <1>4, <2>1, OwnRow, ThreadType DEF RowSteps, FollowUpSteps
  <2>4. <<m, "assistant_response">> \in comments[row[p]]
    <3>1. Thread[m] \in Questions
      BY <1>4, ThreadType
    <3> QED
      BY <2>2, <2>3, <3>1 DEF Responded, RowsOnce, RowLast
  <2>5. snapshot[p] = comments[row[p]]
    BY <1>0, <2>1 DEF Aligned
  <2> QED
    BY <1>4, <2>1, <2>4, <2>5 DEF Changed
<1>5. CASE ~TaskAction(p)
  BY <1>0, <1>1, <1>2, <1>5, OtherTasks DEF HistoryComplete
<1> QED
  BY <1>1, <1>3, <1>4, <1>5 DEF InThread

\* One worker answers a follow-up with every answer of the thread that was in
\* Slack when it was written, whatever fails, times out, dies or is restarted, if
\* the question is delivered once.
THEOREM HistoryIsComplete ==
    ASSUME OneProcess, QuestionsOnce
    PROVE  Spec => []HistoryComplete
<1>1. Spec => [](Shape /\ DeliveredFirst /\ RowsOnce) /\ []AnswerInHistory /\ []Prepared
  BY AlwaysOnce, AlwaysAnswerInHistory, AlwaysPrepared DEF Prepared
<1>2. Init => ShownStored /\ HistoryComplete
  BY DEF Init, ShownStored, Answered, HistoryComplete
<1>3. Prepared /\ ShownStored /\ [Next]_vars => ShownStored'
  BY NextShownStored
<1>4. Prepared /\ DeliveredFirst /\ RowsOnce /\ ShownStored /\ AnswerInHistory /\ AnswerInHistory'
          /\ HistoryComplete /\ [Next]_vars => HistoryComplete'
  BY NextComplete
<1> QED
  BY <1>1, <1>2, <1>3, <1>4, PTL DEF Spec

-----------------------------------------------------------------------------
(* A follow-up is answered once *)

Recorded(f) == \E i \in RowsOf(Thread[f]) : <<f, "text">> \in comments[i]

\* The entry of a follow-up comes first, and is what tells the repetitions of one
\* that was answered; who got past them has posted nothing yet.
EntryFirst ==
    /\ \A f \in FollowUps : posted[f] > 0 => Recorded(f)
    /\ \A p \in Processes : msg[p] \in FollowUps =>
        /\ pc[p] \in {"query", "answer_read", "answer_write", "post"} => Recorded(msg[p])
        /\ pc[p] \in {"append_write", "query", "answer_read", "answer_write", "post"} => posted[msg[p]] = 0

\* Timeouts are counted down.
TimeoutsSpent == events["timeout"] <= MaxEvents["timeout"]

LEMMA RecordStays ==
    ASSUME Shape, Aligned, [Next]_vars, NEW f \in FollowUps, Recorded(f)
    PROVE  Recorded(f)'
<1>1. Thread[f] \in Questions
  BY ThreadType
<1>2. ASSUME UNCHANGED comments PROVE Recorded(f)'
  BY <1>1, <1>2, AnswersStay DEF Recorded
<1>3. ASSUME NEW p \in Processes, NEW key, Writes(p, key),
             AppendWrite(p) \/ AnswerWrite(p) \/ MarkWrite(p)
      PROVE  Recorded(f)'
  <2>1. pc[p] \in RowSteps /\ msg[p] \in FollowUps
    BY <1>3 DEF AppendWrite, AnswerWrite, MarkWrite, RowSteps, FollowUpSteps, Shape, Work, TaskOK
  <2> QED
    BY <1>3, <2>1, EntryCounts DEF Recorded
<1>4. ASSUME NEW p \in Processes,
             Add(p) \/ StoreAnswer(p) \/ Post(p) \/ PostTimesOut(p) \/ MarkAnswer(p) \/ AddScore(p)
      PROVE  UNCHANGED comments
  BY <1>4 DEF Add, AddQuestion, StoreAnswer, AddAnswer, Post, PostTimesOut, MarkAnswer, MarkAnswerPosted,
     AddScore, table
<1> QED
  BY <1>2, <1>3, <1>4, Writers DEF Looks, table

\* How a follow-up gets from its row to its post.
LEMMA PostingSteps ==
    ASSUME Shape, NEW p \in Processes, TaskAction(p), msg'[p] \in FollowUps,
           pc'[p] \in {"append_write", "query", "answer_read", "answer_write", "post"}
    PROVE  /\ msg'[p] = msg[p]
           /\ \/ AppendRead(p) /\ pc'[p] = "append_write" /\ ~HasComment(p, msg[p])
              \/ AppendWrite(p) /\ pc[p] = "append_write" /\ pc'[p] = "query"
              \/ /\ Query(p) \/ AnswerRead(p) \/ AnswerWrite(p)
                 /\ pc[p] \in {"query", "answer_read", "answer_write"}
                 /\ pc'[p] # "append_write"
<1> USE DEF Shape, TypeOK, InteractionsTypeOK
<1>1. ASSUME End(p) PROVE FALSE
  BY <1>1 DEF End, Begin
<1>2. ASSUME NEW step, Goto(p, step) PROVE pc'[p] = step /\ msg'[p] = msg[p]
  BY <1>2 DEF Goto
<1>3. ASSUME NEW step, NEW m, Begin(p, step, m) PROVE pc'[p] = step
  BY <1>3 DEF Begin
<1>4. CASE AppendRead(p)
  BY <1>1, <1>2, <1>4 DEF AppendRead, MayAppend
<1>5. CASE AppendWrite(p)
  BY <1>2, <1>5 DEF AppendWrite
<1>6. CASE Query(p) \/ AnswerRead(p) \/ AnswerWrite(p)
  BY <1>1, <1>2, <1>6 DEF Query, AnswerRead, AnswerWrite
<1>7. CASE Add(p) \/ StoreAnswer(p)
  BY <1>2, <1>7, InteractionsAssumption DEF Add, StoreAnswer, Work, TaskOK, QuestionSteps
<1>8. CASE Take(p) \/ \E m \in Messages : Resume(p, m)
  BY <1>3, <1>8 DEF Take, Resume
<1>9. CASE \/ Start(p) \/ Find(p) \/ Post(p) \/ PostTimesOut(p)
           \/ MarkAnswer(p) \/ MarkRead(p) \/ MarkWrite(p)
           \/ FindRated(p) \/ AddScore(p) \/ Received(p) \/ Fail(p)
  BY <1>1, <1>2, <1>9 DEF Start, Find, Post, PostTimesOut, AfterPost, MarkAnswer, MarkRead, MarkWrite,
     FindRated, AddScore, Received, Fail
<1> QED
  BY <1>4, <1>5, <1>6, <1>7, <1>8, <1>9 DEF TaskAction, Step

LEMMA NextEntryFirst ==
    ASSUME OneProcess
    PROVE  Shape /\ Aligned /\ RowsOnce /\ EntryFirst /\ [Next]_vars => EntryFirst'
<1> SUFFICES ASSUME Shape, Aligned, RowsOnce, EntryFirst, [Next]_vars PROVE EntryFirst'
  OBVIOUS
<1>0. posted \in [Messages -> Nat] /\ posted' \in [Messages -> Nat] /\ FollowUps \subseteq Messages
  BY ThreadType, NextShape DEF Shape, TypeOK
<1>1. ASSUME NEW f \in FollowUps, posted'[f] > 0 PROVE Recorded(f)'
  <2>1. CASE posted'[f] = posted[f]
    BY <1>1, <2>1, RecordStays DEF EntryFirst
  <2>2. CASE posted'[f] # posted[f]
    <3>1. PICK p \in Processes : (Post(p) \/ PostTimesOut(p)) /\ msg[p] = f
      BY <1>0, <2>2, PostedChanges
    <3> QED
      BY <3>1, RecordStays DEF EntryFirst, Post, PostTimesOut
  <2> QED
    BY <2>1, <2>2
<1>2. ASSUME NEW p \in Processes, msg'[p] \in FollowUps,
             pc'[p] \in {"append_write", "query", "answer_read", "answer_write", "post"}
      PROVE  /\ msg'[p] = msg[p]
             /\ pc'[p] # "append_write" => Recorded(msg[p])'
             /\ posted'[msg[p]] = 0
  <2>1. CASE TaskAction(p)
    <3>1. /\ msg'[p] = msg[p]
          /\ AppendRead(p) \/ AppendWrite(p) \/ Query(p) \/ AnswerRead(p) \/ AnswerWrite(p)
      BY <1>2, <2>1, PostingSteps
    <3>2. posted' = posted
      BY <3>1 DEF AppendRead, AppendWrite, Query, AnswerRead, AnswerWrite, slack
    <3>3. CASE AppendRead(p) /\ pc'[p] = "append_write" /\ ~HasComment(p, msg[p])
      <4>1. row[p] \in RowsOf(Thread[msg[p]]) /\ Thread[msg[p]] \in Questions
        BY <1>2, <3>1, <3>3, OwnRow, ThreadType DEF AppendRead, RowSteps, FollowUpSteps
      <4>2. ~Recorded(msg[p])
        BY <3>3, <4>1 DEF Recorded, HasComment, RowsOnce, RowLast
      <4> QED
        BY <1>0, <1>2, <3>1, <3>2, <3>3, <4>2 DEF EntryFirst
    <3>4. CASE AppendWrite(p) /\ pc[p] = "append_write" /\ pc'[p] = "query"
      <4>1. Writes(p, "text") /\ pc[p] \in RowSteps
        BY <3>4 DEF AppendWrite, WriteComments, Changed, Aligned, Writes, slack, RowSteps, FollowUpSteps
      <4>2. Recorded(msg[p])'
        BY <1>2, <3>1, <4>1, EntryCounts DEF Recorded
      <4> QED
        BY <1>2, <3>1, <3>2, <3>4, <4>2 DEF EntryFirst
    <3>5. CASE pc[p] \in {"query", "answer_read", "answer_write"}
      <4>1. Recorded(msg[p]) /\ posted[msg[p]] = 0
        BY <1>2, <3>1, <3>5 DEF EntryFirst
      <4> QED
        BY <1>2, <3>1, <3>2, <4>1, RecordStays
    <3> QED
      BY <1>2, <2>1, <3>3, <3>4, <3>5, PostingSteps
  <2>2. CASE ~TaskAction(p)
    <3>1. pc'[p] = pc[p] /\ msg'[p] = msg[p]
      BY <1>2, <2>2, OtherTasks
    <3>2. posted' = posted
      BY <2>2, PostedChanges DEF OneProcess, TaskAction, Step
    <3> QED
      BY <1>2, <3>1, <3>2, RecordStays DEF EntryFirst
  <2> QED
    BY <2>1, <2>2
<1> QED
  BY <1>1, <1>2 DEF EntryFirst

\* What happened is not given back.
LEMMA EventsChange ==
    ASSUME Shape, [Next]_vars
    PROVE  /\ events'["timeout"] <= events["timeout"]
           /\ \A p \in Processes : PostTimesOut(p) => events'["timeout"] = events["timeout"] - 1
<1>0. events \in [EventKinds -> Nat] /\ "timeout" \in EventKinds
  BY DEF Shape, TypeOK, EventKinds
<1>1. ASSUME NEW k \in EventKinds, Happens(k) PROVE events' = [events EXCEPT ![k] = @ - 1]
  BY <1>1 DEF Happens
<1>2. ASSUME NEW p \in Processes, PostTimesOut(p) PROVE events'["timeout"] = events["timeout"] - 1
  BY <1>0, <1>1, <1>2 DEF PostTimesOut
<1>3. UNCHANGED events \/ \E k \in EventKinds : Happens(k)
  <2>1. ASSUME NEW p \in Processes, TaskAction(p) PROVE UNCHANGED events \/ \E k \in EventKinds : Happens(k)
    BY <2>1 DEF TaskAction, Step, Take, Resume, Start, Add, Find, AppendRead, AppendWrite, Query, StoreAnswer,
       AnswerRead, AnswerWrite, Post, PostTimesOut, MarkAnswer, MarkRead, MarkWrite, FindRated, AddScore,
       Received, Fail, EventKinds
  <2> QED
    BY <2>1, NextCases DEF Deliver, Submit, Prompt, WorkerDies, Restart, vars, EventKinds
<1>4. events'["timeout"] <= events["timeout"]
  BY <1>0, <1>1, <1>3
<1> QED
  BY <1>2, <1>4

\* Once, and once more for each post that timed out.
PostedWithinBound == TimeoutsSpent /\ FollowUpAnsweredOnce

LEMMA NextPostedWithinBound ==
    Shape /\ EntryFirst /\ PostedWithinBound /\ [Next]_vars => PostedWithinBound'
<1> SUFFICES ASSUME Shape, EntryFirst, PostedWithinBound, [Next]_vars PROVE PostedWithinBound'
  OBVIOUS
<1>0. /\ posted \in [Messages -> Nat] /\ posted' \in [Messages -> Nat] /\ FollowUps \subseteq Messages
      /\ events["timeout"] \in Nat /\ events'["timeout"] \in Nat /\ MaxEvents["timeout"] \in Nat
  BY ThreadType, NextShape, ChatBotAssumption DEF Shape, TypeOK, EventKinds
<1>1. TimeoutsSpent'
  BY <1>0, EventsChange DEF PostedWithinBound, TimeoutsSpent
<1>2. ASSUME NEW f \in FollowUps PROVE posted'[f] <= 1 + TimedOut'
  <2>1. posted[f] <= 1 + TimedOut /\ TimedOut \in Nat /\ TimedOut' \in Nat /\ TimedOut <= TimedOut'
    BY <1>0, <1>1, EventsChange DEF PostedWithinBound, TimeoutsSpent, FollowUpAnsweredOnce, TimedOut
  <2>2. CASE posted'[f] = posted[f]
    BY <1>0, <2>1, <2>2
  <2>3. CASE posted'[f] # posted[f]
    <3>1. PICK p \in Processes : (Post(p) \/ PostTimesOut(p)) /\ msg[p] = f
      BY <1>0, <2>3, PostedChanges
    <3>2. posted[f] = 0
      BY <3>1 DEF EntryFirst, Post, PostTimesOut
    <3>3. CASE Post(p)
      <4>1. posted' = [posted EXCEPT ![f] = @ + 1]
        BY <3>1, <3>3 DEF Post
      <4>2. posted'[f] = 1
        BY <1>0, <3>2, <4>1
      <4> QED
        BY <1>0, <2>1, <4>2 DEF TimedOut
    <3>4. CASE PostTimesOut(p)
      <4>1. PICK copies \in {1, 2} : posted' = [posted EXCEPT ![f] = @ + copies]
        BY <3>1, <3>4 DEF PostTimesOut
      <4>2. posted'[f] <= 2
        BY <1>0, <3>2, <4>1
      <4>3. TimedOut' = TimedOut + 1
        BY <1>0, <3>4, EventsChange DEF TimedOut
      <4> QED
        BY <1>0, <2>1, <4>2, <4>3
    <3> QED
      BY <3>1, <3>3, <3>4
  <2> QED
    BY <2>2, <2>3
<1> QED
  BY <1>1, <1>2 DEF PostedWithinBound, FollowUpAnsweredOnce

\* One worker answers a follow-up once however often Slack delivers it, through
\* failures, deaths and restarts, and shows the answer once more for each post that
\* timed out, if the question is delivered once.
THEOREM FollowUpsAnsweredOnce ==
    ASSUME OneProcess, QuestionsOnce
    PROVE  Spec => []FollowUpAnsweredOnce
<1>1. Spec => [](Shape /\ DeliveredFirst /\ RowsOnce) /\ []Prepared
  BY AlwaysOnce, AlwaysPrepared DEF Prepared
<1>2. Init => EntryFirst /\ PostedWithinBound
  BY ThreadType, ChatBotAssumption
  DEF Init, EntryFirst, PostedWithinBound, TimeoutsSpent, FollowUpAnsweredOnce, TimedOut, EventKinds
<1>3. Prepared => Aligned
  BY DEF Prepared
<1>4. Shape /\ Aligned /\ RowsOnce /\ EntryFirst /\ [Next]_vars => EntryFirst'
  BY NextEntryFirst
<1>5. PostedWithinBound => FollowUpAnsweredOnce
  BY DEF PostedWithinBound
<1> QED
  BY <1>1, <1>2, <1>3, <1>4, <1>5, NextPostedWithinBound, PTL DEF Spec

=============================================================================
