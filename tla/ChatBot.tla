------------------------------- MODULE ChatBot -------------------------------
(***************************************************************************)
(* From a Slack event to an answer: the bot process (slack/bot_runner.py,  *)
(* chat_bot/router.py) routes each event and submits a task to a pool of   *)
(* worker processes; a worker runs chat_bot/tasks/question.py or           *)
(* user_feedback_score.py over the qa_interactions table.  A question that *)
(* needed a sign-in is parked in its link and resumed by the web process   *)
(* (SignIn.tla says when; here it happens at any time).                    *)
(*                                                                         *)
(* Deliveries may be repeated, delayed and reordered by Slack; listener    *)
(* threads route and submit concurrently; workers run in parallel.         *)
(***************************************************************************)
EXTENDS Interactions, Sequences, FiniteSets

CONSTANTS
    Workers,        \* processes of the pool
    WebThreads,     \* threads of the web process
    Clicks,         \* clicks on a feedback button
    Thread,         \* the question in whose thread a follow-up or a click is
    Skipped,        \* messages the dispatcher or the router never passes on:
                    \* another workspace's, the bot's own, or in a channel
                    \* and without a question mark
    InChannel,      \* messages in channels, with answers there switched off
    MaxDeliveries,  \* bound: how often Slack delivers each message
    MaxEvents,      \* bound: how often each event of EventKinds happens
    MaxKinds,       \* bound: how many kinds of them happen in a behaviour
    NoMessage

Messages == Questions \union FollowUps \union Clicks
EventKinds == {"failure", "timeout", "sign_in", "worker_death", "restart"}

ASSUME ChatBotAssumption ==
    /\ Processes = Workers \union WebThreads
    /\ Workers \intersect WebThreads = {}
    /\ Clicks \intersect (Questions \union FollowUps) = {}
    /\ Thread \in [FollowUps \union Clicks -> Questions]
    /\ Skipped \subseteq Questions \union FollowUps
    /\ InChannel \subseteq Questions \union FollowUps
    /\ MaxDeliveries \in [Messages -> Nat]
    /\ MaxEvents \in [EventKinds -> Nat]
    /\ MaxKinds \in Nat
    /\ NoMessage \notin Messages

VARIABLES
    delivered,  \* how often Slack has delivered each message
    seen,       \* history: what was answered in Slack when it first delivered
                \* each follow-up
    known,      \* the router's known_question_thread_ids
    routed,     \* deliveries between route and submit, by message
    queue,      \* the pool's queue
    broken,     \* a worker died and the pool accepts no more tasks
    parked,     \* messages in the sign-in links of their authors
    posted,     \* how often each message was answered in Slack
    timers,     \* feedback prompts due, by process
    prompts,    \* threads with a feedback prompt in Slack
    scores,     \* rows of user_feedback_scores, by thread
    pc,         \* the step each process is at
    msg,        \* the message it works on
    events      \* what is left of MaxEvents

bot == <<known, routed, queue, broken>>
slack == <<delivered, seen, posted, prompts>>
tasks == <<pc, msg>>
vars == <<table, transactions, bot, slack, parked, timers, scores, tasks, events>>

Steps == {"idle", "start", "add", "find", "append_read", "append_write", "query",
          "add_answer", "answer_read", "answer_write", "post",
          "mark_answer", "mark_read", "mark_write", "find_rated", "add_score", "received"}

Init ==
    /\ InteractionsInit
    /\ delivered = [m \in Messages |-> 0]
    /\ seen = [f \in FollowUps |-> {}]
    /\ known = {}
    /\ routed = [m \in Messages |-> 0]
    /\ queue = <<>>
    /\ broken = FALSE
    /\ parked = {}
    /\ posted = [m \in Messages |-> 0]
    /\ timers = {}
    /\ prompts = {}
    /\ scores = [q \in Questions |-> 0]
    /\ pc = [p \in Processes |-> "idle"]
    /\ msg = [p \in Processes |-> NoMessage]
    /\ events = MaxEvents

-----------------------------------------------------------------------------
Goto(p, step) == pc' = [pc EXCEPT ![p] = step] /\ UNCHANGED msg

Begin(p, step, m) ==
    /\ pc' = [pc EXCEPT ![p] = step]
    /\ msg' = [msg EXCEPT ![p] = m]

\* The task returns, or raises: process_question logs every exception, and
\* completion_callback those of process_user_feedback_score.
End(p) == Begin(p, "idle", NoMessage) /\ Forget(p)

Happens(k) ==
    /\ events[k] > 0
    /\ Cardinality({e \in EventKinds : events[e] # MaxEvents[e]} \union {k}) <= MaxKinds
    /\ events' = [events EXCEPT ![k] = @ - 1]

Answered == {m \in Messages : posted[m] > 0}

-----------------------------------------------------------------------------
(* The bot process *)

\* route_message and route_block_action pass the message on to a task.
Routes(m) ==
    /\ m \notin Skipped
    /\ m \in FollowUps => Thread[m] \in known

\* _Dispatcher.__call__: the event is acknowledged, then routed.
Deliver(m) ==
    /\ delivered[m] < MaxDeliveries[m]
    /\ m \in Clicks => Thread[m] \in prompts
    /\ delivered' = [delivered EXCEPT ![m] = @ + 1]
    /\ seen' = [f \in FollowUps |-> IF f = m /\ delivered[m] = 0 THEN Answered ELSE seen[f]]
    /\ IF Routes(m)
         THEN /\ routed' = [routed EXCEPT ![m] = @ + 1]
              /\ known' = known \union ({m} \intersect Questions)
         ELSE UNCHANGED <<routed, known>>
    /\ UNCHANGED <<table, transactions, queue, broken, posted, prompts>>
    /\ UNCHANGED <<parked, timers, scores, tasks, events>>

\* __submit_task: a broken pool raises, and the dispatcher logs it.
Submit(m) ==
    /\ routed[m] > 0
    /\ routed' = [routed EXCEPT ![m] = @ - 1]
    /\ queue' = IF broken THEN queue ELSE Append(queue, m)
    /\ UNCHANGED <<table, transactions, known, broken, slack>>
    /\ UNCHANGED <<parked, timers, scores, tasks, events>>

\* An idle worker takes the oldest task.
Take(p) ==
    /\ p \in Workers
    /\ pc[p] = "idle"
    /\ queue # <<>>
    /\ queue' = Tail(queue)
    /\ Begin(p, IF Head(queue) \in Clicks THEN "find_rated" ELSE "start", Head(queue))
    /\ UNCHANGED <<table, transactions, known, routed, broken, slack>>
    /\ UNCHANGED <<parked, timers, scores, events>>

\* The web process runs a parked question once its author has signed in.
Resume(p, m) ==
    /\ p \in WebThreads
    /\ pc[p] = "idle"
    /\ m \in parked
    /\ parked' = parked \ {m}
    /\ Begin(p, "start", m)
    /\ UNCHANGED <<table, transactions, bot, slack>>
    /\ UNCHANGED <<timers, scores, events>>

-----------------------------------------------------------------------------
(* process_question *)

IsFollowUp(p) == msg[p] \in FollowUps

\* Channels may be closed to answers; else authorize_for lets the question
\* pass, or sends its author a sign-in link that carries it.
Start(p) ==
    /\ pc[p] = "start"
    /\ \/ /\ msg[p] \in InChannel
          /\ End(p)
          /\ UNCHANGED <<parked, events>>
       \/ /\ msg[p] \notin InChannel
          /\ Goto(p, IF IsFollowUp(p) THEN "find" ELSE "add")
          /\ UNCHANGED <<transactions, parked, events>>
       \/ /\ msg[p] \notin InChannel
          /\ Happens("sign_in")
          /\ parked' = parked \union {msg[p]}
          /\ End(p)
    /\ UNCHANGED <<table, bot, slack, timers, scores>>

\* __upsert_interaction of a question.
Add(p) ==
    /\ pc[p] = "add"
    /\ AddQuestion(p, msg[p])
    /\ Goto(p, "query")
    /\ UNCHANGED <<bot, slack, parked, timers, scores, events>>

\* Of a follow-up: UnknownInteractionError when the thread has no row.
Find(p) ==
    /\ pc[p] = "find"
    /\ IF RowsOf(Thread[msg[p]]) = {}
         THEN End(p) /\ UNCHANGED table
         ELSE FindByThread(p, Thread[msg[p]]) /\ Goto(p, "append_read")
    /\ UNCHANGED <<bot, slack, parked, timers, scores, events>>

MayAppendMut(p) == TRUE     \* wrong: no InteractionCommentAlreadyPresentError
MayAppendNotMut(p) == HasComment(p, msg[p])     \* wrong: the test is negated

MayAppend(p) == ~HasComment(p, msg[p])

\* append_comment raises InteractionCommentAlreadyPresentError on a repetition.
AppendRead(p) ==
    /\ pc[p] = "append_read"
    /\ IF MayAppend(p)
         THEN ReadComments(p) /\ Goto(p, "append_write")
         ELSE End(p) /\ UNCHANGED table
    /\ UNCHANGED <<bot, slack, parked, timers, scores, events>>

AppendWrite(p) ==
    /\ pc[p] = "append_write"
    /\ WriteComments(p, msg[p], "text")
    /\ SeeComments(p, msg[p], "text")
    /\ Goto(p, "query")
    /\ UNCHANGED <<bot, slack, parked, timers, scores, events>>

\* __process_query: the semantic router catches every exception and always
\* returns a message.
Query(p) ==
    /\ pc[p] = "query"
    /\ Goto(p, IF IsFollowUp(p) THEN "answer_read" ELSE "add_answer")
    /\ UNCHANGED <<table, transactions, bot, slack, parked, timers, scores, events>>

\* Wrong: the answer is posted before it is stored.
StoreAnswerMut(p) ==
    /\ pc[p] = "add_answer"
    /\ Goto(p, "post")
    /\ UNCHANGED <<table, transactions, bot, slack, parked, timers, scores, events>>

\* __store_answer of a question.
StoreAnswer(p) ==
    /\ pc[p] = "add_answer"
    /\ AddAnswer(p)
    /\ Goto(p, "post")
    /\ UNCHANGED <<transactions, bot, slack, parked, timers, scores, events>>

\* Of a follow-up: InteractionCommentNotFoundError when its entry is gone.
AnswerRead(p) ==
    /\ pc[p] = "answer_read"
    /\ IF HasComment(p, msg[p])
         THEN ReadComments(p) /\ Goto(p, "answer_write")
         ELSE End(p) /\ UNCHANGED table
    /\ UNCHANGED <<bot, slack, parked, timers, scores, events>>

AnswerWrite(p) ==
    /\ pc[p] = "answer_write"
    /\ WriteComments(p, msg[p], "assistant_response")
    /\ SeeComments(p, msg[p], "assistant_response")
    /\ Goto(p, "post")
    /\ UNCHANGED <<bot, slack, parked, timers, scores, events>>

AfterPost(p) == IF IsFollowUp(p) THEN "mark_read" ELSE "mark_answer"

\* Wrong: feedback is asked for before the answer is marked.
PostMut(p) ==
    /\ pc[p] = "post"
    /\ posted' = [posted EXCEPT ![msg[p]] = @ + 1]
    /\ Goto(p, AfterPost(p))
    /\ timers' = timers \union ({<<p, msg[p]>>} \intersect (Processes \X Questions))
    /\ UNCHANGED <<table, transactions, bot, delivered, seen, prompts>>
    /\ UNCHANGED <<parked, scores, events>>

\* __post_answer_on_slack.
Post(p) ==
    /\ pc[p] = "post"
    /\ posted' = [posted EXCEPT ![msg[p]] = @ + 1]
    /\ Goto(p, AfterPost(p))
    /\ UNCHANGED <<table, transactions, bot, delivered, seen, prompts>>
    /\ UNCHANGED <<parked, timers, scores, events>>

\* post_message posts again after a timeout, though Slack has accepted the first
\* message; a second timeout is raised.
PostTimesOut(p) ==
    /\ pc[p] = "post"
    /\ Happens("timeout")
    /\ \E copies \in {1, 2} :
        /\ posted' = [posted EXCEPT ![msg[p]] = @ + copies]
        /\ \/ copies = 2 /\ Goto(p, AfterPost(p)) /\ UNCHANGED transactions
           \/ End(p)
    /\ UNCHANGED <<table, bot, delivered, seen, prompts>>
    /\ UNCHANGED <<parked, timers, scores>>

\* __mark_answer_posted_on_slack of a question, and __ask_feedback: a timer of
\* the process will show the prompt.
MarkAnswer(p) ==
    /\ pc[p] = "mark_answer"
    /\ MarkAnswerPosted(p)
    /\ timers' = timers \union {<<p, msg[p]>>}
    /\ End(p)
    /\ UNCHANGED <<bot, slack, parked, scores, events>>

\* Of a follow-up.
MarkRead(p) ==
    /\ pc[p] = "mark_read"
    /\ IF HasComment(p, msg[p])
         THEN ReadComments(p) /\ Goto(p, "mark_write")
         ELSE End(p) /\ UNCHANGED table
    /\ UNCHANGED <<bot, slack, parked, timers, scores, events>>

MarkWrite(p) ==
    /\ pc[p] = "mark_write"
    /\ WriteComments(p, msg[p], "assistant_response_posted_on_slack")
    /\ End(p)
    /\ UNCHANGED <<bot, slack, parked, timers, scores, events>>

-----------------------------------------------------------------------------
(* Feedback *)

\* ask_for_feedback, two seconds later.
Prompt(p, q) ==
    /\ <<p, q>> \in timers
    /\ timers' = timers \ {<<p, q>>}
    /\ prompts' = prompts \union {q}
    /\ UNCHANGED <<table, transactions, bot, delivered, seen, posted>>
    /\ UNCHANGED <<parked, scores, tasks, events>>

\* process_user_feedback_score: nothing to do without an interaction.
FindRated(p) ==
    /\ pc[p] = "find_rated"
    /\ IF RowsOf(Thread[msg[p]]) = {}
         THEN End(p)
         ELSE Goto(p, "add_score") /\ UNCHANGED transactions
    /\ UNCHANGED <<table, bot, slack, parked, timers, scores, events>>

AddScore(p) ==
    /\ pc[p] = "add_score"
    /\ scores' = [scores EXCEPT ![Thread[msg[p]]] = @ + 1]
    /\ Goto(p, "received")
    /\ UNCHANGED <<table, transactions, bot, slack, parked, timers, events>>

\* mark_feedback_received replaces the prompt.
Received(p) ==
    /\ pc[p] = "received"
    /\ prompts' = prompts \ {Thread[msg[p]]}
    /\ End(p)
    /\ UNCHANGED <<table, bot, delivered, seen, posted>>
    /\ UNCHANGED <<parked, timers, scores, events>>

-----------------------------------------------------------------------------
(* What goes wrong *)

\* A call to Slack, OpenAI, Confluence or the database raises.
Fail(p) ==
    /\ pc[p] # "idle"
    /\ Happens("failure")
    /\ End(p)
    /\ UNCHANGED <<table, bot, slack, parked, timers, scores>>

\* No worker works on anything any more, nor has a timer.
WorkersLost ==
    /\ pc' = [p \in Processes |-> IF p \in Workers THEN "idle" ELSE pc[p]]
    /\ msg' = [p \in Processes |-> IF p \in Workers THEN NoMessage ELSE msg[p]]
    /\ row' = [p \in Processes |-> IF p \in Workers THEN NoRow ELSE row[p]]
    /\ history' = [p \in Processes |-> IF p \in Workers THEN {} ELSE history[p]]
    /\ snapshot' = [p \in Processes |-> IF p \in Workers THEN {} ELSE snapshot[p]]
    /\ timers' = {t \in timers : t[1] \notin Workers}

\* A worker process dies: ProcessPoolExecutor terminates the others, fails
\* what is queued with BrokenProcessPool and accepts no more.
WorkerDies ==
    /\ ~broken
    /\ Happens("worker_death")
    /\ broken' = TRUE
    /\ queue' = <<>>
    /\ WorkersLost
    /\ UNCHANGED <<table, known, routed, slack, parked, scores>>

KnownFromRowsMut == {}      \* wrong: the new process starts without them

\* chat_bot/__main__.py: the threads of get_all().
KnownFromRows == {thread[i] : i \in DOMAIN thread}

\* The bot is stopped and started again.
Restart ==
    /\ Happens("restart")
    /\ known' = KnownFromRows
    /\ routed' = [m \in Messages |-> 0]
    /\ queue' = <<>>
    /\ broken' = FALSE
    /\ WorkersLost
    /\ UNCHANGED <<table, slack, parked, scores>>

-----------------------------------------------------------------------------
Step(p) ==
    \/ Start(p) \/ Add(p) \/ Find(p) \/ AppendRead(p) \/ AppendWrite(p)
    \/ Query(p) \/ StoreAnswer(p) \/ AnswerRead(p) \/ AnswerWrite(p)
    \/ Post(p) \/ PostTimesOut(p) \/ MarkAnswer(p) \/ MarkRead(p) \/ MarkWrite(p)
    \/ FindRated(p) \/ AddScore(p) \/ Received(p)

Next ==
    \/ \E m \in Messages : Deliver(m) \/ Submit(m)
    \/ \E p \in Processes : Take(p) \/ Step(p) \/ Fail(p)
    \/ \E p \in Processes, m \in Messages : Resume(p, m)
    \/ \E p \in Processes, q \in Questions : Prompt(p, q)
    \/ WorkerDies
    \/ Restart

Spec == Init /\ [][Next]_vars

\* Listener threads, workers and the web process go on; nobody has to write,
\* click or sign in, and nothing has to fail.
FairSpec ==
    /\ Spec
    /\ WF_vars(\E m \in Messages : Submit(m))
    /\ \A p \in Processes : WF_vars(Take(p) \/ Step(p))

-----------------------------------------------------------------------------
\* The messages in flight, parked and in work are messages of Slack, and the
\* table is well formed.
TypeOK ==
    /\ InteractionsTypeOK
    /\ delivered \in [Messages -> Nat]
    /\ seen \in [FollowUps -> SUBSET Messages]
    /\ known \subseteq Questions
    /\ routed \in [Messages -> Nat]
    /\ queue \in Seq(Messages)
    /\ broken \in BOOLEAN
    /\ parked \subseteq Messages
    /\ posted \in [Messages -> Nat]
    /\ timers \subseteq Processes \X Questions
    /\ prompts \subseteq Questions
    /\ scores \in [Questions -> Nat]
    /\ pc \in [Processes -> Steps]
    /\ msg \in [Processes -> Messages \union {NoMessage}]
    /\ events \in [EventKinds -> Nat]

Responded(f) == \E i \in RowsOf(Thread[f]) : <<f, "assistant_response">> \in comments[i]
MarkedPosted(f) ==
    \E i \in RowsOf(Thread[f]) : <<f, "assistant_response_posted_on_slack">> \in comments[i]

\* What the user can read in Slack is in the database: no answer to a question
\* is posted that a row of its thread does not hold, whoever dies when
\* (__store_answer commits before __post_answer_on_slack).
PostedAnswerStored ==
    \A q \in Questions : posted[q] > 0 => RowsOf(q) \intersect answers # {}

\* qa_interaction.py:21, "The timestamp when the answer was posted on Slack":
\* nothing is marked as posted, question or comment, that was not; not even
\* when transactions write stale comments back.
MarkedIsPosted ==
    /\ \A i \in marked : posted[thread[i]] > 0
    /\ \A f \in FollowUps : MarkedPosted(f) => posted[f] > 0

\* A follow-up written after its thread's question was answered in Slack is
\* answered with that answer in its history, although other tasks work on the
\* same row (question.py, __restore_thread_history).
HistoryHasAnswer ==
    \A p \in Processes :
        pc[p] = "query" /\ msg[p] \in FollowUps /\ Thread[msg[p]] \in seen[msg[p]]
            => Thread[msg[p]] \in history[p]

InThread(q) == {q} \union {f \in FollowUps : Thread[f] = q}

\* The same of every answer of the thread: true as long as the transactions on
\* the thread's comments do not overlap, as with a pool of one worker.
HistoryComplete ==
    \A p \in Processes :
        pc[p] = "query" /\ msg[p] \in FollowUps
            => InThread(Thread[msg[p]]) \intersect seen[msg[p]] \subseteq history[p]

TimedOut == MaxEvents["timeout"] - events["timeout"]

\* A follow-up is answered once however often Slack delivers it, through
\* failures, deaths of workers and restarts (append_comment raises
\* InteractionCommentAlreadyPresentError), and shown once more for each post that
\* timed out; again without overlap.
FollowUpAnsweredOnce == \A f \in FollowUps : posted[f] <= 1 + TimedOut

\* The router knows every thread there is a row of, so no follow-up to a
\* recorded question is ignored, a restart of the bot included; the web process
\* must not have added the row.
KnownCoversRows == \A i \in DOMAIN thread : thread[i] \in known

\* A score is only ever given to an answer the database says was posted:
\* the prompt comes last, and outlives the process that showed it.
ScoredIsMarked ==
    \A q \in Questions : scores[q] > 0 => RowsOf(q) \intersect marked # {}

\* As long as nothing fails, times out, restarts or asks for a sign-in, every
\* question is answered, and every follow-up written after its question was
\* answered, unless answers are off in the channel; again without overlap.
RoutedIsAnswered ==
    \A m \in (Questions \union FollowUps) \ InChannel :
        (routed[m] > 0 /\ (m \in FollowUps => Thread[m] \in seen[m]))
            ~> (posted[m] > 0 \/ events # MaxEvents)

\* What the table, Slack and the scores say of the promise of Answers.
Promise == INSTANCE Answers WITH
    stored <- {q \in Questions : RowsOf(q) \intersect answers # {}}
                \union {f \in FollowUps : Responded(f)},
    shown <- Answered,
    confirmed <- {q \in Questions : RowsOf(q) \intersect marked # {}}
                \union {f \in FollowUps : MarkedPosted(f)},
    rated <- {q \in Questions : scores[q] > 0}

\* A pool of one worker implements Answers: through failures, timeouts, deaths
\* and restarts every step of process_question and of the feedback is a step of
\* one message in the order stored, shown, confirmed, rated, or none, and no
\* transaction on a thread's comments takes back what another wrote.
KeepsPromise == Promise!Spec

=============================================================================
