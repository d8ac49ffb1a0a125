----------------------------- MODULE Assistants -----------------------------
(***************************************************************************)
(* How a message is answered: semantic_router/router.py sends a question   *)
(* or a follow-up of one Slack thread to a tool; two of the tools put it   *)
(* to an assistant of OpenAI (open_ai/assistants/threads.py), which keeps  *)
(* the conversation in a thread of its own.  The row of the question       *)
(* remembers that thread in assistant_thread_id, and later follow-ups go   *)
(* on in it, several at once when the pool has several workers.            *)
(*                                                                         *)
(* OpenAI is external: threads, runs that end by themselves, and the two   *)
(* refusals it documents: no message and no second run while a run is      *)
(* active.  Rate limits are as frequent as they like; the pauses between   *)
(* attempts (utils/service_cooldown.py) take time, which is left out.      *)
(***************************************************************************)
EXTENDS Naturals, Sequences, FiniteSets

CONSTANTS
    Question,       \* the message that opened the Slack thread
    FollowUps,      \* the other messages of the thread
    PoolSize,       \* slack_listener_workers_num
    MaxAttempts     \* service_cooldown_max_attempts

Tasks == {Question} \union FollowUps

ASSUME AssistantsAssumption ==
    /\ Question \notin FollowUps
    /\ IsFiniteSet(FollowUps)
    /\ PoolSize \in Nat \ {0}
    /\ MaxAttempts \in Nat \ {0}

VARIABLES
    column,     \* assistant_thread_id in the row of the question
    threads,    \* OpenAI: the messages of each assistant thread
    run,        \* OpenAI: the run of each task, until its end is seen
    pc,         \* the step each task is at
    tool,       \* the tool it was given to
    using,      \* the assistant thread it uses
    tries,      \* attempts that met a rate limit, in the call in progress
    expiries,   \* runs that expired, in the attempt in progress
    outcome,    \* what the router returned, until it is stored
    lines,      \* of whose runs the answer shows the text
    denied,     \* history: tasks in work whose access token Confluence refused
    alone       \* history: tasks that had their thread for themselves so far

openai == <<threads, run>>
retries == <<tries, expiries>>
answer == <<outcome, lines>>
history == <<denied, alone>>
vars == <<column, openai, pc, tool, using, retries, answer, history>>

NoThread == 0
Steps == {"waiting", "prepare", "choose", "pages", "thread",
          "add", "run", "wait", "list", "store", "done"}
Tools == {"knowledge_base", "chatgpt"}
Endings == {"completed", "failed", "rate_limited", "expired", "other"}
Outcomes == {"none", "assistant", "error_text", "failed_to_answer", "tool", "fallback"}

Init ==
    /\ column = NoThread
    /\ threads = <<>>
    /\ run = [t \in Tasks |-> "none"]
    /\ pc = [t \in Tasks |-> "waiting"]
    /\ tool = [t \in Tasks |-> "knowledge_base"]
    /\ using = [t \in Tasks |-> NoThread]
    /\ tries = [t \in Tasks |-> 0]
    /\ expiries = [t \in Tasks |-> 0]
    /\ outcome = [t \in Tasks |-> "none"]
    /\ lines = [t \in Tasks |-> <<>>]
    /\ denied = {}
    /\ alone = Tasks

-----------------------------------------------------------------------------
Goto(t, step) == pc' = [pc EXCEPT ![t] = step]

\* The router returns a message to process_question.
Return(t, kind, shown) ==
    /\ outcome' = [outcome EXCEPT ![t] = kind]
    /\ lines' = [lines EXCEPT ![t] = shown]
    /\ tries' = [tries EXCEPT ![t] = 0]
    /\ expiries' = [expiries EXCEPT ![t] = 0]
    /\ Goto(t, "store")

\* route: "Always return a message to the user", whatever was raised.
Fallback(t) == Return(t, "fallback", <<>>)

InWork == {t \in Tasks : pc[t] \notin {"waiting", "done"}}

-----------------------------------------------------------------------------
(* The router *)

\* A worker takes the task; the row of the question is there, and the task
\* reads it (the rest of process_question is in ChatBot.tla).
Begin(t) ==
    /\ pc[t] = "waiting"
    /\ t # Question => pc[Question] # "waiting"
    /\ Cardinality(InWork) < PoolSize
    /\ using' = [using EXCEPT ![t] = column]
    /\ Goto(t, "prepare")
    /\ UNCHANGED <<column, openai, tool, retries, answer, history>>

\* run_question_generator: a follow-up is reworded by a model.
Prepare(t) ==
    /\ pc[t] = "prepare"
    /\ Goto(t, "choose")
    /\ UNCHANGED <<column, openai, tool, using, retries, answer, history>>

\* A thread of ChatGPT is always a new one; only the knowledge base is given
\* the thread of the row.
ThreadFor(t, name) == IF name = "chatgpt" THEN NoThread ELSE using[t]

\* run_tool_choice_agent: a model chooses; without a choice run_tool_executor
\* takes the knowledge base.
ChooseTool(t) ==
    /\ pc[t] = "choose"
    /\ \E name \in Tools :
         /\ tool' = [tool EXCEPT ![t] = name]
         /\ using' = [using EXCEPT ![t] = ThreadFor(t, name)]
         /\ Goto(t, IF name = "chatgpt" THEN "thread" ELSE "pages")
    /\ UNCHANGED <<column, openai, retries, answer, history>>

\* Or a tool that uses no assistant; web_search and query_prompt_optimizer
\* catch what goes wrong themselves.
WebSearch(t) ==
    /\ pc[t] = "choose"
    /\ Return(t, "tool", <<>>)
    /\ UNCHANGED <<column, openai, tool, using, history>>

OptimizePrompt(t) ==
    /\ pc[t] = "choose"
    /\ Return(t, "tool", <<>>)
    /\ UNCHANGED <<column, openai, tool, using, history>>

\* query_knowledge_base finds pages and keeps those the user may read.
ReadPages(t) ==
    /\ pc[t] = "pages"
    /\ Goto(t, "thread")
    /\ UNCHANGED <<column, openai, tool, using, retries, answer, history>>

\* Confluence refuses the access token: accessible_page_ids raises
\* InvalidAuthError, and route catches it like everything else.
Denied(t) ==
    /\ pc[t] = "pages"
    /\ denied' = denied \union {t}
    /\ Fallback(t)
    /\ UNCHANGED <<column, openai, tool, using, alone>>

\* Any other call raises: a question without history is prepared without one.
Raise(t) ==
    /\ pc[t] \in {"prepare", "choose", "pages", "thread", "add", "run", "wait", "list"}
    /\ pc[t] = "prepare" => t # Question
    /\ Fallback(t)
    /\ UNCHANGED <<column, openai, tool, using, history>>

-----------------------------------------------------------------------------
(* The assistant's thread *)

\* __ensure_thread_exists.
EnsureThread(t) ==
    /\ pc[t] = "thread"
    /\ IF using[t] = NoThread
         THEN /\ threads' = Append(threads, <<>>)
              /\ using' = [using EXCEPT ![t] = Len(threads) + 1]
         ELSE UNCHANGED <<threads, using>>
    /\ Goto(t, "add")
    /\ UNCHANGED <<column, run, tool, retries, answer, history>>

Active(th) == \E u \in Tasks : run[u] = "active" /\ using[u] = th

Message(role, t) == [role |-> role, of |-> t]

\* The tasks that have put their message to a thread and not yet read a reply.
Users(th) == {u \in Tasks : using[u] = th /\ pc[u] \in {"run", "wait", "list"}}

\* __add_user_message; refused, and raised on, while a run is active.
AddMessage(t) ==
    /\ pc[t] = "add"
    /\ IF Active(using[t])
         THEN Fallback(t) /\ UNCHANGED <<threads, alone>>
         ELSE /\ threads' = [threads EXCEPT ![using[t]] = Append(@, Message("user", t))]
              /\ alone' = IF Users(using[t]) = {} THEN alone \union {t}
                          ELSE alone \ (Users(using[t]) \union {t})
              /\ tries' = [tries EXCEPT ![t] = 0]
              /\ Goto(t, "run")
              /\ UNCHANGED <<expiries, answer>>
    /\ UNCHANGED <<column, run, tool, using, denied>>

GivesUpMut(t) == FALSE      \* wrong: attempts are not counted
GivesUp(t) == tries[t] + 1 >= MaxAttempts

\* with_service_cooldown: the call met a rate limit and is made again from the
\* step on, or its exception is passed on.
Retry(t, step) ==
    IF GivesUp(t)
      THEN Fallback(t)
      ELSE /\ tries' = [tries EXCEPT ![t] = @ + 1]
           /\ expiries' = [expiries EXCEPT ![t] = 0]
           /\ Goto(t, step)
           /\ UNCHANGED answer

MessageRateLimited(t) ==
    /\ pc[t] = "add"
    /\ Retry(t, "add")
    /\ UNCHANGED <<column, openai, tool, using, history>>

\* _Run.start; refused while another run is active on the thread.
StartRun(t) ==
    /\ pc[t] = "run"
    /\ IF Active(using[t])
         THEN Fallback(t) /\ UNCHANGED run
         ELSE /\ run' = [run EXCEPT ![t] = "active"]
              /\ Goto(t, "wait")
              /\ UNCHANGED <<retries, answer>>
    /\ UNCHANGED <<column, threads, tool, using, history>>

\* OpenAI: a run ends, sooner or later, whether anybody waits for it or not
\* (it goes on when the call that waits for it has raised).
RunEnds(t, ending) ==
    /\ run[t] = "active"
    /\ run' = [run EXCEPT ![t] = IF pc[t] = "wait" THEN ending ELSE "none"]
    /\ threads' = IF ending = "completed"
                    THEN [threads EXCEPT ![using[t]] = Append(@, Message("assistant", t))]
                    ELSE threads
    /\ UNCHANGED <<column, pc, tool, using, retries, answer, history>>

-----------------------------------------------------------------------------
(* __check_completion *)

\* The run the task waits for has come to this end.
Sees(t, ending) ==
    /\ pc[t] = "wait"
    /\ run[t] = ending
    /\ run' = [run EXCEPT ![t] = "none"]

Completed(t) ==
    /\ Sees(t, "completed")
    /\ Goto(t, "list")
    /\ UNCHANGED <<column, threads, tool, using, retries, answer, history>>

\* The error is returned as the reply; the knowledge base wants JSON.
Failed(t) ==
    /\ Sees(t, "failed")
    /\ Return(t, IF tool[t] = "chatgpt" THEN "error_text" ELSE "failed_to_answer", <<>>)
    /\ UNCHANGED <<column, threads, tool, using, history>>

RunAgainMut == "add"        \* wrong: the message is put to the thread again
RunAgain == "run"

\* RunFailedWithRateLimitError: the cooldown of __run starts another run.
RateLimited(t) ==
    /\ Sees(t, "rate_limited")
    /\ Retry(t, RunAgain)
    /\ UNCHANGED <<column, threads, tool, using, history>>

ExpiredTwiceMut(t) == FALSE     \* wrong: no max_tries
ExpiredTwice(t) == expiries[t] > 0

\* RunExpiredError: backoff runs it once more.
Expired(t) ==
    /\ Sees(t, "expired")
    /\ IF ExpiredTwice(t)
         THEN Fallback(t)
         ELSE /\ expiries' = [expiries EXCEPT ![t] = 1]
              /\ Goto(t, "run")
              /\ UNCHANGED <<tries, answer>>
    /\ UNCHANGED <<column, threads, tool, using, history>>

\* NotImplementedError.
Unexpected(t) ==
    /\ Sees(t, "other")
    /\ Fallback(t)
    /\ UNCHANGED <<column, threads, tool, using, history>>

\* Wrong: the user's messages are skipped instead of ending the block.
BlockMut(th) ==
    LET said == SelectSeq(threads[th], LAMBDA m : m.role = "assistant")
    IN  [i \in DOMAIN said |-> said[i].of]

\* __extract_response: the messages of assistants since the last of a user.
Block(th) ==
    LET said == threads[th]
        asked == CHOOSE n \in DOMAIN said :
                    /\ said[n].role = "user"
                    /\ \A i \in n + 1 .. Len(said) : said[i].role = "assistant"
    IN  [i \in 1 .. Len(said) - asked |-> said[asked + i].of]

\* The reply is read in a second call, when the thread may have grown.
\* NoAssistantResponseError when a user wrote last; the knowledge base parses
\* the reply as one JSON object, which the assistant may fail to write.
ListMessages(t) ==
    /\ pc[t] = "list"
    /\ LET block == Block(using[t]) IN
         IF block = <<>>
           THEN Fallback(t)
           ELSE \/ /\ tool[t] = "knowledge_base" => Len(block) = 1
                   /\ Return(t, "assistant", block)
                \/ /\ tool[t] = "knowledge_base"
                   /\ Return(t, "failed_to_answer", <<>>)
    /\ UNCHANGED <<column, openai, tool, using, history>>

\* __store_answer: only the question's answer sets the column, to the thread
\* the router returned.  The task has no more to do with it, but a run it left
\* behind goes on.
Store(t) ==
    /\ pc[t] = "store"
    /\ column' = IF t # Question THEN column
                 ELSE IF outcome[t] \in {"tool", "fallback"} THEN NoThread
                 ELSE using[t]
    /\ Goto(t, "done")
    /\ tool' = [tool EXCEPT ![t] = "knowledge_base"]
    /\ using' = [using EXCEPT ![t] = IF run[t] = "active" THEN @ ELSE NoThread]
    /\ outcome' = [outcome EXCEPT ![t] = "none"]
    /\ lines' = [lines EXCEPT ![t] = <<>>]
    /\ denied' = denied \ {t}
    /\ alone' = alone \union {t}
    /\ UNCHANGED <<openai, retries>>

-----------------------------------------------------------------------------
Step(t) ==
    \/ Prepare(t) \/ ChooseTool(t) \/ WebSearch(t) \/ OptimizePrompt(t)
    \/ ReadPages(t) \/ Denied(t) \/ EnsureThread(t)
    \/ AddMessage(t) \/ MessageRateLimited(t) \/ StartRun(t)
    \/ Completed(t) \/ Failed(t) \/ RateLimited(t) \/ Expired(t) \/ Unexpected(t)
    \/ ListMessages(t) \/ Store(t)

Next ==
    \E t \in Tasks :
        \/ Begin(t) \/ Step(t) \/ Raise(t)
        \/ \E ending \in Endings : RunEnds(t, ending)

Spec == Init /\ [][Next]_vars

\* Workers go on with their tasks, and OpenAI ends every run (it expires after
\* some minutes); nobody has to ask, and no call has to raise.
FairSpec ==
    /\ Spec
    /\ \A t \in Tasks : WF_vars(Step(t))
    /\ \A t \in Tasks : WF_vars(\E ending \in Endings : RunEnds(t, ending))

-----------------------------------------------------------------------------
\* Tasks, threads and runs are well formed; no call is attempted more than
\* MaxAttempts times, and no attempt runs more than twice.
TypeOK ==
    /\ threads \in Seq(Seq([role : {"user", "assistant"}, of : Tasks]))
    /\ column \in 0 .. Len(threads)
    /\ run \in [Tasks -> {"none", "active"} \union Endings]
    /\ pc \in [Tasks -> Steps]
    /\ tool \in [Tasks -> Tools]
    /\ using \in [Tasks -> 0 .. Len(threads)]
    /\ tries \in [Tasks -> 0 .. MaxAttempts - 1]
    /\ expiries \in [Tasks -> {0, 1}]
    /\ outcome \in [Tasks -> Outcomes]
    /\ lines \in [Tasks -> Seq(Tasks)]
    /\ denied \subseteq Tasks
    /\ alone \subseteq Tasks

\* A message is put to an assistant once, however often the call or the run is
\* repeated (threads.py: the cooldown and the backoff of __run are inside
\* add_user_message_and_complete).
AskedOnce ==
    \A t \in Tasks, th, other \in DOMAIN threads :
        \A i \in DOMAIN threads[th], j \in DOMAIN threads[other] :
            /\ threads[th][i] = Message("user", t)
            /\ threads[other][j] = Message("user", t)
            => th = other /\ i = j

\* threads.py:181, "to build a full reply we should take most recent assistant
\* messages block": the text shown as the answer to a message is what the run
\* of that very message wrote.  It need not be when two follow-ups use the
\* thread: a run is seen to be completed, and another follow-up puts its message
\* to the thread and is answered before the reply is listed.
AnswerIsOwn == \A t \in Tasks : outcome[t] = "assistant" => lines[t] = <<t>>

\* threads.py:181, "we should take most recent assistant messages block": a
\* task that had the thread for itself finds its own reply there, one message,
\* neither nothing nor more, also after expired runs and after tasks that gave
\* up on theirs.
AloneFindsItsReply ==
    \A t \in Tasks : pc[t] = "list" /\ t \in alone => Block(using[t]) = <<t>>

\* router.py:72, "Always return a message to the user": through rate limits and
\* runs that expire without end, every message that is taken up is answered, and
\* in the end nothing is left in work.
AlwaysAnswered == <>[](InWork = {})

\* test_provider.py:176, test_authorize_for_with_authorized_user_having_invalid_token:
\* a question whose access token Confluence refuses is not answered; its author
\* is to sign in again.
DeniedSignsInAgain == \A t \in denied : pc[t] # "store"

=============================================================================
