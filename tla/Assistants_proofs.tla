-------------------------- MODULE Assistants_proofs --------------------------
(***************************************************************************)
(* Proofs about Assistants, for any number of follow-ups, workers and      *)
(* attempts.                                                               *)
(***************************************************************************)
EXTENDS Assistants, SequenceTheorems, TLAPS

Said == [role : {"user", "assistant"}, of : Tasks]

\* The steps before a task's message is put to the assistant, and those after
\* it until the reply is read.
Before == {"waiting", "prepare", "choose", "pages", "thread", "add"}
After == {"run", "wait", "list"}

\* The last message of a user in a thread; the rest is the block of the reply.
LastAsked(said, n) ==
    /\ n \in 1..Len(said)
    /\ said[n].role = "user"
    /\ \A i \in n + 1 .. Len(said) : said[i].role = "assistant"

\* A task that has put its message to a thread has a thread with a message, as
\* has a run, and a thread begins with a user; a run is only there while
\* its task waits for it, or after its task has given up on it.
Held ==
    /\ \A t \in Tasks : pc[t] = "add" => using[t] # NoThread
    /\ \A t \in Tasks : pc[t] \in After \/ run[t] = "active" =>
            using[t] # NoThread /\ threads[using[t]] # <<>>
    /\ \A t \in Tasks : pc[t] \in Before \union {"run", "list"} => run[t] = "none"
    /\ \A th \in 1..Len(threads) : threads[th] # <<>> => \E n : LastAsked(threads[th], n)

Shape == TypeOK /\ Held

-----------------------------------------------------------------------------
(* Threads *)

\* A thread with one more message.
LEMMA OneMore ==
    ASSUME NEW S, NEW ts \in Seq(Seq(S)), NEW th \in 1..Len(ts), NEW m \in S
    PROVE  LET more == [ts EXCEPT ![th] = Append(@, m)] IN
           /\ more \in Seq(Seq(S)) /\ Len(more) = Len(ts)
           /\ \A x \in 1..Len(ts) \ {th} : more[x] = ts[x]
           /\ more[th] = Append(ts[th], m)
           /\ Len(more[th]) = Len(ts[th]) + 1
           /\ more[th][Len(ts[th]) + 1] = m
           /\ \A i \in 1..Len(ts[th]) : more[th][i] = ts[th][i]
<1>1. ts[th] \in Seq(S)
  BY ElementOfSeq
<1>2. /\ Append(ts[th], m) \in Seq(S)
      /\ Len(Append(ts[th], m)) = Len(ts[th]) + 1
      /\ Append(ts[th], m)[Len(ts[th]) + 1] = m
      /\ \A i \in 1..Len(ts[th]) : Append(ts[th], m)[i] = ts[th][i]
  BY <1>1, AppendProperties
<1>3. [ts EXCEPT ![th] = Append(@, m)] \in Seq(Seq(S))
  BY <1>2, ExceptSeq
<1> QED
  BY <1>2, <1>3, ExceptSeq

\* A new thread.
LEMMA OneThreadMore ==
    ASSUME NEW S, NEW ts \in Seq(Seq(S))
    PROVE  LET more == Append(ts, <<>>) IN
           /\ more \in Seq(Seq(S)) /\ Len(more) = Len(ts) + 1
           /\ \A x \in 1..Len(ts) : more[x] = ts[x]
           /\ more[Len(ts) + 1] = <<>>
<1>1. <<>> \in Seq(S)
  OBVIOUS
<1> QED
  BY <1>1, AppendProperties

\* What Block shows of a thread: the messages after the last of a user.
BlockOf(said) ==
    LET asked == CHOOSE n \in DOMAIN said :
                    /\ said[n].role = "user"
                    /\ \A i \in n + 1 .. Len(said) : said[i].role = "assistant"
    IN  [i \in 1 .. Len(said) - asked |-> said[asked + i].of]

LEMMA BlockIs ==
    ASSUME NEW said \in Seq(Said), NEW n, LastAsked(said, n)
    PROVE  BlockOf(said) = [i \in 1 .. Len(said) - n |-> said[n + i].of]
<1> DEFINE P(k) == /\ said[k].role = "user"
                   /\ \A i \in k + 1 .. Len(said) : said[i].role = "assistant"
           asked == CHOOSE k \in DOMAIN said : P(k)
<1>1. DOMAIN said = 1..Len(said) /\ n \in DOMAIN said /\ P(n)
  BY DEF LastAsked
<1>2. asked \in DOMAIN said /\ P(asked)
  BY <1>1
<1>3. asked = n
  <2>1. CASE asked < n
    <3>1. n \in asked + 1 .. Len(said)
      BY <1>1, <1>2, <2>1
    <3> QED
      BY <1>1, <1>2, <3>1
  <2>2. CASE n < asked
    <3>1. asked \in n + 1 .. Len(said)
      BY <1>1, <1>2, <2>2
    <3> QED
      BY <1>1, <1>2, <3>1
  <2> QED
    BY <1>1, <1>2, <2>1, <2>2
<1>4. BlockOf(said) = [i \in 1 .. Len(said) - asked |-> said[asked + i].of]
  BY DEF BlockOf
<1> QED
  BY <1>3, <1>4

\* Nothing is listed right after a user's message; an assistant's message is
\* listed after what was listed before.
LEMMA BlockGrows ==
    ASSUME NEW said \in Seq(Said), NEW t \in Tasks
    PROVE  /\ BlockOf(Append(said, Message("user", t))) = <<>>
           /\ \A n : LastAsked(said, n) /\ BlockOf(said) = <<>>
                => BlockOf(Append(said, Message("assistant", t))) = <<t>>
<1>1. ASSUME NEW role \in {"user", "assistant"}
      PROVE  LET more == Append(said, Message(role, t)) IN
             /\ more \in Seq(Said) /\ Len(more) = Len(said) + 1
             /\ more[Len(said) + 1] = Message(role, t)
             /\ \A i \in 1..Len(said) : more[i] = said[i]
  <2>1. Message(role, t) \in Said
    BY DEF Message, Said
  <2> QED
    BY <2>1, AppendProperties
<1>2. Len(said) \in Nat
  BY LenProperties
<1>3. BlockOf(Append(said, Message("user", t))) = <<>>
  <2> DEFINE more == Append(said, Message("user", t))
  <2>1. LastAsked(more, Len(said) + 1)
    BY <1>1, <1>2 DEF LastAsked, Message
  <2>2. BlockOf(more) = [i \in 1 .. Len(more) - (Len(said) + 1) |-> more[Len(said) + 1 + i].of]
    BY <1>1, <2>1, BlockIs
  <2>3. 1 .. Len(more) - (Len(said) + 1) = {}
    BY <1>1, <1>2
  <2> QED
    BY <2>2, <2>3
<1>4. ASSUME NEW n, LastAsked(said, n), BlockOf(said) = <<>>
      PROVE  BlockOf(Append(said, Message("assistant", t))) = <<t>>
  <2> DEFINE more == Append(said, Message("assistant", t))
  <2>1. n \in 1..Len(said) /\ n \in Int
    BY <1>2, <1>4 DEF LastAsked
  <2>2. n = Len(said)
    <3>1. BlockOf(said) = [i \in 1 .. Len(said) - n |-> said[n + i].of]
      BY <1>4, BlockIs
    <3>2. DOMAIN BlockOf(said) = 1 .. Len(said) - n
      BY <3>1
    <3>3. DOMAIN BlockOf(said) = {}
      BY <1>4
    <3> QED
      BY <1>2, <2>1, <3>2, <3>3
  <2>3. LastAsked(more, n)
    BY <1>1, <1>2, <1>4, <2>1, <2>2 DEF LastAsked, Message
  <2>4. BlockOf(more) = [i \in 1 .. Len(more) - n |-> more[n + i].of]
    BY <1>1, <2>3, BlockIs
  <2>5. Len(more) - n = 1 /\ more[n + 1].of = t
    BY <1>1, <1>2, <2>2 DEF Message
  <2>6. BlockOf(more) = [i \in 1..1 |-> t]
    <3> HIDE DEF more
    <3>1. \A i \in 1..1 : i = 1
      OBVIOUS
    <3>2. BlockOf(more) = [i \in 1..1 |-> more[n + i].of]
      BY <2>4, <2>5
    <3> QED
      BY <2>5, <3>1, <3>2
  <2> QED
    BY <2>6
<1> QED
  BY <1>3, <1>4

\* Which steps change threads, and how.
LEMMA ThreadSteps ==
    ASSUME TypeOK, [Next]_vars
    PROVE  \/ threads' = threads
           \/ \E t \in Tasks :
                /\ EnsureThread(t) /\ using[t] = NoThread
                /\ threads' = Append(threads, <<>>)
           \/ \E t \in Tasks :
                /\ AddMessage(t) /\ ~Active(using[t])
                /\ threads' = [threads EXCEPT ![using[t]] = Append(@, Message("user", t))]
           \/ \E t \in Tasks :
                /\ RunEnds(t, "completed")
                /\ threads' = [threads EXCEPT ![using[t]] = Append(@, Message("assistant", t))]
<1>1. ASSUME NEW t \in Tasks, NEW ending \in Endings, RunEnds(t, ending)
      PROVE  \/ threads' = threads
             \/ /\ RunEnds(t, "completed")
                /\ threads' = [threads EXCEPT ![using[t]] = Append(@, Message("assistant", t))]
  BY <1>1 DEF RunEnds
<1>2. ASSUME NEW t \in Tasks, AddMessage(t)
      PROVE  \/ threads' = threads
             \/ /\ ~Active(using[t])
                /\ threads' = [threads EXCEPT ![using[t]] = Append(@, Message("user", t))]
  BY <1>2 DEF AddMessage
<1>3. ASSUME NEW t \in Tasks, EnsureThread(t)
      PROVE  threads' = threads \/ (using[t] = NoThread /\ threads' = Append(threads, <<>>))
  BY <1>3 DEF EnsureThread
<1>4. ASSUME NEW t \in Tasks, Step(t) \/ Begin(t) \/ Raise(t), ~AddMessage(t), ~EnsureThread(t)
      PROVE  threads' = threads
  BY <1>4 DEF Step, Begin, Raise, Prepare, ChooseTool, WebSearch, OptimizePrompt, ReadPages, Denied,
     MessageRateLimited, StartRun, Completed, Failed, RateLimited, Expired, Unexpected, ListMessages, Store,
     openai
<1>5. UNCHANGED vars => threads' = threads
  BY DEF vars, openai
<1> QED
  BY <1>1, <1>2, <1>3, <1>4, <1>5 DEF Next, Step

-----------------------------------------------------------------------------
(* Types *)

LEMMA InitShape == Init => Shape
  BY AssistantsAssumption
  DEF Init, Shape, TypeOK, Held, Tasks, Steps, Tools, Endings, Outcomes, NoThread, Before, After

\* A task uses a thread there is.
LEMMA OwnThread ==
    ASSUME Shape, NEW t \in Tasks, using[t] # NoThread
    PROVE  /\ using[t] \in 1..Len(threads)
           /\ threads[using[t]] \in Seq(Said)
  BY ElementOfSeq DEF Shape, TypeOK, NoThread, Said

LEMMA ThreadsKept ==
    ASSUME Shape, [Next]_vars
    PROVE  /\ threads' \in Seq(Seq(Said))
           /\ Len(threads) \in Nat
           /\ \/ Len(threads') = Len(threads)
              \/ Len(threads') = Len(threads) + 1
           /\ \A t \in Tasks : EnsureThread(t) /\ using[t] = NoThread => Len(threads') = Len(threads) + 1
<1>0. threads \in Seq(Seq(Said)) /\ Len(threads) \in Nat
  BY DEF Shape, TypeOK, Said
<1>1. ASSUME NEW t \in Tasks, pc[t] = "add" \/ run[t] = "active", NEW role \in {"user", "assistant"},
             threads' = [threads EXCEPT ![using[t]] = Append(@, Message(role, t))]
      PROVE  threads' \in Seq(Seq(Said)) /\ Len(threads') = Len(threads)
  <2>1. using[t] \in 1..Len(threads) /\ Message(role, t) \in Said
    BY <1>1, OwnThread DEF Shape, Held, Message, Said
  <2> QED
    BY <1>0, <1>1, <2>1, OneMore
<1>2. ASSUME threads' = Append(threads, <<>>)
      PROVE  threads' \in Seq(Seq(Said)) /\ Len(threads') = Len(threads) + 1
  BY <1>0, <1>2, OneThreadMore
<1>3. ASSUME NEW t \in Tasks, EnsureThread(t), using[t] = NoThread PROVE threads' = Append(threads, <<>>)
  BY <1>3 DEF EnsureThread
<1>4. ASSUME NEW t \in Tasks, AddMessage(t) PROVE pc[t] = "add"
  BY <1>4 DEF AddMessage
<1>5. ASSUME NEW t \in Tasks, RunEnds(t, "completed") PROVE run[t] = "active"
  BY <1>5 DEF RunEnds
<1>6. \/ threads' = threads
      \/ threads' = Append(threads, <<>>)
      \/ threads' \in Seq(Seq(Said)) /\ Len(threads') = Len(threads)
  BY <1>1, <1>4, <1>5, ThreadSteps DEF Shape
<1> QED
  BY <1>0, <1>2, <1>3, <1>6

\* A step changes what one task holds.
TaskStep(t) ==
    /\ pc' = [pc EXCEPT ![t] = pc'[t]]
    /\ run' = [run EXCEPT ![t] = run'[t]]
    /\ tool' = [tool EXCEPT ![t] = tool'[t]]
    /\ using' = [using EXCEPT ![t] = using'[t]]
    /\ tries' = [tries EXCEPT ![t] = tries'[t]]
    /\ expiries' = [expiries EXCEPT ![t] = expiries'[t]]
    /\ outcome' = [outcome EXCEPT ![t] = outcome'[t]]
    /\ lines' = [lines EXCEPT ![t] = lines'[t]]

TaskTypesOf(t) ==
    /\ pc'[t] \in Steps
    /\ run'[t] \in {"none", "active"} \union Endings
    /\ tool'[t] \in Tools
    /\ using'[t] \in 0..Len(threads')
    /\ tries'[t] \in 0..MaxAttempts - 1
    /\ expiries'[t] \in {0, 1}
    /\ outcome'[t] \in Outcomes
    /\ lines'[t] \in Seq(Tasks)
    /\ column' \in 0..Len(threads')
    /\ denied' \subseteq Tasks
    /\ alone' \subseteq Tasks

LEMMA FunctionsOfTasks ==
    ASSUME TypeOK, NEW t \in Tasks
    PROVE  /\ pc = [pc EXCEPT ![t] = pc[t]]
           /\ run = [run EXCEPT ![t] = run[t]]
           /\ tool = [tool EXCEPT ![t] = tool[t]]
           /\ using = [using EXCEPT ![t] = using[t]]
           /\ tries = [tries EXCEPT ![t] = tries[t]]
           /\ expiries = [expiries EXCEPT ![t] = expiries[t]]
           /\ outcome = [outcome EXCEPT ![t] = outcome[t]]
           /\ lines = [lines EXCEPT ![t] = lines[t]]
  BY DEF TypeOK

LEMMA OneTaskMoves ==
    ASSUME Shape, [Next]_vars, NEW t \in Tasks, TaskStep(t), TaskTypesOf(t)
    PROVE  TypeOK'
<1>1. threads' \in Seq(Seq(Said)) /\ \A n \in 0..Len(threads) : n \in 0..Len(threads')
  BY ThreadsKept
<1>2. pc' \in [Tasks -> Steps] /\ run' \in [Tasks -> {"none", "active"} \union Endings]
  BY DEF Shape, TypeOK, TaskStep, TaskTypesOf
<1>3. tool' \in [Tasks -> Tools] /\ using' \in [Tasks -> 0..Len(threads')]
  BY <1>1 DEF Shape, TypeOK, TaskStep, TaskTypesOf
<1>4. tries' \in [Tasks -> 0..MaxAttempts - 1] /\ expiries' \in [Tasks -> {0, 1}]
  BY DEF Shape, TypeOK, TaskStep, TaskTypesOf
<1>5. outcome' \in [Tasks -> Outcomes] /\ lines' \in [Tasks -> Seq(Tasks)]
  BY DEF Shape, TypeOK, TaskStep, TaskTypesOf
<1> QED
  BY <1>1, <1>2, <1>3, <1>4, <1>5 DEF TypeOK, TaskTypesOf, Said

\* Of what belongs to tasks, an action only changes what is its task's.
TaskAction(t) == Begin(t) \/ Step(t) \/ Raise(t) \/ \E ending \in Endings : RunEnds(t, ending)

LEMMA TasksMoveAlone ==
    ASSUME TypeOK, NEW t \in Tasks, TaskAction(t)
    PROVE  TaskStep(t)
<1> USE FunctionsOfTasks DEF TaskStep, TypeOK, openai, retries, answer
<1>1. ASSUME NEW kind, NEW shown, Return(t, kind, shown), UNCHANGED <<tool, using>>,
             run' = [run EXCEPT ![t] = run'[t]]
      PROVE  TaskStep(t)
  BY <1>1 DEF Return, Goto
<1>2. ASSUME NEW step, Retry(t, step), UNCHANGED <<tool, using>>, run' = [run EXCEPT ![t] = run'[t]]
      PROVE  TaskStep(t)
  BY <1>1, <1>2 DEF Retry, Fallback, Goto
<1>3. CASE Begin(t) \/ Prepare(t) \/ ChooseTool(t) \/ ReadPages(t) \/ EnsureThread(t)
  BY <1>3 DEF Begin, Prepare, ChooseTool, ReadPages, EnsureThread, Goto
<1>4. CASE WebSearch(t) \/ OptimizePrompt(t) \/ Denied(t) \/ Raise(t)
  BY <1>1, <1>4 DEF WebSearch, OptimizePrompt, Denied, Raise, Fallback
<1>5. CASE AddMessage(t)
  BY <1>1, <1>5 DEF AddMessage, Fallback, Goto
<1>6. CASE MessageRateLimited(t)
  BY <1>2, <1>6 DEF MessageRateLimited
<1>7. CASE StartRun(t)
  BY <1>1, <1>7 DEF StartRun, Fallback, Goto
<1>8. CASE Completed(t)
  BY <1>8 DEF Completed, Sees, Goto
<1>9. CASE Failed(t) \/ Unexpected(t)
  BY <1>1, <1>9 DEF Failed, Unexpected, Sees, Fallback
<1>10. CASE RateLimited(t)
  BY <1>2, <1>10 DEF RateLimited, Sees
<1>11. CASE Expired(t)
  BY <1>1, <1>11 DEF Expired, Sees, Fallback, Goto
<1>12. CASE ListMessages(t)
  <2>1. \E kind, shown : Return(t, kind, shown)
    BY <1>12 DEF ListMessages, Fallback
  <2> QED
    BY <1>1, <1>12, <2>1 DEF ListMessages
<1>13. CASE Store(t)
  BY <1>13 DEF Store, Goto
<1>14. CASE \E ending \in Endings : RunEnds(t, ending)
  BY <1>14 DEF RunEnds
<1> QED
  BY <1>3, <1>4, <1>5, <1>6, <1>7, <1>8, <1>9, <1>10, <1>11, <1>12, <1>13, <1>14 DEF TaskAction, Step

\* What is listed are messages of tasks.
LEMMA BlockType ==
    ASSUME Shape, NEW t \in Tasks, pc[t] = "list"
    PROVE  Block(using[t]) \in Seq(Tasks)
<1>1. /\ using[t] \in 1..Len(threads) /\ threads[using[t]] \in Seq(Said)
      /\ threads[using[t]] # <<>>
  BY OwnThread DEF Shape, Held, After
<1>2. PICK n : LastAsked(threads[using[t]], n)
  BY <1>1 DEF Shape, Held
<1> DEFINE said == threads[using[t]]
<1>3. /\ Len(said) \in Nat /\ n \in 1..Len(said)
      /\ \A i \in 1..Len(said) : said[i].of \in Tasks
  <2>1. Len(said) \in Nat /\ n \in 1..Len(said)
    BY <1>1, <1>2 DEF LastAsked
  <2>2. ASSUME NEW i \in 1..Len(said) PROVE said[i] \in Said
    BY <1>1, ElementOfSeq
  <2> QED
    BY <2>1, <2>2 DEF Said
<1>4. Block(using[t]) = [i \in 1 .. Len(said) - n |-> said[n + i].of]
  BY <1>1, <1>2, BlockIs DEF Block, BlockOf
<1>5. [i \in 1 .. Len(said) - n |-> said[n + i].of] \in [1 .. Len(said) - n -> Tasks]
  BY <1>3
<1>6. Len(said) - n \in Nat
  BY <1>3
<1> QED
  BY <1>4, <1>5, <1>6, SeqDef

LEMMA TaskTypesKept ==
    ASSUME Shape, [Next]_vars, NEW t \in Tasks, TaskAction(t)
    PROVE  TaskTypesOf(t)
<1> USE AssistantsAssumption DEF Shape, TypeOK, openai, retries, answer, history
<1>0. /\ \A n \in 0..Len(threads) : n \in 0..Len(threads')
      /\ EnsureThread(t) /\ using[t] = NoThread => Len(threads) + 1 \in 0..Len(threads')
  BY ThreadsKept
<1>none. <<>> \in Seq(Tasks)
  OBVIOUS
<1>kinds. \A k \in {"assistant", "error_text", "failed_to_answer", "tool", "fallback"} : k \in Outcomes
  BY DEF Outcomes
<1>1. ASSUME NEW kind \in Outcomes, NEW shown \in Seq(Tasks), Return(t, kind, shown),
             UNCHANGED <<column, tool, using>>, run'[t] \in {"none", "active"} \union Endings,
             denied' \subseteq Tasks, alone' \subseteq Tasks
      PROVE  TaskTypesOf(t)
  BY <1>0, <1>1 DEF Return, Goto, TaskTypesOf, Steps
<1>2. ASSUME Fallback(t), UNCHANGED <<column, tool, using>>, run'[t] \in {"none", "active"} \union Endings,
             denied' \subseteq Tasks, alone' \subseteq Tasks
      PROVE  TaskTypesOf(t)
  BY <1>1, <1>2, <1>none, <1>kinds DEF Fallback
<1>3. ASSUME NEW step \in Steps, Retry(t, step), UNCHANGED <<column, tool, using, history>>,
             run'[t] \in {"none", "active"} \union Endings
      PROVE  TaskTypesOf(t)
  <2>1. CASE GivesUp(t)
    BY <1>2, <1>3, <2>1 DEF Retry
  <2>2. CASE ~GivesUp(t)
    BY <1>0, <1>3, <2>2 DEF Retry, GivesUp, Goto, TaskTypesOf
  <2> QED
    BY <2>1, <2>2
<1>4. CASE Begin(t) \/ Prepare(t) \/ ReadPages(t)
  BY <1>0, <1>4 DEF Begin, Prepare, ReadPages, Goto, TaskTypesOf, Steps
<1>5. CASE ChooseTool(t)
  <2>1. PICK name \in Tools :
            /\ tool' = [tool EXCEPT ![t] = name]
            /\ using' = [using EXCEPT ![t] = ThreadFor(t, name)]
            /\ Goto(t, IF name = "chatgpt" THEN "thread" ELSE "pages")
    BY <1>5 DEF ChooseTool
  <2>2. UNCHANGED <<column, openai, retries, answer, history>>
    BY <1>5 DEF ChooseTool
  <2>3. pc'[t] \in Steps /\ tool'[t] \in Tools
    BY <2>1 DEF Goto, Steps
  <2>4. using'[t] \in 0..Len(threads')
    BY <1>0, <2>1 DEF ThreadFor, NoThread
  <2> QED
    BY <1>0, <2>2, <2>3, <2>4 DEF TaskTypesOf
<1>6. CASE WebSearch(t) \/ OptimizePrompt(t)
  BY <1>1, <1>6, <1>none, <1>kinds DEF WebSearch, OptimizePrompt
<1>7. CASE Denied(t) \/ Raise(t)
  BY <1>2, <1>7 DEF Denied, Raise
<1>8. CASE EnsureThread(t)
  BY <1>0, <1>8 DEF EnsureThread, Goto, TaskTypesOf, Steps
<1>9. CASE AddMessage(t)
  <2>1. run'[t] \in {"none", "active"} \union Endings /\ alone' \subseteq Tasks
    BY <1>9 DEF AddMessage
  <2>2. CASE Active(using[t])
    BY <1>2, <1>9, <2>1, <2>2 DEF AddMessage
  <2>3. CASE ~Active(using[t])
    BY <1>0, <1>9, <2>1, <2>3 DEF AddMessage, Goto, TaskTypesOf, Steps
  <2> QED
    BY <2>2, <2>3
<1>10. CASE MessageRateLimited(t)
  BY <1>3, <1>10 DEF MessageRateLimited, Steps
<1>11. CASE StartRun(t)
  <2>1. CASE Active(using[t])
    BY <1>2, <1>11, <2>1 DEF StartRun
  <2>2. CASE ~Active(using[t])
    BY <1>0, <1>11, <2>2 DEF StartRun, Goto, TaskTypesOf, Steps
  <2> QED
    BY <2>1, <2>2
<1>12. CASE \E ending \in Endings : RunEnds(t, ending)
  <2>1. PICK ending \in Endings : RunEnds(t, ending)
    BY <1>12
  <2>2. run'[t] \in {"none"} \union Endings
    BY <2>1 DEF RunEnds
  <2> QED
    BY <1>0, <2>1, <2>2 DEF RunEnds, TaskTypesOf
<1>13. CASE Completed(t)
  BY <1>0, <1>13 DEF Completed, Sees, Goto, TaskTypesOf, Steps
<1>14. CASE Failed(t)
  <2>1. \E k \in {"error_text", "failed_to_answer"} : Return(t, k, <<>>)
    BY <1>14 DEF Failed
  <2> QED
    BY <1>1, <1>14, <1>none, <1>kinds, <2>1 DEF Failed, Sees
<1>15. CASE RateLimited(t)
  BY <1>3, <1>15 DEF RateLimited, RunAgain, Sees, Steps
<1>16. CASE Expired(t)
  <2>1. run'[t] = "none"
    BY <1>16 DEF Expired, Sees
  <2>2. CASE ExpiredTwice(t)
    BY <1>2, <1>16, <2>1, <2>2 DEF Expired
  <2>3. CASE ~ExpiredTwice(t)
    BY <1>0, <1>16, <2>1, <2>3 DEF Expired, Goto, TaskTypesOf, Steps
  <2> QED
    BY <2>2, <2>3
<1>17. CASE Unexpected(t)
  BY <1>2, <1>17 DEF Unexpected, Sees
<1>18. CASE ListMessages(t)
  <2>1. Block(using[t]) \in Seq(Tasks)
    BY <1>18, BlockType DEF ListMessages
  <2>2. \E kind \in Outcomes, shown \in Seq(Tasks) : Return(t, kind, shown)
    <3>1. \E k \in {"assistant", "failed_to_answer", "fallback"}, shown \in {Block(using[t]), <<>>} : Return(t, k, shown)
      BY <1>18 DEF ListMessages, Fallback
    <3> QED
      BY <1>none, <1>kinds, <2>1, <3>1
  <2> QED
    BY <1>1, <1>18, <2>2 DEF ListMessages
<1>19. CASE Store(t)
  BY <1>0, <1>19 DEF Store, NoThread, Goto, TaskTypesOf, Steps, Tools, Outcomes
<1> QED
  BY <1>4, <1>5, <1>6, <1>7, <1>8, <1>9, <1>10, <1>11, <1>12, <1>13, <1>14, <1>15, <1>16, <1>17, <1>18, <1>19
  DEF TaskAction, Step

LEMMA NextTypes == Shape /\ [Next]_vars => TypeOK'
<1> SUFFICES ASSUME Shape, [Next]_vars PROVE TypeOK'
  OBVIOUS
<1>1. CASE \E t \in Tasks : TaskAction(t)
  BY <1>1, TasksMoveAlone, TaskTypesKept, OneTaskMoves DEF Shape
<1>2. CASE UNCHANGED vars
  BY <1>2 DEF Shape, TypeOK, vars, openai, retries, answer, history
<1> QED
  BY <1>1, <1>2 DEF Next, TaskAction

-----------------------------------------------------------------------------
(* What tasks hold *)

\* A thread after a step: as it was, new, or with a message more.
LEMMA ThreadChange ==
    ASSUME Shape, [Next]_vars, NEW th \in 1..Len(threads')
    PROVE  \/ th \in 1..Len(threads) /\ threads'[th] = threads[th]
           \/ /\ th = Len(threads) + 1 /\ threads'[th] = <<>>
           \/ /\ th \in 1..Len(threads)
              /\ \E t \in Tasks, role \in {"user", "assistant"} :
                    /\ using[t] = th
                    /\ threads'[th] = Append(threads[th], Message(role, t))
                    /\ role = "user" => AddMessage(t) /\ ~Active(th)
                    /\ role = "assistant" => RunEnds(t, "completed")
<1>0. threads \in Seq(Seq(Said)) /\ Len(threads) \in Nat
  BY DEF Shape, TypeOK, Said
<1>1. CASE threads' = threads
  BY <1>1
<1>2. CASE threads' = Append(threads, <<>>)
  BY <1>0, <1>2, OneThreadMore
<1>3. ASSUME NEW t \in Tasks, pc[t] = "add" \/ run[t] = "active", NEW role \in {"user", "assistant"},
             threads' = [threads EXCEPT ![using[t]] = Append(@, Message(role, t))]
      PROVE  /\ th \in 1..Len(threads)
             /\ th # using[t] => threads'[th] = threads[th]
             /\ th = using[t] => threads'[th] = Append(threads[th], Message(role, t))
  <2>1. using[t] \in 1..Len(threads) /\ Message(role, t) \in Said
    BY <1>3, OwnThread DEF Shape, Held, Message, Said
  <2>2. /\ Len(threads') = Len(threads)
        /\ \A x \in 1..Len(threads) \ {using[t]} : threads'[x] = threads[x]
        /\ threads'[using[t]] = Append(threads[using[t]], Message(role, t))
    BY <1>0, <1>3, <2>1, OneMore
  <2> QED
    BY <2>1, <2>2
<1>4. CASE \E t \in Tasks : /\ AddMessage(t) /\ ~Active(using[t])
                            /\ threads' = [threads EXCEPT ![using[t]] = Append(@, Message("user", t))]
  <2>1. PICK t \in Tasks : /\ AddMessage(t) /\ ~Active(using[t])
                           /\ threads' = [threads EXCEPT ![using[t]] = Append(@, Message("user", t))]
    BY <1>4
  <2>2. pc[t] = "add"
    BY <2>1 DEF AddMessage
  <2> QED
    BY <1>3, <2>1, <2>2
<1>5. CASE \E t \in Tasks : /\ RunEnds(t, "completed")
                            /\ threads' = [threads EXCEPT ![using[t]] = Append(@, Message("assistant", t))]
  <2>1. PICK t \in Tasks : /\ RunEnds(t, "completed")
                           /\ threads' = [threads EXCEPT ![using[t]] = Append(@, Message("assistant", t))]
    BY <1>5
  <2>2. run[t] = "active"
    BY <2>1 DEF RunEnds
  <2> QED
    BY <1>3, <2>1, <2>2
<1> QED
  BY <1>1, <1>2, <1>4, <1>5, ThreadSteps DEF Shape

\* What a task does on the way to its message, to its run and to its reply.
LEMMA TaskMoves ==
    ASSUME Shape, [Next]_vars, NEW t \in Tasks, TaskAction(t)
    PROVE  /\ pc'[t] = "add" => using'[t] # NoThread
           /\ pc'[t] \in Before \union {"run", "list"} => run'[t] = "none"
           /\ pc'[t] \in Before => pc[t] \in Before /\ ~(AddMessage(t) /\ ~Active(using[t]))
           /\ pc'[t] \in After \/ run'[t] = "active" =>
                /\ using'[t] = using[t]
                /\ \/ pc[t] \in After \/ run[t] = "active"
                   \/ AddMessage(t) /\ ~Active(using[t])
<1> DEFINE Goal ==
           /\ pc'[t] = "add" => using'[t] # NoThread
           /\ pc'[t] \in Before \union {"run", "list"} => run'[t] = "none"
           /\ pc'[t] \in Before => pc[t] \in Before /\ ~(AddMessage(t) /\ ~Active(using[t]))
           /\ pc'[t] \in After \/ run'[t] = "active" =>
                /\ using'[t] = using[t]
                /\ \/ pc[t] \in After \/ run[t] = "active"
                   \/ AddMessage(t) /\ ~Active(using[t])
<1> USE DEF Shape, TypeOK, Held, openai, Before, After
<1>1. ASSUME NEW step, Goto(t, step) PROVE pc'[t] = step
  BY <1>1 DEF Goto
<1>2. ASSUME Fallback(t) PROVE pc'[t] = "store"
  BY <1>1, <1>2 DEF Fallback, Return
<1>3. ASSUME NEW step, Retry(t, step) PROVE pc'[t] \in {"store", step}
  BY <1>1, <1>2, <1>3 DEF Retry
<1>4. AddMessage(t) => pc[t] = "add"
  BY DEF AddMessage
<1>5. CASE Begin(t) \/ Prepare(t) \/ ReadPages(t) \/ ChooseTool(t)
  BY <1>1, <1>4, <1>5 DEF Begin, Prepare, ReadPages, ChooseTool
<1>6. CASE WebSearch(t) \/ OptimizePrompt(t) \/ Denied(t) \/ Raise(t)
  <2>1. pc'[t] = "store" /\ UNCHANGED <<run, using>>
    BY <1>2, <1>1, <1>6 DEF WebSearch, OptimizePrompt, Denied, Raise, Return
  <2> QED
    BY <2>1
<1>7. CASE EnsureThread(t)
  <2>1. using'[t] # NoThread
    BY <1>7, ThreadsKept DEF EnsureThread, NoThread
  <2> QED
    BY <1>1, <1>4, <1>7, <2>1 DEF EnsureThread
<1>8. CASE AddMessage(t)
  <2>1. pc[t] = "add" /\ run'[t] = "none" /\ using' = using
    BY <1>8 DEF AddMessage
  <2>2. CASE Active(using[t])
    BY <1>2, <1>8, <2>1, <2>2 DEF AddMessage
  <2>3. CASE ~Active(using[t])
    <3>1. pc'[t] = "run"
      BY <1>1, <1>8, <2>3 DEF AddMessage
    <3> QED
      BY <1>8, <2>1, <2>3, <3>1
  <2> QED
    BY <2>2, <2>3
<1>9. CASE MessageRateLimited(t)
  <2>1. pc[t] = "add" /\ pc'[t] \in {"add", "store"} /\ UNCHANGED <<run, using, threads>>
    BY <1>3, <1>9 DEF MessageRateLimited
  <2>2. ~(AddMessage(t) /\ ~Active(using[t]))
    <3>1. ASSUME AddMessage(t), ~Active(using[t]) PROVE pc'[t] = "run"
      BY <1>1, <3>1 DEF AddMessage
    <3> QED
      BY <2>1, <3>1
  <2> QED
    BY <2>1, <2>2
<1>10. CASE StartRun(t)
  BY <1>1, <1>2, <1>10 DEF StartRun
<1>11. CASE \E ending \in Endings : RunEnds(t, ending)
  <2>1. run[t] = "active" /\ run'[t] \in {"none"} \union Endings /\ UNCHANGED <<pc, using>>
    BY <1>11 DEF RunEnds
  <2> QED
    BY <1>4, <2>1 DEF Endings
<1>12. CASE Completed(t) \/ Failed(t) \/ RateLimited(t) \/ Expired(t) \/ Unexpected(t)
  <2>1. pc[t] = "wait" /\ run'[t] = "none" /\ using' = using
    BY <1>12 DEF Completed, Failed, RateLimited, Expired, Unexpected, Sees
  <2>2. pc'[t] \in {"list", "store", "run"}
    BY <1>1, <1>2, <1>3, <1>12 DEF Completed, Failed, RateLimited, Expired, Unexpected, Return, RunAgain
  <2> QED
    BY <1>4, <2>1, <2>2
<1>13. CASE ListMessages(t)
  <2>1. pc'[t] = "store" /\ UNCHANGED <<run, using>>
    BY <1>2, <1>1, <1>13 DEF ListMessages, Return
  <2> QED
    BY <2>1
<1>14. CASE Store(t)
  BY <1>1, <1>14 DEF Store
<1> QED
  BY <1>5, <1>6, <1>7, <1>8, <1>9, <1>10, <1>11, <1>12, <1>13, <1>14 DEF TaskAction, Step

\* The tasks that are not at work in a step.
LEMMA OtherTasks ==
    ASSUME Shape, [Next]_vars, NEW u \in Tasks, ~TaskAction(u)
    PROVE  /\ pc'[u] = pc[u] /\ run'[u] = run[u] /\ tool'[u] = tool[u] /\ using'[u] = using[u]
           /\ outcome'[u] = outcome[u] /\ lines'[u] = lines[u]
<1>1. CASE UNCHANGED vars
  BY <1>1 DEF vars, openai, answer
<1>2. CASE \E t \in Tasks : TaskAction(t)
  <2>1. PICK t \in Tasks : TaskAction(t)
    BY <1>2
  <2> QED
    BY <2>1, TasksMoveAlone DEF TaskStep, Shape, TypeOK
<1> QED
  BY <1>1, <1>2 DEF Next, TaskAction

\* A user's message is last where it is put.
LEMMA LastIsKept ==
    ASSUME Shape, [Next]_vars, NEW th \in 1..Len(threads'), threads'[th] # <<>>
    PROVE  \E n : LastAsked(threads'[th], n)
<1>0. th \in 1..Len(threads) => /\ threads[th] \in Seq(Said) /\ Len(threads[th]) \in Nat
                                /\ threads[th] # <<>> => \E n : LastAsked(threads[th], n)
  BY ElementOfSeq DEF Shape, TypeOK, Held, Said
<1>1. CASE th \in 1..Len(threads) /\ threads'[th] = threads[th]
  BY <1>0, <1>1
<1>2. ASSUME th \in 1..Len(threads), NEW t \in Tasks, NEW role \in {"user", "assistant"},
             using[t] = th, threads'[th] = Append(threads[th], Message(role, t)),
             role = "assistant" => RunEnds(t, "completed")
      PROVE  \E n : LastAsked(threads'[th], n)
  <2> DEFINE new == threads'[th]
             old == threads[th]
  <2>1. Message(role, t) \in Said
    BY DEF Message, Said
  <2>2. /\ Len(new) = Len(old) + 1 /\ new[Len(old) + 1] = Message(role, t)
        /\ \A i \in 1..Len(old) : new[i] = old[i]
    BY <1>0, <1>2, <2>1, AppendProperties
  <2>3. CASE role = "user"
    <3>1. LastAsked(new, Len(old) + 1)
      BY <1>0, <1>2, <2>2, <2>3 DEF LastAsked, Message
    <3> QED
      BY <3>1
  <2>4. CASE role = "assistant"
    <3>1. run[t] = "active"
      BY <1>2, <2>4 DEF RunEnds
    <3>2. old # <<>>
      BY <1>2, <3>1 DEF Shape, Held
    <3>3. PICK n : LastAsked(old, n)
      BY <1>0, <1>2, <3>2
    <3>4. LastAsked(new, n)
      <4>1. n \in 1..Len(old) /\ n \in 1..Len(new) /\ new[n].role = "user"
        BY <1>0, <1>2, <2>2, <3>3 DEF LastAsked
      <4>2. ASSUME NEW i \in n + 1 .. Len(new) PROVE new[i].role = "assistant"
        <5>1. CASE i = Len(old) + 1
          BY <2>2, <2>4, <5>1 DEF Message
        <5>2. CASE i # Len(old) + 1
          <6>1. i \in n + 1 .. Len(old) /\ i \in 1..Len(old)
            BY <1>0, <1>2, <2>2, <4>1, <5>2
          <6> QED
            BY <2>2, <3>3, <6>1 DEF LastAsked
        <5> QED
          BY <5>1, <5>2
      <4> QED
        BY <4>1, <4>2 DEF LastAsked
    <3> QED
      BY <3>4
  <2> QED
    BY <2>3, <2>4
<1> QED
  BY <1>1, <1>2, ThreadChange

LEMMA NextShape == Shape /\ [Next]_vars => Shape'
<1> SUFFICES ASSUME Shape, [Next]_vars PROVE Shape'
  OBVIOUS
<1>0. threads \in Seq(Seq(Said)) /\ Len(threads) \in Nat
  BY DEF Shape, TypeOK, Said
<1>1. ASSUME NEW th \in 1..Len(threads)
      PROVE  /\ threads[th] # <<>> => threads'[th] # <<>>
             /\ \A t \in Tasks : AddMessage(t) /\ ~Active(using[t]) /\ using[t] = th => threads'[th] # <<>>
  <2>1. threads[th] \in Seq(Said)
    BY <1>0, ElementOfSeq
  <2>2. th \in 1..Len(threads')
    BY <1>0, ThreadsKept
  <2>3. ASSUME NEW t \in Tasks, NEW role \in {"user", "assistant"} PROVE Append(threads[th], Message(role, t)) # <<>>
    BY <2>1, AppendProperties DEF Message, Said
  <2>4. threads[th] # <<>> => threads'[th] # <<>>
    BY <1>0, <2>2, <2>3, ThreadChange
  <2>5. ASSUME NEW t \in Tasks, AddMessage(t), ~Active(using[t]), using[t] = th PROVE threads'[th] # <<>>
    <3>1. threads' = [threads EXCEPT ![th] = Append(@, Message("user", t))]
      BY <2>5 DEF AddMessage
    <3>2. Message("user", t) \in Said
      BY DEF Message, Said
    <3>3. threads'[th] = Append(threads[th], Message("user", t))
      BY <1>0, <3>1, <3>2, OneMore
    <3> QED
      BY <2>3, <3>3
  <2> QED
    BY <2>4, <2>5
<1>2. ASSUME NEW t \in Tasks, pc[t] \in After \/ run[t] = "active" \/ AddMessage(t)
      PROVE  using[t] \in 1..Len(threads)
  BY <1>2, OwnThread DEF Shape, Held, AddMessage
<1>3. ASSUME NEW t \in Tasks
      PROVE  /\ pc'[t] = "add" => using'[t] # NoThread
             /\ pc'[t] \in Before \union {"run", "list"} => run'[t] = "none"
             /\ pc'[t] \in After \/ run'[t] = "active" =>
                    using'[t] # NoThread /\ threads'[using'[t]] # <<>>
  <2>1. CASE TaskAction(t)
    <3>1. /\ pc'[t] = "add" => using'[t] # NoThread
          /\ pc'[t] \in Before \union {"run", "list"} => run'[t] = "none"
      BY <2>1, TaskMoves
    <3>2. ASSUME pc'[t] \in After \/ run'[t] = "active"
          PROVE  using'[t] # NoThread /\ threads'[using'[t]] # <<>>
      <4>1. /\ using'[t] = using[t]
            /\ \/ pc[t] \in After \/ run[t] = "active"
               \/ AddMessage(t) /\ ~Active(using[t])
        BY <2>1, <3>2, TaskMoves
      <4>2. using[t] \in 1..Len(threads)
        BY <1>2, <4>1
      <4>3. using[t] # NoThread
        BY <1>0, <4>2 DEF NoThread
      <4>4. threads'[using[t]] # <<>>
        BY <1>1, <4>1, <4>2 DEF Shape, Held
      <4> QED
        BY <4>1, <4>3, <4>4
    <3> QED
      BY <3>1, <3>2
  <2>2. CASE ~TaskAction(t)
    BY <1>1, <1>2, <2>2, OtherTasks DEF Shape, Held
  <2> QED
    BY <2>1, <2>2
<1> QED
  BY <1>3, NextTypes, LastIsKept DEF Shape, Held

LEMMA AlwaysShape == Spec => []Shape
  BY InitShape, NextShape, PTL DEF Spec

\* Tasks, threads and runs are well formed, for any number of them; no call is
\* attempted more than MaxAttempts times, and no attempt runs more than twice.
THEOREM AssistantsTypes == Spec => []TypeOK
<1>1. Shape => TypeOK
  BY DEF Shape
<1> QED
  BY <1>1, AlwaysShape, PTL

-----------------------------------------------------------------------------
(* A message is put to an assistant once *)

UserAt(t, th, i) ==
    /\ th \in 1..Len(threads) /\ i \in 1..Len(threads[th])
    /\ threads[th][i] = Message("user", t)

\* A task that has not come to it has put its message to no thread.
Silent == \A t \in Tasks : pc[t] \in Before => \A th, i : ~UserAt(t, th, i)

Once ==
    \A t \in Tasks : \A th, i, other, j : UserAt(t, th, i) /\ UserAt(t, other, j) => th = other /\ i = j

\* A message that is there after a step was there before, or the step put it there.
LEMMA NewMessage ==
    ASSUME Shape, [Next]_vars, NEW t \in Tasks, NEW th, NEW i, UserAt(t, th, i)'
    PROVE  \/ UserAt(t, th, i)
           \/ /\ AddMessage(t) /\ ~Active(using[t])
              /\ th = using[t] /\ i = Len(threads[th]) + 1
<1>0. threads \in Seq(Seq(Said)) /\ Len(threads) \in Nat
  BY DEF Shape, TypeOK, Said
<1>1. /\ th \in 1..Len(threads') /\ i \in 1..Len(threads'[th])
      /\ threads'[th][i] = Message("user", t)
  BY DEF UserAt
<1>2. CASE th \in 1..Len(threads) /\ threads'[th] = threads[th]
  BY <1>1, <1>2 DEF UserAt
<1>3. CASE threads'[th] = <<>>
  BY <1>1, <1>3
<1>4. ASSUME th \in 1..Len(threads), NEW u \in Tasks, NEW role \in {"user", "assistant"},
             using[u] = th, threads'[th] = Append(threads[th], Message(role, u)),
             role = "user" => AddMessage(u) /\ ~Active(th)
      PROVE  \/ UserAt(t, th, i)
             \/ /\ AddMessage(t) /\ ~Active(using[t])
                /\ th = using[t] /\ i = Len(threads[th]) + 1
  <2>1. threads[th] \in Seq(Said) /\ Message(role, u) \in Said /\ Len(threads[th]) \in Nat
    BY <1>0, <1>4, ElementOfSeq DEF Message, Said
  <2>2. /\ Len(threads'[th]) = Len(threads[th]) + 1
        /\ threads'[th][Len(threads[th]) + 1] = Message(role, u)
        /\ \A k \in 1..Len(threads[th]) : threads'[th][k] = threads[th][k]
    BY <1>4, <2>1, AppendProperties
  <2>3. CASE i \in 1..Len(threads[th])
    BY <1>1, <1>4, <2>2, <2>3 DEF UserAt
  <2>4. CASE i = Len(threads[th]) + 1
    <3>1. Message(role, u) = Message("user", t)
      BY <1>1, <2>2, <2>4
    <3>2. role = "user" /\ u = t
      BY <3>1 DEF Message
    <3> QED
      BY <1>4, <2>4, <3>2
  <2> QED
    BY <1>1, <2>1, <2>2, <2>3, <2>4
<1> QED
  BY <1>1, <1>2, <1>3, <1>4, ThreadChange

LEMMA NextOnce == Shape /\ Silent /\ Once /\ [Next]_vars => Silent' /\ Once'
<1> SUFFICES ASSUME Shape, Silent, Once, [Next]_vars PROVE Silent' /\ Once'
  OBVIOUS
<1>1. ASSUME NEW t \in Tasks, pc'[t] \in Before, NEW th, NEW i PROVE ~UserAt(t, th, i)'
  <2>1. pc[t] \in Before /\ ~(AddMessage(t) /\ ~Active(using[t]))
    <3>1. AddMessage(t) => TaskAction(t)
      BY DEF TaskAction, Step
    <3> QED
      BY <1>1, <3>1, TaskMoves, OtherTasks
  <2> QED
    BY <2>1, NewMessage DEF Silent
<1>2. ASSUME NEW t \in Tasks, NEW th, NEW i, NEW other, NEW j, UserAt(t, th, i)', UserAt(t, other, j)'
      PROVE  th = other /\ i = j
  <2>1. CASE AddMessage(t) /\ ~Active(using[t])
    <3>1. pc[t] \in Before
      BY <2>1 DEF AddMessage, Before
    <3> QED
      BY <1>2, <3>1, NewMessage DEF Silent
  <2>2. CASE ~(AddMessage(t) /\ ~Active(using[t]))
    BY <1>2, <2>2, NewMessage DEF Once
  <2> QED
    BY <2>1, <2>2
<1> QED
  BY <1>1, <1>2 DEF Silent, Once

LEMMA OnceSuffices == Shape /\ Once => AskedOnce
<1> SUFFICES ASSUME Shape, Once PROVE AskedOnce
  OBVIOUS
<1>1. DOMAIN threads = 1..Len(threads)
  BY LenProperties DEF Shape, TypeOK
<1>2. ASSUME NEW th \in 1..Len(threads) PROVE DOMAIN threads[th] = 1..Len(threads[th])
  BY ElementOfSeq, LenProperties DEF Shape, TypeOK
<1> QED
  BY <1>1, <1>2 DEF Once, UserAt, AskedOnce

\* A message is put to an assistant once, however often calls meet rate limits
\* and runs expire, for any number of attempts, workers and follow-ups.
THEOREM MessagesAreAskedOnce == Spec => []AskedOnce
<1>1. Init => Silent /\ Once
  BY DEF Init, Silent, Once, UserAt
<1> QED
  BY <1>1, AlwaysShape, NextOnce, OnceSuffices, PTL DEF Spec

-----------------------------------------------------------------------------
(* A task that has its thread for itself *)

\* Nobody else is at work in the thread, and its last block is empty until the
\* task's run is completed, and then the reply of that run.
Undisturbed ==
    \A t \in alone : pc[t] \in After =>
        /\ \A u \in Tasks \ {t} : using[u] = using[t] => pc[u] \notin After /\ run[u] # "active"
        /\ Block(using[t]) = IF pc[t] = "list" \/ run[t] = "completed" THEN <<t>> ELSE <<>>

\* The steps of a task between its message and its reply.
LEMMA AfterMoves ==
    ASSUME Shape, [Next]_vars, NEW t \in Tasks, TaskAction(t), pc'[t] \in After
    PROVE  \/ AddMessage(t) /\ ~Active(using[t])
           \/ pc[t] = "run" /\ pc'[t] = "wait" /\ run'[t] = "active"
           \/ /\ pc[t] = "wait" /\ pc'[t] = "wait" /\ run[t] = "active"
              /\ \E ending \in Endings : RunEnds(t, ending) /\ run'[t] = ending
           \/ pc[t] = "wait" /\ run[t] = "completed" /\ pc'[t] = "list"
           \/ pc[t] = "wait" /\ run[t] \in {"rate_limited", "expired"} /\ pc'[t] = "run" /\ run'[t] = "none"
<1> USE DEF Shape, TypeOK, Held, openai, Before, After
<1>1. ASSUME NEW step, Goto(t, step) PROVE pc'[t] = step
  BY <1>1 DEF Goto
<1>2. ASSUME NEW kind, NEW shown, Return(t, kind, shown) PROVE FALSE
  BY <1>1, <1>2 DEF Return
<1>3. ~Fallback(t)
  BY <1>2 DEF Fallback
<1>4. ASSUME NEW step, Retry(t, step) PROVE pc'[t] = step
  BY <1>1, <1>3, <1>4 DEF Retry
<1>5. CASE \/ Begin(t) \/ Prepare(t) \/ ReadPages(t) \/ ChooseTool(t) \/ WebSearch(t) \/ OptimizePrompt(t)
           \/ Denied(t) \/ Raise(t) \/ EnsureThread(t) \/ Store(t) \/ MessageRateLimited(t)
           \/ Failed(t) \/ Unexpected(t)
  BY <1>1, <1>2, <1>3, <1>4, <1>5 DEF Begin, Prepare, ReadPages, ChooseTool, WebSearch, OptimizePrompt, Denied,
     Raise, EnsureThread, Store, MessageRateLimited, Failed, Unexpected
<1>6. CASE ListMessages(t)
  BY <1>2, <1>3, <1>6 DEF ListMessages
<1>7. CASE AddMessage(t)
  BY <1>3, <1>7 DEF AddMessage
<1>8. CASE StartRun(t)
  BY <1>1, <1>3, <1>8 DEF StartRun
<1>9. CASE \E ending \in Endings : RunEnds(t, ending)
  <2>1. PICK ending \in Endings : RunEnds(t, ending)
    BY <1>9
  <2>2. run[t] = "active" /\ pc' = pc /\ pc[t] = "wait"
    BY <2>1 DEF RunEnds
  <2> QED
    BY <2>1, <2>2 DEF RunEnds
<1>10. CASE Completed(t)
  BY <1>1, <1>10 DEF Completed, Sees
<1>11. CASE RateLimited(t)
  BY <1>4, <1>11 DEF RateLimited, RunAgain, Sees
<1>12. CASE Expired(t)
  BY <1>1, <1>3, <1>12 DEF Expired, Sees
<1> QED
  BY <1>5, <1>6, <1>7, <1>8, <1>9, <1>10, <1>11, <1>12 DEF TaskAction, Step

\* Who has a thread for itself after a step.
LEMMA AloneMoves ==
    ASSUME Shape, [Next]_vars, NEW t \in alone', pc'[t] \in After
    PROVE  \/ t \in alone /\ \A u \in Tasks : ~(AddMessage(u) /\ ~Active(using[u]))
           \/ AddMessage(t) /\ ~Active(using[t]) /\ Users(using[t]) = {}
           \/ \E u \in Tasks \ {t} :
                AddMessage(u) /\ ~Active(using[u]) /\ t \in alone /\ t \notin Users(using[u])
<1>0. t \in Tasks
  BY NextTypes DEF TypeOK
<1>1. CASE \E u \in Tasks : AddMessage(u) /\ ~Active(using[u])
  <2>1. PICK u \in Tasks : AddMessage(u) /\ ~Active(using[u])
    BY <1>1
  <2>2. alone' = IF Users(using[u]) = {} THEN alone \union {u} ELSE alone \ (Users(using[u]) \union {u})
    BY <2>1 DEF AddMessage
  <2> QED
    BY <1>0, <2>1, <2>2
<1>2. CASE ~\E u \in Tasks : AddMessage(u) /\ ~Active(using[u])
  <2>1. ASSUME NEW u \in Tasks, Store(u) PROVE t \in alone
    <3>1. alone' = alone \union {u} /\ pc'[u] = "done"
      BY <2>1 DEF Store, Goto, Shape, TypeOK
    <3> QED
      BY <3>1 DEF After
  <2>2. ASSUME NEW u \in Tasks, AddMessage(u) PROVE alone' = alone
    BY <1>2, <2>2 DEF AddMessage
  <2>3. ASSUME NEW u \in Tasks, TaskAction(u), ~AddMessage(u), ~Store(u) PROVE alone' = alone
    BY <2>3 DEF TaskAction, Begin, Step, Raise, Prepare, ChooseTool, WebSearch, OptimizePrompt, ReadPages, Denied,
       EnsureThread, MessageRateLimited, StartRun, Completed, Failed, RateLimited, Expired, Unexpected,
       ListMessages, RunEnds, history
  <2>4. UNCHANGED vars => alone' = alone
    BY DEF vars, history
  <2>5. t \in alone
    BY <2>1, <2>2, <2>3, <2>4 DEF Next, TaskAction
  <2> QED
    BY <1>2, <2>5
<1> QED
  BY <1>1, <1>2

LEMMA NextUndisturbed == Shape /\ Undisturbed /\ [Next]_vars => Undisturbed'
<1> SUFFICES ASSUME Shape, Undisturbed, [Next]_vars, NEW t \in alone', pc'[t] \in After
             PROVE  /\ \A u \in Tasks \ {t} :
                        using'[u] = using'[t] => pc'[u] \notin After /\ run'[u] # "active"
                    /\ BlockOf(threads'[using'[t]]) =
                            IF pc'[t] = "list" \/ run'[t] = "completed" THEN <<t>> ELSE <<>>
  BY DEF Undisturbed, Block, BlockOf
<1> DEFINE Reply == IF pc'[t] = "list" \/ run'[t] = "completed" THEN <<t>> ELSE <<>>
<1>0. t \in Tasks /\ threads \in Seq(Seq(Said)) /\ Len(threads) \in Nat
  BY NextTypes DEF Shape, TypeOK, Said
<1>1. ASSUME NEW u \in Tasks, AddMessage(u), ~Active(using[u])
      PROVE  /\ using[u] \in 1..Len(threads)
             /\ threads' = [threads EXCEPT ![using[u]] = Append(@, Message("user", u))]
             /\ threads'[using[u]] = Append(threads[using[u]], Message("user", u))
             /\ \A th \in 1..Len(threads) \ {using[u]} : threads'[th] = threads[th]
             /\ using' = using /\ run' = run /\ run[u] = "none" /\ pc' = [pc EXCEPT ![u] = "run"]
  <2>1. pc[u] = "add" /\ using' = using /\ run' = run /\ pc' = [pc EXCEPT ![u] = "run"]
    BY <1>1 DEF AddMessage, Goto
  <2>2. run[u] = "none" /\ using[u] \in 1..Len(threads)
    BY <2>1, OwnThread DEF Shape, Held, Before
  <2>3. Message("user", u) \in Said
    BY DEF Message, Said
  <2>4. threads' = [threads EXCEPT ![using[u]] = Append(@, Message("user", u))]
    BY <1>1 DEF AddMessage
  <2> QED
    BY <1>0, <2>1, <2>2, <2>3, <2>4, OneMore
<1>2. ASSUME pc[t] \in After PROVE using[t] \in 1..Len(threads)
  BY <1>0, <1>2, OwnThread DEF Shape, Held
<1>3. CASE AddMessage(t) /\ ~Active(using[t]) /\ Users(using[t]) = {}
  <2>1. \A u \in Tasks \ {t} : using'[u] = using'[t] => pc'[u] \notin After /\ run'[u] # "active"
    BY <1>0, <1>1, <1>3 DEF Users, Active, After, Shape, TypeOK
  <2>2. threads[using[t]] \in Seq(Said)
    BY <1>0, <1>1, <1>3, ElementOfSeq
  <2>3. BlockOf(threads'[using'[t]]) = <<>>
    <3>1. threads'[using'[t]] = Append(threads[using[t]], Message("user", t))
      BY <1>0, <1>1, <1>3
    <3> QED
      BY <1>0, <2>2, <3>1, BlockGrows
  <2>4. pc'[t] = "run" /\ run'[t] = "none"
    BY <1>0, <1>1, <1>3 DEF Shape, TypeOK
  <2> QED
    BY <2>1, <2>3, <2>4
<1>4. ASSUME NEW u \in Tasks \ {t}, AddMessage(u), ~Active(using[u]), t \in alone, t \notin Users(using[u])
      PROVE  /\ \A v \in Tasks \ {t} :
                 using'[v] = using'[t] => pc'[v] \notin After /\ run'[v] # "active"
             /\ BlockOf(threads'[using'[t]]) = Reply
  <2>1. /\ using' = using /\ run' = run /\ pc'[t] = pc[t]
        /\ \A v \in Tasks \ {u} : pc'[v] = pc[v]
    BY <1>0, <1>1, <1>4 DEF Shape, TypeOK
  <2>2. using[t] # using[u]
    BY <1>0, <1>4, <2>1 DEF Users, After
  <2>3. threads'[using[t]] = threads[using[t]]
    BY <1>1, <1>2, <1>4, <2>1, <2>2
  <2>4. /\ \A v \in Tasks \ {t} : using[v] = using[t] => pc[v] \notin After /\ run[v] # "active"
        /\ BlockOf(threads[using[t]]) = IF pc[t] = "list" \/ run[t] = "completed" THEN <<t>> ELSE <<>>
    BY <1>4, <2>1 DEF Undisturbed, Block, BlockOf
  <2>5. \A v \in Tasks \ {t} : using'[v] = using'[t] => pc'[v] \notin After /\ run'[v] # "active"
    BY <2>1, <2>2, <2>4
  <2>6. BlockOf(threads'[using'[t]]) = Reply
    BY <2>1, <2>3, <2>4
  <2> QED
    BY <2>5, <2>6
<1>5. ASSUME t \in alone, \A u \in Tasks : ~(AddMessage(u) /\ ~Active(using[u]))
      PROVE  /\ \A v \in Tasks \ {t} :
                 using'[v] = using'[t] => pc'[v] \notin After /\ run'[v] # "active"
             /\ BlockOf(threads'[using'[t]]) = Reply
  <2>1. /\ pc[t] \in After /\ using'[t] = using[t]
        /\ \/ pc'[t] = pc[t] /\ run'[t] = run[t]
           \/ pc[t] = "run" /\ pc'[t] = "wait" /\ run'[t] = "active"
           \/ /\ pc[t] = "wait" /\ pc'[t] = "wait" /\ run[t] = "active"
              /\ \E ending \in Endings : RunEnds(t, ending) /\ run'[t] = ending
           \/ pc[t] = "wait" /\ run[t] = "completed" /\ pc'[t] = "list"
           \/ pc[t] = "wait" /\ run[t] \in {"rate_limited", "expired"} /\ pc'[t] = "run" /\ run'[t] = "none"
    BY <1>0, <1>5, AfterMoves, TaskMoves, OtherTasks DEF After
  <2>2. using[t] \in 1..Len(threads)
    BY <1>2, <2>1
  <2>3. ASSUME NEW v \in Tasks \ {t}, using'[v] = using[t] PROVE pc'[v] \notin After /\ run'[v] # "active"
    <3>1. using[v] = using[t] => pc[v] \notin After /\ run[v] # "active"
      BY <1>5, <2>1 DEF Undisturbed
    <3>2. ASSUME pc'[v] \in After \/ run'[v] = "active"
          PROVE  using[v] = using[t] /\ (pc[v] \in After \/ run[v] = "active")
      BY <1>5, <2>3, <3>2, TaskMoves, OtherTasks
    <3> QED
      BY <3>1, <3>2
  <2>4. \/ threads'[using[t]] = threads[using[t]]
        \/ /\ RunEnds(t, "completed")
           /\ threads'[using[t]] = Append(threads[using[t]], Message("assistant", t))
    <3>1. using[t] \in 1..Len(threads')
      BY <1>0, <2>2, ThreadsKept
    <3>2. ASSUME NEW v \in Tasks, using[v] = using[t], RunEnds(v, "completed") PROVE v = t
      BY <1>5, <2>1, <3>2 DEF Undisturbed, RunEnds
    <3>3. CASE \E v \in Tasks, role \in {"user", "assistant"} :
                    /\ using[v] = using[t]
                    /\ threads'[using[t]] = Append(threads[using[t]], Message(role, v))
                    /\ role = "user" => AddMessage(v) /\ ~Active(using[t])
                    /\ role = "assistant" => RunEnds(v, "completed")
      <4>1. PICK v \in Tasks, role \in {"user", "assistant"} :
                    /\ using[v] = using[t]
                    /\ threads'[using[t]] = Append(threads[using[t]], Message(role, v))
                    /\ role = "user" => AddMessage(v) /\ ~Active(using[t])
                    /\ role = "assistant" => RunEnds(v, "completed")
        BY <3>3
      <4>2. role = "assistant"
        BY <1>5, <4>1
      <4> QED
        BY <3>2, <4>1, <4>2
    <3>4. using[t] # Len(threads) + 1
      BY <1>0, <2>2
    <3> QED
      BY <3>1, <3>3, <3>4, ThreadChange
  <2>5. threads[using[t]] \in Seq(Said) /\ threads[using[t]] # <<>>
    BY <1>0, <2>1, <2>2, ElementOfSeq DEF Shape, Held
  <2>6. BlockOf(threads[using[t]]) = IF pc[t] = "list" \/ run[t] = "completed" THEN <<t>> ELSE <<>>
    BY <1>5, <2>1 DEF Undisturbed, Block, BlockOf
  <2>7. ASSUME RunEnds(t, "completed") PROVE BlockOf(threads'[using[t]]) = Reply
    <3>1. /\ run[t] = "active" /\ pc'[t] = pc[t] /\ pc[t] = "wait" /\ run'[t] = "completed"
          /\ threads'[using[t]] = Append(threads[using[t]], Message("assistant", t))
      <4>1. run[t] = "active" /\ pc' = pc /\ pc[t] = "wait"
        BY <1>0, <2>1, <2>7 DEF RunEnds, Shape, Held, Before, After
      <4>2. run' = [run EXCEPT ![t] = "completed"]
        BY <2>7, <4>1 DEF RunEnds
      <4>3. threads' = [threads EXCEPT ![using[t]] = Append(@, Message("assistant", t))]
        BY <2>7 DEF RunEnds
      <4>4. Message("assistant", t) \in Said
        BY <1>0 DEF Message, Said
      <4>5. threads'[using[t]] = Append(threads[using[t]], Message("assistant", t))
        BY <1>0, <2>2, <4>3, <4>4, OneMore
      <4> QED
        BY <1>0, <4>1, <4>2, <4>5 DEF Shape, TypeOK
    <3>2. PICK n : LastAsked(threads[using[t]], n)
      BY <2>2, <2>5 DEF Shape, Held
    <3>3. BlockOf(threads[using[t]]) = <<>>
      BY <2>6, <3>1
    <3> QED
      BY <1>0, <2>5, <3>1, <3>2, <3>3, BlockGrows
  <2>8. ASSUME ~RunEnds(t, "completed") PROVE BlockOf(threads'[using[t]]) = Reply
    <3>1. threads'[using[t]] = threads[using[t]]
      BY <2>4, <2>8
    <3>2. pc[t] = "run" => run[t] = "none"
      BY <1>0 DEF Shape, Held
    <3> QED
      BY <2>1, <2>6, <2>8, <3>1, <3>2
  <2> QED
    BY <2>1, <2>3, <2>7, <2>8
<1> QED
  BY <1>3, <1>4, <1>5, AloneMoves

\* A task that had its thread for itself finds its own reply there and nothing
\* else, through rate limits, expired runs and runs that were left behind, for
\* any number of workers and follow-ups.
THEOREM RepliesAreFound == Spec => []AloneFindsItsReply
<1>1. Init => Undisturbed
  BY DEF Init, Undisturbed, After
<1>2. Shape /\ Undisturbed => AloneFindsItsReply
  BY DEF Shape, TypeOK, Undisturbed, AloneFindsItsReply, After
<1> QED
  BY <1>1, <1>2, AlwaysShape, NextUndisturbed, PTL DEF Spec

=============================================================================
