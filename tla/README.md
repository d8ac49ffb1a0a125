# Top Assist in TLA+

Top Assist answers questions asked in Slack from a company's Confluence.  These
modules model the parts of `src/top_assist` in which several processes, two stores
and three outside services (Slack, Confluence, OpenAI) have to stay in step, say
what has to hold of them, check it with TLC on small instances and prove part of it
with TLAPS for every instance.

## The system

Three kinds of processes share one PostgreSQL database and one vector database:

* **The bot** (`bin/chat_bot`: `chat_bot/__main__.py`, `slack/bot_runner.py`).  Socket
  mode threads acknowledge each Slack event, route it and submit a task to a
  `ProcessPoolExecutor`; worker processes answer questions.
* **The web process** (`bin/web`: `web/`).  The Confluence OAuth callback, which resumes
  the question that asked for the sign-in as a background task, and the admin interface.
* **Jobs** (`cli/`, `tui/`, the admin interface's background tasks).  They import Confluence spaces and pull
  updates.

### Inventory

| Component | State | Operations | What makes it correct | Module |
|---|---|---|---|---|
| Sign-in (`auth/`, `database/user_auth.py`, callback in `web/router.py`) | row of `user_auth`: tokens, `state`, `auth_message_id`; the link messages in Slack | `authorize_for`, token refresh, `start_sign_in_flow`, callback, resumption, deletion of credentials | the request on record can be opened; a link works once; an operation runs once per sign-in; nobody is locked out; the question is answered in the end | `SignIn`, `Access`, `SignIn_proofs`, `SignInRuns_proofs`, `SignInAlone_proofs` |
| Interactions (`database/interactions.py`) | row per question: answer, marks, a JSON column of comments | `add_question`, `add_answer`, `append_comment`, `append_comment_answer`, the two marks | no mark without a post; comments survive concurrent writers | `Interactions` |
| Slack bot (`slack/bot_runner.py`, `chat_bot/`) | known threads (memory), the pool's queue, tasks | deliver, route, submit, the steps of `process_question`, restart | what Slack shows is stored; a follow-up is answered once, with the history before it; a known thread stays known | `ChatBot`, `Answers`, `ChatBot_proofs`, `ChatBotHistory_proofs` |
| Feedback (`chat_bot/tasks/user_feedback_score.py`) | timers, prompts, scores | prompt, click, score | scores belong to posted answers | `ChatBot`, `Answers` |
| Slack's API (`slack/_client.py`) | messages and channels in Slack | post with its retries, look a conversation up, leave it | what a caller is told of its message is true | `SlackCalls`, `SlackCalls_proofs` |
| Service cooldown (`utils/service_cooldown.py`, `database/service_cooldowns.py`) | row per service: pause and time | read, back off, write | bounded retries; a pause reaches the other processes | `ServiceCooldown`; attempts also in `Assistants` |
| Channels (`chat_bot/channels.py`, `database/channels.py`, `web/admin/channel.py`) | rows of `channels` | refresh, leave | the list agrees with Slack | `Channels`, `SlackCalls` |
| Knowledge base jobs (`knowledge_base/importer.py`, `confluence/retriever.py`, `database/spaces.py`, `database/pages.py`) | `spaces`, `page_data`, embeddings | import, pull updates, prune, delete a space | no modification falls between two updates; stores agree; the copy converges | `KnowledgeBase`, `KnowledgeBase_proofs` |
| Vector database (`database/_vector`) | the collection, an embedding per page | upsert, delete, nearest neighbours | no embedding without a record | in `KnowledgeBase`; the search changes nothing and is left out |
| Statistics (`knowledge_base/stats_exporter.py`) | a page in Confluence | export after an update | its page is imported like any other | in `KnowledgeBase` |
| Questions to the knowledge base (`knowledge_base/query.py`, `confluence/policy.py`) | none | neighbours, then records, then the user's access | only pages the user may read; a refused token renews the sign-in | steps in `Assistants` |
| Semantic router (`semantic_router/`) | a run's messages | prepare the question, choose a tool, execute it | always a message; errors that matter get through | `Assistants` |
| OpenAI assistants (`open_ai/assistants`) | thread ids in `qa_interactions`; threads, messages and runs at OpenAI | create or continue a thread, put a message, run, poll, list | a message is put once; its answer is the reply to it; retries end | `Assistants`, `Assistants_proofs` |
| Admin login, TUI, CLI, configuration, logging, migrations | | | | not modelled |

How they interact: a question that needs Confluence is put into the encrypted state of a sign-in link and comes
back through the web process (SignIn's `Resume`, ChatBot's `parked` and `Resume`);
the bot's workers and the web process share `qa_interactions`; jobs and the admin
interface share `spaces`, `page_data` and the vector database; the answers read
what the jobs have written; whoever calls Slack shares the cooldown's row.

What is hard about it: transactions run in READ COMMITTED without row locks, and
several read, compute or call a service, and write; messages are posted to Slack before
or after the row that names them is committed; events are acknowledged before they are
processed; two stores are written one after the other; every outside call may raise.
`PROJECT.json` lists the hazards line by line, with the properties that would
notice them going wrong.

## The modules

### SignIn

One Slack user's row, for any number of *tasks* (workers and web threads).  Each
transaction of `database/user_auth.py` that reads before it writes is two actions:

| Code | Actions |
|---|---|
| `authorize_for`, `__authenticate` | `Ask`, `Authenticate`, `Serve`; an `InvalidAuthError` in the body: `ServeDenied`, `DeleteWrite` |
| `__refresh_oauth_tokens`, `update_tokens` | `Refresh`, `UpdateRead`, `UpdateWrite` |
| `start_sign_in_flow`, `upsert_request` | `Post`, `UpsertRead`, `UpsertWrite`, `DeleteOld` |
| `process_confluence_oauth_callback`, `complete_request` | `Click`, `Callback`, `Exchange`, `CompleteRead`, `CompleteWrite`, `CompleteDelete` |
| background task of the callback | `Resume` (an operator of `CompleteDelete`) |
| the administrator (`delete_by_id`) | `AdminRead`, `AdminDelete` |
| time, crashes | `TokenExpires`, `LinkExpires`, `Abort` |

A link is a number that stands for its message in Slack and for the encrypted state
in its URL; an encrypted state cannot be forged, so the state of a callback is that of some
link sent.  Row ids come from a sequence: an UPDATE of a row that was deleted, or
deleted and inserted again, fails (`StaleDataError`), an INSERT beaten by another fails
(unique `slack_user_id`), and a deletion takes only the row its transaction has read (`Deleted`, `removing`).  `completed`, `asked` and `served` are history variables.

One question does not survive every accident: if Slack refuses to delete the link after the sign-in
(`CompleteDelete`), `SignInCompleted` is never returned.  `AskedIsServed` is therefore stated for a single
question none of whose links expires, as long as no refresh fails (see `UpdateTokensAssertion` below).

A row may hold tokens and a request at once.  Expired tokens beside a request are not a sign-in: the callback takes the user for signed in,
`authorize_for` does not.  `SignInEventually` therefore starts from a row with a request and no tokens, and wants a *valid* token in the end;
`LockoutLasts` says what becomes of the others, which is nothing until somebody deletes the row.

`ServeDenied` is what `authorize_for` promises to any body it is used around.  The only body there
is today, `__process_question`, never raises `InvalidAuthError` (see `DeniedSignsInAgain` below).
`OverlappingClicks` says whether two callbacks of one link may be in progress at once, as
when a user double-clicks; the proofs hold for both values.

### Access

What the sign-in promises, as if every transaction and every call were one step.  A link is sent, and then recorded as the request or lost.
A task is accepted for the link on record, only while the user is signed out, and then signs the user in or is rejected.  A task
is cleared to run an operation only while the user is signed in.  Only a link that is neither on record nor about to be
is taken down, and none that signed the user in is accepted again.  The user may be forgotten at any time (`Forget`: a refused token or the administrator).  `SignIn` implements it for any number of tasks (`KeepsAccess`): the two halves of each
transaction, the e-mail check, the checks of stale rows and the deletions of stale messages
map to one of these steps or to none.  The mapping reads `onWay` (links of tasks in `upsert_request`), `accepted` (those between the check of
the state and the commit of the tokens) and `cleared` (those before the body of `authorize_for`) off the tasks,
the rest off the row, Slack and the histories.  A token that expired leaves the user signed in: who runs with it is refused or renews it.

### Interactions and ChatBot

`Interactions` is the table with its operations; `ChatBot` extends it with everything
from a Slack delivery to the answer.  A question names its thread.  The columns
`answer_text` and `answer_posted_on_slack` are written blindly, one action each;
the comments are read (`ReadComments`) and written back (`WriteComments`) in two.

| Code | Actions |
|---|---|
| `_Dispatcher.__call__`, `ChatBotRouter` | `Deliver` (acknowledge and route), `Submit` |
| `ProcessPoolExecutor` | `Take`, `WorkerDies` (`BrokenProcessPool`) |
| `process_question` | `Start`, `Add` or `Find`, `AppendRead`, `AppendWrite`, `Query`, `StoreAnswer` or `AnswerRead`, `AnswerWrite`, `Post` or `PostTimesOut`, `MarkAnswer` or `MarkRead`, `MarkWrite` |
| feedback | `Prompt` (the timer of `call_with_delay`), `FindRated`, `AddScore`, `Received` |
| a start of the bot | `Restart` (`known` is rebuilt from `get_all`) |

The sign-in is abstracted to a choice in `Start`: the question goes on, or is parked and
resumed by the web process at any later time.  `Fail` raises at any step.  A post that times out is tried once
more (`PostTimesOut`), whether Slack has the message or not, so that an answer may be there twice.  A
restart kills the workers; tasks of the web process go on.  `Query`, one step here, is the whole of Assistants below.

### Answers

What the bot promises of every message: its answer is in the database before it is in Slack, is confirmed in the
database only once it is in Slack, a question is rated only after that, and none of
this is ever taken back.  `ChatBot` with a pool of one worker and no resumed sign-in implements it (`KeepsPromise`).  The mapping
reads the four sets of `Answers` off the state: `stored` and `confirmed` are the messages whose entries in the table (the
row's columns for a question, the comments for a follow-up) hold an answer or a mark, `shown` those Slack has an answer to, `rated` the
questions with a score.  With two writers the refinement fails for follow-ups, since one may
overwrite the stored answer of another: that is where the promise ends.

### ServiceCooldown, Channels and SlackCalls

`ServiceCooldown` is the wrapper around calls of a service that limits its rate, over the row all processes
share: `EnterCall` reads it, `BackOff` computes a longer pause and reads it again, `Record` writes, and `Beaten` says
when the unlocked insert fails.  `Channels` is a table with its operations.  `SlackCalls` composes the two: any number of callers
post messages, refresh the list of channels and leave channels.

| Code | Actions |
|---|---|
| `post_message`, with its two decorators | `Post`, `Accepted`, `Refused`, `RateLimited`, `TimesOut`, `ConnectionLost`, `RecordPause` |
| `update_channels`, `get_channel` | `StartRefresh`, `Visit`, `ReadRow`, `List`, `Unlist` |
| `leave_channel` | `StartLeave`, `Leave`, `ForgetLeft` |
| exceptions, deaths | `Abandon` |
| Slack, time | `Join`, `Kick`, `Time` |

A tick of time lasts `Second` units; a sleeper sleeps off `Second` of them, and the row, whose pause
recovers by a factor of at most one, `Recovery`.  `author`, `lost`, `unanswered`, `calm` and `settled` are history variables: who wrote the
pause on record, how many calls ended because another had inserted the row, how often a message's post had no answer, which
refreshes were alone so far, and which conversations were last written by one of them.
Without an answer Slack has the message or not.  A `TimeoutError` is tried once more; any other lost connection is raised through both decorators
(`service_cooldown.py:53`), unless `slack_sdk`, which is external, sends the request again by itself first: `ConnectionLost` does either.

### Assistants

What happens between `__process_query` and `__store_answer`, for the question and the follow-ups of one Slack
thread, on `PoolSize` workers.  `column` is `assistant_thread_id` in the question's row: read when a
task begins, written by the answer to the question only.

| Code | Actions |
|---|---|
| `route`, the nodes of its graph | `Begin`, `Prepare`, `ChooseTool`, `Raise` (any call's exception, caught in `route`), `Fallback` |
| tools | `WebSearch`, `OptimizePrompt`, `ReadPages`, `Denied` (`InvalidAuthError`) |
| `add_user_message_and_complete` | `EnsureThread`, `AddMessage`, `StartRun` |
| `__check_completion` | `Completed`, `Failed`, `RateLimited`, `Expired`, `Unexpected`; `ListMessages` is the second call it makes |
| `with_service_cooldown`, `backoff` | `MessageRateLimited`, `Retry`, `GivesUp`, `ExpiredTwice` |
| `__store_answer` | `Store` |
| OpenAI | `RunEnds`; a run locks its thread against messages and other runs (`Active`) |

The two models choose any tool, OpenAI ends a run in any way it documents.  A task whose poll raises leaves its run
active at OpenAI; the thread stays locked until the run ends, and a late reply
lands in it.  Pauses between attempts are left out (they take time, and every delay is possible anyway), and so are
repetitions that OpenAI's client makes by itself.

### KnowledgeBase

Jobs against a Confluence that changes at any time.  Time is Confluence's clock, which
ticks with every modification; a version of a page is the time of its last modification;
the local clock is ahead of it by 0 to `Skew`.

| Code | Actions |
|---|---|
| `import_confluence_space` | `StartImport`, `Labels`, `List`, `Fetch`, `FindSpace`, `Records`, `Embeddings`, `Mark` |
| `pull_updates` | `StartPull`, `NextSpace`, then per space `Labels`, `List`, `Prune`, `PruneCommit`, `Update`, `Search`, `Fetch`, `Records`, `Embeddings`, `Remove`, `RemoveCommit`, `Mark` |
| `update_pages --export-stats`, `export_spaces_stats` | `StartExport`, `Export`, then `FindSpace`, `Update`, `Search` and on for the space of its page |
| `delete_space_and_related_pages` | `StartDelete`, `Drop`, `DropCommit` |
| exceptions, death of a job | `Fail`; in the middle of an upsert any part of the embeddings may be stored |
| Confluence | `Edit`, `Trash`, `Label`, `Unlabel`, `Archive`, `Close` |

`List` is repeated: a chunk of `Limit` pages from a position on is one call, and a page that goes between two calls moves those
behind it up by one, so that one is skipped (and then pruned).  A query (`Labels`, `Search`) comes in chunks too, of which each
but the last ends in a link to the rest that Confluence made (`_client.py:93-116`); the model takes that link to go on behind the last page returned, among the pages that
match by then, so that a query skips no page, but may return one that no longer matches and miss one that matches too late.  The vector database's `collection` is created by the first
upsert, and deletions raise before.  weaviate's `insert_many` may store part of what it is given and only
return the rest as errors, which nobody reads (the event "lost"); qdrant rejects an empty list (`EmptyUpsertFails`).
`delete_embeddings` runs inside the transaction that deletes the rows, so that embeddings
go first and rows with the commit.

The updates owe nothing for pages the code gives up without an error (`overlooked`), until they are modified or embedded again: those that lost an ignored
label (labels do not count as modifications), those a listing skipped, those weaviate lost, and
those whose embeddings went in the deletion of a space that was then not deleted.  The assumption
`Skew <= Overlap` is the reason given for the 15 minutes at `importer.py:79`.

## What TLC checks

MC modules give the constants their values; every bound is a constant.

| Run | Instance | Properties | Result |
|---|---|---|---|
| `sign_in_safety` | 2 tasks, 2 operations, 3 links, every kind of event once; no two callbacks of one link at a time | `TypeOK`, `RecordedLinkVisible`, `PendingPaired`, `ConsumedLinkNeverReaccepted`, `ServedOncePerSignIn`, `KeepsAccess` | hold |
| `sign_in_sequential` | 1 task, 2 operations, 4 links, two of each event but deaths and deletions by the administrator, fair | `SingleLink`, `ValidTokenHasNoRequest`, `LockoutLasts`, `SignInEventually`, `AskedIsServed` | hold |
| `sign_in_lockout` | 1 task, a refresh that fails once | `UpdateTokensAssertion` | **violated** |
| `chat_bot_parallel` | 2 workers and the web, 2 questions and a skipped one, 1 follow-up delivered twice, a click, each kind of event once and any two kinds together | `TypeOK`, `PostedAnswerStored`, `MarkedIsPosted`, `HistoryHasAnswer`, `ScoredIsMarked` | hold |
| `chat_bot_serial` | 1 worker, 1 question and one in a channel, 2 follow-ups, one of them delivered twice, a click, nobody signs in, any two kinds of events, fair | `HistoryComplete`, `FollowUpAnsweredOnce`, `KnownCoversRows`, `RoutedIsAnswered`, `KeepsPromise` | hold |
| `slack_calls` | 2 callers, a message into a channel and a direct message, 2 refreshes, 1 channel to leave, 2 accidents | `TypeOK`, `PauseIsShared`, `OutcomeIsTold`, `LostToFirstInsertOnly`, `SettledAgrees` | hold |
| `assistants_threads` | a question, 2 follow-ups, 2 workers, 2 attempts, fair | `TypeOK`, `AskedOnce`, `AloneFindsItsReply`, `AlwaysAnswered` | hold |
| `assistants_shared` | a question, 2 follow-ups, 2 workers | `AnswerIsOwn` | **violated** |
| `assistants_denied` | a question, a follow-up | `DeniedSignsInAgain` | **violated** |
| `kb_sync` | weaviate; 1 job, 1 space, 2 pages in chunks of 1, 3 modifications, updates without end, every other event once, any five kinds | `TypeOK`, `EmbeddingsHaveRecords`, `StaleIsInWindow` | hold |
| `kb_converge` | qdrant; 1 job, 2 spaces with a page each, 2 imports, 2 modifications, a failure, an export, a page trashed, a label, a space archived, one closed, any three kinds besides the imports, fair | `Converges` | holds |
| `kb_overlap` | 2 jobs, 1 space, two imports and an update | `StaleIsInWindow` | **violated** |

**Why these bounds.**  Sign-in: what goes wrong goes wrong between two tasks on one row, and the third
link is the one that overtakes both (one recorded, one superseded, one on its way); four links
for two operations give each its own and two renewals.  Bot: races on a
row take two writers, lost histories two follow-ups; a second question has
its own row, so that an operation on the wrong row shows.  `RoutedIsAnswered` speaks of behaviours without events (failure, timeout,
dead worker, restart), and of a follow-up that comes when its question has been answered.  Slack: one channel may be in the list or not, a
direct message never is; two refreshes and a leave meet each other in pairs, two accidents let a change of
membership fall between two of them, or one message's post time out in both attempts; three attempts have a first, a middle and
a last one, and pauses of 2, 3, 4 units against ticks of 2 and a recovery of 1 per tick make a sleeper wake before, with and after the row's pause.  Assistants: a reply is mistaken between two
tasks of one thread, and the question is needed to create it; two attempts have a retry and a last
one; each attempt's run may expire twice.  Knowledge base: two pages let
a query return one that is stale and one that is gone, and a listing in chunks of one skip the second; three modifications let a page
change before, during and after a job; `Overlap = Skew = 2` makes the window wider than one
modification, and the whole overlap needed; `kb_converge` has clocks that agree and an overlap of 1, since what skew does to the window is `kb_sync`'s question.  One label is set in either run,
so that a search meets chunks but a query for labels does not.  A page or space more only multiplies
independent histories: nothing relates two pages but the queries that return both, nothing two spaces but the loop that
visits them.  `MaxKinds` bounds how many kinds of events a behaviour has, not which: every pair (bot), every five of eleven (`kb_sync`) occurs in some
behaviour, also in every order.

**Deadlock** is not checked where the system may rest: users need not write, click or ask, bounded
events run out, and without spaces an update has nothing to do.  No run checks it.

**Fairness.**  *SignIn*: tasks are threads, which go on (`WF` of each task's step); and the user
keeps opening the links, each of which may be opened only while a task is free (`SF` of `Click`), which is
an assumption about the user and the premise of "sign-in succeeds".  *ChatBot*: listener
threads submit what they have routed, the pool and each worker go on; nothing is assumed of deliveries, resumptions and prompts.
*SlackCalls* has safety properties only.
*Assistants*: workers go on with their tasks, and OpenAI ends every run (an unfinished one expires);
nobody has to ask, no call has to raise.
*KnowledgeBase*: jobs go on, and cron starts `update_pages` again and again; nothing is assumed
of imports, deletions or Confluence.

### What the violated properties say

* **`UpdateTokensAssertion`** (`database/user_auth.py:93`).  A refresh that fails once
  leaves old tokens and a new request on the row.  From then on the assertion of
  `update_tokens` fails, is swallowed in `__refresh_oauth_tokens`, and each question
  only sends another link; the callback of any of them answers `AlreadySignedIn`, since the row has tokens.
  The user stays locked out until the row is deleted: `LockoutLasts`, checked by `sign_in_sequential`, where
  tokens expire, refreshes fail and links are opened on the way, and proved.  With one task the failed refresh is
  the only way into it (`LockoutNeedsFailedRefresh`): neither expiry, nor refusals, deaths or deletions of the row lead there.  In
  `sign_in_sequential`, where a refresh may fail too, `ValidTokenHasNoRequest` still holds: the
  row's tokens are old, not valid.
* **`AnswerIsOwn`** (`open_ai/assistants/threads.py:153`).  A follow-up sees its run completed; another worker puts the next follow-up
  of the thread to the same assistant thread and its run completes too; now the first lists the messages, takes the "most recent assistant messages
  block" and posts the answer to the second as its own.  Between these two calls nothing locks the thread.
  Who has the thread for itself is safe (`AloneFindsItsReply`), also from late replies of runs that were given up.
* **`DeniedSignsInAgain`** (`semantic_router/router.py:69`).  `authorize_for` deletes the credentials and renews the sign-in when its
  body raises `InvalidAuthError`, which `test_provider.py:176` tests.  Only the page access below the router raises it, and `route` catches
  everything: the user reads "Something went wrong. Please try again later." until the token expires by its date.
* **`StaleIsInWindow`** with overlapping jobs (`knowledge_base/importer.py:48`).  An import that read a page before its
  modification writes after an update that read it afterwards and marked the space: the old version stays, outside every later window.

Other behaviour found on the way that no line of the repository denies, and so no run refutes:

* With two workers two follow-ups of a thread overwrite each other's comments, and the
  answer to one is computed and then dropped (`InteractionCommentNotFoundError`): `HistoryComplete`, `FollowUpAnsweredOnce` and
  `KeepsPromise` are stated for a pool of one.
* Two tasks that start the sign-in at once leave a second link message in Slack: `SingleLink` is stated for one task.
* A thread whose row was added by the web process is unknown to the router until the bot restarts.
* A post that times out is made again: the answer is there twice, or once although the task saw an exception and never marked it.
* The last writer of a pause wins, with a shorter one too, since each caller computes it from the pause it read before its
  call; and a pause equal to the one on record is not written, so that `updated_at`, from which it recovers, stays old.  `PauseIsShared`
  is therefore stated for the caller whose pause is on record.
* The first rate limit ever, met by two callers at once, ends one of them with an
  `IntegrityError` though it has attempts left (`LostToFirstInsertOnly` bounds how often).
* Whatever error Slack answers to `conversations_info` with takes the channel off the list, also a rate limit;
  a refresh that has read a membership before a leave adds the row again after it.  `SettledAgrees` is stated for jobs that were alone.
* A page skipped by a listing is pruned although nothing happened to it, and comes back only when it is modified; pages weaviate could not store
  stay out of the index as quietly.  The export of the statistics creates its space's row without a date, which updates pass over.
* `knowledge_base/query.py:88` measures the context by the number of its entries, not of their characters.

## What is proved

Each module of proofs extends the module it is about and rests on the named assumption on its constants
alone, so that its theorems hold for any number of tasks, messages, pages, callers and events.  Where a theorem
needs more, it says so in its `ASSUME` (the column "Needs").

| Module | Theorem | What it proves of `Spec` | Needs |
|---|---|---|---|
| `SignIn_proofs` | `SignInTypes` | `[]TypeOK` | |
| | `RequestCanBeOpened` | `[]RecordedLinkVisible` | |
| | `RequestColumnsAgree` | `[]PendingPaired` | |
| | `LinkWorksOnce` | `ConsumedLinkNeverReaccepted` | |
| | `SignInKeepsAccess` | `KeepsAccess`, that is: SignIn implements `Access` | |
| `SignInRuns_proofs` | `RunsArePaidFor` | `[]ServedOncePerSignIn` | no two callbacks of a link at once |
| `SignInAlone_proofs` | `ValidTokenStandsAlone` | `[]ValidTokenHasNoRequest` | one task |
| | `OneLinkAtRest` | `[](Undisturbed => SingleLink)`: `SingleLink` until a task dies or the administrator removes the row | one task |
| | `LockoutStays` | `LockoutLasts` | one task |
| | `LockoutNeedsFailedRefresh` | `[](NotYet("refresh_failure") => UpdateTokensAssertion)` | one task |
| `ChatBot_proofs` | `BotTypesAlways` | `[]TypeOK` | |
| | `StoredBeforePosted` | `[]PostedAnswerStored` | |
| | `PostedBeforeMarked` | `[]MarkedIsPosted` | |
| | `ScoresArePromised` | `[]ScoredIsMarked` | |
| | `RecordedIsKnown` | `[]KnownCoversRows` | no question is resumed by the web process |
| | `BotKeepsPromise` | `KeepsPromise`, that is: ChatBot implements `Answers` | one process |
| `ChatBotHistory_proofs` | `HistoryHasTheAnswer` | `[]HistoryHasAnswer` | each question is delivered once |
| | `HistoryIsComplete` | `[]HistoryComplete` | one process; each question is delivered once |
| | `FollowUpsAnsweredOnce` | `[]FollowUpAnsweredOnce` | one process; each question is delivered once |
| `Assistants_proofs` | `AssistantsTypes` | `[]TypeOK` | |
| | `MessagesAreAskedOnce` | `[]AskedOnce` | |
| | `RepliesAreFound` | `[]AloneFindsItsReply` | |
| `SlackCalls_proofs` | `CallersTypes` | `[]TypeOK` | |
| | `PauseReachesAll` | `[]PauseIsShared` | |
| | `CallersAreToldTheTruth` | `[]OutcomeIsTold` | |
| | `SettledListAgrees` | `[]SettledAgrees` | |
| | `FirstInsertEndsFew` | `[]LostToFirstInsertOnly` | |
| `KnowledgeBase_proofs` | `KnowledgeBaseTypes` | `[]TypeOK` | |
| | `EmbeddingsLeadToRecords` | `[]EmbeddingsHaveRecords` | one job at a time |
| | `UpdatesLeaveNoGap` | `[]StaleIsInWindow` | one job at a time |

These conditions are not conveniences; without any of them TLC finds the property violated.  `kb_overlap` shows two jobs that leave a gap.  Two processes overwrite
each other's comments, and a question the web process resumes is unknown to the bot.  Two callbacks of one link pass the check of
the state together and both resume its question.  Two tasks that start the sign-in at once leave two links, and a task
may record a request after another one's callback has completed, or finish a refresh (or a callback) it began before another one locked the user out.  A question delivered twice has two rows, since `thread_id` is
not unique, and its follow-ups are read from one and appended to another; a follow-up may be delivered any number of times.  These are
also the instances the runs use: `chat_bot_serial` and `chat_bot_parallel` deliver each question once.

None of the properties is inductive as it stands.  What makes them so:

* **SignIn**, `IInv`: the pairing of the row's two columns and *ties* between what tasks hold and what is on record.
  A link on its way to being recorded is visible and was sent by exactly one task, and nobody
  holds it as the message to delete; what a transaction has read is older than what it will write; a used link
  is neither recorded nor about to be.  The refinement adds `Grounds`: a row exists for its tokens or for its request, whoever writes to
  a row has read one, and a row a task is about to renew has not lost its tokens, since ids are never used again.
* **SignIn**, `Accounts` (`SignInRuns_proofs`): for each operation, the times it ran and the tasks that are to run it are together no more than its
  completed links, or than the one time it was asked for if it has no link (`Budget`).  Each step moves one unit from one side of it to the other.  It takes
  `CallbacksApart` and `AcceptedUnused`: with one callback of a link at a time, the link that `CompleteWrite` uses up was not used before.
* **SignIn**, `Alone` (`SignInAlone_proofs`): who asks for a sign-in or renews tokens found none valid and nobody else makes any (`InvalidWhileRenewed`), what
  a transaction has read is still there (`RowReadIsCurrent`), tokens and a request exclude each other until a refresh fails (`TokensOrRequest`), and
  each message in Slack is on record, about to be, or about to be deleted (`EveryLinkHasAPlace`).  `LockoutStays` needs no more: only who found no
  tokens, or no request, is about to write to the row.
* **ChatBot**, `Shape`: who is at work on which message and holds which row, at each step.  On it rest one short invariant per property:
  who posts has stored (`StoredFirst`), who marks has posted, also by way of a stale column (`PostedFirst`), who clicks was
  prompted (`PromptedLast`), what is on its way to a row is known (`KnownFirst`).  The refinement adds `Aligned`: with one process the column
  a transaction has read is still the column it overwrites, so that it takes nothing back.
* **ChatBot**, histories (`ChatBotHistory_proofs`): a question delivered once is in one place at a time, and gets its row as it leaves the last of them (`RowsOnce`), so
  that its thread has one row for good.  Then a posted answer of the question is in that row (`AnswerInHistory`).  With one
  process nothing that was stored is overwritten (`ShownStored`: what is answered in Slack is in the table), and who posts an answer to a follow-up put its entry
  on record itself, before which nothing of it was posted (`EntryFirst`).
* **Assistants**, `Held`: who waits for a reply has a thread with a message in it, and a run.  `Silent` and `Once` count a task's messages in all threads;
  `Undisturbed` says that nobody else is at work in the thread of a task that was alone when it put its message,
  and that the thread's last block is empty until the run is completed and the reply from then on.
* **SlackCalls**: each caller in `post_message` has a message to itself (`PostsTie`); a job on channels that was alone so far knows
  Slack and the table as they are (`CalmKnows`); and no call is lost before there is a row, and then only those that were about to insert it (`FirstInsert`).
* **KnowledgeBase**: rows are there before embeddings and embeddings are gone before rows (`OrderInv`).  `WindowInv` says what a job knows at each step: after
  the listing, the query, the retrieval, the records and the embeddings, every page the job leaves out
  is up to date (`Settled`), or was modified after the moment its new import date was taken, or the old one
  (`NewEnough`).  Between two chunks of a query (`Searching`) a page may
  also be one the query has still to come to (`Ahead`), and `QueryGoesOn` says that no chunk goes past a page that matches.  With `DatesBehind` (no date is ahead of Confluence's clock by more than `Skew`) and `Skew <= Overlap`, every later modification is
  new enough too.  `SinceBehind` says that the date a job has read is none later than the one on record.

Only model-checked are the liveness properties, `SignInEventually`, `AskedIsServed`, `RoutedIsAnswered`, `AlwaysAnswered` and `Converges`: liveness under
fairness is beyond the prover.  `AnswerIsOwn` and `DeniedSignsInAgain` are false, and have no weaker form here beyond `AloneFindsItsReply`.

## Plan

1. *Done*: `SignIn`, `Interactions`, `ChatBot`, `KnowledgeBase`, `Assistants`, `ServiceCooldown`, `Channels` and `SlackCalls`;
   `Answers` with the refinement by ChatBot and `Access` with the one by SignIn.
2. *Done*: a theorem for every safety property of the passing runs.
3. Abstract specifications of a conversation with an assistant (asked, answered or given up) and of the cooldown, and their refinements.

## Not modelled

Encryption and OAuth are reduced to success or failure, texts to names, page contents to versions.  The admin login, menus,
logging, tracing, metrics and configuration keep no state the modelled parts read.  Profiles and
reactions in Slack are read or written for display only.  The search of the vector database and the access check read what the jobs
wrote and change nothing; their outcomes are the choices of `ReadPages` and `Denied` in Assistants.  Time zones in Confluence's query language
and pages that move between spaces are outside KnowledgeBase, a link posted twice after a timeout is outside SignIn; each is listed among the hazards.
