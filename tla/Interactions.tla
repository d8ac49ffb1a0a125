---------------------------- MODULE Interactions ----------------------------
(***************************************************************************)
(* The qa_interactions table (models/qa_interaction.py) and its operations *)
(* (database/interactions.py), as the processes that answer questions use  *)
(* them.  A question's thread is named by the question itself.             *)
(*                                                                         *)
(* answer_text and answer_posted_on_slack are columns of their own and are *)
(* written blindly.  The comments of a thread are one JSON column: adding  *)
(* to it reads the column, changes the copy and writes it back, with no    *)
(* lock in between (Postgres, READ COMMITTED), hence two operators.        *)
(***************************************************************************)
EXTENDS Naturals

CONSTANTS
    Processes,      \* whoever runs transactions
    Questions,      \* messages that start a thread
    FollowUps,      \* messages written into a thread
    MaxRows         \* bound: rows ever inserted

ASSUME InteractionsAssumption ==
    /\ Questions \intersect FollowUps = {}
    /\ MaxRows \in Nat

VARIABLES
    rows,       \* rows ever inserted: their ids are 1..rows
    thread,     \* thread_id of each row
    answers,    \* rows with an answer_text
    marked,     \* rows with answer_posted_on_slack
    comments,   \* the comments column: what each row says of each comment
    row,        \* the row a process works on (QAInteractionDTO.interaction_id)
    history,    \* the messages whose answers its DTO holds
    snapshot    \* the comments column as its transaction has read it

table == <<rows, thread, answers, marked, comments>>
transactions == <<row, history, snapshot>>

Rows == 1..MaxRows
NoRow == 0

\* The keys a comment's JSON object can have.
CommentKeys == {"text", "assistant_response", "assistant_response_posted_on_slack"}
Comments == SUBSET (FollowUps \X CommentKeys)

InteractionsInit ==
    /\ rows = 0
    /\ thread = [i \in {} |-> NoRow]
    /\ answers = {}
    /\ marked = {}
    /\ comments = [i \in Rows |-> {}]
    /\ row = [p \in Processes |-> NoRow]
    /\ history = [p \in Processes |-> {}]
    /\ snapshot = [p \in Processes |-> {}]

-----------------------------------------------------------------------------
\* A process forgets the interaction it worked on.
Forget(p) ==
    /\ row' = [row EXCEPT ![p] = NoRow]
    /\ history' = [history EXCEPT ![p] = {}]
    /\ snapshot' = [snapshot EXCEPT ![p] = {}]

\* Wrong: the id after the one flush() assigned.
AddQuestionMut(p, q) ==
    /\ rows < MaxRows
    /\ rows' = rows + 1
    /\ thread' = [i \in 1..rows + 1 |-> IF i \in DOMAIN thread THEN thread[i] ELSE q]
    /\ row' = [row EXCEPT ![p] = rows + 2]
    /\ UNCHANGED <<answers, marked, comments, history, snapshot>>

\* add_question: thread_id has an index but need not be unique.
AddQuestion(p, q) ==
    /\ rows < MaxRows
    /\ rows' = rows + 1
    /\ thread' = [i \in 1..rows + 1 |-> IF i \in DOMAIN thread THEN thread[i] ELSE q]
    /\ row' = [row EXCEPT ![p] = rows + 1]
    /\ UNCHANGED <<answers, marked, comments, history, snapshot>>

RowsOf(q) == {i \in DOMAIN thread : thread[i] = q}

\* Wrong: the filter on thread_id is lost.
FindByThreadMut(p, q) ==
    /\ \E i \in DOMAIN thread :
        /\ row' = [row EXCEPT ![p] = i]
        /\ history' = [history EXCEPT ![p] = IF i \in answers THEN {q} ELSE {}]
    /\ UNCHANGED <<table, snapshot>>

\* find_by_thread_id: first() of an unordered query is any of the rows.  Its
\* comments are read anew by append_comment, before the DTO is used.
FindByThread(p, q) ==
    /\ \E i \in RowsOf(q) :
        /\ row' = [row EXCEPT ![p] = i]
        /\ history' = [history EXCEPT ![p] = IF i \in answers THEN {q} ELSE {}]
    /\ UNCHANGED <<table, snapshot>>

\* Wrong: the latest row.
AddAnswerMut(p) ==
    /\ answers' = answers \union {rows}
    /\ UNCHANGED <<rows, thread, marked, comments>>

\* add_answer, all of it: nothing it writes depends on what it reads.
AddAnswer(p) ==
    /\ answers' = answers \union {row[p]}
    /\ UNCHANGED <<rows, thread, marked, comments>>

\* Wrong: the latest row.
MarkAnswerPostedMut(p) ==
    /\ marked' = marked \union {rows}
    /\ UNCHANGED <<rows, thread, answers, comments>>

\* mark_answer_posted_on_slack.
MarkAnswerPosted(p) ==
    /\ marked' = marked \union {row[p]}
    /\ UNCHANGED <<rows, thread, answers, comments>>

\* The comment's entry is in the column.
HasComment(p, f) == <<f, "text">> \in comments[row[p]]

\* append_comment, append_comment_answer, mark_comment_answer_posted_on_slack:
\* the SELECT.
ReadComments(p) ==
    /\ snapshot' = [snapshot EXCEPT ![p] = comments[row[p]]]
    /\ UNCHANGED <<table, row, history>>

ChangedMut(p, f, key) == {<<f, key>>}    \* wrong: the column is overwritten

\* The column a transaction writes back.
Changed(p, f, key) == snapshot[p] \union {<<f, key>>}

\* Their UPDATE.
WriteComments(p, f, key) ==
    /\ comments' = [comments EXCEPT ![row[p]] = Changed(p, f, key)]
    /\ UNCHANGED <<rows, thread, answers, marked>>

\* And the caller's DTO brought up to date with it.
SeeComments(p, f, key) ==
    /\ history' = [history EXCEPT ![p] =
            @ \union {c \in FollowUps : <<c, "assistant_response">> \in Changed(p, f, key)}]
    /\ UNCHANGED <<row, snapshot>>

-----------------------------------------------------------------------------
\* Ids of rows come from the sequence, and transactions hold existing rows.
InteractionsTypeOK ==
    /\ rows \in 0..MaxRows
    /\ thread \in [1..rows -> Questions]
    /\ answers \subseteq 1..rows
    /\ marked \subseteq 1..rows
    /\ comments \in [Rows -> Comments]
    /\ row \in [Processes -> 0..rows]
    /\ history \in [Processes -> SUBSET (Questions \union FollowUps)]
    /\ snapshot \in [Processes -> Comments]

=============================================================================
