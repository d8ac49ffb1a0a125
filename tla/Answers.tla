------------------------------- MODULE Answers -------------------------------
(***************************************************************************)
(* What the bot promises, whatever fails, dies or is delivered twice: an   *)
(* answer is in the database before it is in Slack, is confirmed in the    *)
(* database only once it is in Slack, and a question is rated only after   *)
(* that.  None of this is ever taken back, and each step is one message's. *)
(***************************************************************************)
CONSTANTS
    Questions,      \* messages that start a thread
    FollowUps       \* messages written into a thread

VARIABLES
    stored,         \* messages whose answer is in the database
    shown,          \* messages with an answer in Slack
    confirmed,      \* messages whose answer the database says is in Slack
    rated           \* questions with a score

answersVars == <<stored, shown, confirmed, rated>>

Init == stored = {} /\ shown = {} /\ confirmed = {} /\ rated = {}

Store(m) ==
    /\ m \notin stored
    /\ stored' = stored \union {m}
    /\ UNCHANGED <<shown, confirmed, rated>>

Show(m) ==
    /\ m \in stored \ shown
    /\ shown' = shown \union {m}
    /\ UNCHANGED <<stored, confirmed, rated>>

Confirm(m) ==
    /\ m \in shown \ confirmed
    /\ confirmed' = confirmed \union {m}
    /\ UNCHANGED <<stored, shown, rated>>

Rate(q) ==
    /\ q \in confirmed \ rated
    /\ rated' = rated \union {q}
    /\ UNCHANGED <<stored, shown, confirmed>>

Next ==
    \/ \E m \in Questions \union FollowUps : Store(m) \/ Show(m) \/ Confirm(m)
    \/ \E q \in Questions : Rate(q)

Spec == Init /\ [][Next]_answersVars

=============================================================================
