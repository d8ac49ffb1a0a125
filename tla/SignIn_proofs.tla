--------------------------- MODULE SignIn_proofs ---------------------------
(***************************************************************************)
(* Proofs about SignIn, for any number of tasks, operations and links and  *)
(* any number of events.                                                   *)
(***************************************************************************)
EXTENDS SignIn, TLAPS

\* p has posted a link and not recorded it yet.
Sending(p) == pc[p] \in {"upsert_read", "upsert_write"}

\* p has read the id of a message it may delete.
HoldsOld(p) == pc[p] \in {"upsert_write", "delete_old", "complete_write", "complete_delete"}

\* p is about to delete that message.
Deleting(p) == pc[p] \in {"delete_old", "complete_delete"}

\* p's callback passed the check of the recorded state.
Accepted(p) == pc[p] \in {"exchange", "complete_read", "complete_write"}

CallbackHasLink ==
    \A p \in Tasks : pc[p] \in CallbackSteps => link[p] # NULL

\* A task at work and a link that was sent each have an operation.
OperationKnown ==
    /\ \A p \in Tasks : pc[p] # "idle" => op[p] \in Operations
    /\ \A l \in 1..sent : linkOp[l] \in Operations

\* A link being sent is in Slack and is known to no one else: it is not on
\* record, signed nobody in, and no other task holds it.
SentLinkFresh ==
    \A p \in Tasks : Sending(p) =>
        /\ link[p] \in visible
        /\ link[p] # auth.auth_message_id
        /\ link[p] \notin completed
        /\ \A q \in Tasks : HoldsOld(q) => old[q] # link[p]
        /\ \A q \in Tasks : Accepted(q) => link[q] # link[p]

SentLinksDiffer ==
    \A p, q \in Tasks : Sending(p) /\ Sending(q) /\ p # q => link[p] # link[q]

\* What a task is about to delete is a real message and not the current one.
OldSuperseded ==
    \A p \in Tasks :
        /\ pc[p] \in {"complete_write", "complete_delete", "delete_old"} => old[p] # NULL
        /\ Deleting(p) => old[p] # auth.auth_message_id

RequestNotCompleted == auth.state \notin completed

Ties ==
    /\ CallbackHasLink
    /\ OperationKnown
    /\ SentLinkFresh
    /\ SentLinksDiffer
    /\ OldSuperseded
    /\ RequestNotCompleted
    /\ PendingPaired
    /\ RecordedLinkVisible

IInv == TypeOK /\ Ties

-----------------------------------------------------------------------------
\* The initial state satisfies the inductive invariant.
LEMMA InitIInv == Init => IInv
  BY SignInAssumption
  DEF Init, IInv, Ties, TypeOK, CallbackHasLink, OperationKnown, SentLinkFresh, SentLinksDiffer, OldSuperseded,
      RequestNotCompleted, PendingPaired, RecordedLinkVisible, NoRow, UserAuth, Steps, Tokens,
      NULL, Links, Sending, HoldsOld, Deleting, Accepted, CallbackSteps

\* The types of the tasks' own variables.
LocalsOK ==
    /\ pc \in [Tasks -> Steps]
    /\ op \in [Tasks -> Operations \union {NoOperation}]
    /\ link \in [Tasks -> 0..sent]
    /\ row \in [Tasks -> 0..rows]
    /\ old \in [Tasks -> 0..sent]

\* Ids only grow, so what a task holds stays an id.
LEMMA LocalsGrow ==
    ASSUME LocalsOK, rows \in Nat, sent \in Nat, rows' \in Nat, sent' \in Nat,
           rows <= rows', sent <= sent'
    PROVE  /\ link \in [Tasks -> 0..sent']
           /\ row \in [Tasks -> 0..rows']
           /\ old \in [Tasks -> 0..sent']
<1>1. 0..sent \subseteq 0..sent' /\ 0..rows \subseteq 0..rows'
  OBVIOUS
<1> QED
  BY <1>1 DEF LocalsOK

\* Moving a task to another step keeps its locals well typed.
LEMMA GotoLocals ==
    ASSUME LocalsOK, rows \in Nat, sent \in Nat, rows' \in Nat, sent' \in Nat,
           rows <= rows', sent <= sent',
           NEW p \in Tasks, NEW s \in Steps, Goto(p, s)
    PROVE  LocalsOK'
  BY LocalsGrow DEF LocalsOK, Goto

\* So does turning it to an existing operation and link,
LEMMA BeginLocals ==
    ASSUME LocalsOK, rows \in Nat, sent \in Nat, rows' \in Nat, sent' \in Nat,
           rows <= rows', sent <= sent',
           NEW p \in Tasks, NEW s \in Steps, NEW o \in Operations \union {NoOperation},
           NEW l \in 0..sent, Begin(p, s, o, l)
    PROVE  LocalsOK'
  BY LocalsGrow DEF LocalsOK, Begin, NULL

\* ending it,
LEMMA EndLocals ==
    ASSUME LocalsOK, rows \in Nat, sent \in Nat, rows' \in Nat, sent' \in Nat,
           rows <= rows', sent <= sent', NEW p \in Tasks, End(p)
    PROVE  LocalsOK'
<1>1. "idle" \in Steps /\ NoOperation \in Operations \union {NoOperation} /\ NULL \in 0..sent
  BY DEF Steps, NULL
<1> QED
  BY <1>1, BeginLocals DEF End

\* and reading the row on its behalf.
LEMMA ReadLocals ==
    ASSUME LocalsOK, rows \in Nat, sent \in Nat, UNCHANGED <<rows, sent>>,
           NEW p \in Tasks, NEW s \in Steps, NEW m \in 0..sent, auth.row \in 0..rows,
           Read(p, s, m)
    PROVE  LocalsOK'
  BY DEF LocalsOK, Read

\* The rows user_auth may hold.
AuthRows == [row : 0..rows, tokens : Tokens, state : 0..sent, auth_message_id : 0..sent]

\* A row built from ids in use is a row of the table.
LEMMA UserAuthOK ==
    ASSUME NEW id \in 0..rows, NEW t \in Tokens, NEW s \in 0..sent, NEW m \in 0..sent
    PROVE  UserAuth(id, t, s, m) \in AuthRows
  BY DEF UserAuth, AuthRows

\* The types of the shared variables.
SharedOK ==
    /\ auth \in AuthRows
    /\ rows \in Nat
    /\ removing \in 0..rows
    /\ sent \in 0..MaxLinks
    /\ linkOp \in [Links -> Operations \union {NoOperation}]
    /\ visible \subseteq 1..sent
    /\ expired \subseteq 1..sent
    /\ completed \subseteq 1..sent
    /\ asked \subseteq Operations
    /\ served \in [Operations -> Nat]
    /\ events \in [EventKinds -> Nat]

\* An event leaves the budgets well typed.
LEMMA HappensOK ==
    ASSUME events \in [EventKinds -> Nat], NEW k \in EventKinds, Happens(k)
    PROVE  events' \in [EventKinds -> Nat]
  BY DEF Happens

\* Every step keeps the types.
LEMMA NextTypeOK == IInv /\ [Next]_vars => TypeOK'
<1> SUFFICES ASSUME IInv, [Next]_vars PROVE SharedOK' /\ LocalsOK'
  BY DEF TypeOK, SharedOK, LocalsOK, AuthRows
<1>0. SharedOK /\ LocalsOK /\ CallbackHasLink /\ OperationKnown
  BY DEF IInv, Ties, TypeOK, SharedOK, LocalsOK, AuthRows
<1>a. sent \in Nat /\ rows \in Nat
  BY <1>0, SignInAssumption DEF SharedOK
<1>b. /\ auth.row \in 0..rows /\ auth.tokens \in Tokens
      /\ auth.state \in 0..sent /\ auth.auth_message_id \in 0..sent
      /\ NoRow \in AuthRows
  BY <1>0, <1>a, UserAuthOK DEF SharedOK, AuthRows, NoRow, NULL, Tokens
<1>c. \A p \in Tasks : op[p] \in Operations \union {NoOperation} /\ link[p] \in 0..sent
  BY <1>0 DEF LocalsOK
<1> USE SignInAssumption DEF Links, NULL, slackVars
<1>1. ASSUME NEW p \in Tasks, Authenticate(p) PROVE SharedOK' /\ LocalsOK'
  <2>1. SharedOK'
    BY <1>0, <1>1 DEF Authenticate, SharedOK, AuthRows
  <2>2. LocalsOK'
    BY <1>0, <1>a, <1>b, <1>c, <1>1, GotoLocals DEF Authenticate, LocalsOK, Steps
  <2> QED
    BY <2>1, <2>2
<1>2. ASSUME NEW p \in Tasks, Refresh(p) PROVE SharedOK' /\ LocalsOK'
  <2>1. SharedOK'
    BY <1>0, <1>2, HappensOK DEF Refresh, SharedOK, EventKinds, AuthRows
  <2>2. LocalsOK'
    BY <1>0, <1>a, <1>b, <1>c, <1>2, GotoLocals DEF Refresh, LocalsOK, Steps
  <2> QED
    BY <2>1, <2>2
<1>3. ASSUME NEW p \in Tasks, UpdateRead(p) PROVE SharedOK' /\ LocalsOK'
  <2>1. SharedOK'
    BY <1>0, <1>3 DEF UpdateRead, SharedOK, AuthRows
  <2>2. LocalsOK'
    BY <1>0, <1>a, <1>b, <1>c, <1>3, GotoLocals, ReadLocals DEF UpdateRead, LocalsOK, Steps
  <2> QED
    BY <2>1, <2>2
<1>4. ASSUME NEW p \in Tasks, UpdateWrite(p) PROVE SharedOK' /\ LocalsOK'
  <2>1. SharedOK'
    BY <1>0, <1>a, <1>b, <1>4 DEF UpdateWrite, SharedOK, Refreshed, AuthRows, Tokens, UserAuth
  <2>2. LocalsOK'
    BY <1>0, <1>a, <1>b, <1>c, <1>4, GotoLocals DEF UpdateWrite, LocalsOK, Steps
  <2> QED
    BY <2>1, <2>2
<1>5. ASSUME NEW p \in Tasks, Serve(p) PROVE SharedOK' /\ LocalsOK'
  <2>1. SharedOK'
    BY <1>0, <1>c, <1>5 DEF Serve, SharedOK, OperationKnown, AuthRows
  <2>2. LocalsOK'
    BY <1>0, <1>a, <1>b, <1>c, <1>5, EndLocals DEF Serve, LocalsOK, Steps
  <2> QED
    BY <2>1, <2>2
<1>6. ASSUME NEW p \in Tasks, ServeDenied(p) PROVE SharedOK' /\ LocalsOK'
  <2>1. SharedOK'
    BY <1>0, <1>b, <1>6, HappensOK DEF ServeDenied, SharedOK, EventKinds, AuthRows
  <2>2. LocalsOK'
    BY <1>0, <1>a, <1>b, <1>c, <1>6, ReadLocals, EndLocals DEF ServeDenied, LocalsOK, Steps
  <2> QED
    BY <2>1, <2>2
<1>23. ASSUME NEW p \in Tasks, DeleteWrite(p) PROVE SharedOK' /\ LocalsOK'
  <2>1. SharedOK'
    BY <1>0, <1>b, <1>23 DEF DeleteWrite, Deleted, SharedOK, AuthRows
  <2>2. LocalsOK'
    BY <1>0, <1>a, <1>b, <1>c, <1>23, GotoLocals DEF DeleteWrite, LocalsOK, Steps
  <2> QED
    BY <2>1, <2>2
<1>7. ASSUME NEW p \in Tasks, Post(p) PROVE SharedOK' /\ LocalsOK'
  <2>1. SharedOK'
    <3>1. sent' = sent + 1 /\ sent' \in 1..MaxLinks /\ 0..sent \subseteq 0..sent'
      BY <1>0, <1>a, <1>7 DEF Post, SharedOK, Room, NewLink
    <3>2. auth' \in AuthRows'
      BY <3>1, <1>0, <1>b, <1>7 DEF Post, SharedOK, AuthRows
    <3>3. linkOp' \in [Links -> Operations \union {NoOperation}]
      BY <1>0, <1>c, <1>7 DEF Post, SharedOK
    <3>4. visible' \subseteq 1..sent' /\ expired' \subseteq 1..sent' /\ completed' \subseteq 1..sent'
      BY <3>1, <1>0, <1>a, <1>7 DEF Post, SharedOK, NewLink
    <3> QED
      BY <3>1, <3>2, <3>3, <3>4, <1>0, <1>a, <1>7 DEF Post, SharedOK
  <2>2. LocalsOK'
    BY <1>0, <1>a, <1>b, <1>c, <1>7 DEF Post, LocalsOK, Steps, NewLink
  <2> QED
    BY <2>1, <2>2
<1>8. ASSUME NEW p \in Tasks, UpsertRead(p) PROVE SharedOK' /\ LocalsOK'
  <2>1. SharedOK'
    BY <1>0, <1>8 DEF UpsertRead, SharedOK, Superseded, AuthRows
  <2>2. LocalsOK'
    BY <1>0, <1>a, <1>b, <1>c, <1>8, ReadLocals DEF UpsertRead, LocalsOK, Steps, Superseded
  <2> QED
    BY <2>1, <2>2
<1>9. ASSUME NEW p \in Tasks, UpsertWrite(p) PROVE SharedOK' /\ LocalsOK'
  <2>1. SharedOK'
    <3>1. CASE auth.row = row[p] /\ auth.row = NULL
      BY <3>1, <1>0, <1>a, <1>b, <1>c, <1>9 DEF UpsertWrite, SharedOK, Requested, UserAuth, AuthRows
    <3>2. CASE auth.row = row[p] /\ auth.row # NULL
      BY <3>2, <1>0, <1>a, <1>b, <1>c, <1>9 DEF UpsertWrite, SharedOK, Requested, UserAuth, AuthRows
    <3>3. CASE auth.row # row[p]
      BY <3>3, <1>0, <1>9 DEF UpsertWrite, SharedOK, AuthRows
    <3> QED
      BY <3>1, <3>2, <3>3
  <2>2. LocalsOK'
    BY <1>0, <1>a, <1>b, <1>c, <1>9, EndLocals, GotoLocals DEF UpsertWrite, LocalsOK, Steps, FlowEnds
  <2> QED
    BY <2>1, <2>2
<1>10. ASSUME NEW p \in Tasks, DeleteOld(p) PROVE SharedOK' /\ LocalsOK'
  <2>1. SharedOK'
    BY <1>0, <1>10 DEF DeleteOld, SharedOK, FlowEnds, AuthRows
  <2>2. LocalsOK'
    BY <1>0, <1>a, <1>b, <1>c, <1>10, EndLocals DEF DeleteOld, LocalsOK, Steps, FlowEnds
  <2> QED
    BY <2>1, <2>2
<1>11. ASSUME NEW p \in Tasks, Callback(p) PROVE SharedOK' /\ LocalsOK'
  <2>1. SharedOK'
    BY <1>0, <1>11 DEF Callback, SharedOK, OperationKnown, AuthRows
  <2>2. LocalsOK'
    BY <1>0, <1>a, <1>b, <1>c, <1>11, GotoLocals, EndLocals DEF Callback, LocalsOK, Steps
  <2> QED
    BY <2>1, <2>2
<1>12. ASSUME NEW p \in Tasks, Exchange(p) PROVE SharedOK' /\ LocalsOK'
  <2>1. SharedOK'
    BY <1>0, <1>12, HappensOK DEF Exchange, SharedOK, EventKinds, AuthRows
  <2>2. LocalsOK'
    BY <1>0, <1>a, <1>b, <1>c, <1>12, GotoLocals, EndLocals DEF Exchange, LocalsOK, Steps
  <2> QED
    BY <2>1, <2>2
<1>13. ASSUME NEW p \in Tasks, CompleteRead(p) PROVE SharedOK' /\ LocalsOK'
  <2>1. SharedOK'
    BY <1>0, <1>13 DEF CompleteRead, SharedOK, AuthRows
  <2>2. LocalsOK'
    BY <1>0, <1>a, <1>b, <1>c, <1>13, ReadLocals, EndLocals DEF CompleteRead, LocalsOK, Steps
  <2> QED
    BY <2>1, <2>2
<1>14. ASSUME NEW p \in Tasks, CompleteWrite(p) PROVE SharedOK' /\ LocalsOK'
  <2>1. SharedOK'
    <3>1. pc[p] = "complete_write" /\ link[p] \in 1..sent
      BY <1>0, <1>a, <1>c, <1>14 DEF CompleteWrite, CallbackHasLink, CallbackSteps
    <3>2. completed' \subseteq 1..sent
      BY <3>1, <1>0, <1>14 DEF CompleteWrite, SharedOK
    <3>3. SignedIn \in AuthRows
      BY <1>0, <1>a, <1>b, UserAuthOK DEF SignedIn, Tokens
    <3>4. auth' \in AuthRows'
      BY <3>3, <1>0, <1>14 DEF CompleteWrite, SharedOK, AuthRows
    <3> QED
      BY <3>2, <3>4, <1>0, <1>14 DEF CompleteWrite, SharedOK
  <2>2. LocalsOK'
    BY <1>0, <1>a, <1>b, <1>c, <1>14, GotoLocals, EndLocals DEF CompleteWrite, LocalsOK, Steps
  <2> QED
    BY <2>1, <2>2
<1>15. ASSUME NEW p \in Tasks, CompleteDelete(p) PROVE SharedOK' /\ LocalsOK'
  <2>1. SharedOK'
    BY <1>0, <1>15 DEF CompleteDelete, SharedOK, Resume, AuthRows
  <2>2. LocalsOK'
    BY <1>0, <1>a, <1>b, <1>c, <1>15, BeginLocals, EndLocals DEF CompleteDelete, LocalsOK, Steps, Resume
  <2> QED
    BY <2>1, <2>2
<1>16. ASSUME NEW p \in Tasks, Abort(p) PROVE SharedOK' /\ LocalsOK'
  <2>1. SharedOK'
    BY <1>0, <1>16, HappensOK DEF Abort, SharedOK, EventKinds, AuthRows
  <2>2. LocalsOK'
    BY <1>0, <1>a, <1>b, <1>c, <1>16, EndLocals DEF Abort, LocalsOK, Steps
  <2> QED
    BY <2>1, <2>2
<1>17. ASSUME NEW p \in Tasks, NEW o \in Operations, Ask(p, o) PROVE SharedOK' /\ LocalsOK'
  <2>1. SharedOK'
    BY <1>0, <1>17 DEF Ask, SharedOK, Room, AuthRows
  <2>2. LocalsOK'
    BY <1>0, <1>a, <1>b, <1>c, <1>17, BeginLocals DEF Ask, LocalsOK, Steps
  <2> QED
    BY <2>1, <2>2
<1>18. ASSUME NEW p \in Tasks, NEW l \in Links, Click(p, l) PROVE SharedOK' /\ LocalsOK'
  <2>1. SharedOK'
    BY <1>0, <1>18 DEF Click, SharedOK, Room, AuthRows
  <2>2. LocalsOK'
    <3>1. linkOp[l] \in Operations \union {NoOperation} /\ l \in 0..sent
      BY <1>0, <1>a, <1>18 DEF Click, SharedOK
    <3>2. (IF l \in expired THEN "late_callback" ELSE "callback") \in Steps
      BY DEF Steps
    <3>3. rows' = rows /\ sent' = sent
      BY <1>18 DEF Click
    <3> QED
      BY <3>1, <3>2, <3>3, <1>0, <1>a, <1>18, BeginLocals DEF Click
  <2> QED
    BY <2>1, <2>2
<1>19. ASSUME TokenExpires PROVE SharedOK' /\ LocalsOK'
  <2>1. SharedOK'
    BY <1>0, <1>b, <1>19, HappensOK, UserAuthOK DEF TokenExpires, SharedOK, EventKinds, AuthRows, Tokens
  <2>2. LocalsOK'
    BY <1>0, <1>a, <1>b, <1>c, <1>19 DEF TokenExpires, LocalsOK, Steps, locals
  <2> QED
    BY <2>1, <2>2
<1>20. ASSUME NEW l \in Links, LinkExpires(l) PROVE SharedOK' /\ LocalsOK'
  <2>1. SharedOK'
    BY <1>0, <1>20, HappensOK DEF LinkExpires, SharedOK, EventKinds, AuthRows
  <2>2. LocalsOK'
    BY <1>0, <1>a, <1>b, <1>c, <1>20 DEF LinkExpires, LocalsOK, Steps, locals
  <2> QED
    BY <2>1, <2>2
<1>21. ASSUME AdminRead \/ AdminDelete PROVE SharedOK' /\ LocalsOK'
  <2>1. CASE AdminRead
    BY <1>0, <1>b, <2>1, HappensOK DEF AdminRead, SharedOK, EventKinds, AuthRows, LocalsOK, locals
  <2>2. CASE AdminDelete
    BY <1>0, <1>a, <1>b, <2>2 DEF AdminDelete, Deleted, SharedOK, AuthRows, LocalsOK, locals
  <2> QED
    BY <1>21, <2>1, <2>2
<1>22. ASSUME UNCHANGED vars PROVE SharedOK' /\ LocalsOK'
  <2>1. SharedOK'
    BY <1>0, <1>22 DEF vars, SharedOK, AuthRows
  <2>2. LocalsOK'
    BY <1>0, <1>a, <1>b, <1>c, <1>22 DEF vars, LocalsOK, Steps, locals
  <2> QED
    BY <2>1, <2>2
<1> QED
  BY <1>1, <1>2, <1>3, <1>4, <1>5, <1>6, <1>7, <1>8, <1>9, <1>10, <1>11, <1>12, <1>13, <1>14, <1>15, <1>16, <1>17, <1>18, <1>19, <1>20, <1>21, <1>22, <1>23 DEF Next, Step, Environment

\* What a step does to the tasks.
OthersStay(p) ==
    \A q \in Tasks : q # p => pc'[q] = pc[q] /\ op'[q] = op[q] /\ link'[q] = link[q] /\ old'[q] = old[q]

\* What Goto does, task by task: the others stay as they are.
LEMMA GotoEffect ==
    ASSUME LocalsOK, NEW p \in Tasks, NEW s, Goto(p, s)
    PROVE  OthersStay(p) /\ pc'[p] = s /\ op'[p] = op[p] /\ link'[p] = link[p] /\ old'[p] = old[p]
  BY DEF LocalsOK, Goto, OthersStay

\* What Begin does.
LEMMA BeginEffect ==
    ASSUME LocalsOK, NEW p \in Tasks, NEW s, NEW o, NEW l, Begin(p, s, o, l)
    PROVE  OthersStay(p) /\ pc'[p] = s /\ op'[p] = o /\ link'[p] = l /\ old'[p] = NULL
  BY DEF LocalsOK, Begin, OthersStay

\* What End does.
LEMMA EndEffect ==
    ASSUME LocalsOK, NEW p \in Tasks, End(p)
    PROVE  OthersStay(p) /\ pc'[p] = "idle"
  BY BeginEffect DEF End

\* What Read does: the task now holds what the row says.
LEMMA ReadEffect ==
    ASSUME LocalsOK, NEW p \in Tasks, NEW s, NEW m, Read(p, s, m)
    PROVE  OthersStay(p) /\ pc'[p] = s /\ op'[p] = op[p] /\ link'[p] = link[p] /\ old'[p] = m
  BY DEF LocalsOK, Read, OthersStay

\* Where a task holds no link that matters to others.
QuietSteps == {"idle", "authenticate", "refresh", "update_read", "update_write", "serve",
               "delete_write", "post"}

\* A step that takes one task to a quiet place and leaves the request, the
\* links and their messages alone.
LEMMA QuietStep ==
    ASSUME Ties, NEW p \in Tasks, OthersStay(p), pc'[p] \in QuietSteps,
           pc'[p] = "idle" \/ op'[p] \in Operations,
           UNCHANGED <<sent, linkOp, visible, completed>>,
           auth'.state = auth.state, auth'.auth_message_id = auth.auth_message_id
    PROVE  Ties'
<1> USE DEF OthersStay, QuietSteps
<1>1. CallbackHasLink'
  BY DEF Ties, CallbackHasLink, CallbackSteps
<1>2. OperationKnown'
  BY DEF Ties, OperationKnown
<1>3. SentLinkFresh'
  BY DEF Ties, SentLinkFresh, Sending, HoldsOld, Accepted
<1>4. SentLinksDiffer'
  BY DEF Ties, SentLinksDiffer, Sending
<1>5. OldSuperseded'
  BY DEF Ties, OldSuperseded, Deleting
<1>6. RequestNotCompleted' /\ PendingPaired' /\ RecordedLinkVisible'
  BY DEF Ties, RequestNotCompleted, PendingPaired, RecordedLinkVisible
<1> QED
  BY <1>1, <1>2, <1>3, <1>4, <1>5, <1>6 DEF Ties

\* The row loses its request, and at most one task moves, to a quiet place.
LEMMA RequestGone ==
    ASSUME Ties, LocalsOK, NEW p \in Tasks, OthersStay(p), pc'[p] \in QuietSteps,
           pc'[p] = "idle" \/ op'[p] \in Operations,
           UNCHANGED <<sent, linkOp, visible, completed>>,
           visible \subseteq 1..sent, completed \subseteq 1..sent,
           auth'.state = NULL, auth'.auth_message_id = NULL
    PROVE  Ties'
<1> USE DEF OthersStay, QuietSteps
<1>1. CallbackHasLink'
  BY DEF Ties, CallbackHasLink, CallbackSteps
<1>2. OperationKnown'
  BY DEF Ties, OperationKnown
<1>3. SentLinkFresh'
  BY DEF Ties, SentLinkFresh, Sending, HoldsOld, Accepted, NULL
<1>4. SentLinksDiffer'
  BY DEF Ties, SentLinksDiffer, Sending
<1>5. OldSuperseded'
  BY DEF Ties, OldSuperseded, Deleting
<1>6. RequestNotCompleted' /\ PendingPaired' /\ RecordedLinkVisible'
  BY DEF Ties, RequestNotCompleted, PendingPaired, RecordedLinkVisible, NULL
<1> QED
  BY <1>1, <1>2, <1>3, <1>4, <1>5, <1>6 DEF Ties

\* Every step keeps what ties the tasks, the row and the messages together.
LEMMA NextTies == IInv /\ [Next]_vars => Ties'
<1> SUFFICES ASSUME IInv, [Next]_vars PROVE Ties'
  OBVIOUS
<1>0. /\ Ties /\ LocalsOK
      /\ sent \in Nat /\ visible \subseteq 1..sent /\ completed \subseteq 1..sent
      /\ linkOp \in [Links -> Operations \union {NoOperation}]
      /\ auth.auth_message_id \in 0..sent
  BY SignInAssumption DEF IInv, TypeOK, LocalsOK
<1>p. \A p \in Tasks : /\ pc[p] # "idle" => op[p] \in Operations
                      /\ link[p] \in 0..sent /\ old[p] \in 0..sent
  BY <1>0 DEF Ties, OperationKnown, LocalsOK
<1> USE DEF slackVars
<1>1. ASSUME NEW p \in Tasks, Authenticate(p) PROVE Ties'
  <2>1. /\ OthersStay(p) /\ pc'[p] \in QuietSteps
        /\ pc'[p] = "idle" \/ op'[p] \in Operations
    BY <1>0, <1>p, <1>1, GotoEffect DEF Authenticate, QuietSteps
  <2> QED
    BY <2>1, <1>0, <1>1, QuietStep DEF Authenticate
<1>2. ASSUME NEW p \in Tasks, Refresh(p) PROVE Ties'
  <2>1. /\ OthersStay(p) /\ pc'[p] \in QuietSteps
        /\ pc'[p] = "idle" \/ op'[p] \in Operations
    BY <1>0, <1>p, <1>2, GotoEffect DEF Refresh, QuietSteps
  <2> QED
    BY <2>1, <1>0, <1>2, QuietStep DEF Refresh
<1>3. ASSUME NEW p \in Tasks, UpdateRead(p) PROVE Ties'
  <2>1. /\ OthersStay(p) /\ pc'[p] \in QuietSteps
        /\ pc'[p] = "idle" \/ op'[p] \in Operations
    BY <1>0, <1>p, <1>3, GotoEffect, ReadEffect DEF UpdateRead, QuietSteps
  <2> QED
    BY <2>1, <1>0, <1>3, QuietStep DEF UpdateRead
<1>4. ASSUME NEW p \in Tasks, UpdateWrite(p) PROVE Ties'
  <2>1. /\ OthersStay(p) /\ pc'[p] \in QuietSteps
        /\ pc'[p] = "idle" \/ op'[p] \in Operations
    BY <1>0, <1>p, <1>4, GotoEffect DEF UpdateWrite, QuietSteps, Refreshed
  <2> QED
    BY <2>1, <1>0, <1>4, QuietStep DEF UpdateWrite, Refreshed, UserAuth
<1>5. ASSUME NEW p \in Tasks, Serve(p) PROVE Ties'
  <2>1. /\ OthersStay(p) /\ pc'[p] \in QuietSteps
        /\ pc'[p] = "idle" \/ op'[p] \in Operations
    BY <1>0, <1>p, <1>5, EndEffect DEF Serve, QuietSteps
  <2> QED
    BY <2>1, <1>0, <1>5, QuietStep DEF Serve
<1>6. ASSUME NEW p \in Tasks, Abort(p) PROVE Ties'
  <2>1. /\ OthersStay(p) /\ pc'[p] \in QuietSteps
        /\ pc'[p] = "idle" \/ op'[p] \in Operations
    BY <1>0, <1>p, <1>6, EndEffect DEF Abort, QuietSteps
  <2> QED
    BY <2>1, <1>0, <1>6, QuietStep DEF Abort
<1>7. ASSUME NEW p \in Tasks, NEW o \in Operations, Ask(p, o) PROVE Ties'
  <2>1. /\ OthersStay(p) /\ pc'[p] \in QuietSteps
        /\ pc'[p] = "idle" \/ op'[p] \in Operations
    BY <1>0, <1>p, <1>7, BeginEffect DEF Ask, QuietSteps
  <2> QED
    BY <2>1, <1>0, <1>7, QuietStep DEF Ask
<1>8. ASSUME NEW p \in Tasks, ServeDenied(p) PROVE Ties'
  <2>1. OthersStay(p) /\ pc'[p] \in QuietSteps /\ (pc'[p] = "idle" \/ op'[p] \in Operations)
    BY <1>0, <1>p, <1>8, ReadEffect, EndEffect DEF ServeDenied, QuietSteps
  <2> QED
    BY <2>1, <1>0, <1>8, QuietStep DEF ServeDenied
<1>23. ASSUME NEW p \in Tasks, DeleteWrite(p) PROVE Ties'
  <2>1. OthersStay(p) /\ pc'[p] \in QuietSteps /\ (pc'[p] = "idle" \/ op'[p] \in Operations)
    BY <1>0, <1>p, <1>23, GotoEffect DEF DeleteWrite, QuietSteps
  <2>2. CASE auth' = auth
    BY <2>1, <2>2, <1>0, <1>23, QuietStep DEF DeleteWrite
  <2>3. CASE auth' = NoRow
    BY <2>1, <2>3, <1>0, <1>23, RequestGone DEF DeleteWrite, NoRow, UserAuth
  <2> QED
    BY <2>2, <2>3, <1>23 DEF DeleteWrite, Deleted
<1>9. ASSUME NEW p \in Tasks, Post(p) PROVE Ties'
  <2>1. /\ OthersStay(p) /\ pc'[p] = "upsert_read" /\ op'[p] = op[p] /\ op[p] \in Operations
        /\ link'[p] = sent + 1 /\ old'[p] = old[p]
        /\ sent' = sent + 1 /\ visible' = visible \union {sent + 1} /\ sent + 1 \in Links
        /\ linkOp' = [linkOp EXCEPT ![sent + 1] = op[p]]
        /\ completed' = completed /\ auth' = auth
    BY <1>0, <1>p, <1>9, SignInAssumption DEF Post, NewLink, Room, Links, OthersStay, LocalsOK
  <2>2. CallbackHasLink'
    BY <1>0, <1>p, <2>1 DEF Ties, OthersStay, CallbackHasLink, CallbackSteps
  <2>3. OperationKnown'
    BY <1>0, <1>p, <2>1 DEF Ties, OthersStay, OperationKnown, Links
  <2>4. SentLinkFresh'
    BY <1>0, <1>p, <2>1 DEF Ties, OthersStay, SentLinkFresh, Sending, HoldsOld, Accepted
  <2>5. SentLinksDiffer'
    BY <1>0, <1>p, <2>1 DEF Ties, OthersStay, SentLinksDiffer, Sending
  <2>6. OldSuperseded'
    BY <1>0, <1>p, <2>1 DEF Ties, OthersStay, OldSuperseded, Deleting
  <2>7. RequestNotCompleted' /\ PendingPaired' /\ RecordedLinkVisible'
    BY <1>0, <1>p, <2>1 DEF Ties, OthersStay, RequestNotCompleted, PendingPaired, RecordedLinkVisible
  <2> QED
    BY <2>2, <2>3, <2>4, <2>5, <2>6, <2>7 DEF Ties
<1>10. ASSUME NEW p \in Tasks, UpsertRead(p) PROVE Ties'
  <2>1. /\ OthersStay(p) /\ pc[p] = "upsert_read" /\ pc'[p] = "upsert_write"
        /\ op'[p] = op[p] /\ link'[p] = link[p] /\ old'[p] = auth.auth_message_id
        /\ UNCHANGED <<sent, linkOp, visible, completed, auth>>
    BY <1>0, <1>p, <1>10, ReadEffect DEF UpsertRead, Superseded
  <2>2. CallbackHasLink'
    BY <1>0, <1>p, <2>1 DEF Ties, OthersStay, CallbackHasLink, CallbackSteps
  <2>3. OperationKnown'
    BY <1>0, <1>p, <2>1 DEF Ties, OthersStay, OperationKnown
  <2>4. SentLinkFresh'
    BY <1>0, <1>p, <2>1 DEF Ties, OthersStay, SentLinkFresh, Sending, HoldsOld, Accepted
  <2>5. SentLinksDiffer'
    BY <1>0, <1>p, <2>1 DEF Ties, OthersStay, SentLinksDiffer, Sending
  <2>6. OldSuperseded'
    BY <1>0, <1>p, <2>1 DEF Ties, OthersStay, OldSuperseded, Deleting
  <2>7. RequestNotCompleted' /\ PendingPaired' /\ RecordedLinkVisible'
    BY <1>0, <1>p, <2>1 DEF Ties, OthersStay, RequestNotCompleted, PendingPaired, RecordedLinkVisible
  <2> QED
    BY <2>2, <2>3, <2>4, <2>5, <2>6, <2>7 DEF Ties
<1>11. ASSUME NEW p \in Tasks, UpsertWrite(p) PROVE Ties'
  <2>1. /\ OthersStay(p) /\ pc[p] = "upsert_write"
        /\ \/ pc'[p] = "idle"
           \/ /\ pc'[p] = "delete_old" /\ old[p] # NULL
              /\ op'[p] = op[p] /\ link'[p] = link[p] /\ old'[p] = old[p]
              /\ auth'.auth_message_id = link[p]
        /\ \/ auth' = auth
           \/ auth'.state = link[p] /\ auth'.auth_message_id = link[p]
        /\ UNCHANGED <<sent, linkOp, visible, completed>>
    BY <1>0, <1>p, <1>11, GotoEffect, EndEffect DEF UpsertWrite, Requested, UserAuth, FlowEnds
  <2>2. CallbackHasLink'
    BY <1>0, <1>p, <2>1 DEF Ties, OthersStay, CallbackHasLink, CallbackSteps
  <2>3. OperationKnown'
    BY <1>0, <1>p, <2>1 DEF Ties, OthersStay, OperationKnown
  <2>4. SentLinkFresh'
    BY <1>0, <1>p, <2>1 DEF Ties, OthersStay, SentLinkFresh, Sending, HoldsOld, Accepted, SentLinksDiffer
  <2>5. SentLinksDiffer'
    BY <1>0, <1>p, <2>1 DEF Ties, OthersStay, SentLinksDiffer, Sending
  <2>6. OldSuperseded'
    BY <1>0, <1>p, <2>1 DEF Ties, OthersStay, OldSuperseded, Deleting, SentLinkFresh, Sending, HoldsOld
  <2>7. RequestNotCompleted' /\ PendingPaired' /\ RecordedLinkVisible'
    BY <1>0, <1>p, <2>1 DEF Ties, OthersStay, RequestNotCompleted, PendingPaired, RecordedLinkVisible, SentLinkFresh, Sending
  <2> QED
    BY <2>2, <2>3, <2>4, <2>5, <2>6, <2>7 DEF Ties
<1>12. ASSUME NEW p \in Tasks, DeleteOld(p) PROVE Ties'
  <2>1. /\ OthersStay(p) /\ pc[p] = "delete_old" /\ pc'[p] = "idle"
        /\ visible' = visible \ {old[p]} /\ old[p] # auth.auth_message_id
        /\ UNCHANGED <<sent, linkOp, completed, auth>>
    BY <1>0, <1>p, <1>12, EndEffect DEF DeleteOld, FlowEnds, Ties, OldSuperseded, Deleting
  <2>2. CallbackHasLink'
    BY <1>0, <1>p, <2>1 DEF Ties, OthersStay, CallbackHasLink, CallbackSteps
  <2>3. OperationKnown'
    BY <1>0, <1>p, <2>1 DEF Ties, OthersStay, OperationKnown
  <2>4. SentLinkFresh'
    BY <1>0, <1>p, <2>1 DEF Ties, OthersStay, SentLinkFresh, Sending, HoldsOld, Accepted
  <2>5. SentLinksDiffer'
    BY <1>0, <1>p, <2>1 DEF Ties, OthersStay, SentLinksDiffer, Sending
  <2>6. OldSuperseded'
    BY <1>0, <1>p, <2>1 DEF Ties, OthersStay, OldSuperseded, Deleting
  <2>7. RequestNotCompleted' /\ PendingPaired' /\ RecordedLinkVisible'
    BY <1>0, <1>p, <2>1 DEF Ties, OthersStay, RequestNotCompleted, PendingPaired, RecordedLinkVisible
  <2> QED
    BY <2>2, <2>3, <2>4, <2>5, <2>6, <2>7 DEF Ties
<1>13. ASSUME NEW p \in Tasks, Callback(p) PROVE Ties'
  <2>1. /\ OthersStay(p) /\ pc[p] \in CallbackSteps
        /\ \/ pc'[p] = "idle"
           \/ /\ op'[p] = op[p] /\ op[p] \in Operations
              /\ link'[p] = link[p] /\ old'[p] = old[p]
              /\ pc'[p] = "post" \/ (pc'[p] = "exchange" /\ auth.state = link[p])
        /\ UNCHANGED <<sent, linkOp, visible, completed, auth>>
    BY <1>0, <1>p, <1>13, GotoEffect, EndEffect DEF Callback, RequestMatches, CallbackSteps
  <2>2. CallbackHasLink'
    BY <1>0, <1>p, <2>1 DEF Ties, OthersStay, CallbackHasLink, CallbackSteps
  <2>3. OperationKnown'
    BY <1>0, <1>p, <2>1 DEF Ties, OthersStay, OperationKnown
  <2>4. SentLinkFresh'
    BY <1>0, <1>p, <2>1 DEF Ties, OthersStay, SentLinkFresh, Sending, HoldsOld, Accepted, PendingPaired
  <2>5. SentLinksDiffer'
    BY <1>0, <1>p, <2>1 DEF Ties, OthersStay, SentLinksDiffer, Sending
  <2>6. OldSuperseded'
    BY <1>0, <1>p, <2>1 DEF Ties, OthersStay, OldSuperseded, Deleting
  <2>7. RequestNotCompleted' /\ PendingPaired' /\ RecordedLinkVisible'
    BY <1>0, <1>p, <2>1 DEF Ties, OthersStay, RequestNotCompleted, PendingPaired, RecordedLinkVisible
  <2> QED
    BY <2>2, <2>3, <2>4, <2>5, <2>6, <2>7 DEF Ties
<1>14. ASSUME NEW p \in Tasks, Exchange(p) PROVE Ties'
  <2>1. /\ OthersStay(p) /\ pc[p] = "exchange"
        /\ \/ pc'[p] = "idle"
           \/ pc'[p] = "complete_read" /\ op'[p] = op[p] /\ link'[p] = link[p] /\ old'[p] = old[p]
        /\ UNCHANGED <<sent, linkOp, visible, completed, auth>>
    BY <1>0, <1>p, <1>14, GotoEffect, EndEffect DEF Exchange
  <2>2. CallbackHasLink'
    BY <1>0, <1>p, <2>1 DEF Ties, OthersStay, CallbackHasLink, CallbackSteps
  <2>3. OperationKnown'
    BY <1>0, <1>p, <2>1 DEF Ties, OthersStay, OperationKnown
  <2>4. SentLinkFresh'
    BY <1>0, <1>p, <2>1 DEF Ties, OthersStay, SentLinkFresh, Sending, HoldsOld, Accepted
  <2>5. SentLinksDiffer'
    BY <1>0, <1>p, <2>1 DEF Ties, OthersStay, SentLinksDiffer, Sending
  <2>6. OldSuperseded'
    BY <1>0, <1>p, <2>1 DEF Ties, OthersStay, OldSuperseded, Deleting
  <2>7. RequestNotCompleted' /\ PendingPaired' /\ RecordedLinkVisible'
    BY <1>0, <1>p, <2>1 DEF Ties, OthersStay, RequestNotCompleted, PendingPaired, RecordedLinkVisible
  <2> QED
    BY <2>2, <2>3, <2>4, <2>5, <2>6, <2>7 DEF Ties
<1>15. ASSUME NEW p \in Tasks, CompleteRead(p) PROVE Ties'
  <2>1. /\ OthersStay(p) /\ pc[p] = "complete_read"
        /\ \/ pc'[p] = "idle"
           \/ /\ pc'[p] = "complete_write" /\ op'[p] = op[p] /\ link'[p] = link[p]
              /\ old'[p] = auth.auth_message_id /\ auth.auth_message_id # NULL
        /\ UNCHANGED <<sent, linkOp, visible, completed, auth>>
    BY <1>0, <1>p, <1>15, ReadEffect, EndEffect DEF CompleteRead
  <2>2. CallbackHasLink'
    BY <1>0, <1>p, <2>1 DEF Ties, OthersStay, CallbackHasLink, CallbackSteps
  <2>3. OperationKnown'
    BY <1>0, <1>p, <2>1 DEF Ties, OthersStay, OperationKnown
  <2>4. SentLinkFresh'
    BY <1>0, <1>p, <2>1 DEF Ties, OthersStay, SentLinkFresh, Sending, HoldsOld, Accepted
  <2>5. SentLinksDiffer'
    BY <1>0, <1>p, <2>1 DEF Ties, OthersStay, SentLinksDiffer, Sending
  <2>6. OldSuperseded'
    BY <1>0, <1>p, <2>1 DEF Ties, OthersStay, OldSuperseded, Deleting
  <2>7. RequestNotCompleted' /\ PendingPaired' /\ RecordedLinkVisible'
    BY <1>0, <1>p, <2>1 DEF Ties, OthersStay, RequestNotCompleted, PendingPaired, RecordedLinkVisible
  <2> QED
    BY <2>2, <2>3, <2>4, <2>5, <2>6, <2>7 DEF Ties
<1>16. ASSUME NEW p \in Tasks, CompleteWrite(p) PROVE Ties'
  <2>1. /\ OthersStay(p) /\ pc[p] = "complete_write" /\ link[p] # NULL
        /\ \/ pc'[p] = "idle" /\ UNCHANGED <<auth, completed>>
           \/ /\ pc'[p] = "complete_delete" /\ op'[p] = op[p] /\ link'[p] = link[p] /\ old'[p] = old[p]
              /\ auth'.state = NULL /\ auth'.auth_message_id = NULL
              /\ completed' = completed \union {link[p]}
        /\ UNCHANGED <<sent, linkOp, visible>>
    BY <1>0, <1>p, <1>16, GotoEffect, EndEffect DEF CompleteWrite, SignedIn, UserAuth, Ties, CallbackHasLink, CallbackSteps
  <2>2. CallbackHasLink'
    BY <1>0, <1>p, <2>1 DEF Ties, OthersStay, CallbackHasLink, CallbackSteps
  <2>3. OperationKnown'
    BY <1>0, <1>p, <2>1 DEF Ties, OthersStay, OperationKnown
  <2>4. SentLinkFresh'
    BY <1>0, <1>p, <2>1 DEF Ties, OthersStay, SentLinkFresh, Sending, HoldsOld, Accepted, NULL
  <2>5. SentLinksDiffer'
    BY <1>0, <1>p, <2>1 DEF Ties, OthersStay, SentLinksDiffer, Sending
  <2>6. OldSuperseded'
    BY <1>0, <1>p, <2>1 DEF Ties, OthersStay, OldSuperseded, Deleting
  <2>7. RequestNotCompleted' /\ PendingPaired' /\ RecordedLinkVisible'
    BY <1>0, <1>p, <2>1 DEF Ties, OthersStay, RequestNotCompleted, PendingPaired, RecordedLinkVisible, NULL
  <2> QED
    BY <2>2, <2>3, <2>4, <2>5, <2>6, <2>7 DEF Ties
<1>17. ASSUME NEW p \in Tasks, CompleteDelete(p) PROVE Ties'
  <2>1. /\ OthersStay(p) /\ pc[p] = "complete_delete"
        /\ \/ pc'[p] = "idle"
           \/ pc'[p] = "authenticate" /\ op'[p] = op[p]
        /\ visible' = visible \ {old[p]} /\ old[p] # auth.auth_message_id
        /\ UNCHANGED <<sent, linkOp, completed, auth>>
    BY <1>0, <1>p, <1>17, BeginEffect, EndEffect DEF CompleteDelete, Resume, Ties, OldSuperseded, Deleting
  <2>2. CallbackHasLink'
    BY <1>0, <1>p, <2>1 DEF Ties, OthersStay, CallbackHasLink, CallbackSteps
  <2>3. OperationKnown'
    BY <1>0, <1>p, <2>1 DEF Ties, OthersStay, OperationKnown
  <2>4. SentLinkFresh'
    BY <1>0, <1>p, <2>1 DEF Ties, OthersStay, SentLinkFresh, Sending, HoldsOld, Accepted
  <2>5. SentLinksDiffer'
    BY <1>0, <1>p, <2>1 DEF Ties, OthersStay, SentLinksDiffer, Sending
  <2>6. OldSuperseded'
    BY <1>0, <1>p, <2>1 DEF Ties, OthersStay, OldSuperseded, Deleting
  <2>7. RequestNotCompleted' /\ PendingPaired' /\ RecordedLinkVisible'
    BY <1>0, <1>p, <2>1 DEF Ties, OthersStay, RequestNotCompleted, PendingPaired, RecordedLinkVisible
  <2> QED
    BY <2>2, <2>3, <2>4, <2>5, <2>6, <2>7 DEF Ties
<1>18. ASSUME NEW p \in Tasks, NEW l \in Links, Click(p, l) PROVE Ties'
  <2>1. /\ OthersStay(p) /\ pc'[p] \in {"callback", "late_callback"}
        /\ op'[p] \in Operations /\ link'[p] = l /\ l # NULL
        /\ UNCHANGED <<sent, linkOp, visible, completed, auth>>
    BY <1>0, <1>p, <1>18, BeginEffect DEF Click, Ties, OperationKnown, NULL
  <2>2. CallbackHasLink'
    BY <1>0, <1>p, <2>1 DEF Ties, OthersStay, CallbackHasLink, CallbackSteps
  <2>3. OperationKnown'
    BY <1>0, <1>p, <2>1 DEF Ties, OthersStay, OperationKnown
  <2>4. SentLinkFresh'
    BY <1>0, <1>p, <2>1 DEF Ties, OthersStay, SentLinkFresh, Sending, HoldsOld, Accepted
  <2>5. SentLinksDiffer'
    BY <1>0, <1>p, <2>1 DEF Ties, OthersStay, SentLinksDiffer, Sending
  <2>6. OldSuperseded'
    BY <1>0, <1>p, <2>1 DEF Ties, OthersStay, OldSuperseded, Deleting
  <2>7. RequestNotCompleted' /\ PendingPaired' /\ RecordedLinkVisible'
    BY <1>0, <1>p, <2>1 DEF Ties, OthersStay, RequestNotCompleted, PendingPaired, RecordedLinkVisible
  <2> QED
    BY <2>2, <2>3, <2>4, <2>5, <2>6, <2>7 DEF Ties
<1>19. ASSUME AdminRead \/ AdminDelete PROVE Ties'
  <2>1. /\ \/ auth'.state = NULL /\ auth'.auth_message_id = NULL
           \/ auth' = auth
        /\ UNCHANGED <<sent, linkOp, visible, completed, locals>>
    BY <1>19 DEF AdminRead, AdminDelete, Deleted, NoRow, UserAuth
  <2> QED
    BY <2>1, <1>0, <1>p DEF locals, NULL, Ties, CallbackHasLink, OperationKnown, SentLinkFresh,
       SentLinksDiffer, OldSuperseded, RequestNotCompleted, PendingPaired, RecordedLinkVisible,
       Sending, HoldsOld, Deleting, Accepted
<1>20. ASSUME TokenExpires PROVE Ties'
  <2>1. /\ auth'.state = auth.state /\ auth'.auth_message_id = auth.auth_message_id
        /\ UNCHANGED <<sent, linkOp, visible, completed, locals>>
    BY <1>20 DEF TokenExpires, UserAuth
  <2> QED
    BY <2>1, <1>0 DEF locals, Ties, CallbackHasLink, OperationKnown, SentLinkFresh,
       SentLinksDiffer, OldSuperseded, RequestNotCompleted, PendingPaired, RecordedLinkVisible,
       Sending, HoldsOld, Deleting, Accepted
<1>21. ASSUME NEW l \in Links, LinkExpires(l) PROVE Ties'
  <2>1. /\ auth'.state = auth.state /\ auth'.auth_message_id = auth.auth_message_id
        /\ UNCHANGED <<sent, linkOp, visible, completed, locals>>
    BY <1>21 DEF LinkExpires
  <2> QED
    BY <2>1, <1>0 DEF locals, Ties, CallbackHasLink, OperationKnown, SentLinkFresh,
       SentLinksDiffer, OldSuperseded, RequestNotCompleted, PendingPaired, RecordedLinkVisible,
       Sending, HoldsOld, Deleting, Accepted
<1>22. ASSUME UNCHANGED vars PROVE Ties'
  <2>1. /\ auth'.state = auth.state /\ auth'.auth_message_id = auth.auth_message_id
        /\ UNCHANGED <<sent, linkOp, visible, completed, locals>>
    BY <1>22 DEF vars
  <2> QED
    BY <2>1, <1>0 DEF locals, Ties, CallbackHasLink, OperationKnown, SentLinkFresh,
       SentLinksDiffer, OldSuperseded, RequestNotCompleted, PendingPaired, RecordedLinkVisible,
       Sending, HoldsOld, Deleting, Accepted
<1> QED
  BY <1>1, <1>2, <1>3, <1>4, <1>5, <1>6, <1>7, <1>8, <1>9, <1>10, <1>11, <1>12, <1>13, <1>14, <1>15, <1>16, <1>17, <1>18, <1>19, <1>20, <1>21, <1>22, <1>23 DEF Next, Step, Environment

-----------------------------------------------------------------------------
\* The conjunction of the types and the ties is inductive.
THEOREM Invariance == Spec => []IInv
<1>1. IInv /\ [Next]_vars => IInv'
  BY NextTypeOK, NextTies DEF IInv
<1> QED
  BY <1>1, InitIInv, PTL DEF Spec

\* Types: ids never run ahead of what was sent or inserted, and tasks only hold
\* links and operations that exist.
THEOREM SignInTypes == Spec => []TypeOK
<1>1. IInv => TypeOK
  BY DEF IInv
<1> QED
  BY <1>1, Invariance, PTL

\* No interleaving of flows and callbacks, no crash and no removal of the row
\* leaves the user with a request on record whose link is gone from Slack.
THEOREM RequestCanBeOpened == Spec => []RecordedLinkVisible
<1>1. IInv => RecordedLinkVisible
  BY DEF IInv, Ties
<1> QED
  BY <1>1, Invariance, PTL

\* The two columns of a request are always those of one link.
THEOREM RequestColumnsAgree == Spec => []PendingPaired
<1>1. IInv => PendingPaired
  BY DEF IInv, Ties
<1> QED
  BY <1>1, Invariance, PTL

\* A link that signed the user in is worthless afterwards.
THEOREM LinkWorksOnce == Spec => ConsumedLinkNeverReaccepted
<1>1. ASSUME IInv, Next, NEW p \in Tasks, pc[p] = "callback", pc'[p] = "exchange"
      PROVE  link[p] \notin completed
  <2>1. LocalsOK
    BY <1>1 DEF IInv, TypeOK, LocalsOK
  <2>2. Callback(p)
    <3> SUFFICES ASSUME ~Callback(p) PROVE FALSE
      OBVIOUS
    <3>p. pc \in [Tasks -> Steps]
      BY <2>1 DEF LocalsOK
    <3>1. ASSUME NEW q \in Tasks, Authenticate(q) PROVE FALSE
      BY <3>p, <3>1, <1>1 DEF Authenticate, Goto, End, Begin
    <3>2. ASSUME NEW q \in Tasks, Refresh(q) PROVE FALSE
      BY <3>p, <3>2, <1>1 DEF Refresh, Goto, End, Begin
    <3>3. ASSUME NEW q \in Tasks, UpdateRead(q) PROVE FALSE
      BY <3>p, <3>3, <1>1 DEF UpdateRead, Goto, Read
    <3>4. ASSUME NEW q \in Tasks, UpdateWrite(q) PROVE FALSE
      BY <3>p, <3>4, <1>1 DEF UpdateWrite, Goto, End, Begin
    <3>5. ASSUME NEW q \in Tasks, Serve(q) PROVE FALSE
      BY <3>p, <3>5, <1>1 DEF Serve, End, Begin
    <3>6. ASSUME NEW q \in Tasks, Post(q) PROVE FALSE
      BY <3>p, <3>6, <1>1 DEF Post
    <3>7. ASSUME NEW q \in Tasks, UpsertRead(q) PROVE FALSE
      BY <3>p, <3>7, <1>1 DEF UpsertRead, Read
    <3>8. ASSUME NEW q \in Tasks, UpsertWrite(q) PROVE FALSE
      BY <3>p, <3>8, <1>1 DEF UpsertWrite, Goto, FlowEnds, End, Begin
    <3>9. ASSUME NEW q \in Tasks, DeleteOld(q) PROVE FALSE
      BY <3>p, <3>9, <1>1 DEF DeleteOld, FlowEnds, End, Begin
    <3>10. ASSUME NEW q \in Tasks, Exchange(q) PROVE FALSE
      BY <3>p, <3>10, <1>1 DEF Exchange, Goto, End, Begin
    <3>11. ASSUME NEW q \in Tasks, CompleteRead(q) PROVE FALSE
      BY <3>p, <3>11, <1>1 DEF CompleteRead, Read, End, Begin
    <3>12. ASSUME NEW q \in Tasks, CompleteWrite(q) PROVE FALSE
      BY <3>p, <3>12, <1>1 DEF CompleteWrite, Goto, End, Begin
    <3>13. ASSUME NEW q \in Tasks, CompleteDelete(q) PROVE FALSE
      BY <3>p, <3>13, <1>1 DEF CompleteDelete, Resume, End, Begin
    <3>14. ASSUME NEW q \in Tasks, ServeDenied(q) PROVE FALSE
      BY <3>p, <3>14, <1>1 DEF ServeDenied, Read, End, Begin
    <3>20. ASSUME NEW q \in Tasks, DeleteWrite(q) PROVE FALSE
      BY <3>p, <3>20, <1>1 DEF DeleteWrite, Goto
    <3>15. ASSUME NEW q \in Tasks, Abort(q) PROVE FALSE
      BY <3>p, <3>15, <1>1 DEF Abort, End, Begin
    <3>16. ASSUME NEW q \in Tasks, Callback(q) PROVE FALSE
      BY <3>p, <3>16, <1>1 DEF Callback, Goto, End, Begin
    <3>17. ASSUME NEW q \in Tasks, NEW o \in Operations, Ask(q, o) PROVE FALSE
      BY <3>17, <3>p, <1>1 DEF Ask, Begin
    <3>18. ASSUME NEW q \in Tasks, NEW l \in Links, Click(q, l) PROVE FALSE
      BY <3>18, <3>p, <1>1 DEF Click, Begin
    <3>19. ASSUME TokenExpires \/ AdminRead \/ AdminDelete \/ \E l \in Links : LinkExpires(l)
           PROVE  FALSE
      BY <3>19, <3>p, <1>1 DEF TokenExpires, AdminRead, AdminDelete, LinkExpires, locals
    <3> QED
      BY <1>1, <3>1, <3>2, <3>3, <3>4, <3>5, <3>6, <3>7, <3>8, <3>9, <3>10, <3>11, <3>12, <3>13, <3>14, <3>15, <3>16, <3>17, <3>18, <3>19, <3>20 DEF Next, Step, Environment
  <2>3. auth.state = link[p]
    BY <2>1, <2>2, <1>1, GotoEffect, EndEffect DEF Callback, RequestMatches
  <2> QED
    BY <2>3, <1>1 DEF IInv, Ties, RequestNotCompleted
<1>2. IInv /\ [Next]_vars =>
        [\A p \in Tasks : pc[p] = "callback" /\ pc'[p] = "exchange" => link[p] \notin completed]_vars
  BY <1>1
<1> QED
  BY <1>2, Invariance, PTL DEF Spec, ConsumedLinkNeverReaccepted

-----------------------------------------------------------------------------
(* SignIn implements Access *)

\* No row is nothing: neither tokens nor a request.
RowlessIsBlank == auth.row = NULL => auth = NoRow

\* A row exists for its tokens or for its request.
RowHasPurpose == auth.row # NULL /\ auth.state = NULL => auth.tokens # "none"

\* Whoever is to write to a row has read one, and a row does not lose its tokens:
\* what renews them finds old ones there.
WrittenWasRead ==
    \A p \in Tasks :
        /\ pc[p] \in {"update_write", "complete_write", "delete_write"} => row[p] # NULL
        /\ pc[p] = "update_write" /\ auth.row = row[p] => auth.tokens # "none"

Grounds == RowlessIsBlank /\ RowHasPurpose /\ WrittenWasRead

LEMMA InitGrounds == Init => Grounds
  BY DEF Init, Grounds, RowlessIsBlank, RowHasPurpose, WrittenWasRead, NoRow, UserAuth, NULL

\* Rows come with a request or tokens and take both with them when they go; a new
\* one has an id no task has read.
LEMMA NextGrounds == IInv /\ Grounds /\ [Next]_vars => Grounds'
<1> SUFFICES ASSUME IInv, Grounds, [Next]_vars PROVE Grounds'
  OBVIOUS
<1>0. /\ pc \in [Tasks -> Steps] /\ row \in [Tasks -> 0..rows]
      /\ link \in [Tasks -> 0..sent]
      /\ rows \in Nat /\ sent \in Nat
      /\ auth.row \in 0..rows
      /\ \A p \in Tasks : Sending(p) => link[p] # NULL
      /\ NoRow.row = NULL /\ NoRow.tokens = "none" /\ NoRow.state = NULL
  BY SignInAssumption DEF IInv, TypeOK, Ties, SentLinkFresh, NoRow, UserAuth, NULL
<1> USE <1>0 DEF Grounds, RowlessIsBlank, RowHasPurpose, WrittenWasRead, slackVars, NULL
<1>1. ASSUME NEW p \in Tasks, Authenticate(p) PROVE Grounds'
  BY <1>1 DEF Authenticate, Goto
<1>2. ASSUME NEW p \in Tasks, Refresh(p) PROVE Grounds'
  BY <1>2 DEF Refresh, Goto
<1>3. ASSUME NEW p \in Tasks, UpdateRead(p) PROVE Grounds'
  BY <1>3 DEF UpdateRead, Goto, Read, MayUpdateTokens
<1>4. ASSUME NEW p \in Tasks, UpdateWrite(p) PROVE Grounds'
  BY <1>4 DEF UpdateWrite, Goto, Refreshed, UserAuth
<1>5. ASSUME NEW p \in Tasks, Serve(p) PROVE Grounds'
  BY <1>5 DEF Serve, End, Begin
<1>6. ASSUME NEW p \in Tasks, Post(p) PROVE Grounds'
  BY <1>6 DEF Post, NewLink
<1>7. ASSUME NEW p \in Tasks, UpsertRead(p) PROVE Grounds'
  BY <1>7 DEF UpsertRead, Read, Superseded
<1>8. ASSUME NEW p \in Tasks, UpsertWrite(p) PROVE Grounds'
  BY <1>8 DEF UpsertWrite, Goto, End, Begin, FlowEnds, Requested, UserAuth, Sending
<1>9. ASSUME NEW p \in Tasks, DeleteOld(p) PROVE Grounds'
  BY <1>9 DEF DeleteOld, End, Begin, FlowEnds
<1>10. ASSUME NEW p \in Tasks, Callback(p) PROVE Grounds'
  BY <1>10 DEF Callback, Goto, End, Begin
<1>11. ASSUME NEW p \in Tasks, Exchange(p) PROVE Grounds'
  BY <1>11 DEF Exchange, Goto, End, Begin
<1>12. ASSUME NEW p \in Tasks, CompleteRead(p) PROVE Grounds'
  BY <1>12 DEF CompleteRead, Read, End, Begin
<1>13. ASSUME NEW p \in Tasks, CompleteWrite(p) PROVE Grounds'
  BY <1>13 DEF CompleteWrite, Goto, End, Begin, SignedIn, UserAuth
<1>14. ASSUME NEW p \in Tasks, CompleteDelete(p) PROVE Grounds'
  BY <1>14 DEF CompleteDelete, End, Begin, Resume
<1>15. ASSUME NEW p \in Tasks, Abort(p) PROVE Grounds'
  BY <1>15 DEF Abort, End, Begin
<1>16. ASSUME NEW p \in Tasks, ServeDenied(p) PROVE Grounds'
  BY <1>16 DEF ServeDenied, Read, End, Begin
<1>23. ASSUME NEW p \in Tasks, DeleteWrite(p) PROVE Grounds'
  BY <1>23 DEF DeleteWrite, Deleted, Goto
<1>17. ASSUME NEW p \in Tasks, NEW o \in Operations, Ask(p, o) PROVE Grounds'
  BY <1>17 DEF Ask, Begin
<1>18. ASSUME NEW p \in Tasks, NEW l \in Links, Click(p, l) PROVE Grounds'
  BY <1>18 DEF Click, Begin
<1>19. ASSUME TokenExpires PROVE Grounds'
  BY <1>19 DEF TokenExpires, locals, UserAuth
<1>20. ASSUME NEW l \in Links, LinkExpires(l) PROVE Grounds'
  BY <1>20 DEF LinkExpires, locals
<1>21. ASSUME AdminRead \/ AdminDelete PROVE Grounds'
  BY <1>21 DEF AdminRead, AdminDelete, Deleted, locals
<1>22. CASE UNCHANGED vars
  BY <1>22 DEF vars, locals
<1> QED
  BY <1>1, <1>2, <1>3, <1>4, <1>5, <1>6, <1>7, <1>8, <1>9, <1>10, <1>11, <1>12, <1>13, <1>14, <1>15, <1>16, <1>17, <1>18, <1>19, <1>20, <1>21, <1>22, <1>23 DEF Next, Step, Environment

LEMMA AlwaysGrounded == Spec => [](IInv /\ Grounds)
  BY Invariance, InitGrounds, NextGrounds, PTL DEF Spec

\* What a step of one task changes of what Access sees of the tasks.
LEMMA SeenOfTasks ==
    ASSUME LocalsOK, Ties, NEW p \in Tasks, OthersStay(p)
    PROVE  /\ ~Sending(p) /\ ~Sending(p)' => OnWay' = OnWay
           /\ Sending(p) /\ Sending(p)' /\ link'[p] = link[p] => OnWay' = OnWay
           /\ ~Sending(p) /\ Sending(p)' => OnWay' = OnWay \union {link'[p]}
           /\ Sending(p) /\ ~Sending(p)' => OnWay' = OnWay \ {link[p]}
           /\ ~Accepted(p) /\ ~Accepted(p)' => AcceptedFor' = AcceptedFor
           /\ Accepted(p) /\ Accepted(p)' /\ link'[p] = link[p] => AcceptedFor' = AcceptedFor
           /\ Accepted(p)' => AcceptedFor' = [AcceptedFor EXCEPT ![p] = link'[p]]
           /\ ~Accepted(p)' => AcceptedFor' = [AcceptedFor EXCEPT ![p] = NULL]
           /\ AcceptedFor[p] = IF Accepted(p) THEN link[p] ELSE NULL
           /\ pc'[p] = "serve" => Cleared' = Cleared \union {p}
           /\ pc'[p] # "serve" => Cleared' = Cleared \ {p}
           /\ p \in Cleared <=> pc[p] = "serve"
<1> USE DEF OthersStay
<1>1. OnWay = {link[q] : q \in {r \in Tasks : Sending(r)}}
      /\ OnWay' = {link'[q] : q \in {r \in Tasks : Sending(r)'}}
  BY DEF OnWay, Sending
<1>2. \A q \in Tasks : q # p => (Sending(q)' <=> Sending(q)) /\ (Accepted(q)' <=> Accepted(q))
  BY DEF Sending, Accepted
<1>3. Sending(p) /\ ~Sending(p)' => OnWay' = OnWay \ {link[p]}
  BY <1>1, <1>2 DEF Ties, SentLinksDiffer
<1>4. ~Sending(p) /\ Sending(p)' => OnWay' = OnWay \union {link'[p]}
  BY <1>1, <1>2
<1>5. /\ ~Sending(p) /\ ~Sending(p)' => OnWay' = OnWay
      /\ Sending(p) /\ Sending(p)' /\ link'[p] = link[p] => OnWay' = OnWay
  BY <1>1, <1>2
<1>6. /\ AcceptedFor = [q \in Tasks |-> IF Accepted(q) THEN link[q] ELSE NULL]
      /\ AcceptedFor' = [q \in Tasks |-> IF Accepted(q)' THEN link'[q] ELSE NULL]
  BY DEF AcceptedFor, Accepted, NULL
<1>7. /\ Accepted(p)' => AcceptedFor' = [AcceptedFor EXCEPT ![p] = link'[p]]
      /\ ~Accepted(p)' => AcceptedFor' = [AcceptedFor EXCEPT ![p] = NULL]
      /\ ~Accepted(p) /\ ~Accepted(p)' => AcceptedFor' = AcceptedFor
      /\ Accepted(p) /\ Accepted(p)' /\ link'[p] = link[p] => AcceptedFor' = AcceptedFor
      /\ AcceptedFor[p] = IF Accepted(p) THEN link[p] ELSE NULL
  BY <1>6, <1>2
<1>8. /\ pc'[p] = "serve" => Cleared' = Cleared \union {p}
      /\ pc'[p] # "serve" => Cleared' = Cleared \ {p}
      /\ p \in Cleared <=> pc[p] = "serve"
  BY DEF Cleared
<1> QED
  BY <1>3, <1>4, <1>5, <1>7, <1>8

\* A step Access does not see, or one of its steps.
Kept == [Promise!Next]_(Promise!accessVars)

\* Nothing Access sees changes.
Unseen == UNCHANGED <<sent, visible, OnWay, auth.state, AcceptedFor, completed, auth.tokens # "none", Cleared, served>>

\* Every step of SignIn is a step of Access or leaves what Access sees alone.
LEMMA PromiseSteps == IInv /\ Grounds /\ [Next]_vars => Kept
<1> SUFFICES ASSUME IInv, Grounds, [Next]_vars PROVE Kept
  OBVIOUS
<1>0. /\ LocalsOK /\ Ties
      /\ sent \in Nat /\ visible \subseteq 1..sent /\ completed \subseteq 1..sent
      /\ auth.state \in 0..sent /\ auth.state = auth.auth_message_id
  BY SignInAssumption DEF IInv, TypeOK, LocalsOK, Ties, PendingPaired
<1>s. /\ \A p \in Tasks : Sending(p) => link[p] \in OnWay
      /\ OnWay \subseteq visible
      /\ auth.state \notin OnWay
      /\ auth.state \notin completed
      /\ \A p \in Tasks : HoldsOld(p) => old[p] \notin OnWay
      /\ \A p \in Tasks : Deleting(p) => old[p] # auth.state
  BY <1>0 DEF Ties, SentLinkFresh, OldSuperseded, RequestNotCompleted, OnWay, Sending
<1>u. Unseen => Kept
  BY DEF Unseen, Kept, Promise!accessVars, Promise!linkVars
<1>r. \A p \in Tasks : AcceptedFor[p] = (IF Accepted(p) THEN link[p] ELSE NULL)
                       /\ (p \in Cleared <=> pc[p] = "serve")
  BY DEF AcceptedFor, Accepted, Cleared
<1>k. /\ \A p \in Tasks : pc[p] \in CallbackSteps => link[p] # NULL
      /\ \A p \in Tasks : pc[p] # "idle" => op[p] \in Operations
      /\ Promise!None = NULL
  BY <1>0 DEF Ties, CallbackHasLink, OperationKnown, Promise!None, NULL
<1> USE DEF slackVars
<1>1. ASSUME NEW p \in Tasks, Authenticate(p) PROVE Kept
  <2>1. /\ OthersStay(p) /\ pc[p] = "authenticate" /\ pc'[p] \in {"post", "refresh", "serve"}
        /\ pc'[p] = "serve" => auth.tokens # "none"
        /\ UNCHANGED <<sent, visible, auth, completed, served>>
    BY <1>0, <1>1, GotoEffect DEF Authenticate
  <2>2. UNCHANGED <<OnWay, AcceptedFor>> /\ p \notin Cleared
    BY <2>1, <1>0, <1>r, SeenOfTasks DEF Sending, Accepted
  <2>3. CASE pc'[p] = "serve"
    <3>1. Promise!Clear(p)
      BY <2>1, <2>2, <2>3, <1>0, SeenOfTasks DEF Promise!Clear, Promise!linkVars
    <3> QED
      BY <3>1 DEF Kept, Promise!Next
  <2>4. CASE pc'[p] # "serve"
    BY <2>1, <2>2, <2>4, <1>0, <1>u, SeenOfTasks DEF Unseen
  <2> QED
    BY <2>3, <2>4
<1>2. ASSUME NEW p \in Tasks, Refresh(p) PROVE Kept
  <2>1. OthersStay(p) /\ ~Sending(p) /\ ~Accepted(p) /\ pc[p] # "serve"
        /\ ~Sending(p)' /\ ~Accepted(p)' /\ pc'[p] # "serve"
    BY <1>0, <1>2, GotoEffect DEF Refresh, Sending, Accepted
  <2> QED
    BY <2>1, <1>0, <1>2, <1>u, <1>r, SeenOfTasks DEF Refresh, Unseen
<1>3. ASSUME NEW p \in Tasks, UpdateRead(p) PROVE Kept
  <2>1. OthersStay(p) /\ ~Sending(p) /\ ~Accepted(p) /\ pc[p] # "serve"
        /\ ~Sending(p)' /\ ~Accepted(p)' /\ pc'[p] # "serve"
    BY <1>0, <1>3, GotoEffect, ReadEffect DEF UpdateRead, Sending, Accepted
  <2> QED
    BY <2>1, <1>0, <1>3, <1>u, <1>r, SeenOfTasks DEF UpdateRead, Unseen
<1>4. ASSUME NEW p \in Tasks, UpdateWrite(p) PROVE Kept
  <2>1. /\ OthersStay(p) /\ pc[p] = "update_write" /\ pc'[p] \in {"post", "serve"}
        /\ pc'[p] = "serve" => auth.tokens # "none" /\ auth' = Refreshed
        /\ pc'[p] # "serve" => auth' = auth
        /\ UNCHANGED <<sent, visible, completed, served>>
    BY <1>0, <1>4, GotoEffect DEF UpdateWrite, Grounds, WrittenWasRead
  <2>2. UNCHANGED <<OnWay, AcceptedFor>> /\ p \notin Cleared
    BY <2>1, <1>0, <1>r, SeenOfTasks DEF Sending, Accepted
  <2>3. CASE pc'[p] = "serve"
    <3>1. auth'.state = auth.state /\ auth'.tokens # "none"
      BY <2>1, <2>3 DEF Refreshed, UserAuth
    <3>2. Promise!Clear(p)
      BY <3>1, <2>1, <2>2, <2>3, <1>0, SeenOfTasks DEF Promise!Clear, Promise!linkVars
    <3> QED
      BY <3>2 DEF Kept, Promise!Next
  <2>4. CASE pc'[p] # "serve"
    BY <2>1, <2>2, <2>4, <1>0, <1>u, SeenOfTasks DEF Unseen
  <2> QED
    BY <2>3, <2>4
<1>5. ASSUME NEW p \in Tasks, Serve(p) PROVE Kept
  <2>1. /\ OthersStay(p) /\ pc[p] = "serve" /\ pc'[p] = "idle" /\ op[p] \in Operations
        /\ served' = [served EXCEPT ![op[p]] = @ + 1]
        /\ UNCHANGED <<sent, visible, auth, completed>>
    BY <1>0, <1>k, <1>5, EndEffect DEF Serve
  <2>2. UNCHANGED <<OnWay, AcceptedFor>> /\ p \in Cleared /\ Cleared' = Cleared \ {p}
    BY <2>1, <1>0, <1>r, SeenOfTasks DEF Sending, Accepted
  <2>3. Promise!Run(p, op[p])
    BY <2>1, <2>2 DEF Promise!Run, Promise!linkVars
  <2> QED
    BY <2>1, <2>3 DEF Kept, Promise!Next
<1>6. ASSUME NEW p \in Tasks, ServeDenied(p) PROVE Kept
  <2>1. /\ OthersStay(p) /\ pc[p] = "serve" /\ pc'[p] \in {"delete_write", "idle"}
        /\ UNCHANGED <<sent, visible, auth, completed, served>>
    BY <1>0, <1>6, ReadEffect, EndEffect DEF ServeDenied
  <2>2. UNCHANGED <<OnWay, AcceptedFor>> /\ p \in Cleared /\ Cleared' = Cleared \ {p}
    BY <2>1, <1>0, <1>r, SeenOfTasks DEF Sending, Accepted
  <2>3. Promise!Leave(p)
    BY <2>1, <2>2 DEF Promise!Leave, Promise!linkVars
  <2> QED
    BY <2>3 DEF Kept, Promise!Next
\* A row is removed by its key: it had tokens or a request.
<1>f. ASSUME NEW id, id # NULL, auth' = Deleted(id),
             UNCHANGED <<sent, visible, OnWay, AcceptedFor, completed, Cleared, served>>
      PROVE  Kept
  <2>1. CASE auth.row = id
    <3>1. /\ auth'.state = Promise!None /\ (auth'.tokens # "none") = FALSE
          /\ auth.tokens # "none" \/ auth.state # Promise!None
      BY <1>f, <2>1, <1>k DEF Deleted, NoRow, UserAuth, Grounds, RowHasPurpose
    <3>2. Promise!Forget
      BY <1>f, <3>1 DEF Promise!Forget, Promise!linkVars
    <3> QED
      BY <3>2 DEF Kept, Promise!Next
  <2>2. CASE auth.row # id
    BY <1>f, <2>2, <1>u DEF Deleted, Unseen
  <2> QED
    BY <2>1, <2>2
<1>19. ASSUME NEW p \in Tasks, DeleteWrite(p) PROVE Kept
  <2>1. /\ OthersStay(p) /\ pc[p] = "delete_write" /\ pc'[p] = "post"
        /\ row[p] # NULL /\ auth' = Deleted(row[p])
        /\ UNCHANGED <<sent, visible, completed, served>>
    BY <1>0, <1>19, GotoEffect DEF DeleteWrite, Grounds, WrittenWasRead
  <2>2. UNCHANGED <<OnWay, AcceptedFor, Cleared>>
    BY <2>1, <1>0, <1>r, SeenOfTasks DEF Sending, Accepted
  <2> QED
    BY <2>1, <2>2, <1>f
<1>7. ASSUME NEW p \in Tasks, Post(p) PROVE Kept
  <2>1. /\ OthersStay(p) /\ pc[p] = "post" /\ pc'[p] = "upsert_read" /\ link'[p] = sent + 1
        /\ sent' = sent + 1 /\ visible' = visible \union {sent + 1}
        /\ UNCHANGED <<auth, completed, served>>
    BY <1>0, <1>7 DEF Post, NewLink, OthersStay, LocalsOK
  <2>2. OnWay' = OnWay \union {sent + 1} /\ UNCHANGED <<AcceptedFor, Cleared>>
    BY <2>1, <1>0, <1>r, SeenOfTasks DEF Sending, Accepted
  <2>3. Promise!Send
    BY <2>1, <2>2 DEF Promise!Send
  <2> QED
    BY <2>3 DEF Kept, Promise!Next
<1>8. ASSUME NEW p \in Tasks, UpsertRead(p) PROVE Kept
  <2>1. /\ OthersStay(p) /\ pc[p] = "upsert_read" /\ pc'[p] = "upsert_write" /\ link'[p] = link[p]
        /\ UNCHANGED <<sent, visible, auth, completed, served>>
    BY <1>0, <1>8, ReadEffect DEF UpsertRead
  <2>2. UNCHANGED <<OnWay, AcceptedFor, Cleared>>
    BY <2>1, <1>0, <1>r, SeenOfTasks DEF Sending, Accepted
  <2> QED
    BY <2>1, <2>2, <1>u DEF Unseen
<1>9. ASSUME NEW p \in Tasks, UpsertWrite(p) PROVE Kept
  <2>1. /\ OthersStay(p) /\ pc[p] = "upsert_write" /\ pc'[p] \in {"idle", "delete_old"}
        /\ \/ auth' = auth
           \/ auth'.state = link[p] /\ auth'.tokens = auth.tokens
        /\ UNCHANGED <<sent, visible, completed, served>>
    BY <1>0, <1>9, GotoEffect, EndEffect DEF UpsertWrite, Requested, UserAuth, FlowEnds
  <2>2. link[p] \in OnWay /\ OnWay' = OnWay \ {link[p]} /\ UNCHANGED <<AcceptedFor, Cleared>>
    BY <2>1, <1>0, <1>s, <1>r, SeenOfTasks DEF Sending, Accepted
  <2>3. Promise!Record(link[p]) \/ Promise!Lose(link[p])
    BY <2>1, <2>2 DEF Promise!Record, Promise!Lose
  <2> QED
    BY <2>2, <2>3, <1>0, <1>s DEF Kept, Promise!Next
<1>10. ASSUME NEW p \in Tasks, DeleteOld(p) \/ CompleteDelete(p) PROVE Kept
  <2>1. /\ OthersStay(p) /\ Deleting(p) /\ HoldsOld(p) /\ pc'[p] \in {"idle", "authenticate"}
        /\ visible' = visible \ {old[p]}
        /\ UNCHANGED <<sent, auth, completed, served>>
    BY <1>0, <1>10, BeginEffect, EndEffect DEF DeleteOld, CompleteDelete, FlowEnds, Resume, Deleting, HoldsOld
  <2>2. UNCHANGED <<OnWay, AcceptedFor, Cleared>>
    BY <2>1, <1>0, <1>r, SeenOfTasks DEF Sending, Accepted, Deleting
  <2>3. CASE old[p] \in visible
    <3>1. Promise!TakeDown(old[p])
      BY <2>1, <2>2, <2>3, <1>s DEF Promise!TakeDown
    <3> QED
      BY <3>1, <2>3, <1>0 DEF Kept, Promise!Next
  <2>4. CASE old[p] \notin visible
    BY <2>1, <2>2, <2>4, <1>u DEF Unseen
  <2> QED
    BY <2>3, <2>4
<1>11. ASSUME NEW p \in Tasks, Callback(p) PROVE Kept
  <2>1. /\ OthersStay(p) /\ pc[p] \in {"callback", "late_callback"}
        /\ \/ pc'[p] \in {"idle", "post"}
           \/ /\ pc'[p] = "exchange" /\ link'[p] = link[p]
              /\ auth.tokens = "none" /\ auth.state = link[p]
        /\ UNCHANGED <<sent, visible, auth, completed, served>>
    BY <1>0, <1>11, GotoEffect, EndEffect DEF Callback, RequestMatches
  <2>2. UNCHANGED <<OnWay, Cleared>> /\ AcceptedFor[p] = Promise!None
    BY <2>1, <1>0, <1>r, <1>k, SeenOfTasks DEF Sending, Accepted
  <2>3. CASE pc'[p] = "exchange"
    <3>1. AcceptedFor' = [AcceptedFor EXCEPT ![p] = auth.state] /\ link[p] # NULL
      BY <2>1, <2>3, <1>0, <1>k, SeenOfTasks DEF Accepted, CallbackSteps
    <3>2. auth.state \in (1..sent) \ (completed \union OnWay)
      BY <3>1, <2>1, <2>3, <1>0, <1>s DEF NULL
    <3>3. Promise!Accept(p)
      BY <3>1, <3>2, <2>1, <2>2, <2>3 DEF Promise!Accept, Promise!linkVars
    <3> QED
      BY <3>3 DEF Kept, Promise!Next
  <2>4. CASE pc'[p] # "exchange"
    <3>1. UNCHANGED AcceptedFor
      BY <2>1, <2>4, <1>0, SeenOfTasks DEF Accepted
    <3> QED
      BY <3>1, <2>1, <2>2, <1>u DEF Unseen
  <2> QED
    BY <2>3, <2>4
<1>12. ASSUME NEW p \in Tasks, Exchange(p) \/ CompleteRead(p) PROVE Kept
  <2>1. /\ OthersStay(p) /\ pc[p] \in {"exchange", "complete_read"}
        /\ pc'[p] = "idle" \/ (pc'[p] \in {"complete_read", "complete_write"} /\ link'[p] = link[p])
        /\ UNCHANGED <<sent, visible, auth, completed, served>>
    BY <1>0, <1>12, GotoEffect, ReadEffect, EndEffect DEF Exchange, CompleteRead
  <2>2. UNCHANGED <<OnWay, Cleared>> /\ AcceptedFor[p] = link[p] /\ link[p] # Promise!None
    BY <2>1, <1>0, <1>r, <1>k, SeenOfTasks DEF Sending, Accepted, CallbackSteps
  <2>3. CASE pc'[p] = "idle"
    <3>1. Promise!Reject(p)
      BY <2>1, <2>2, <2>3, <1>0, <1>k, SeenOfTasks DEF Promise!Reject, Promise!linkVars, Accepted
    <3> QED
      BY <3>1 DEF Kept, Promise!Next
  <2>4. CASE pc'[p] # "idle"
    <3>1. UNCHANGED AcceptedFor
      BY <2>1, <2>4, <1>0, SeenOfTasks DEF Accepted
    <3> QED
      BY <3>1, <2>1, <2>2, <1>u DEF Unseen
  <2> QED
    BY <2>3, <2>4
<1>13. ASSUME NEW p \in Tasks, CompleteWrite(p) PROVE Kept
  <2>1. /\ OthersStay(p) /\ pc[p] = "complete_write"
        /\ \/ pc'[p] = "idle" /\ UNCHANGED <<auth, completed>>
           \/ /\ pc'[p] = "complete_delete"
              /\ auth'.state = NULL /\ auth'.tokens = "valid"
              /\ completed' = completed \union {link[p]}
        /\ UNCHANGED <<sent, visible, served>>
    BY <1>0, <1>13, GotoEffect, EndEffect DEF CompleteWrite, SignedIn, UserAuth
  <2>2. /\ UNCHANGED <<OnWay, Cleared>> /\ AcceptedFor[p] = link[p] /\ link[p] # Promise!None
        /\ AcceptedFor' = [AcceptedFor EXCEPT ![p] = Promise!None]
    BY <2>1, <1>0, <1>r, <1>k, SeenOfTasks DEF Sending, Accepted, CallbackSteps
  <2>3. CASE pc'[p] = "idle"
    <3>1. Promise!Reject(p)
      BY <2>1, <2>2, <2>3 DEF Promise!Reject, Promise!linkVars
    <3> QED
      BY <3>1 DEF Kept, Promise!Next
  <2>4. CASE pc'[p] # "idle"
    <3>1. auth'.state = Promise!None /\ (auth'.tokens # "none") = TRUE
      BY <2>1, <2>4, <1>k
    <3>2. Promise!SignIn(p)
      BY <3>1, <2>1, <2>2, <2>4 DEF Promise!SignIn, Promise!linkVars
    <3> QED
      BY <3>2 DEF Kept, Promise!Next
  <2> QED
    BY <2>3, <2>4
<1>14. ASSUME NEW p \in Tasks, Abort(p) PROVE Kept
  <2>1. /\ OthersStay(p) /\ pc'[p] = "idle" /\ ~Sending(p)' /\ ~Accepted(p)'
        /\ UNCHANGED <<sent, visible, auth, completed, served>>
    BY <1>0, <1>14, EndEffect DEF Abort, Sending, Accepted
  <2>2. CASE Sending(p)
    <3>1. link[p] \in OnWay /\ OnWay' = OnWay \ {link[p]} /\ UNCHANGED <<AcceptedFor, Cleared>>
      BY <2>1, <2>2, <1>0, <1>s, <1>r, SeenOfTasks DEF Sending, Accepted
    <3>2. Promise!Lose(link[p])
      BY <2>1, <3>1 DEF Promise!Lose
    <3> QED
      BY <3>1, <3>2, <1>0, <1>s DEF Kept, Promise!Next
  <2>3. CASE Accepted(p)
    <3>1. /\ UNCHANGED <<OnWay, Cleared>> /\ AcceptedFor[p] = link[p] /\ link[p] # Promise!None
          /\ AcceptedFor' = [AcceptedFor EXCEPT ![p] = Promise!None]
      BY <2>1, <2>3, <1>0, <1>r, <1>k, SeenOfTasks DEF Sending, Accepted, CallbackSteps
    <3>2. Promise!Reject(p)
      BY <3>1, <2>1 DEF Promise!Reject, Promise!linkVars
    <3> QED
      BY <3>2 DEF Kept, Promise!Next
  <2>4. CASE pc[p] = "serve"
    <3>1. UNCHANGED <<OnWay, AcceptedFor>> /\ p \in Cleared /\ Cleared' = Cleared \ {p}
      BY <2>1, <2>4, <1>0, <1>r, SeenOfTasks DEF Sending, Accepted
    <3>2. Promise!Leave(p)
      BY <3>1, <2>1 DEF Promise!Leave, Promise!linkVars
    <3> QED
      BY <3>2 DEF Kept, Promise!Next
  <2>5. CASE ~Sending(p) /\ ~Accepted(p) /\ pc[p] # "serve"
    <3>1. UNCHANGED <<OnWay, AcceptedFor, Cleared>>
      BY <2>1, <2>5, <1>0, <1>r, SeenOfTasks
    <3> QED
      BY <3>1, <2>1, <1>u DEF Unseen
  <2> QED
    BY <2>2, <2>3, <2>4, <2>5
<1>15. ASSUME NEW p \in Tasks, NEW o \in Operations, Ask(p, o) PROVE Kept
  <2>1. /\ OthersStay(p) /\ pc[p] = "idle" /\ pc'[p] = "authenticate"
        /\ UNCHANGED <<sent, visible, auth, completed, served>>
    BY <1>0, <1>15, BeginEffect DEF Ask
  <2>2. UNCHANGED <<OnWay, AcceptedFor, Cleared>>
    BY <2>1, <1>0, <1>r, SeenOfTasks DEF Sending, Accepted
  <2> QED
    BY <2>1, <2>2, <1>u DEF Unseen
<1>16. ASSUME NEW p \in Tasks, NEW l \in Links, Click(p, l) PROVE Kept
  <2>1. /\ OthersStay(p) /\ pc[p] = "idle" /\ pc'[p] \in {"callback", "late_callback"}
        /\ UNCHANGED <<sent, visible, auth, completed, served>>
    BY <1>0, <1>16, BeginEffect DEF Click
  <2>2. UNCHANGED <<OnWay, AcceptedFor, Cleared>>
    BY <2>1, <1>0, <1>r, SeenOfTasks DEF Sending, Accepted
  <2> QED
    BY <2>1, <2>2, <1>u DEF Unseen
<1>17. ASSUME TokenExpires \/ AdminRead \/ (\E l \in Links : LinkExpires(l)) \/ UNCHANGED vars PROVE Kept
  <2>1. /\ auth'.state = auth.state /\ (auth'.tokens # "none") = (auth.tokens # "none")
        /\ UNCHANGED <<sent, visible, completed, served, locals>>
    BY <1>17 DEF TokenExpires, AdminRead, LinkExpires, UserAuth, vars
  <2>2. UNCHANGED <<OnWay, AcceptedFor, Cleared>>
    BY <2>1 DEF OnWay, AcceptedFor, Cleared, locals
  <2> QED
    BY <2>1, <2>2, <1>u DEF Unseen
<1>18. ASSUME AdminDelete PROVE Kept
  <2>1. UNCHANGED <<OnWay, AcceptedFor, Cleared>>
    BY <1>18 DEF AdminDelete, OnWay, AcceptedFor, Cleared, locals
  <2> QED
    BY <1>18, <2>1, <1>f DEF AdminDelete
<1> QED
  BY <1>1, <1>2, <1>3, <1>4, <1>5, <1>6, <1>7, <1>8, <1>9, <1>10, <1>11, <1>12, <1>13, <1>14, <1>15, <1>16, <1>17, <1>18, <1>19 DEF Next, Step, Environment

\* The sign-in implements Access: any interleaving of any number of tasks, with
\* any failure at any step, is to the user one of atomic steps.
THEOREM SignInKeepsAccess == Spec => KeepsAccess
<1>1. Init => Promise!Init
  BY DEF Init, Promise!Init, Promise!None, OnWay, AcceptedFor, Cleared, NoRow, UserAuth, NULL
<1>2. IInv /\ Grounds /\ [Next]_vars => [Promise!Next]_(Promise!accessVars)
  BY PromiseSteps DEF Kept
<1> QED
  BY <1>1, <1>2, AlwaysGrounded, PTL DEF Spec, KeepsAccess, Promise!Spec

=============================================================================
