-------------------------- MODULE SignInAlone_proofs -------------------------
(***************************************************************************)
(* What holds of SignIn while one task at a time works for the user: the   *)
(* user asks, opens links and waits for the reply before the next.  The    *)
(* environment still does what it likes: tokens and links expire, services *)
(* refuse, the administrator removes the row, the process dies.            *)
(***************************************************************************)
EXTENDS SignIn_proofs

OneTask == \A p, q \in Tasks : p = q

\* An event that has not happened yet.
NotYet(k) == events[k] = MaxEvents[k]

EventsSpent == \A k \in EventKinds : events[k] <= MaxEvents[k]

\* Who renews the tokens, or asks for a sign-in, does so because they are not valid.
AskingSteps == {"post", "upsert_read", "upsert_write"}
RenewingSteps == {"refresh", "update_read", "update_write"}

InvalidWhileRenewed ==
    \A p \in Tasks : pc[p] \in AskingSteps \union RenewingSteps => auth.tokens # "valid"

\* Who runs an operation, writes renewed tokens, or removes them, finds no request.
NoRequestAtRun ==
    \A p \in Tasks : pc[p] \in {"update_write", "serve", "delete_write"} => auth.state = NULL

\* The row a task has read is still there, or the administrator removed it.
RowReadIsCurrent ==
    /\ \A p \in Tasks : pc[p] \in {"update_write", "complete_write", "delete_write"} => row[p] # NULL
    /\ \A p \in Tasks : pc[p] \in {"update_write", "delete_write"} => auth.row \in {row[p], NULL}

\* As long as no refresh has failed, tokens and a request exclude each other.
TokensOrRequest ==
    NotYet("refresh_failure") =>
        /\ auth.tokens # "none" => auth.state = NULL
        /\ \A p \in Tasks : pc[p] \in AskingSteps => auth.tokens = "none"
        /\ \A p \in Tasks : pc[p] \in {"refresh", "update_read"} => auth.state = NULL

\* Whose callback was accepted had no tokens, and gets none but through it.
NoTokensAtCallback == \A p \in Tasks : Accepted(p) => auth.tokens = "none"

Undisturbed == NotYet("abort") /\ NotYet("admin_delete")

\* A removal under way is one that happened.
RemovalIsEvent == removing # NULL => ~NotYet("admin_delete")

\* As long as no task died and nobody removed the row, each link message in
\* Slack is on record, about to be, or about to be deleted.
EveryLinkHasAPlace ==
    Undisturbed =>
        /\ \A l \in visible :
            \/ l = auth.auth_message_id
            \/ \E p \in Tasks : Sending(p) /\ l = link[p]
            \/ \E p \in Tasks : Deleting(p) /\ l = old[p]
        /\ \A p \in Tasks :
            pc[p] \in {"upsert_write", "complete_write"} =>
                old[p] = auth.auth_message_id /\ row[p] = auth.row

Alone ==
    /\ EventsSpent
    /\ RowlessIsBlank
    /\ InvalidWhileRenewed
    /\ NoRequestAtRun
    /\ RowReadIsCurrent
    /\ TokensOrRequest
    /\ NoTokensAtCallback
    /\ RemovalIsEvent
    /\ EveryLinkHasAPlace
    /\ ValidTokenHasNoRequest

-----------------------------------------------------------------------------
\* Events only become fewer.
LEMMA EventsFall ==
    ASSUME IInv, EventsSpent, [Next]_vars
    PROVE  /\ EventsSpent'
           /\ \A k \in EventKinds : NotYet(k)' => NotYet(k)
           /\ (\E p \in Tasks : Abort(p)) => ~NotYet("abort")'
           /\ AdminRead => ~NotYet("admin_delete")'
           /\ \A p \in Tasks : Refresh(p) /\ pc'[p] = "post" => ~NotYet("refresh_failure")'
<1>1. events \in [EventKinds -> Nat] /\ MaxEvents \in [EventKinds -> Nat] /\ pc \in [Tasks -> Steps]
  BY SignInAssumption DEF IInv, TypeOK
<1>2. ASSUME NEW k \in EventKinds, Happens(k)
      PROVE  /\ events' = [events EXCEPT ![k] = events[k] - 1] /\ events[k] > 0
             /\ EventsSpent' /\ (\A j \in EventKinds : NotYet(j)' => NotYet(j)) /\ ~NotYet(k)'
  BY <1>1, <1>2 DEF Happens, EventsSpent, NotYet
<1>3. CASE events' = events
  <2>1. EventsSpent' /\ \A k \in EventKinds : NotYet(k)' => NotYet(k)
    BY <1>3 DEF EventsSpent, NotYet
  <2>2. ~Happens("abort") /\ ~Happens("admin_delete")
    BY <1>1, <1>3 DEF Happens, EventKinds
  <2>3. \A p \in Tasks : ~(Refresh(p) /\ pc'[p] = "post")
    BY <1>1, <1>3 DEF Refresh, Goto, Happens, EventKinds
  <2> QED
    BY <2>1, <2>2, <2>3 DEF Abort, AdminRead
<1>4. events' = events \/ \E k \in EventKinds : Happens(k)
  BY DEF Next, Step, Environment, Authenticate, Refresh, UpdateRead, UpdateWrite, Serve, Post, UpsertRead,
     UpsertWrite, DeleteOld, Callback, Exchange, CompleteRead, CompleteWrite, CompleteDelete, TokenExpires,
     AdminRead, AdminDelete, LinkExpires, Abort, ServeDenied, DeleteWrite, Ask, Click, vars, EventKinds
<1>5. ASSUME NEW k \in EventKinds, Happens(k)
      PROVE  /\ (\E p \in Tasks : Abort(p)) => ~NotYet("abort")'
             /\ AdminRead => ~NotYet("admin_delete")'
             /\ \A p \in Tasks : Refresh(p) /\ pc'[p] = "post" => ~NotYet("refresh_failure")'
  <2>1. ASSUME NEW p \in Tasks, Refresh(p), pc'[p] = "post" PROVE Happens("refresh_failure")
    BY <1>1, <2>1 DEF Refresh, Goto
  <2> QED
    BY <1>2, <2>1 DEF Abort, AdminRead, EventKinds
<1> QED
  BY <1>2, <1>3, <1>4, <1>5


-----------------------------------------------------------------------------
(* Every step of the one task, and of its environment *)

\* What the steps rest on.
LEMMA AloneFacts ==
    ASSUME IInv
    PROVE  /\ pc \in [Tasks -> Steps] /\ link \in [Tasks -> 0..sent]
           /\ row \in [Tasks -> 0..rows] /\ old \in [Tasks -> 0..sent]
           /\ rows \in Nat /\ sent \in Nat
           /\ auth.row \in 0..rows /\ auth.state \in 0..sent
           /\ auth.state = auth.auth_message_id
           /\ visible \subseteq 1..sent
           /\ NULL \notin visible
           /\ NoRow.row = NULL /\ NoRow.tokens = "none" /\ NoRow.state = NULL /\ NoRow.auth_message_id = NULL
  BY SignInAssumption DEF IInv, TypeOK, Ties, PendingPaired, NoRow, UserAuth, NULL

\* Only the administrator takes a row from under a task.
LEMMA NextBlank ==
    ASSUME OneTask, IInv, IInv', Alone, [Next]_vars
    PROVE  RowlessIsBlank' /\ RowReadIsCurrent'
<1> USE AloneFacts, EventsFall DEF Alone, OneTask, slackVars, RowlessIsBlank, RowReadIsCurrent
<1>1. ASSUME NEW p \in Tasks, Authenticate(p) PROVE RowlessIsBlank' /\ RowReadIsCurrent'
  BY <1>1 DEF Authenticate, Goto
<1>2. ASSUME NEW p \in Tasks, Refresh(p) PROVE RowlessIsBlank' /\ RowReadIsCurrent'
  BY <1>2 DEF Refresh, Goto
<1>3. ASSUME NEW p \in Tasks, UpdateRead(p) PROVE RowlessIsBlank' /\ RowReadIsCurrent'
  BY <1>3 DEF UpdateRead, Goto, Read, MayUpdateTokens
<1>4. ASSUME NEW p \in Tasks, UpdateWrite(p) PROVE RowlessIsBlank' /\ RowReadIsCurrent'
  BY <1>4 DEF UpdateWrite, Goto, Refreshed, UserAuth
<1>5. ASSUME NEW p \in Tasks, Serve(p) PROVE RowlessIsBlank' /\ RowReadIsCurrent'
  BY <1>5 DEF Serve, End, Begin
<1>6. ASSUME NEW p \in Tasks, Post(p) PROVE RowlessIsBlank' /\ RowReadIsCurrent'
  BY <1>6 DEF Post, NewLink
<1>7. ASSUME NEW p \in Tasks, UpsertRead(p) PROVE RowlessIsBlank' /\ RowReadIsCurrent'
  BY <1>7 DEF UpsertRead, Read, Superseded
<1>8. ASSUME NEW p \in Tasks, UpsertWrite(p) PROVE RowlessIsBlank' /\ RowReadIsCurrent'
  BY <1>8 DEF UpsertWrite, Goto, End, Begin, FlowEnds, Requested, UserAuth
<1>9. ASSUME NEW p \in Tasks, DeleteOld(p) PROVE RowlessIsBlank' /\ RowReadIsCurrent'
  BY <1>9 DEF DeleteOld, End, Begin, FlowEnds
<1>10. ASSUME NEW p \in Tasks, Callback(p) PROVE RowlessIsBlank' /\ RowReadIsCurrent'
  BY <1>10 DEF Callback, Goto, End, Begin
<1>11. ASSUME NEW p \in Tasks, Exchange(p) PROVE RowlessIsBlank' /\ RowReadIsCurrent'
  BY <1>11 DEF Exchange, Goto, End, Begin
<1>12. ASSUME NEW p \in Tasks, CompleteRead(p) PROVE RowlessIsBlank' /\ RowReadIsCurrent'
  BY <1>12 DEF CompleteRead, Read, End, Begin
<1>13. ASSUME NEW p \in Tasks, CompleteWrite(p) PROVE RowlessIsBlank' /\ RowReadIsCurrent'
  BY <1>13 DEF CompleteWrite, Goto, End, Begin, SignedIn, UserAuth
<1>14. ASSUME NEW p \in Tasks, CompleteDelete(p) PROVE RowlessIsBlank' /\ RowReadIsCurrent'
  BY <1>14 DEF CompleteDelete, End, Begin, Resume
<1>15. ASSUME NEW p \in Tasks, Abort(p) PROVE RowlessIsBlank' /\ RowReadIsCurrent'
  BY <1>15 DEF Abort, End, Begin
<1>16. ASSUME NEW p \in Tasks, ServeDenied(p) PROVE RowlessIsBlank' /\ RowReadIsCurrent'
  BY <1>16 DEF ServeDenied, Read, End, Begin
<1>17. ASSUME NEW p \in Tasks, NEW o \in Operations, Ask(p, o) PROVE RowlessIsBlank' /\ RowReadIsCurrent'
  BY <1>17 DEF Ask, Begin
<1>18. ASSUME NEW p \in Tasks, NEW l \in Links, Click(p, l) PROVE RowlessIsBlank' /\ RowReadIsCurrent'
  BY <1>18 DEF Click, Begin
<1>19. ASSUME TokenExpires PROVE RowlessIsBlank' /\ RowReadIsCurrent'
  BY <1>19 DEF TokenExpires, locals, UserAuth
<1>20. ASSUME NEW l \in Links, LinkExpires(l) PROVE RowlessIsBlank' /\ RowReadIsCurrent'
  BY <1>20 DEF LinkExpires, locals
<1>21. ASSUME AdminRead \/ AdminDelete PROVE RowlessIsBlank' /\ RowReadIsCurrent'
  BY <1>21 DEF AdminRead, AdminDelete, Deleted, locals
<1>23. ASSUME NEW p \in Tasks, DeleteWrite(p) PROVE RowlessIsBlank' /\ RowReadIsCurrent'
  BY <1>23 DEF DeleteWrite, Deleted, Goto
<1>22. CASE UNCHANGED vars
  BY <1>22 DEF vars, locals
<1> QED
  BY <1>1, <1>2, <1>3, <1>4, <1>5, <1>6, <1>7, <1>8, <1>9, <1>10, <1>11, <1>12, <1>13, <1>14, <1>15, <1>16, <1>17, <1>18, <1>19, <1>20, <1>21, <1>22, <1>23 DEF Next, Step, Environment

\* Who starts a sign-in saw no valid token, and nobody else makes one.
LEMMA NextValid ==
    ASSUME OneTask, IInv, IInv', Alone, [Next]_vars
    PROVE  ValidTokenHasNoRequest' /\ InvalidWhileRenewed' /\ NoRequestAtRun'
<1> USE AloneFacts, EventsFall DEF Alone, OneTask, slackVars, ValidTokenHasNoRequest, InvalidWhileRenewed, NoRequestAtRun, AskingSteps, RenewingSteps, RowlessIsBlank, RowReadIsCurrent
<1>1. ASSUME NEW p \in Tasks, Authenticate(p) PROVE ValidTokenHasNoRequest' /\ InvalidWhileRenewed' /\ NoRequestAtRun'
  BY <1>1 DEF Authenticate, Goto
<1>2. ASSUME NEW p \in Tasks, Refresh(p) PROVE ValidTokenHasNoRequest' /\ InvalidWhileRenewed' /\ NoRequestAtRun'
  BY <1>2 DEF Refresh, Goto
<1>3. ASSUME NEW p \in Tasks, UpdateRead(p) PROVE ValidTokenHasNoRequest' /\ InvalidWhileRenewed' /\ NoRequestAtRun'
  BY <1>3 DEF UpdateRead, Goto, Read, MayUpdateTokens
<1>4. ASSUME NEW p \in Tasks, UpdateWrite(p) PROVE ValidTokenHasNoRequest' /\ InvalidWhileRenewed' /\ NoRequestAtRun'
  BY <1>4 DEF UpdateWrite, Goto, Refreshed, UserAuth
<1>5. ASSUME NEW p \in Tasks, Serve(p) PROVE ValidTokenHasNoRequest' /\ InvalidWhileRenewed' /\ NoRequestAtRun'
  BY <1>5 DEF Serve, End, Begin
<1>6. ASSUME NEW p \in Tasks, Post(p) PROVE ValidTokenHasNoRequest' /\ InvalidWhileRenewed' /\ NoRequestAtRun'
  BY <1>6 DEF Post, NewLink
<1>7. ASSUME NEW p \in Tasks, UpsertRead(p) PROVE ValidTokenHasNoRequest' /\ InvalidWhileRenewed' /\ NoRequestAtRun'
  BY <1>7 DEF UpsertRead, Read, Superseded
<1>8. ASSUME NEW p \in Tasks, UpsertWrite(p) PROVE ValidTokenHasNoRequest' /\ InvalidWhileRenewed' /\ NoRequestAtRun'
  BY <1>8 DEF UpsertWrite, Goto, End, Begin, FlowEnds, Requested, UserAuth
<1>9. ASSUME NEW p \in Tasks, DeleteOld(p) PROVE ValidTokenHasNoRequest' /\ InvalidWhileRenewed' /\ NoRequestAtRun'
  BY <1>9 DEF DeleteOld, End, Begin, FlowEnds
<1>10. ASSUME NEW p \in Tasks, Callback(p) PROVE ValidTokenHasNoRequest' /\ InvalidWhileRenewed' /\ NoRequestAtRun'
  BY <1>10 DEF Callback, Goto, End, Begin
<1>11. ASSUME NEW p \in Tasks, Exchange(p) PROVE ValidTokenHasNoRequest' /\ InvalidWhileRenewed' /\ NoRequestAtRun'
  BY <1>11 DEF Exchange, Goto, End, Begin
<1>12. ASSUME NEW p \in Tasks, CompleteRead(p) PROVE ValidTokenHasNoRequest' /\ InvalidWhileRenewed' /\ NoRequestAtRun'
  BY <1>12 DEF CompleteRead, Read, End, Begin
<1>13. ASSUME NEW p \in Tasks, CompleteWrite(p) PROVE ValidTokenHasNoRequest' /\ InvalidWhileRenewed' /\ NoRequestAtRun'
  BY <1>13 DEF CompleteWrite, Goto, End, Begin, SignedIn, UserAuth
<1>14. ASSUME NEW p \in Tasks, CompleteDelete(p) PROVE ValidTokenHasNoRequest' /\ InvalidWhileRenewed' /\ NoRequestAtRun'
  BY <1>14 DEF CompleteDelete, End, Begin, Resume
<1>15. ASSUME NEW p \in Tasks, Abort(p) PROVE ValidTokenHasNoRequest' /\ InvalidWhileRenewed' /\ NoRequestAtRun'
  BY <1>15 DEF Abort, End, Begin
<1>16. ASSUME NEW p \in Tasks, ServeDenied(p) PROVE ValidTokenHasNoRequest' /\ InvalidWhileRenewed' /\ NoRequestAtRun'
  BY <1>16 DEF ServeDenied, Read, End, Begin
<1>17. ASSUME NEW p \in Tasks, NEW o \in Operations, Ask(p, o) PROVE ValidTokenHasNoRequest' /\ InvalidWhileRenewed' /\ NoRequestAtRun'
  BY <1>17 DEF Ask, Begin
<1>18. ASSUME NEW p \in Tasks, NEW l \in Links, Click(p, l) PROVE ValidTokenHasNoRequest' /\ InvalidWhileRenewed' /\ NoRequestAtRun'
  BY <1>18 DEF Click, Begin
<1>19. ASSUME TokenExpires PROVE ValidTokenHasNoRequest' /\ InvalidWhileRenewed' /\ NoRequestAtRun'
  BY <1>19 DEF TokenExpires, locals, UserAuth
<1>20. ASSUME NEW l \in Links, LinkExpires(l) PROVE ValidTokenHasNoRequest' /\ InvalidWhileRenewed' /\ NoRequestAtRun'
  BY <1>20 DEF LinkExpires, locals
<1>21. ASSUME AdminRead \/ AdminDelete PROVE ValidTokenHasNoRequest' /\ InvalidWhileRenewed' /\ NoRequestAtRun'
  BY <1>21 DEF AdminRead, AdminDelete, Deleted, locals
<1>23. ASSUME NEW p \in Tasks, DeleteWrite(p) PROVE ValidTokenHasNoRequest' /\ InvalidWhileRenewed' /\ NoRequestAtRun'
  BY <1>23 DEF DeleteWrite, Deleted, Goto
<1>22. CASE UNCHANGED vars
  BY <1>22 DEF vars, locals
<1> QED
  BY <1>1, <1>2, <1>3, <1>4, <1>5, <1>6, <1>7, <1>8, <1>9, <1>10, <1>11, <1>12, <1>13, <1>14, <1>15, <1>16, <1>17, <1>18, <1>19, <1>20, <1>21, <1>22, <1>23 DEF Next, Step, Environment

\* Before a refresh fails, a sign-in is only started where there are no tokens.
LEMMA NextRefreshed ==
    ASSUME OneTask, IInv, IInv', Alone, [Next]_vars
    PROVE  TokensOrRequest'
<1> USE AloneFacts, EventsFall DEF Alone, OneTask, slackVars, TokensOrRequest, AskingSteps, RowlessIsBlank, RowReadIsCurrent, NoRequestAtRun, EventKinds
<1>1. ASSUME NEW p \in Tasks, Authenticate(p) PROVE TokensOrRequest'
  BY <1>1 DEF Authenticate, Goto
<1>2. ASSUME NEW p \in Tasks, Refresh(p) PROVE TokensOrRequest'
  BY <1>2 DEF Refresh, Goto
<1>3. ASSUME NEW p \in Tasks, UpdateRead(p) PROVE TokensOrRequest'
  BY <1>3 DEF UpdateRead, Goto, Read, MayUpdateTokens
<1>4. ASSUME NEW p \in Tasks, UpdateWrite(p) PROVE TokensOrRequest'
  BY <1>4 DEF UpdateWrite, Goto, Refreshed, UserAuth
<1>5. ASSUME NEW p \in Tasks, Serve(p) PROVE TokensOrRequest'
  BY <1>5 DEF Serve, End, Begin
<1>6. ASSUME NEW p \in Tasks, Post(p) PROVE TokensOrRequest'
  BY <1>6 DEF Post, NewLink
<1>7. ASSUME NEW p \in Tasks, UpsertRead(p) PROVE TokensOrRequest'
  BY <1>7 DEF UpsertRead, Read, Superseded
<1>8. ASSUME NEW p \in Tasks, UpsertWrite(p) PROVE TokensOrRequest'
  BY <1>8 DEF UpsertWrite, Goto, End, Begin, FlowEnds, Requested, UserAuth
<1>9. ASSUME NEW p \in Tasks, DeleteOld(p) PROVE TokensOrRequest'
  BY <1>9 DEF DeleteOld, End, Begin, FlowEnds
<1>10. ASSUME NEW p \in Tasks, Callback(p) PROVE TokensOrRequest'
  BY <1>10 DEF Callback, Goto, End, Begin
<1>11. ASSUME NEW p \in Tasks, Exchange(p) PROVE TokensOrRequest'
  BY <1>11 DEF Exchange, Goto, End, Begin
<1>12. ASSUME NEW p \in Tasks, CompleteRead(p) PROVE TokensOrRequest'
  BY <1>12 DEF CompleteRead, Read, End, Begin
<1>13. ASSUME NEW p \in Tasks, CompleteWrite(p) PROVE TokensOrRequest'
  BY <1>13 DEF CompleteWrite, Goto, End, Begin, SignedIn, UserAuth
<1>14. ASSUME NEW p \in Tasks, CompleteDelete(p) PROVE TokensOrRequest'
  BY <1>14 DEF CompleteDelete, End, Begin, Resume
<1>15. ASSUME NEW p \in Tasks, Abort(p) PROVE TokensOrRequest'
  BY <1>15 DEF Abort, End, Begin
<1>16. ASSUME NEW p \in Tasks, ServeDenied(p) PROVE TokensOrRequest'
  BY <1>16 DEF ServeDenied, Read, End, Begin
<1>17. ASSUME NEW p \in Tasks, NEW o \in Operations, Ask(p, o) PROVE TokensOrRequest'
  BY <1>17 DEF Ask, Begin
<1>18. ASSUME NEW p \in Tasks, NEW l \in Links, Click(p, l) PROVE TokensOrRequest'
  BY <1>18 DEF Click, Begin
<1>19. ASSUME TokenExpires PROVE TokensOrRequest'
  BY <1>19 DEF TokenExpires, locals, UserAuth
<1>20. ASSUME NEW l \in Links, LinkExpires(l) PROVE TokensOrRequest'
  BY <1>20 DEF LinkExpires, locals
<1>21. ASSUME AdminRead \/ AdminDelete PROVE TokensOrRequest'
  BY <1>21 DEF AdminRead, AdminDelete, Deleted, locals
<1>23. ASSUME NEW p \in Tasks, DeleteWrite(p) PROVE TokensOrRequest'
  BY <1>23 DEF DeleteWrite, Deleted, Goto
<1>22. CASE UNCHANGED vars
  BY <1>22 DEF vars, locals
<1> QED
  BY <1>1, <1>2, <1>3, <1>4, <1>5, <1>6, <1>7, <1>8, <1>9, <1>10, <1>11, <1>12, <1>13, <1>14, <1>15, <1>16, <1>17, <1>18, <1>19, <1>20, <1>21, <1>22, <1>23 DEF Next, Step, Environment

\* Nobody but the one task writes tokens, and a removal is an event.
LEMMA NextCallback ==
    ASSUME OneTask, IInv, IInv', Alone, [Next]_vars
    PROVE  NoTokensAtCallback' /\ RemovalIsEvent'
<1> USE AloneFacts, EventsFall DEF Alone, OneTask, slackVars, NoTokensAtCallback, RemovalIsEvent, Accepted, EventKinds
<1>1. ASSUME NEW p \in Tasks, Authenticate(p) PROVE NoTokensAtCallback' /\ RemovalIsEvent'
  BY <1>1 DEF Authenticate, Goto
<1>2. ASSUME NEW p \in Tasks, Refresh(p) PROVE NoTokensAtCallback' /\ RemovalIsEvent'
  BY <1>2 DEF Refresh, Goto
<1>3. ASSUME NEW p \in Tasks, UpdateRead(p) PROVE NoTokensAtCallback' /\ RemovalIsEvent'
  BY <1>3 DEF UpdateRead, Goto, Read, MayUpdateTokens
<1>4. ASSUME NEW p \in Tasks, UpdateWrite(p) PROVE NoTokensAtCallback' /\ RemovalIsEvent'
  BY <1>4 DEF UpdateWrite, Goto, Refreshed, UserAuth
<1>5. ASSUME NEW p \in Tasks, Serve(p) PROVE NoTokensAtCallback' /\ RemovalIsEvent'
  BY <1>5 DEF Serve, End, Begin
<1>6. ASSUME NEW p \in Tasks, Post(p) PROVE NoTokensAtCallback' /\ RemovalIsEvent'
  BY <1>6 DEF Post, NewLink
<1>7. ASSUME NEW p \in Tasks, UpsertRead(p) PROVE NoTokensAtCallback' /\ RemovalIsEvent'
  BY <1>7 DEF UpsertRead, Read, Superseded
<1>8. ASSUME NEW p \in Tasks, UpsertWrite(p) PROVE NoTokensAtCallback' /\ RemovalIsEvent'
  BY <1>8 DEF UpsertWrite, Goto, End, Begin, FlowEnds, Requested, UserAuth
<1>9. ASSUME NEW p \in Tasks, DeleteOld(p) PROVE NoTokensAtCallback' /\ RemovalIsEvent'
  BY <1>9 DEF DeleteOld, End, Begin, FlowEnds
<1>10. ASSUME NEW p \in Tasks, Callback(p) PROVE NoTokensAtCallback' /\ RemovalIsEvent'
  BY <1>10 DEF Callback, Goto, End, Begin
<1>11. ASSUME NEW p \in Tasks, Exchange(p) PROVE NoTokensAtCallback' /\ RemovalIsEvent'
  BY <1>11 DEF Exchange, Goto, End, Begin
<1>12. ASSUME NEW p \in Tasks, CompleteRead(p) PROVE NoTokensAtCallback' /\ RemovalIsEvent'
  BY <1>12 DEF CompleteRead, Read, End, Begin
<1>13. ASSUME NEW p \in Tasks, CompleteWrite(p) PROVE NoTokensAtCallback' /\ RemovalIsEvent'
  BY <1>13 DEF CompleteWrite, Goto, End, Begin, SignedIn, UserAuth
<1>14. ASSUME NEW p \in Tasks, CompleteDelete(p) PROVE NoTokensAtCallback' /\ RemovalIsEvent'
  BY <1>14 DEF CompleteDelete, End, Begin, Resume
<1>15. ASSUME NEW p \in Tasks, Abort(p) PROVE NoTokensAtCallback' /\ RemovalIsEvent'
  BY <1>15 DEF Abort, End, Begin
<1>16. ASSUME NEW p \in Tasks, ServeDenied(p) PROVE NoTokensAtCallback' /\ RemovalIsEvent'
  BY <1>16 DEF ServeDenied, Read, End, Begin
<1>17. ASSUME NEW p \in Tasks, NEW o \in Operations, Ask(p, o) PROVE NoTokensAtCallback' /\ RemovalIsEvent'
  BY <1>17 DEF Ask, Begin
<1>18. ASSUME NEW p \in Tasks, NEW l \in Links, Click(p, l) PROVE NoTokensAtCallback' /\ RemovalIsEvent'
  BY <1>18 DEF Click, Begin
<1>19. ASSUME TokenExpires PROVE NoTokensAtCallback' /\ RemovalIsEvent'
  BY <1>19 DEF TokenExpires, locals, UserAuth
<1>20. ASSUME NEW l \in Links, LinkExpires(l) PROVE NoTokensAtCallback' /\ RemovalIsEvent'
  BY <1>20 DEF LinkExpires, locals
<1>21. ASSUME AdminRead \/ AdminDelete PROVE NoTokensAtCallback' /\ RemovalIsEvent'
  BY <1>21 DEF AdminRead, AdminDelete, Deleted, locals
<1>23. ASSUME NEW p \in Tasks, DeleteWrite(p) PROVE NoTokensAtCallback' /\ RemovalIsEvent'
  BY <1>23 DEF DeleteWrite, Deleted, Goto
<1>22. CASE UNCHANGED vars
  BY <1>22 DEF vars, locals
<1> QED
  BY <1>1, <1>2, <1>3, <1>4, <1>5, <1>6, <1>7, <1>8, <1>9, <1>10, <1>11, <1>12, <1>13, <1>14, <1>15, <1>16, <1>17, <1>18, <1>19, <1>20, <1>21, <1>22, <1>23 DEF Next, Step, Environment

\* A link message passes from the task that posts it to the row, and from the row
\* to the task that deletes it.
LEMMA NextPlaces ==
    ASSUME OneTask, IInv, IInv', Alone, [Next]_vars
    PROVE  EveryLinkHasAPlace'
<1> USE AloneFacts, EventsFall DEF Alone, OneTask, slackVars, EveryLinkHasAPlace, Undisturbed, Sending, Deleting, NoRequestAtRun, RowReadIsCurrent,
       RowlessIsBlank, RemovalIsEvent, EventKinds
<1>1. ASSUME NEW p \in Tasks, Authenticate(p) PROVE EveryLinkHasAPlace'
  BY <1>1 DEF Authenticate, Goto
<1>2. ASSUME NEW p \in Tasks, Refresh(p) PROVE EveryLinkHasAPlace'
  BY <1>2 DEF Refresh, Goto
<1>3. ASSUME NEW p \in Tasks, UpdateRead(p) PROVE EveryLinkHasAPlace'
  BY <1>3 DEF UpdateRead, Goto, Read, MayUpdateTokens
<1>4. ASSUME NEW p \in Tasks, UpdateWrite(p) PROVE EveryLinkHasAPlace'
  BY <1>4 DEF UpdateWrite, Goto, Refreshed, UserAuth
<1>5. ASSUME NEW p \in Tasks, Serve(p) PROVE EveryLinkHasAPlace'
  BY <1>5 DEF Serve, End, Begin
<1>6. ASSUME NEW p \in Tasks, Post(p) PROVE EveryLinkHasAPlace'
  BY <1>6 DEF Post, NewLink
<1>7. ASSUME NEW p \in Tasks, UpsertRead(p) PROVE EveryLinkHasAPlace'
  BY <1>7 DEF UpsertRead, Read, Superseded
<1>8. ASSUME NEW p \in Tasks, UpsertWrite(p) PROVE EveryLinkHasAPlace'
  BY <1>8 DEF UpsertWrite, Goto, End, Begin, FlowEnds, Requested, UserAuth
<1>9. ASSUME NEW p \in Tasks, DeleteOld(p) PROVE EveryLinkHasAPlace'
  BY <1>9 DEF DeleteOld, End, Begin, FlowEnds
<1>10. ASSUME NEW p \in Tasks, Callback(p) PROVE EveryLinkHasAPlace'
  BY <1>10 DEF Callback, Goto, End, Begin
<1>11. ASSUME NEW p \in Tasks, Exchange(p) PROVE EveryLinkHasAPlace'
  BY <1>11 DEF Exchange, Goto, End, Begin
<1>12. ASSUME NEW p \in Tasks, CompleteRead(p) PROVE EveryLinkHasAPlace'
  BY <1>12 DEF CompleteRead, Read, End, Begin
<1>13. ASSUME NEW p \in Tasks, CompleteWrite(p) PROVE EveryLinkHasAPlace'
  BY <1>13 DEF CompleteWrite, Goto, End, Begin, SignedIn, UserAuth
<1>14. ASSUME NEW p \in Tasks, CompleteDelete(p) PROVE EveryLinkHasAPlace'
  BY <1>14 DEF CompleteDelete, End, Begin, Resume
<1>15. ASSUME NEW p \in Tasks, Abort(p) PROVE EveryLinkHasAPlace'
  BY <1>15 DEF Abort, End, Begin
<1>16. ASSUME NEW p \in Tasks, ServeDenied(p) PROVE EveryLinkHasAPlace'
  BY <1>16 DEF ServeDenied, Read, End, Begin
<1>17. ASSUME NEW p \in Tasks, NEW o \in Operations, Ask(p, o) PROVE EveryLinkHasAPlace'
  BY <1>17 DEF Ask, Begin
<1>18. ASSUME NEW p \in Tasks, NEW l \in Links, Click(p, l) PROVE EveryLinkHasAPlace'
  BY <1>18 DEF Click, Begin
<1>19. ASSUME TokenExpires PROVE EveryLinkHasAPlace'
  BY <1>19 DEF TokenExpires, locals, UserAuth
<1>20. ASSUME NEW l \in Links, LinkExpires(l) PROVE EveryLinkHasAPlace'
  BY <1>20 DEF LinkExpires, locals
<1>21. ASSUME AdminRead \/ AdminDelete PROVE EveryLinkHasAPlace'
  BY <1>21 DEF AdminRead, AdminDelete, Deleted, locals
<1>23. ASSUME NEW p \in Tasks, DeleteWrite(p) PROVE EveryLinkHasAPlace'
  BY <1>23 DEF DeleteWrite, Deleted, Goto
<1>22. CASE UNCHANGED vars
  BY <1>22 DEF vars, locals
<1> QED
  BY <1>1, <1>2, <1>3, <1>4, <1>5, <1>6, <1>7, <1>8, <1>9, <1>10, <1>11, <1>12, <1>13, <1>14, <1>15, <1>16, <1>17, <1>18, <1>19, <1>20, <1>21, <1>22, <1>23 DEF Next, Step, Environment

LEMMA InitAlone == Init => Alone
<1> SUFFICES ASSUME Init PROVE Alone
  OBVIOUS
<1>1. EventsSpent
  BY SignInAssumption DEF Init, EventsSpent
<1> QED
  BY <1>1 DEF Init, Alone, RowlessIsBlank, InvalidWhileRenewed, NoRequestAtRun, RowReadIsCurrent, TokensOrRequest,
     NoTokensAtCallback, RemovalIsEvent, Accepted, EveryLinkHasAPlace, ValidTokenHasNoRequest, AskingSteps, RenewingSteps, NoRow, UserAuth, NULL

LEMMA NextAlone ==
    ASSUME OneTask
    PROVE  IInv /\ IInv' /\ Alone /\ [Next]_vars => Alone'
  BY NextBlank, NextValid, NextRefreshed, NextCallback, NextPlaces, EventsFall DEF Alone

LEMMA AlwaysAlone ==
    ASSUME OneTask
    PROVE  Spec => [](IInv /\ Alone)
<1>1. IInv /\ IInv' /\ Alone /\ [Next]_vars => Alone'
  BY NextAlone
<1> QED
  BY <1>1, InitAlone, Invariance, PTL DEF Spec

\* One question at a time never has a sign-in request beside a valid token,
\* whatever expires, fails, dies or is removed.
THEOREM ValidTokenStandsAlone ==
    ASSUME OneTask
    PROVE  Spec => []ValidTokenHasNoRequest
<1>1. IInv /\ Alone => ValidTokenHasNoRequest
  BY DEF Alone
<1> QED
  BY <1>1, AlwaysAlone, PTL

\* One question at a time leaves a single link message in Slack, the one on
\* record, unless a task died or the administrator removed the row before:
\* nothing else loses a message, neither a refused token nor an expired link.
THEOREM OneLinkAtRest ==
    ASSUME OneTask
    PROVE  Spec => [](Undisturbed => SingleLink)
<1>1. IInv /\ Alone => (Undisturbed => SingleLink)
  BY DEF Alone, EveryLinkHasAPlace, SingleLink, Sending, Deleting
<1> QED
  BY <1>1, AlwaysAlone, PTL

\* The assertion of update_tokens holds until a refresh fails: the failed
\* refresh, which leaves old tokens beside a new request, is the only way into
\* the lock-out.
THEOREM LockoutNeedsFailedRefresh ==
    ASSUME OneTask
    PROVE  Spec => [](NotYet("refresh_failure") => UpdateTokensAssertion)
<1>1. IInv /\ Alone => (NotYet("refresh_failure") => UpdateTokensAssertion)
  BY DEF Alone, TokensOrRequest, UpdateTokensAssertion, MayUpdateTokens, IInv, Ties, PendingPaired
<1> QED
  BY <1>1, AlwaysAlone, PTL

\* With one question at a time there is no way out of the lock-out but the removal
\* of the row: neither another link, nor a callback, nor a token renewed changes it.
THEOREM LockoutStays ==
    ASSUME OneTask
    PROVE  Spec => LockoutLasts
<1>1. ASSUME IInv, Alone, Next, LockedOut PROVE LockedOut' \/ auth' = NoRow
  <2> USE <1>1 DEF LockedOut
  <2>1. ASSUME NEW p \in Tasks, UpdateWrite(p) PROVE FALSE
    BY <2>1 DEF UpdateWrite, Alone, NoRequestAtRun
  <2>2. ASSUME NEW p \in Tasks, DeleteWrite(p) PROVE FALSE
    BY <2>2 DEF DeleteWrite, Alone, NoRequestAtRun
  <2>3. ASSUME NEW p \in Tasks, CompleteWrite(p) PROVE FALSE
    BY <2>3 DEF CompleteWrite, Alone, NoTokensAtCallback, Accepted
  <2>4. ASSUME NEW p \in Tasks, UpsertWrite(p) PROVE LockedOut'
    <3>1. link[p] # NULL
      BY <2>4, AloneFacts DEF UpsertWrite, IInv, Ties, SentLinkFresh, Sending
    <3> QED
      BY <2>4, <3>1 DEF UpsertWrite, Requested, UserAuth
  <2>5. ASSUME AdminDelete PROVE auth' = auth \/ auth' = NoRow
    BY <2>5 DEF AdminDelete, Deleted
  <2>6. ~TokenExpires
    BY DEF TokenExpires
  <2> QED
    BY <2>1, <2>2, <2>3, <2>4, <2>5, <2>6 DEF Next, Step, Environment, Authenticate, Refresh, UpdateRead, Serve, Post,
       UpsertRead, DeleteOld, Callback, Exchange, CompleteRead, CompleteDelete, AdminRead, LinkExpires, Abort,
       ServeDenied, Ask, Click
<1>2. ASSUME IInv, Alone, UNCHANGED vars PROVE LockedOut => LockedOut'
  BY <1>2 DEF vars, LockedOut
<1>3. IInv /\ Alone /\ [Next]_vars => [LockedOut => LockedOut' \/ auth' = NoRow]_vars
  BY <1>1, <1>2
<1> QED
  BY <1>3, AlwaysAlone, PTL DEF Spec, LockoutLasts

=============================================================================
