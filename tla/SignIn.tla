------------------------------- MODULE SignIn -------------------------------
(***************************************************************************)
(* The Confluence sign-in of one Slack user: top_assist/auth (provider.py, *)
(* sign_in_flow.py, _sign_in_context.py) over the user_auth table          *)
(* (database/user_auth.py) and the link messages kept in Slack.            *)
(*                                                                         *)
(* A task is a thread of control: a worker of the chat bot's process pool  *)
(* answering a question, or a thread of the web process serving the OAuth  *)
(* callback and then, as its background task, the resumed question.  Tasks *)
(* share the user's row, so every transaction of the database layer that   *)
(* reads before it writes is two steps here (Postgres, READ COMMITTED, no  *)
(* row locks).                                                             *)
(*                                                                         *)
(* A sign-in link stands for both the encrypted state in its URL and the   *)
(* Slack message that carries it: start_sign_in_flow makes one of each.    *)
(***************************************************************************)
EXTENDS Naturals, FiniteSets

CONSTANTS
    Tasks,              \* threads of control
    Operations,         \* operations that need the user's Confluence access
    NoOperation,
    MaxLinks,           \* bound: sign-in links ever sent
    OverlappingClicks,  \* may two callbacks of one link be in progress at once?
    MaxEvents           \* bound: how often each event of EventKinds happens

EventKinds == {"abort", "refresh_failure", "email_mismatch", "invalid_auth",
               "token_expiry", "link_expiry", "admin_delete"}

ASSUME SignInAssumption ==
    /\ NoOperation \notin Operations
    /\ MaxLinks \in Nat
    /\ OverlappingClicks \in BOOLEAN
    /\ MaxEvents \in [EventKinds -> Nat]

VARIABLES
    auth,       \* the user's row of user_auth
    rows,       \* rows ever inserted (the primary key sequence)
    removing,   \* the row the administrator's transaction has read, to delete it
    sent,       \* links ever sent: they are 1..sent
    linkOp,     \* the operation inside each link
    visible,    \* links whose message is in Slack
    expired,    \* links past their five minutes
    completed,  \* history: links whose sign-in was written to the row
    asked,      \* operations the user has started
    served,     \* how often each operation ran with the user's token
    pc,         \* the step each task is at
    op,         \* the operation it works on
    link,       \* the link it sends, or answers the callback of
    row,        \* the row its transaction has read
    old,        \* the message id its transaction has read
    events      \* what is left of MaxEvents

slackVars == <<sent, linkOp, visible>>
locals == <<pc, op, link, row, old>>
vars == <<auth, rows, removing, slackVars, expired, completed, asked, served, locals, events>>

Links == 1..MaxLinks
NULL == 0
Tokens == {"none", "valid", "expired"}

UserAuth(id, tokens, state, message) ==
    [row |-> id, tokens |-> tokens, state |-> state, auth_message_id |-> message]

\* No such row.
NoRow == UserAuth(NULL, "none", NULL, NULL)

Steps == {"idle", "authenticate", "refresh", "update_read", "update_write",
          "serve", "delete_write", "post", "upsert_read", "upsert_write", "delete_old",
          "callback", "late_callback", "exchange", "complete_read",
          "complete_write", "complete_delete"}

Init ==
    /\ auth = NoRow
    /\ rows = 0
    /\ removing = NULL
    /\ sent = 0
    /\ linkOp = [l \in Links |-> NoOperation]
    /\ visible = {}
    /\ expired = {}
    /\ completed = {}
    /\ asked = {}
    /\ served = [o \in Operations |-> 0]
    /\ pc = [p \in Tasks |-> "idle"]
    /\ op = [p \in Tasks |-> NoOperation]
    /\ link = [p \in Tasks |-> NULL]
    /\ row = [p \in Tasks |-> NULL]
    /\ old = [p \in Tasks |-> NULL]
    /\ events = MaxEvents

-----------------------------------------------------------------------------
Goto(p, step) == pc' = [pc EXCEPT ![p] = step] /\ UNCHANGED <<op, link, row, old>>

\* A SELECT of the user's row, and on to the next step.
Read(p, step, message) ==
    /\ pc' = [pc EXCEPT ![p] = step]
    /\ row' = [row EXCEPT ![p] = auth.row]
    /\ old' = [old EXCEPT ![p] = message]
    /\ UNCHANGED <<op, link>>

\* The task turns to a new operation, or to none.
Begin(p, step, o, l) ==
    /\ pc' = [pc EXCEPT ![p] = step]
    /\ op' = [op EXCEPT ![p] = o]
    /\ link' = [link EXCEPT ![p] = l]
    /\ row' = [row EXCEPT ![p] = NULL]
    /\ old' = [old EXCEPT ![p] = NULL]

End(p) == Begin(p, "idle", NoOperation, NULL)

\* Bound: an event that may call for another link needs room for it.
Room == sent < MaxLinks

Happens(k) ==
    /\ events[k] > 0
    /\ events' = [events EXCEPT ![k] = @ - 1]

-----------------------------------------------------------------------------
(* authorize_for *)

\* A new operation of the user reaches authorize_for.
Ask(p, o) ==
    /\ pc[p] = "idle"
    /\ o \in Operations \ asked
    /\ Room
    /\ asked' = asked \union {o}
    /\ Begin(p, "authenticate", o, NULL)
    /\ UNCHANGED <<auth, rows, removing, slackVars, expired, completed, served, events>>

Authenticate(p) ==
    /\ pc[p] = "authenticate"
    /\ \/ auth.tokens = "none" /\ Goto(p, "post")
       \/ auth.tokens = "expired" /\ Goto(p, "refresh")
       \/ auth.tokens = "valid" /\ Goto(p, "serve")
    /\ UNCHANGED <<auth, rows, removing, slackVars, expired, completed, asked, served, events>>

\* tokens_with_refresh_token: Atlassian answers with new tokens, or any
\* exception is caught and the user counts as signed out.
Refresh(p) ==
    /\ pc[p] = "refresh"
    /\ \/ Goto(p, "update_read") /\ UNCHANGED events
       \/ Goto(p, "post") /\ Happens("refresh_failure")
    /\ UNCHANGED <<auth, rows, removing, slackVars, expired, completed, asked, served>>

MayUpdateTokensMut == auth.row # NULL   \* wrong: a pending request will do

\* What update_tokens checks on the row it read.
MayUpdateTokens == auth.row # NULL /\ auth.state = NULL /\ auth.auth_message_id = NULL

\* update_tokens, its SELECT: UserAuthNotFoundError and AssertionError are
\* caught by __refresh_oauth_tokens, and the flow starts over.
UpdateRead(p) ==
    /\ pc[p] = "update_read"
    /\ IF MayUpdateTokens
         THEN Read(p, "update_write", NULL)
         ELSE Goto(p, "post")
    /\ UNCHANGED <<auth, rows, removing, slackVars, expired, completed, asked, served, events>>

Refreshed == UserAuth(auth.row, "valid", auth.state, auth.auth_message_id)

\* Its UPDATE; a row that is gone is StaleDataError, caught as well.
UpdateWrite(p) ==
    /\ pc[p] = "update_write"
    /\ IF auth.row = row[p]
         THEN auth' = Refreshed /\ Goto(p, "serve")
         ELSE UNCHANGED auth /\ Goto(p, "post")
    /\ UNCHANGED <<rows, removing, slackVars, expired, completed, asked, served, events>>

\* The body of "with authorize_for(...)".
Serve(p) ==
    /\ pc[p] = "serve"
    /\ served' = [served EXCEPT ![op[p]] = @ + 1]
    /\ End(p)
    /\ UNCHANGED <<auth, rows, removing, slackVars, expired, completed, asked, events>>

\* The body raises InvalidAuthError: the credentials are to go.  The SELECT of
\* delete_by_slack_id, which raises when there is no row.
ServeDenied(p) ==
    /\ pc[p] = "serve"
    /\ Happens("invalid_auth")
    /\ IF auth.row # NULL THEN Read(p, "delete_write", NULL) ELSE End(p)
    /\ UNCHANGED <<auth, rows, removing, slackVars, expired, completed, asked, served>>

\* A DELETE by primary key: it takes a row that was written to since it was read,
\* and leaves alone one inserted since.
Deleted(id) == IF auth.row = id THEN NoRow ELSE auth

\* Its DELETE, and the flow starts over.
DeleteWrite(p) ==
    /\ pc[p] = "delete_write"
    /\ auth' = Deleted(row[p])
    /\ Goto(p, "post")
    /\ UNCHANGED <<rows, removing, slackVars, expired, completed, asked, served, events>>

-----------------------------------------------------------------------------
(* start_sign_in_flow *)

NewLinkMut == sent      \* wrong: the id is taken before the message exists

NewLink == sent + 1

\* send_confluence_auth_link: the message is in Slack before the row knows it.
Post(p) ==
    /\ pc[p] = "post"
    /\ Room
    /\ sent' = NewLink
    /\ linkOp' = [linkOp EXCEPT ![NewLink] = op[p]]
    /\ visible' = visible \union {NewLink}
    /\ pc' = [pc EXCEPT ![p] = "upsert_read"]
    /\ link' = [link EXCEPT ![p] = NewLink]
    /\ UNCHANGED <<op, row, old>>
    /\ UNCHANGED <<auth, rows, removing, expired, completed, asked, served, events>>

SupersededMut(p) == link[p]    \* wrong: read after the assignment
SupersededLostMut(p) == NULL        \* wrong: the result drops the old id

\* The link whose message the caller of upsert_request is to delete.
Superseded(p) == auth.auth_message_id

\* upsert_request, its SELECT.
UpsertRead(p) ==
    /\ pc[p] = "upsert_read"
    /\ Read(p, "upsert_write", Superseded(p))
    /\ UNCHANGED <<auth, rows, removing, slackVars, expired, completed, asked, served, events>>

\* Wrong: an existing request keeps its state.
RequestedMut(id, l) ==
    UserAuth(id, auth.tokens, IF auth.state = NULL THEN l ELSE auth.state, l)

\* The row upsert_request means to leave behind.
Requested(id, l) == UserAuth(id, auth.tokens, l, l)

FlowEndsMut(p) == Goto(p, "serve")  \* wrong: authorize_for does not raise

\* start_sign_in_flow returns: authorize_for raises UnauthenticatedUserError,
\* the callback shows its page.
FlowEnds(p) == End(p)

\* Its INSERT or UPDATE.  slack_user_id is unique: an INSERT beaten by another
\* fails with IntegrityError; an UPDATE of a row that is gone, with
\* StaleDataError.  Either ends the task.
UpsertWrite(p) ==
    /\ pc[p] = "upsert_write"
    /\ IF auth.row = row[p]
         THEN /\ rows' = IF auth.row = NULL THEN rows + 1 ELSE rows
              /\ auth' = Requested(IF auth.row = NULL THEN rows + 1 ELSE auth.row, link[p])
              /\ IF old[p] = NULL THEN FlowEnds(p) ELSE Goto(p, "delete_old")
         ELSE End(p) /\ UNCHANGED <<auth, rows>>
    /\ UNCHANGED <<removing, slackVars, expired, completed, asked, served, events>>

\* delete_message of the superseded link.  Whether Slack deletes it or answers
\* message_not_found (an exception), the flow ends here.
DeleteOld(p) ==
    /\ pc[p] = "delete_old"
    /\ visible' = visible \ {old[p]}
    /\ IF old[p] \in visible THEN FlowEnds(p) ELSE End(p)
    /\ UNCHANGED <<auth, rows, removing, sent, linkOp, expired, completed, asked, served, events>>

-----------------------------------------------------------------------------
(* process_confluence_oauth_callback *)

CallbackSteps == {"callback", "late_callback", "exchange", "complete_read",
                  "complete_write", "complete_delete"}

\* The browser comes back from Confluence with a link's state: the state is
\* parsed, and dated, before anything else.  A page once opened stays open, so
\* the message need not be in Slack any more.
Click(p, l) ==
    /\ pc[p] = "idle"
    /\ l \in 1..sent
    /\ l \in expired => Room
    /\ OverlappingClicks \/ \A q \in Tasks : pc[q] \in CallbackSteps => link[q] # l
    /\ Begin(p, IF l \in expired THEN "late_callback" ELSE "callback", linkOp[l], l)
    /\ UNCHANGED <<auth, rows, removing, slackVars, expired, completed, asked, served, events>>

RequestMatchesMut(l) == auth.state # NULL   \* wrong: any pending request will do

\* The recorded request is this link's.
RequestMatches(l) == auth.row # NULL /\ auth.state = l

\* find_by_slack_id, then AlreadySignedIn, SignInLinkExpired (the web handler
\* starts the flow over), InvalidAuthStateError, or on with the code.
Callback(p) ==
    /\ pc[p] \in {"callback", "late_callback"}
    /\ IF auth.tokens # "none" THEN End(p)
       ELSE IF pc[p] = "late_callback" THEN Goto(p, "post")
       ELSE IF RequestMatches(link[p]) THEN Goto(p, "exchange")
       ELSE End(p)
    /\ UNCHANGED <<auth, rows, removing, slackVars, expired, completed, asked, served, events>>

\* tokens_from_oauth_code, then the two e-mail addresses are compared.
Exchange(p) ==
    /\ pc[p] = "exchange"
    /\ \/ Goto(p, "complete_read") /\ UNCHANGED events
       \/ End(p) /\ Happens("email_mismatch")
    /\ UNCHANGED <<auth, rows, removing, slackVars, expired, completed, asked, served>>

\* complete_request, its SELECT: no row is UserAuthNotFoundError, no pending
\* request AssertionError.
CompleteRead(p) ==
    /\ pc[p] = "complete_read"
    /\ IF auth.row # NULL /\ auth.state # NULL /\ auth.auth_message_id # NULL
         THEN Read(p, "complete_write", auth.auth_message_id)
         ELSE End(p)
    /\ UNCHANGED <<auth, rows, removing, slackVars, expired, completed, asked, served, events>>

\* Wrong: the message id stays behind.
SignedInMut == UserAuth(auth.row, "valid", NULL, auth.auth_message_id)

\* Wrong: the request stays behind.
SignedInPendingMut == UserAuth(auth.row, "valid", auth.state, auth.auth_message_id)

\* The row complete_request means to leave behind.
SignedIn == UserAuth(auth.row, "valid", NULL, NULL)

\* Its UPDATE.
CompleteWrite(p) ==
    /\ pc[p] = "complete_write"
    /\ IF auth.row = row[p]
         THEN /\ auth' = SignedIn
              /\ completed' = completed \union {link[p]}
              /\ Goto(p, "complete_delete")
         ELSE End(p) /\ UNCHANGED <<auth, completed>>
    /\ UNCHANGED <<rows, removing, slackVars, expired, asked, served, events>>

ResumeMut(p) == End(p)      \* wrong: the pending operation is dropped

\* SignInCompleted: its pending operation runs as a background task of the web
\* process.
Resume(p) == Begin(p, "authenticate", op[p], NULL)

\* delete_message of the link, then SignInCompleted.  message_not_found is an
\* exception: SignInCompleted is never returned.
CompleteDelete(p) ==
    /\ pc[p] = "complete_delete"
    /\ visible' = visible \ {old[p]}
    /\ IF old[p] \in visible
         THEN Resume(p)
         ELSE End(p)
    /\ UNCHANGED <<auth, rows, removing, sent, linkOp, expired, completed, asked, served, events>>

-----------------------------------------------------------------------------
(* What happens to the tasks *)

\* An exception nobody catches, or the death of the process.
Abort(p) ==
    /\ pc[p] # "idle"
    /\ Happens("abort")
    /\ End(p)
    /\ UNCHANGED <<auth, rows, removing, slackVars, expired, completed, asked, served>>

\* access_token_expires_at passes.
TokenExpires ==
    /\ auth.tokens = "valid"
    /\ Happens("token_expiry")
    /\ auth' = UserAuth(auth.row, "expired", auth.state, auth.auth_message_id)
    /\ UNCHANGED <<rows, removing, slackVars, expired, completed, asked, served, locals>>

\* The five minutes of a link pass.  Bound: not while the transaction that
\* records the link is under way.
LinkExpires(l) ==
    /\ l \in (1..sent) \ expired
    /\ Room
    /\ \A p \in Tasks : pc[p] \in {"upsert_read", "upsert_write"} => link[p] # l
    /\ Happens("link_expiry")
    /\ expired' = expired \union {l}
    /\ UNCHANGED <<auth, rows, removing, slackVars, completed, asked, served, locals>>

\* delete_credentials_action of the admin interface: the SELECT of delete_by_id.
\* It holds the event loop of the web process until the row is gone, so there is
\* one removal at a time; the one before may have ended between its statements.
AdminRead ==
    /\ auth.row # NULL
    /\ Happens("admin_delete")
    /\ removing' = auth.row
    /\ UNCHANGED <<auth, rows, slackVars, expired, completed, asked, served, locals>>

\* Its DELETE.
AdminDelete ==
    /\ removing # NULL
    /\ auth' = Deleted(removing)
    /\ removing' = NULL
    /\ UNCHANGED <<rows, slackVars, expired, completed, asked, served, locals, events>>

-----------------------------------------------------------------------------
Step(p) ==
    \/ Authenticate(p) \/ Refresh(p) \/ UpdateRead(p) \/ UpdateWrite(p)
    \/ Serve(p) \/ DeleteWrite(p)
    \/ Post(p) \/ UpsertRead(p) \/ UpsertWrite(p) \/ DeleteOld(p)
    \/ Callback(p) \/ Exchange(p)
    \/ CompleteRead(p) \/ CompleteWrite(p) \/ CompleteDelete(p)

Environment ==
    \/ TokenExpires
    \/ AdminRead \/ AdminDelete
    \/ \E l \in Links : LinkExpires(l)
    \/ \E p \in Tasks : Abort(p) \/ ServeDenied(p)

Next ==
    \/ \E p \in Tasks : Step(p)
    \/ \E p \in Tasks, o \in Operations : Ask(p, o)
    \/ \E p \in Tasks, l \in Links : Click(p, l)
    \/ Environment

Spec == Init /\ [][Next]_vars

\* A running task goes on, and the user keeps opening every link sent.
FairSpec ==
    /\ Spec
    /\ \A p \in Tasks : WF_vars(Step(p))
    /\ \A l \in Links : SF_vars(\E p \in Tasks : Click(p, l))

-----------------------------------------------------------------------------
\* Ids never run ahead of the sequences they come from: the row, the links and
\* what the tasks hold of them were inserted or sent before.
TypeOK ==
    /\ auth \in [row : 0..rows, tokens : Tokens, state : 0..sent, auth_message_id : 0..sent]
    /\ rows \in Nat
    /\ removing \in 0..rows
    /\ sent \in 0..MaxLinks
    /\ linkOp \in [Links -> Operations \union {NoOperation}]
    /\ visible \subseteq 1..sent
    /\ expired \subseteq 1..sent
    /\ completed \subseteq 1..sent
    /\ asked \subseteq Operations
    /\ served \in [Operations -> Nat]
    /\ pc \in [Tasks -> Steps]
    /\ op \in [Tasks -> Operations \union {NoOperation}]
    /\ link \in [Tasks -> 0..sent]
    /\ row \in [Tasks -> 0..rows]
    /\ old \in [Tasks -> 0..sent]
    /\ events \in [EventKinds -> Nat]

\* The message of the request on record is always there for the user to open:
\* no task, whatever it read and when, deletes the link that is current
\* (start_sign_in_flow and complete_request delete what an earlier read named).
RecordedLinkVisible ==
    auth.auth_message_id # NULL => auth.auth_message_id \in visible

\* state and auth_message_id are set and cleared together and always belong to
\* the same link, so the link whose message complete_request deletes is the one
\* whose state the callback compared, unless a newer one was recorded between.
PendingPaired == auth.state = auth.auth_message_id

\* A link that has signed the user in is never accepted by a later callback,
\* not even after the administrator removed the credentials and a new request
\* was recorded.
ConsumedLinkNeverReaccepted ==
    [][\A p \in Tasks : pc[p] = "callback" /\ pc'[p] = "exchange" => link[p] \notin completed]_vars

\* An operation runs once, or once for each of its links that signed the user
\* in: opening links again, renewing or superseding them never runs a question
\* of its own, as long as no two callbacks of the same link overlap.
ServedOncePerSignIn ==
    \A o \in Operations :
        served[o] > 1 => served[o] <= Cardinality({l \in completed : linkOp[l] = o})

\* When nothing is in progress Slack holds no link message but the recorded
\* one.  Source: user_auth.py:28, "It is used to delete the old message when the
\* user starts a new auth process."
SingleLink ==
    (\A p \in Tasks : pc[p] = "idle") => visible \subseteq {auth.auth_message_id}

\* A user whose token is valid has no sign-in request pending.
ValidTokenHasNoRequest == auth.tokens = "valid" => auth.state = NULL

\* The assertion of update_tokens (user_auth.py:93): a token is only ever
\* refreshed on a row without a pending request.
UpdateTokensAssertion ==
    \A p \in Tasks : pc[p] = "update_read" /\ auth.row # NULL => MayUpdateTokens

\* Old tokens beside a request: the user counts as signed in where links are opened
\* (AlreadySignedIn), and as signed out where questions are asked.
LockedOut == auth.tokens = "expired" /\ auth.state # NULL

\* What update_tokens asserts and authorize_for swallows (provider.py, user_auth.py:93)
\* has no way back: once locked out the user stays so, whatever links and tokens come,
\* until somebody removes the row.
LockoutLasts == [][LockedOut => LockedOut' \/ auth' = NoRow]_vars

\* A signed-out user with a request on record who keeps opening links gets a valid
\* token: through wrong accounts, links that expire or are superseded, and tokens
\* refused.  (Not so a user whose old tokens stayed on the row after a failed
\* refresh, see UpdateTokensAssertion.)
SignInEventually ==
    (auth.state # NULL /\ auth.tokens = "none") ~> (auth.tokens = "valid")

\* The only question a user asks is answered if the user keeps opening links,
\* none expires and no refresh fails: the sign-in, a wrong account on the way and
\* a token refused or renewed do not lose it.  (Two questions may, and so may a
\* link that expires: deleting its message is the last step before the question;
\* after a failed refresh see UpdateTokensAssertion.)
AskedIsServed ==
    \A o \in Operations :
        (o \in asked) ~> \/ served[o] > 0
                        \/ expired # {}
                        \/ asked # {o}
                        \/ events["refresh_failure"] < MaxEvents["refresh_failure"]

\* What the tasks hold, in the terms of Access.
OnWay == {link[p] : p \in {q \in Tasks : pc[q] \in {"upsert_read", "upsert_write"}}}
AcceptedFor ==
    [p \in Tasks |-> IF pc[p] \in {"exchange", "complete_read", "complete_write"} THEN link[p] ELSE NULL]
Cleared == {p \in Tasks : pc[p] = "serve"}

\* The promise of Access, in what the row, Slack and the tasks say.
Promise == INSTANCE Access WITH
    shown <- visible,
    onWay <- OnWay,
    request <- auth.state,
    accepted <- AcceptedFor,
    used <- completed,
    signedIn <- (auth.tokens # "none"),
    cleared <- Cleared

\* However the transactions of the tasks interleave, fail or are cut short, the
\* user has a sign-in whose steps are atomic: nothing runs without it, a link is
\* accepted only while it is the request on record, and no link that is on record
\* or about to be is taken down.
KeepsAccess == Promise!Spec

=============================================================================
