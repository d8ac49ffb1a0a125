------------------------------ MODULE SlackCalls ------------------------------
(***************************************************************************)
(* Who calls Slack, and what Slack makes of it: slack/_client.py over the  *)
(* service cooldown.  Workers and threads of the web process post messages *)
(* (post_message with its retries), refresh the list of channels and leave *)
(* channels (chat_bot/channels.py), all at once.                           *)
(*                                                                         *)
(* Slack may limit the rate of posts at any time, refuse a call, or accept *)
(* a message and be too slow to say so, or unable to.                      *)
(***************************************************************************)
EXTENDS ServiceCooldown, Channels, FiniteSets

CONSTANTS
    Messages,       \* messages to be posted
    Conversation,   \* where each of them goes
    Ims,            \* conversations that are direct messages
    MaxEvents       \* bound: how often each event of EventKinds happens; accidents
                    \* are calls without an answer, errors, and changes of membership

EventKinds == {"refresh", "leave", "accident"}
Nobody == "none"

ASSUME SlackCallsAssumption ==
    /\ Threads = Callers
    /\ IsFiniteSet(Callers) /\ Callers # {}
    /\ Nobody \notin Messages \union Conversations
    /\ Ims \subseteq Conversations
    /\ Conversation \in [Messages -> Conversations]
    /\ MaxEvents \in [EventKinds -> Nat]

VARIABLES
    member,     \* channels the bot is in
    copies,     \* how often each message is in Slack
    unanswered, \* history: how often a call that posts it had no answer
    outcome,    \* what post_message told its caller
    lost,       \* history: calls that ended because another inserted the row
    pc,         \* the step each caller is at
    msg,        \* the message it posts
    todo,       \* the channels a refresh has still to visit
    conv,       \* the channel it visits, or leaves
    calm,       \* history: refreshes, and leaving, that were alone so far
    settled,    \* history: conversations last written by one that was alone
    events      \* what is left of MaxEvents

posts == <<copies, unanswered, outcome, lost, msg>>
refreshes == <<channelVars, todo, conv, calm, settled>>
vars == <<cooldownVars, posts, refreshes, member, pc, events>>

Steps == {"idle", "asleep", "again", "record",
          "visit", "list_read", "list", "unlist_read", "unlist", "leave", "forget"}
ListSteps == {"visit", "list_read", "list", "unlist_read", "unlist", "leave", "forget"}

Init ==
    /\ CooldownInit
    /\ ChannelsInit
    /\ member \in SUBSET (Conversations \ Ims)
    /\ copies = [m \in Messages |-> 0]
    /\ unanswered = [m \in Messages |-> 0]
    /\ outcome = [m \in Messages |-> "none"]
    /\ lost = 0
    /\ pc = [p \in Callers |-> "idle"]
    /\ msg = [p \in Callers |-> Nobody]
    /\ todo = [p \in Callers |-> {}]
    /\ conv = [p \in Callers |-> Nobody]
    /\ calm = {}
    /\ settled = {}
    /\ events = MaxEvents

Goto(p, step) == pc' = [pc EXCEPT ![p] = step]

Happens(k) ==
    /\ events[k] > 0
    /\ events' = [events EXCEPT ![k] = @ - 1]

-----------------------------------------------------------------------------
(* post_message *)

Post(p, m) ==
    /\ pc[p] = "idle"
    /\ outcome[m] = "none" /\ \A q \in Callers : msg[q] # m
    /\ EnterCall(p)
    /\ Goto(p, "asleep")
    /\ msg' = [msg EXCEPT ![p] = m]
    /\ UNCHANGED <<copies, unanswered, outcome, lost, refreshes, member, events>>

\* chat_postMessage is called, by backoff for the first or the second time.
Calls(p) == (pc[p] = "asleep" /\ Awake(p)) \/ pc[p] = "again"

\* The bot can write there.
Open(c) == c \in Ims \union member

\* post_message is over.
PostEnds(p, result) ==
    /\ outcome' = [outcome EXCEPT ![msg[p]] = result]
    /\ msg' = [msg EXCEPT ![p] = Nobody]
    /\ Goto(p, "idle")
    /\ LeaveCall(p)

\* Wrong: the result is dropped and the loop goes on.
ReturnsMut(p) ==
    /\ IF copies[msg[p]] > 0
         THEN PostEnds(p, "posted")
         ELSE Goto(p, "asleep") /\ UNCHANGED <<cooldownVars, outcome, msg>>

Returns(p) == PostEnds(p, "posted")

Accepted(p) ==
    /\ Calls(p)
    /\ Open(Conversation[msg[p]])
    /\ copies' = [copies EXCEPT ![msg[p]] = @ + 1]
    /\ Returns(p)
    /\ UNCHANGED <<unanswered, lost, refreshes, member, events>>

\* SlackApiError that is no rate limit: raised at once.
Refused(p) ==
    /\ Calls(p)
    /\ IF Open(Conversation[msg[p]]) THEN Happens("accident") ELSE UNCHANGED events
    /\ PostEnds(p, "raised")
    /\ UNCHANGED <<copies, unanswered, lost, refreshes, member>>

\* "ratelimited": passes through backoff to the cooldown.
RateLimited(p) ==
    /\ Calls(p)
    /\ IF MayTryAgain(p)
         THEN BackOff(p) /\ Goto(p, "record") /\ UNCHANGED <<outcome, msg>>
         ELSE PostEnds(p, "raised")
    /\ UNCHANGED <<copies, unanswered, lost, refreshes, member, events>>

\* Slack has the message or not, and nobody says which.
NoAnswer(p) ==
    /\ Calls(p)
    /\ Happens("accident")
    /\ \E n \in IF Open(Conversation[msg[p]]) THEN {0, 1} ELSE {0} :
         copies' = [copies EXCEPT ![msg[p]] = @ + n]
    /\ unanswered' = [unanswered EXCEPT ![msg[p]] = @ + 1]

\* TimeoutError: backoff tries a second time, the cooldown does not.
TimesOut(p) ==
    /\ NoAnswer(p)
    /\ IF pc[p] = "asleep"
         THEN Goto(p, "again") /\ UNCHANGED <<cooldownVars, outcome, msg>>
         ELSE PostEnds(p, "raised")
    /\ UNCHANGED <<lost, refreshes, member>>

\* The connection is lost.  slack_sdk may send the request again by itself
\* (how often is left open); what it raises in the end is neither a timeout nor a
\* rate limit, and passes through backoff and cooldown at once.
ConnectionLost(p) ==
    /\ NoAnswer(p)
    /\ \/ UNCHANGED <<cooldownVars, outcome, msg, pc>>
       \/ PostEnds(p, "raised")
    /\ UNCHANGED <<lost, refreshes, member>>

\* write() commits, or raises in place of the rate limit error.
RecordPause(p) ==
    /\ pc[p] = "record"
    /\ \/ Record(p) /\ Goto(p, "asleep") /\ UNCHANGED <<outcome, msg, lost>>
       \/ Beaten(p) /\ PostEnds(p, "raised") /\ lost' = lost + 1
    /\ UNCHANGED <<copies, unanswered, refreshes, member, events>>

-----------------------------------------------------------------------------
(* update_channels and leave_channel *)

Busy == {p \in Callers : pc[p] \in ListSteps}

\* The job is over.
ListEnds(p) ==
    /\ Goto(p, "idle")
    /\ todo' = [todo EXCEPT ![p] = {}]
    /\ conv' = [conv EXCEPT ![p] = Nobody]
    /\ ForgetChannel(p)
    /\ calm' = calm \ {p}

\* It was alone when it began, or it was not, and neither were the others.
Begins(p) == calm' = IF Busy = {} THEN {p} ELSE {}

\* The background task of the admin interface: questions were asked in all the
\* conversations (get_slack_channel_ids).
StartRefresh(p) ==
    /\ pc[p] = "idle"
    /\ Happens("refresh")
    /\ Goto(p, "visit")
    /\ todo' = [todo EXCEPT ![p] = Conversations]
    /\ Begins(p)
    /\ UNCHANGED <<cooldownVars, posts, channelVars, conv, settled, member>>

MayListMut(c) == c \notin Ims       \* wrong: is_member is not looked at

\* What get_channel returned is a channel the bot is a member of.
MayList(c) == c \in member \ Ims

\* The loop of update_channels, and get_channel: conversations_info fails for
\* any reason, or says whether the bot is a member.
Visit(p) ==
    /\ pc[p] = "visit"
    /\ IF todo[p] = {}
         THEN ListEnds(p) /\ UNCHANGED events
         ELSE \E c \in todo[p] :
                /\ todo' = [todo EXCEPT ![p] = @ \ {c}]
                /\ conv' = [conv EXCEPT ![p] = c]
                /\ \/ MayList(c) /\ Goto(p, "list_read") /\ UNCHANGED <<calm, events>>
                   \/ ~MayList(c) /\ Goto(p, "unlist_read") /\ UNCHANGED <<calm, events>>
                   \/ Happens("accident") /\ Goto(p, "unlist_read") /\ calm' = calm \ {p}
                /\ UNCHANGED found
    /\ UNCHANGED <<cooldownVars, posts, channelsTable, settled, member>>

\* The SELECT of upsert() or delete_by_slack_channel_id().
ReadRow(p) ==
    /\ pc[p] \in {"list_read", "unlist_read"}
    /\ FindChannel(p, conv[p])
    /\ Goto(p, IF pc[p] = "list_read" THEN "list" ELSE "unlist")
    /\ UNCHANGED <<cooldownVars, posts, todo, conv, calm, settled, member, events>>

\* The conversation is in line with Slack if nobody interfered.
Settle(p) ==
    settled' = IF p \in calm THEN settled \union {conv[p]} ELSE settled \ {conv[p]}

\* IntegrityError and StaleDataError end the whole refresh.
List(p) ==
    /\ pc[p] = "list"
    /\ \/ /\ ~UpsertRaises(p, conv[p]) \/ Gone(p, conv[p])
          /\ Upsert(p, conv[p])
          /\ Goto(p, "visit")
          /\ UNCHANGED <<todo, conv, calm>>
       \/ UpsertRaises(p, conv[p]) /\ ListEnds(p) /\ UNCHANGED channelsTable
    /\ Settle(p)
    /\ UNCHANGED <<cooldownVars, posts, member, events>>

Unlist(p) ==
    /\ pc[p] = "unlist"
    /\ Delete(p, conv[p])
    /\ Goto(p, "visit")
    /\ Settle(p)
    /\ UNCHANGED <<cooldownVars, posts, todo, conv, calm, member, events>>

\* leave_channel_action on a channel of the list: find_by_id.
StartLeave(p, c) ==
    /\ pc[p] = "idle"
    /\ c \in Listed
    /\ Happens("leave")
    /\ FindChannel(p, c)
    /\ conv' = [conv EXCEPT ![p] = c]
    /\ Goto(p, "leave")
    /\ Begins(p)
    /\ UNCHANGED <<cooldownVars, posts, todo, settled, member>>

\* conversations_leave: a SlackApiError is caught, and the row stays.
Leave(p) ==
    /\ pc[p] = "leave"
    /\ \/ /\ member' = member \ {conv[p]}
          /\ settled' = settled \ {conv[p]}
          /\ Goto(p, "forget")
          /\ UNCHANGED <<found, todo, conv, calm, events>>
       \/ /\ Happens("accident")
          /\ ListEnds(p)
          /\ UNCHANGED <<member, settled>>
    /\ UNCHANGED <<cooldownVars, posts, channelsTable>>

\* delete_by_id.
ForgetLeft(p) ==
    /\ pc[p] = "forget"
    /\ Delete(p, conv[p])
    /\ Settle(p)
    /\ ListEnds(p)
    /\ UNCHANGED <<cooldownVars, posts, member, events>>

\* An exception nobody catches, or the death of the process.
Abandon(p) ==
    /\ p \in Busy
    /\ Happens("accident")
    /\ ListEnds(p)
    /\ UNCHANGED <<cooldownVars, posts, channelsTable, settled, member>>

-----------------------------------------------------------------------------
(* Slack, and time *)

\* Somebody invites the bot to a channel, or removes it.
Join(c) ==
    /\ c \notin member \union Ims
    /\ Happens("accident")
    /\ member' = member \union {c}
    /\ settled' = settled \ {c}
    /\ calm' = {}
    /\ UNCHANGED <<cooldownVars, posts, channelVars, todo, conv, pc>>

Kick(c) ==
    /\ c \in member
    /\ Happens("accident")
    /\ member' = member \ {c}
    /\ settled' = settled \ {c}
    /\ calm' = {}
    /\ UNCHANGED <<cooldownVars, posts, channelVars, todo, conv, pc>>

Time ==
    /\ PauseFromState > 0 \/ \E p \in Callers : asleep[p] > 0
    /\ Elapse
    /\ UNCHANGED <<posts, refreshes, member, pc, events>>

-----------------------------------------------------------------------------
Step(p) ==
    \/ Accepted(p) \/ Refused(p) \/ RateLimited(p)
    \/ TimesOut(p) \/ ConnectionLost(p) \/ RecordPause(p)
    \/ Visit(p) \/ ReadRow(p) \/ List(p) \/ Unlist(p) \/ Leave(p) \/ ForgetLeft(p)

Next ==
    \/ \E p \in Callers : Step(p) \/ StartRefresh(p) \/ Abandon(p)
    \/ \E p \in Callers, m \in Messages : Post(p, m)
    \/ \E p \in Callers, c \in Conversations : StartLeave(p, c)
    \/ \E c \in Conversations : Join(c) \/ Kick(c)
    \/ Time

Spec == Init /\ [][Next]_vars

-----------------------------------------------------------------------------
\* Callers hold messages, rows and pauses only at the steps that need them.
TypeOK ==
    /\ CooldownTypeOK
    /\ ChannelsTypeOK
    /\ member \subseteq Conversations \ Ims
    /\ copies \in [Messages -> Nat]
    /\ unanswered \in [Messages -> Nat]
    /\ outcome \in [Messages -> {"none", "posted", "raised"}]
    /\ lost \in Nat
    /\ pc \in [Callers -> Steps]
    /\ msg \in [Callers -> Messages \union {Nobody}]
    /\ todo \in [Callers -> SUBSET Conversations]
    /\ conv \in [Callers -> Conversations \union {Nobody}]
    /\ calm \subseteq Busy
    /\ settled \subseteq Conversations
    /\ events \in [EventKinds -> Nat]
    /\ \A p \in Callers : attempt[p] > 0 <=> msg[p] # Nobody

\* What post_message tells its caller is true: it returns the ts of a message
\* that is in Slack; and through rate limits, refusals and lost pauses a message
\* is there once if it returned and not at all if it raised, but for one copy
\* at most for each call that timed out or lost its connection.
OutcomeIsTold ==
    \A m \in Messages :
        LET returned == IF outcome[m] = "posted" THEN 1 ELSE 0 IN
        copies[m] \in returned..returned + unanswered[m]

\* The unlocked INSERT of the service's first row raises into callers that have
\* attempts left: only into those that were backing off at the same time, once in
\* the life of the database.
LostToFirstInsertOnly == lost < Cardinality(Callers)

\* update_channels and leave_channel bring the list in line with Slack ("Update
\* the channels ... considering if the bot is still a member"): a conversation
\* last written by one that no other, and nobody in Slack, interfered with is listed
\* exactly if it is a channel the bot is in.
SettledAgrees == \A c \in settled : c \in Listed <=> c \in member \ Ims

=============================================================================
