-------------------------- MODULE SlackCalls_proofs --------------------------
(***************************************************************************)
(* Proofs about SlackCalls, for any number of callers, messages and        *)
(* conversations, any pauses and factors, and any number of events.        *)
(***************************************************************************)
EXTENDS SlackCalls, FiniteSetTheorems, TLAPS

\* p is in post_message.
Posting(p) == pc[p] \in {"asleep", "again", "record"}

\* Whoever is in post_message has a message to itself, and has not been told of it.
PostsTie ==
    \A p \in Callers :
        /\ Posting(p) <=> msg[p] # Nobody
        /\ msg[p] # Nobody => outcome[msg[p]] = "none"
        /\ \A q \in Callers : msg[p] = msg[q] /\ msg[p] # Nobody => p = q

\* Whoever is between two steps on a channel has one.
HoldsChannel == \A p \in Callers : pc[p] \in ListSteps \ {"visit"} => conv[p] \in Conversations

Shape == TypeOK /\ PostsTie /\ HoldsChannel

-----------------------------------------------------------------------------
(* The service cooldown *)

LEMMA NextPauseType == \A n \in Nat : NextPause(n) \in Nat /\ NextPause(n) >= InitialPause
<1>1. SUFFICES ASSUME NEW n \in Nat PROVE NextPause(n) \in Nat /\ NextPause(n) >= InitialPause
  OBVIOUS
<1>2. PICK k \in Nat : k = n * ExpBase
  BY ServiceCooldownAssumption
<1>3. k \div 10 \in Nat
  OBVIOUS
<1> QED
  BY <1>2, <1>3, ServiceCooldownAssumption DEF NextPause, Longer

\* A pause that recovers is never negative.
LEMMA PauseLeft == \A c, a \in Nat : Minus(c, Recovery * a) \in Nat
<1>1. SUFFICES ASSUME NEW c \in Nat, NEW a \in Nat PROVE Minus(c, Recovery * a) \in Nat
  OBVIOUS
<1>2. PICK r \in Int : r = Recovery * a
  BY ServiceCooldownAssumption
<1> QED
  BY <1>2 DEF Minus

LEMMA PauseFromStateType ==
    ASSUME CooldownTypeOK
    PROVE  PauseFromState \in Nat
  BY PauseLeft DEF PauseFromState, CooldownTypeOK

\* What a step of the cooldown is.
CooldownStep(p) ==
    \/ EnterCall(p)
    \/ MayTryAgain(p) /\ BackOff(p)
    \/ Record(p)
    \/ LeaveCall(p)

LEMMA CooldownTypes ==
    ASSUME CooldownTypeOK,
           \/ \E p \in Callers : CooldownStep(p)
           \/ Elapse
           \/ UNCHANGED cooldownVars
    PROVE  CooldownTypeOK'
<1> USE ServiceCooldownAssumption
<1>1. ASSUME NEW p \in Callers, EnterCall(p) PROVE CooldownTypeOK'
  BY <1>1, PauseFromStateType DEF CooldownTypeOK, EnterCall, cooldownRow
<1>2. ASSUME NEW p \in Callers, MayTryAgain(p), BackOff(p) PROVE CooldownTypeOK'
  BY <1>2, NextPauseType DEF CooldownTypeOK, MayTryAgain, BackOff, cooldownRow, Selected
<1>3. ASSUME NEW p \in Callers, Record(p) PROVE CooldownTypeOK'
  BY <1>3 DEF CooldownTypeOK, Record
<1>4. ASSUME NEW p \in Callers, LeaveCall(p) PROVE CooldownTypeOK'
  BY <1>4 DEF CooldownTypeOK, LeaveCall, cooldownRow
<1>5. CASE Elapse
  BY <1>5 DEF CooldownTypeOK, Elapse, Minus
<1>6. CASE UNCHANGED cooldownVars
  BY <1>6 DEF CooldownTypeOK, cooldownVars, cooldownRow
<1> QED
  BY <1>1, <1>2, <1>3, <1>4, <1>5, <1>6 DEF CooldownStep

\* A sleeper whose pause is on record wakes no later than the row's pause ends.
LEMMA CooldownShares ==
    ASSUME CooldownTypeOK, PauseIsShared,
           \/ \E p \in Callers : CooldownStep(p)
           \/ Elapse
           \/ UNCHANGED cooldownVars
    PROVE  PauseIsShared'
<1> USE ServiceCooldownAssumption
<1>0. PauseFromState \in Nat /\ author \subseteq Callers
  BY PauseFromStateType DEF CooldownTypeOK
<1>1. ASSUME UNCHANGED cooldownRow PROVE PauseFromState' = PauseFromState /\ author' = author
  BY <1>1 DEF cooldownRow, PauseFromState
<1>2. ASSUME NEW p \in Callers, EnterCall(p) PROVE PauseIsShared'
  BY <1>0, <1>1, <1>2 DEF PauseIsShared, CooldownTypeOK, EnterCall
<1>3. ASSUME NEW p \in Callers, BackOff(p) PROVE PauseIsShared'
  BY <1>0, <1>1, <1>3 DEF PauseIsShared, CooldownTypeOK, BackOff
<1>4. ASSUME NEW p \in Callers, Record(p) PROVE PauseIsShared'
  <2>1. CASE loaded[p] = pause[p]
    <3>1. PauseFromState' = PauseFromState
      BY <1>4, <2>1 DEF Record, PauseFromState
    <3> QED
      BY <1>0, <1>4, <2>1, <3>1 DEF PauseIsShared, Record, CooldownTypeOK
  <2>2. CASE loaded[p] # pause[p]
    <3>1. author' = {p} /\ cooldown' = pause[p] /\ age' = 0 /\ asleep'[p] = pause[p]
      BY <1>4, <2>2 DEF Record, CooldownTypeOK
    <3>2. Recovery * 0 = 0 /\ pause[p] \in Nat
      BY DEF CooldownTypeOK
    <3>3. PauseFromState' = pause[p]
      BY <3>1, <3>2 DEF PauseFromState, Minus
    <3> QED
      BY <3>1, <3>2, <3>3 DEF PauseIsShared
  <2> QED
    BY <2>1, <2>2
<1>5. ASSUME NEW p \in Callers, LeaveCall(p) PROVE PauseIsShared'
  BY <1>0, <1>1, <1>5 DEF PauseIsShared, CooldownTypeOK, LeaveCall
<1>6. CASE Elapse
  <2>1. PauseFromState' >= Minus(PauseFromState, Second)
    <3>1. CASE PauseFromState > 0
      <4>1. age' = age + 1 /\ cooldown' = cooldown
        BY <1>6, <3>1 DEF Elapse
      <4>2. PICK r \in Nat : r = Recovery * age
        BY DEF CooldownTypeOK
      <4>3. Recovery * (age + 1) = r + Recovery
        BY <4>2 DEF CooldownTypeOK
      <4> QED
        BY <4>1, <4>2, <4>3 DEF PauseFromState, Minus, CooldownTypeOK
    <3>2. CASE ~(PauseFromState > 0)
      BY <1>0, <1>6, <3>2 DEF Elapse, PauseFromState, Minus
    <3> QED
      BY <3>1, <3>2
  <2>2. PauseFromState' \in Nat
    <3>1. cooldown' \in Nat /\ age' \in Nat
      BY <1>6 DEF Elapse, CooldownTypeOK
    <3> QED
      BY <3>1, PauseLeft DEF PauseFromState
  <2>3. ASSUME NEW p \in author PROVE Minus(PauseFromState, Second) >= asleep'[p]
    BY <1>0, <1>6, <2>3 DEF PauseIsShared, Elapse, Minus, CooldownTypeOK
  <2>4. author' = author /\ \A p \in author : asleep'[p] \in Nat
    BY <1>0, <1>6 DEF Elapse, Minus, CooldownTypeOK
  <2> QED
    BY <1>0, <2>1, <2>2, <2>3, <2>4 DEF PauseIsShared, Minus
<1>7. CASE UNCHANGED cooldownVars
  BY <1>1, <1>7 DEF PauseIsShared, cooldownVars
<1> QED
  BY <1>2, <1>3, <1>4, <1>5, <1>6, <1>7 DEF CooldownStep

\* Every step of SlackCalls is a step of the cooldown, or none.
LEMMA StepsOfCooldown ==
    ASSUME [Next]_vars
    PROVE  \/ \E p \in Callers : CooldownStep(p)
           \/ Elapse
           \/ UNCHANGED cooldownVars
<1>1. ASSUME NEW p \in Callers, Step(p) \/ StartRefresh(p) \/ Abandon(p)
      PROVE  CooldownStep(p) \/ UNCHANGED cooldownVars
  BY <1>1 DEF Step, StartRefresh, Abandon, CooldownStep, Accepted, Refused, RateLimited, TimesOut,
     ConnectionLost, NoAnswer,
      RecordPause, Visit, ReadRow, List, Unlist, Leave, ForgetLeft, Returns, PostEnds
<1>2. ASSUME NEW p \in Callers, NEW m \in Messages, Post(p, m) PROVE CooldownStep(p)
  BY <1>2 DEF Post, CooldownStep
<1>3. ASSUME NEW p \in Callers, NEW c \in Conversations, StartLeave(p, c)
      PROVE  UNCHANGED cooldownVars
  BY <1>3 DEF StartLeave
<1>4. ASSUME NEW c \in Conversations, Join(c) \/ Kick(c) PROVE UNCHANGED cooldownVars
  BY <1>4 DEF Join, Kick
<1>5. ASSUME Time PROVE Elapse
  BY <1>5 DEF Time
<1>6. ASSUME UNCHANGED vars PROVE UNCHANGED cooldownVars
  BY <1>6 DEF vars
<1> QED
  BY <1>1, <1>2, <1>3, <1>4, <1>5, <1>6 DEF Next

-----------------------------------------------------------------------------
(* Types, and what callers hold *)

\* The types of the variables of the two jobs on channels.
ListTypes ==
    /\ ChannelsTypeOK
    /\ member \subseteq Conversations \ Ims
    /\ todo \in [Callers -> SUBSET Conversations]
    /\ conv \in [Callers -> Conversations \union {Nobody}]
    /\ calm \subseteq Busy
    /\ settled \subseteq Conversations
    /\ HoldsChannel

\* Those of post_message.
PostTypes ==
    /\ copies \in [Messages -> Nat]
    /\ unanswered \in [Messages -> Nat]
    /\ outcome \in [Messages -> {"none", "posted", "raised"}]
    /\ lost \in Nat
    /\ msg \in [Callers -> Messages \union {Nobody}]
    /\ \A p \in Callers : attempt[p] > 0 <=> msg[p] # Nobody
    /\ PostsTie

CommonTypes ==
    /\ CooldownTypeOK
    /\ pc \in [Callers -> Steps]
    /\ events \in [EventKinds -> Nat]

LEMMA ShapeParts == Shape <=> CommonTypes /\ PostTypes /\ ListTypes
  BY DEF Shape, TypeOK, CommonTypes, PostTypes, ListTypes

\* The initial state.
LEMMA InitShape == Init => Shape
<1> SUFFICES ASSUME Init PROVE Shape
  OBVIOUS
<1>1. CooldownTypeOK
  BY ServiceCooldownAssumption DEF Init, CooldownInit, CooldownTypeOK
<1>2. ChannelsTypeOK
  BY DEF Init, ChannelsInit, ChannelsTypeOK, Listed
<1>3. PostsTie /\ HoldsChannel
  BY DEF Init, PostsTie, HoldsChannel, Posting, ListSteps
<1> QED
  BY <1>1, <1>2, <1>3, SlackCallsAssumption
  DEF Init, CooldownInit, Shape, TypeOK, Steps, Busy, ListSteps

\* A step of post_message leaves the jobs on channels alone, as its caller is none
\* of them before or after.
LEMMA PostKeepsLists ==
    ASSUME Shape, NEW p \in Callers,
           pc[p] \notin ListSteps,
           NEW step \in Steps \ ListSteps,
           Goto(p, step),
           UNCHANGED <<refreshes, member>>
    PROVE  ListTypes'
<1>1. Busy' = Busy
  BY DEF Shape, TypeOK, Goto, Busy
<1>2. ChannelsTypeOK'
  BY DEF Shape, TypeOK, ChannelsTypeOK, Listed, refreshes, channelVars, channelsTable
<1>3. HoldsChannel'
  BY DEF Shape, TypeOK, HoldsChannel, Goto, refreshes
<1> QED
  BY <1>1, <1>2, <1>3 DEF Shape, TypeOK, ListTypes, refreshes

\* A step of a job on channels leaves posts alone.
LEMMA ListKeepsPosts ==
    ASSUME Shape, NEW p \in Callers,
           ~Posting(p),
           NEW step \in Steps \ {"asleep", "again", "record"},
           Goto(p, step),
           UNCHANGED <<cooldownVars, posts>>
    PROVE  PostTypes'
  BY DEF Shape, TypeOK, PostTypes, PostsTie, Posting, Goto, cooldownVars, posts

LEMMA EventsType ==
    ASSUME Shape, NEW k \in EventKinds, Happens(k)
    PROVE  events' \in [EventKinds -> Nat]
  BY DEF Shape, TypeOK, Happens

\* post_message over: its message is told, and nobody's any more.
LEMMA PostEndsTypes ==
    ASSUME Shape, NEW p \in Callers, Posting(p),
           NEW result \in {"posted", "raised"}, PostEnds(p, result),
           copies' \in [Messages -> Nat], unanswered' \in [Messages -> Nat], lost' \in Nat
    PROVE  PostTypes'
<1>1. msg[p] \in Messages
  BY DEF Shape, TypeOK, PostsTie
<1>2. outcome' \in [Messages -> {"none", "posted", "raised"}]
  BY <1>1 DEF Shape, TypeOK, PostEnds
<1>3. /\ msg' \in [Callers -> Messages \union {Nobody}]
      /\ msg'[p] = Nobody
      /\ \A q \in Callers \ {p} : msg'[q] = msg[q] /\ attempt'[q] = attempt[q]
      /\ attempt'[p] = 0
  BY DEF Shape, TypeOK, CooldownTypeOK, PostEnds, LeaveCall
<1>4. \A q \in Callers : attempt'[q] > 0 <=> msg'[q] # Nobody
  BY <1>3 DEF Shape, TypeOK
<1>5. pc'[p] = "idle" /\ \A q \in Callers \ {p} : pc'[q] = pc[q]
  BY DEF Shape, TypeOK, PostEnds, Goto
<1>6. \A q \in Callers : msg'[q] # Nobody => outcome'[msg'[q]] = outcome[msg[q]]
  BY <1>1, <1>3 DEF Shape, TypeOK, PostsTie, PostEnds
<1>7. PostsTie'
  BY <1>3, <1>5, <1>6 DEF Shape, PostsTie, Posting
<1> QED
  BY <1>2, <1>3, <1>4, <1>7 DEF PostTypes

\* post_message going on.
LEMMA PostGoesOnTypes ==
    ASSUME Shape, NEW p \in Callers, Posting(p),
           NEW step \in {"asleep", "again", "record"}, Goto(p, step),
           attempt' \in [Callers -> Nat], attempt'[p] > 0,
           \A q \in Callers \ {p} : attempt'[q] = attempt[q],
           UNCHANGED <<outcome, msg>>,
           copies' \in [Messages -> Nat], unanswered' \in [Messages -> Nat], lost' \in Nat
    PROVE  PostTypes'
  BY DEF Shape, TypeOK, CooldownTypeOK, PostTypes, PostsTie, Posting, Goto

\* The steps of post_message.
LEMMA PostActionsShape ==
    ASSUME Shape, NEW p \in Callers,
           Accepted(p) \/ Refused(p) \/ RateLimited(p) \/ TimesOut(p) \/ ConnectionLost(p) \/ RecordPause(p)
    PROVE  /\ PostTypes' /\ ListTypes'
           /\ pc' \in [Callers -> Steps] /\ events' \in [EventKinds -> Nat]
<1> DEFINE Goal == /\ PostTypes' /\ ListTypes'
                   /\ pc' \in [Callers -> Steps] /\ events' \in [EventKinds -> Nat]
<1>1. /\ Posting(p) /\ pc[p] \notin ListSteps
      /\ msg[p] \in Messages
  BY DEF Shape, TypeOK, PostsTie, Posting, ListSteps, Accepted, Refused, RateLimited, TimesOut,
     ConnectionLost, NoAnswer,
     RecordPause, Calls
<1>2. UNCHANGED <<refreshes, member>>
  BY DEF Accepted, Refused, RateLimited, TimesOut, ConnectionLost, NoAnswer, RecordPause, refreshes
<1>3. /\ copies' \in [Messages -> Nat] /\ unanswered' \in [Messages -> Nat] /\ lost' \in Nat
  BY <1>1 DEF Shape, TypeOK, Accepted, Refused, RateLimited, TimesOut, ConnectionLost, NoAnswer, RecordPause
<1>4. events' \in [EventKinds -> Nat]
  BY EventsType DEF Shape, TypeOK, Accepted, Refused, RateLimited, TimesOut, ConnectionLost, NoAnswer,
     RecordPause, EventKinds
<1>5. ASSUME NEW result \in {"posted", "raised"}, PostEnds(p, result) PROVE Goal
  <2>1. Goto(p, "idle")
    BY <1>5 DEF PostEnds
  <2>2. "idle" \in Steps \ ListSteps
    BY DEF Steps, ListSteps
  <2> QED
    BY <1>1, <1>2, <1>3, <1>4, <1>5, <2>1, <2>2, PostEndsTypes, PostKeepsLists
    DEF Shape, TypeOK, Goto
<1>6. ASSUME NEW step \in {"asleep", "again", "record"}, Goto(p, step), UNCHANGED <<outcome, msg>>,
             UNCHANGED attempt \/ BackOff(p)
      PROVE  Goal
  <2>1. step \in Steps \ ListSteps
    BY DEF Steps, ListSteps
  <2>2. attempt[p] > 0
    BY <1>1, SlackCallsAssumption DEF Shape, TypeOK
  <2>3. /\ attempt' \in [Callers -> Nat] /\ attempt'[p] > 0
        /\ \A q \in Callers \ {p} : attempt'[q] = attempt[q]
    BY <1>6, <2>2, ServiceCooldownAssumption DEF Shape, TypeOK, CooldownTypeOK, BackOff
  <2> QED
    BY <1>1, <1>2, <1>3, <1>4, <1>6, <2>1, <2>3, PostGoesOnTypes, PostKeepsLists
    DEF Shape, TypeOK, Goto
<1>7. CASE Accepted(p)
  BY <1>5, <1>7 DEF Accepted, Returns
<1>8. CASE Refused(p)
  BY <1>5, <1>8 DEF Refused
<1>9. CASE RateLimited(p)
  BY <1>5, <1>6, <1>9 DEF RateLimited
<1>10. CASE TimesOut(p)
  BY <1>5, <1>6, <1>10 DEF TimesOut, cooldownVars
<1>12. CASE ConnectionLost(p)
  <2>1. CASE PostEnds(p, "raised")
    BY <1>5, <2>1
  <2>2. CASE UNCHANGED <<cooldownVars, outcome, msg, pc>>
    <3>1. pc[p] \in {"asleep", "again", "record"}
      BY <1>1 DEF Posting
    <3>2. Goto(p, pc[p])
      BY <2>2 DEF Shape, TypeOK, Goto
    <3> QED
      BY <1>6, <2>2, <3>1, <3>2 DEF cooldownVars
  <2> QED
    BY <1>12, <2>1, <2>2 DEF ConnectionLost
<1>11. CASE RecordPause(p)
  BY <1>5, <1>6, <1>11 DEF RecordPause, Record
<1> QED
  BY <1>7, <1>8, <1>9, <1>10, <1>11, <1>12

LEMMA PostShape ==
    ASSUME Shape, NEW p \in Callers, NEW m \in Messages, Post(p, m)
    PROVE  /\ PostTypes' /\ ListTypes'
           /\ pc' \in [Callers -> Steps] /\ events' \in [EventKinds -> Nat]
<1>1. "asleep" \in Steps \ ListSteps /\ pc[p] \notin ListSteps /\ ~Posting(p)
  BY DEF Steps, ListSteps, Post, Posting
<1>2. ListTypes'
  BY <1>1, PostKeepsLists DEF Post
<1>3. /\ msg' \in [Callers -> Messages \union {Nobody}]
      /\ msg'[p] = m
      /\ \A q \in Callers \ {p} : msg'[q] = msg[q] /\ attempt'[q] = attempt[q]
      /\ attempt'[p] > 0
  BY ServiceCooldownAssumption DEF Shape, TypeOK, CooldownTypeOK, Post, EnterCall
<1>4. \A q \in Callers : attempt'[q] > 0 <=> msg'[q] # Nobody
  BY <1>3, SlackCallsAssumption DEF Shape, TypeOK
<1>5. pc'[p] = "asleep" /\ \A q \in Callers \ {p} : pc'[q] = pc[q]
  BY DEF Shape, TypeOK, Post, Goto
<1>6. outcome' = outcome /\ outcome[m] = "none" /\ \A q \in Callers : msg[q] # m
  BY DEF Post
<1>7. PostsTie'
  BY <1>3, <1>5, <1>6, SlackCallsAssumption DEF Shape, PostsTie, Posting
<1> QED
  BY <1>1, <1>2, <1>3, <1>4, <1>7 DEF Shape, TypeOK, PostTypes, Post, Goto

\* Reading the table of channels, writing to it and forgetting what was read.
LEMMA ChannelsTypes ==
    ASSUME ChannelsTypeOK, NEW p \in Callers, NEW c \in Conversations,
           \/ FindChannel(p, c)
           \/ Upsert(p, c)
           \/ Delete(p, c)
           \/ ForgetChannel(p) /\ UNCHANGED channelsTable
           \/ UNCHANGED channelVars
    PROVE  ChannelsTypeOK'
<1> USE SlackCallsAssumption
<1>1. CASE FindChannel(p, c)
  BY <1>1 DEF ChannelsTypeOK, FindChannel, channelsTable, Listed
<1>2. CASE Upsert(p, c)
  <2>1. found' \in [Threads -> 0..channelRows]
    BY <1>2 DEF ChannelsTypeOK, Upsert, ForgetChannel
  <2>2. CASE UNCHANGED channelsTable
    BY <2>1, <2>2 DEF ChannelsTypeOK, channelsTable, Listed
  <2>3. CASE /\ channelRow[c] = 0
             /\ channelRow' = [channelRow EXCEPT ![c] = channelRows + 1]
             /\ channelRows' = channelRows + 1
    BY <2>1, <2>3 DEF ChannelsTypeOK, Listed
  <2> QED
    BY <1>2, <2>2, <2>3 DEF Upsert
<1>3. CASE Delete(p, c)
  BY <1>3 DEF ChannelsTypeOK, Delete, ForgetChannel, Listed
<1>4. CASE ForgetChannel(p) /\ UNCHANGED channelsTable
  BY <1>4 DEF ChannelsTypeOK, ForgetChannel, channelsTable, Listed
<1>5. CASE UNCHANGED channelVars
  BY <1>5 DEF ChannelsTypeOK, channelVars, channelsTable, Listed
<1> QED
  BY <1>1, <1>2, <1>3, <1>4, <1>5

\* The steps of a refresh, and of leaving a channel.
LEMMA ListActionsShape ==
    ASSUME Shape, NEW p \in Callers,
           \/ Visit(p) \/ ReadRow(p) \/ List(p) \/ Unlist(p) \/ Leave(p) \/ ForgetLeft(p)
           \/ StartRefresh(p) \/ Abandon(p) \/ \E c \in Conversations : StartLeave(p, c)
    PROVE  /\ PostTypes' /\ ListTypes'
           /\ pc' \in [Callers -> Steps] /\ events' \in [EventKinds -> Nat]
<1>1. ~Posting(p)
  BY DEF Posting, Visit, ReadRow, List, Unlist, Leave, ForgetLeft, StartRefresh, Abandon, StartLeave,
     Busy, ListSteps
<1>2. UNCHANGED <<cooldownVars, posts>>
  BY DEF Visit, ReadRow, List, Unlist, Leave, ForgetLeft, StartRefresh, Abandon, StartLeave
<1>3. PICK step \in {"idle"} \union ListSteps : Goto(p, step)
  BY DEF Visit, ReadRow, List, Unlist, Leave, ForgetLeft, StartRefresh, Abandon, StartLeave,
     ListEnds, ListSteps
<1>4. step \in Steps \ {"asleep", "again", "record"}
  BY DEF Steps, ListSteps
<1>5. PostTypes'
  BY <1>1, <1>2, <1>3, <1>4, ListKeepsPosts
<1>6. pc' \in [Callers -> Steps]
  BY <1>3, <1>4 DEF Shape, TypeOK, Goto
<1>7. events' \in [EventKinds -> Nat]
  BY EventsType DEF Shape, TypeOK, Visit, ReadRow, List, Unlist, Leave, ForgetLeft, StartRefresh,
     Abandon, StartLeave, ListEnds, EventKinds
<1>8. ChannelsTypeOK'
  <2>1. pc[p] \in ListSteps \ {"visit"} => conv[p] \in Conversations
    BY DEF Shape, HoldsChannel
  <2>2. ASSUME ForgetChannel(p), UNCHANGED channelsTable PROVE ChannelsTypeOK'
    <3>1. ChannelsTypeOK
      BY DEF Shape, TypeOK
    <3> QED
      BY <2>2, <3>1, SlackCallsAssumption DEF ChannelsTypeOK, ForgetChannel, channelsTable, Listed
  <2>3. ASSUME UNCHANGED channelVars PROVE ChannelsTypeOK'
    BY <2>3 DEF Shape, TypeOK, ChannelsTypeOK, channelVars, channelsTable, Listed
  <2>4. CASE StartRefresh(p) \/ Visit(p) \/ Leave(p) \/ Abandon(p)
    BY <2>2, <2>3, <2>4 DEF StartRefresh, Visit, Leave, Abandon, ListEnds, channelVars
  <2>5. CASE ReadRow(p) \/ List(p) \/ Unlist(p) \/ ForgetLeft(p)
    <3>1. conv[p] \in Conversations
      BY <2>1, <2>5 DEF ReadRow, List, Unlist, ForgetLeft, ListSteps
    <3>2. \/ FindChannel(p, conv[p]) \/ Upsert(p, conv[p]) \/ Delete(p, conv[p])
          \/ ForgetChannel(p) /\ UNCHANGED channelsTable
      BY <2>5 DEF ReadRow, List, Unlist, ForgetLeft, ListEnds
    <3> QED
      BY <3>1, <3>2, ChannelsTypes DEF Shape, TypeOK
  <2>6. CASE \E c \in Conversations : StartLeave(p, c)
    BY <2>6, ChannelsTypes DEF Shape, TypeOK, StartLeave
  <2> QED
    BY <2>4, <2>5, <2>6
<1>9. Busy' = IF step \in ListSteps THEN Busy \union {p} ELSE Busy \ {p}
  BY <1>3 DEF Shape, TypeOK, Goto, Busy
<1>10. calm' \subseteq Busy'
  <2>1. step \notin ListSteps => calm' \subseteq calm \ {p}
    BY <1>3 DEF Shape, TypeOK, Goto, Visit, ReadRow, List, Unlist, Leave, ForgetLeft, StartRefresh,
       Abandon, StartLeave, ListEnds, ListSteps
  <2>2. calm' \subseteq calm \union {p}
    BY DEF Visit, ReadRow, List, Unlist, Leave, ForgetLeft, StartRefresh, Abandon, StartLeave,
       ListEnds, Begins
  <2> QED
    BY <1>9, <2>1, <2>2 DEF Shape, TypeOK
<1>11. /\ todo' \in [Callers -> SUBSET Conversations]
       /\ conv' \in [Callers -> Conversations \union {Nobody}]
  BY DEF Shape, TypeOK, Visit, ReadRow, List, Unlist, Leave, ForgetLeft, StartRefresh, Abandon,
     StartLeave, ListEnds
<1>12. /\ step \in ListSteps \ {"visit"} => conv'[p] \in Conversations
       /\ \A q \in Callers \ {p} : conv'[q] = conv[q]
  BY <1>3 DEF Shape, TypeOK, HoldsChannel, Goto, Visit, ReadRow, List, Unlist, Leave, ForgetLeft,
     StartRefresh, Abandon, StartLeave, ListEnds, ListSteps
<1>13. HoldsChannel'
  BY <1>3, <1>12 DEF Shape, TypeOK, HoldsChannel, Goto
<1>14. settled' \subseteq Conversations /\ member' \subseteq Conversations \ Ims
  BY DEF Shape, TypeOK, HoldsChannel, Visit, ReadRow, List, Unlist, Leave, ForgetLeft, StartRefresh,
     Abandon, StartLeave, Settle, ListSteps
<1>15. ListTypes'
  BY <1>8, <1>10, <1>11, <1>13, <1>14 DEF ListTypes
<1> QED
  BY <1>5, <1>6, <1>7, <1>15

\* Membership changing in Slack, and time passing.
LEMMA OthersShape ==
    ASSUME Shape, Time \/ \E c \in Conversations : Join(c) \/ Kick(c)
    PROVE  /\ PostTypes' /\ ListTypes'
           /\ pc' \in [Callers -> Steps] /\ events' \in [EventKinds -> Nat]
<1>1. UNCHANGED <<posts, channelVars, todo, conv, pc, attempt>>
  BY DEF Time, Elapse, Join, Kick, cooldownVars, refreshes
<1>2. PostTypes'
  BY <1>1 DEF Shape, TypeOK, PostTypes, PostsTie, Posting, posts
<1>3. Busy' = Busy /\ HoldsChannel' /\ ChannelsTypeOK'
  BY <1>1 DEF Shape, TypeOK, Busy, HoldsChannel, ChannelsTypeOK, Listed, channelVars, channelsTable
<1>4. /\ calm' \subseteq calm /\ settled' \subseteq settled
      /\ member' \subseteq Conversations \ Ims
  BY DEF Shape, TypeOK, Time, Join, Kick, refreshes
<1>5. events' \in [EventKinds -> Nat]
  BY EventsType DEF Shape, TypeOK, Time, Join, Kick, EventKinds
<1> QED
  BY <1>1, <1>2, <1>3, <1>4, <1>5 DEF Shape, TypeOK, ListTypes

LEMMA NextShape == Shape /\ [Next]_vars => Shape'
<1> SUFFICES ASSUME Shape, [Next]_vars PROVE Shape'
  OBVIOUS
<1>1. CooldownTypeOK'
  BY StepsOfCooldown, CooldownTypes DEF Shape, TypeOK
<1> DEFINE Rest == /\ PostTypes /\ ListTypes
                   /\ pc \in [Callers -> Steps] /\ events \in [EventKinds -> Nat]
<1>2. ASSUME NEW p \in Callers, Step(p) \/ StartRefresh(p) \/ Abandon(p) PROVE Rest'
  BY <1>2, PostActionsShape, ListActionsShape DEF Step
<1>3. ASSUME NEW p \in Callers, NEW m \in Messages, Post(p, m) PROVE Rest'
  BY <1>3, PostShape
<1>4. ASSUME NEW p \in Callers, NEW c \in Conversations, StartLeave(p, c) PROVE Rest'
  BY <1>4, ListActionsShape
<1>5. ASSUME Time \/ \E c \in Conversations : Join(c) \/ Kick(c) PROVE Rest'
  BY <1>5, OthersShape
<1>6. ASSUME UNCHANGED vars PROVE Rest'
  <2>1. UNCHANGED <<attempt, posts, channelVars, todo, conv, calm, settled, member, pc, events>>
    BY <1>6 DEF vars, cooldownVars, refreshes
  <2>2. PostTypes'
    BY <2>1 DEF Shape, TypeOK, PostTypes, PostsTie, Posting, posts
  <2>3. Busy' = Busy /\ HoldsChannel' /\ ChannelsTypeOK'
    BY <2>1 DEF Shape, TypeOK, Busy, HoldsChannel, ChannelsTypeOK, Listed, channelVars, channelsTable
  <2> QED
    BY <2>1, <2>2, <2>3 DEF Shape, TypeOK, ListTypes
<1>7. Rest'
  BY <1>2, <1>3, <1>4, <1>5, <1>6 DEF Next
<1> QED
  BY <1>1, <1>7 DEF Shape, TypeOK, PostTypes, ListTypes

\* Callers hold messages, rows and pauses only at the steps that need them.
THEOREM CallersTypes == Spec => []TypeOK
<1>1. Spec => []Shape
  BY InitShape, NextShape, PTL DEF Spec
<1>2. Shape => TypeOK
  BY DEF Shape
<1> QED
  BY <1>1, <1>2, PTL

-----------------------------------------------------------------------------
(* Pauses *)

\* A pause on record reaches everybody: while the caller that wrote it sleeps,
\* whoever calls now is made to sleep at least as long.
THEOREM PauseReachesAll == Spec => []PauseIsShared
<1>1. Spec => []Shape
  BY InitShape, NextShape, PTL DEF Spec
<1>2. Init => PauseIsShared
  BY DEF Init, CooldownInit, PauseIsShared
<1>3. Shape /\ PauseIsShared /\ [Next]_vars => PauseIsShared'
  BY StepsOfCooldown, CooldownShares DEF Shape, TypeOK
<1> QED
  BY <1>1, <1>2, <1>3, PTL DEF Spec

-----------------------------------------------------------------------------
(* What callers are told *)

\* What a step of post_message does to its own message, and to no other.
LEMMA PostOutcome ==
    ASSUME Shape, OutcomeIsTold, NEW p \in Callers,
           Accepted(p) \/ Refused(p) \/ RateLimited(p) \/ TimesOut(p) \/ ConnectionLost(p) \/ RecordPause(p)
    PROVE  OutcomeIsTold'
<1>1. msg[p] \in Messages /\ outcome[msg[p]] = "none"
  BY DEF Shape, TypeOK, PostsTie, Posting, Accepted, Refused, RateLimited, TimesOut, ConnectionLost, NoAnswer,
     RecordPause, Calls
<1>2. copies[msg[p]] \in 0..unanswered[msg[p]]
  BY <1>1 DEF Shape, TypeOK, OutcomeIsTold
<1>3. ASSUME NEW m \in Messages \ {msg[p]}
      PROVE  copies'[m] = copies[m] /\ unanswered'[m] = unanswered[m] /\ outcome'[m] = outcome[m]
  BY <1>1, <1>3 DEF Shape, TypeOK, Accepted, Refused, RateLimited, TimesOut, ConnectionLost, NoAnswer,
     RecordPause, Returns, PostEnds
<1>4. CASE Accepted(p)
  <2>1. /\ copies'[msg[p]] = copies[msg[p]] + 1
        /\ unanswered' = unanswered /\ outcome'[msg[p]] = "posted"
    BY <1>1, <1>4 DEF Shape, TypeOK, Accepted, Returns, PostEnds
  <2> QED
    BY <1>1, <1>2, <1>3, <2>1 DEF Shape, TypeOK, OutcomeIsTold
<1>5. CASE Refused(p) \/ RateLimited(p) \/ RecordPause(p)
  <2>1. /\ copies' = copies /\ unanswered' = unanswered
        /\ outcome'[msg[p]] \in {"none", "raised"}
    BY <1>1, <1>5 DEF Shape, TypeOK, Refused, RateLimited, RecordPause, PostEnds
  <2> QED
    BY <1>1, <1>2, <1>3, <2>1 DEF Shape, TypeOK, OutcomeIsTold
<1>6. CASE TimesOut(p) \/ ConnectionLost(p)
  <2>1. /\ copies'[msg[p]] \in {copies[msg[p]], copies[msg[p]] + 1}
        /\ unanswered'[msg[p]] = unanswered[msg[p]] + 1
        /\ outcome'[msg[p]] \in {"none", "raised"}
    BY <1>1, <1>6 DEF Shape, TypeOK, TimesOut, ConnectionLost, NoAnswer, PostEnds
  <2> QED
    BY <1>1, <1>2, <1>3, <2>1 DEF Shape, TypeOK, OutcomeIsTold
<1> QED
  BY <1>4, <1>5, <1>6

\* post_message returns only for a message that is in Slack, and a message is
\* there twice only after a call that Slack did not answer.
THEOREM CallersAreToldTheTruth == Spec => []OutcomeIsTold
<1>1. Spec => []Shape
  BY InitShape, NextShape, PTL DEF Spec
<1>2. Init => OutcomeIsTold
  BY DEF Init, OutcomeIsTold
<1>3. Shape /\ OutcomeIsTold /\ [Next]_vars => OutcomeIsTold'
  <2> SUFFICES ASSUME Shape, OutcomeIsTold, [Next]_vars PROVE OutcomeIsTold'
    OBVIOUS
  <2>1. ASSUME UNCHANGED <<copies, unanswered, outcome>> PROVE OutcomeIsTold'
    BY <2>1 DEF OutcomeIsTold
  <2>2. ASSUME NEW p \in Callers, Step(p) \/ StartRefresh(p) \/ Abandon(p) PROVE OutcomeIsTold'
    BY <2>1, <2>2, PostOutcome
    DEF Step, Visit, ReadRow, List, Unlist, Leave, ForgetLeft, StartRefresh, Abandon, posts
  <2>3. ASSUME ~\E p \in Callers : Step(p) \/ StartRefresh(p) \/ Abandon(p) PROVE OutcomeIsTold'
    BY <2>1, <2>3 DEF Next, Post, StartLeave, Join, Kick, Time, vars, posts
  <2> QED
    BY <2>2, <2>3
<1> QED
  BY <1>1, <1>2, <1>3, PTL DEF Spec

-----------------------------------------------------------------------------
(* The list of channels *)

\* Who has been alone so far still is; what it knows of its channel, from Slack and from
\* the table, is still so.
CalmKnows ==
    \A p \in calm :
        /\ Busy = {p}
        /\ pc[p] \in {"list_read", "list"} => conv[p] \in member \ Ims
        /\ pc[p] \in {"unlist_read", "unlist", "forget"} => conv[p] \notin member \ Ims
        /\ pc[p] \in {"list", "unlist", "leave", "forget"} => found[p] = channelRow[conv[p]]

ListInv == CalmKnows /\ SettledAgrees

\* Steps that neither begin nor end a job, nor write, while membership may
\* change in Slack.
LEMMA UntouchedLists ==
    ASSUME ListInv,
           Busy' = Busy, \A p \in Busy : pc'[p] = pc[p],
           UNCHANGED <<channelVars, conv>>,
           calm' \subseteq calm, settled' \subseteq settled,
           calm' # {} => member' = member,
           \A c \in settled' : c \in member' <=> c \in member
    PROVE  ListInv'
<1>1. CalmKnows'
  BY DEF ListInv, CalmKnows, channelVars, channelsTable
<1>2. SettledAgrees'
  BY DEF ListInv, SettledAgrees, Listed, channelVars, channelsTable
<1> QED
  BY <1>1, <1>2 DEF ListInv

LEMMA PostsKeepList ==
    ASSUME Shape, ListInv, NEW p \in Callers,
           \/ Accepted(p) \/ Refused(p) \/ RateLimited(p) \/ TimesOut(p) \/ ConnectionLost(p) \/ RecordPause(p)
           \/ \E m \in Messages : Post(p, m)
    PROVE  ListInv'
<1>1. p \notin Busy
  BY DEF Busy, ListSteps, Accepted, Refused, RateLimited, TimesOut, ConnectionLost, NoAnswer,
     RecordPause, Calls, Post
<1>2. PICK step \in Steps \ ListSteps : Goto(p, step)
  <2>1. CASE NoAnswer(p) /\ UNCHANGED pc
    <3>1. Goto(p, pc[p])
      BY <2>1 DEF Shape, TypeOK, Goto
    <3> QED
      BY <2>1, <3>1 DEF NoAnswer, Calls, Steps, ListSteps
  <2>2. CASE ~(NoAnswer(p) /\ UNCHANGED pc)
    BY <2>2 DEF Accepted, Refused, RateLimited, TimesOut, ConnectionLost, RecordPause, Post, Returns, PostEnds,
       Steps, ListSteps
  <2> QED
    BY <2>1, <2>2
<1>3. Busy' = Busy /\ \A q \in Busy : pc'[q] = pc[q]
  BY <1>1, <1>2 DEF Shape, TypeOK, Goto, Busy
<1>4. UNCHANGED <<channelVars, conv, calm, settled, member>>
  BY DEF Accepted, Refused, RateLimited, TimesOut, ConnectionLost, NoAnswer, RecordPause, Post, refreshes
<1> QED
  BY <1>3, <1>4, UntouchedLists

LEMMA SlackKeepsList ==
    ASSUME Shape, ListInv, Time \/ \E c \in Conversations : Join(c) \/ Kick(c)
    PROVE  ListInv'
<1>1. UNCHANGED <<channelVars, conv, pc>> /\ Busy' = Busy
  BY DEF Time, Join, Kick, refreshes, Busy
<1>2. CASE Time
  BY <1>1, <1>2, UntouchedLists DEF Time, refreshes
<1>3. CASE \E c \in Conversations : Join(c) \/ Kick(c)
  BY <1>1, <1>3, UntouchedLists DEF Join, Kick
<1> QED
  BY <1>2, <1>3

\* A job that begins is alone, or nobody is alone any more.
LEMMA BeginningKeepsList ==
    ASSUME Shape, ListInv, NEW p \in Callers,
           StartRefresh(p) \/ \E c \in Conversations : StartLeave(p, c)
    PROVE  ListInv'
<1>1. Busy' = Busy \union {p}
  BY DEF Shape, TypeOK, StartRefresh, StartLeave, Goto, Busy, ListSteps
<1>2. calm' \subseteq {p} /\ (calm' # {} => Busy = {})
  BY DEF StartRefresh, StartLeave, Begins
<1>3. pc'[p] = "visit" \/ (pc'[p] = "leave" /\ found'[p] = channelRow'[conv'[p]])
  BY SlackCallsAssumption
  DEF Shape, TypeOK, ChannelsTypeOK, StartRefresh, StartLeave, Goto, FindChannel, channelsTable
<1>4. CalmKnows'
  BY <1>1, <1>2, <1>3 DEF CalmKnows
<1>5. SettledAgrees'
  BY DEF ListInv, SettledAgrees, Listed, StartRefresh, StartLeave, FindChannel, channelVars,
     channelsTable
<1> QED
  BY <1>4, <1>5 DEF ListInv

\* A job that ends is not calm, so no two were.
LEMMA EndingKeepsCalm ==
    ASSUME Shape, CalmKnows, NEW p \in Busy, calm' = calm \ {p}
    PROVE  calm' = {}
  BY DEF CalmKnows

\* Who writes a channel's row while it is calm brings it in line with Slack.
LEMMA WriteSettles ==
    ASSUME Shape, ListInv, NEW p \in Callers, List(p) \/ Unlist(p) \/ ForgetLeft(p)
    PROVE  SettledAgrees'
<1>1. conv[p] \in Conversations /\ p \in Threads /\ channelRows \in Nat
      /\ channelRow \in [Conversations -> Nat]
  BY SlackCallsAssumption
  DEF Shape, TypeOK, HoldsChannel, ChannelsTypeOK, List, Unlist, ForgetLeft, ListSteps
<1>2. ASSUME NEW c \in Conversations \ {conv[p]} PROVE channelRow'[c] = channelRow[c]
  BY <1>1, <1>2 DEF List, Unlist, ForgetLeft, Upsert, Delete, channelsTable
<1>3. member' = member /\ Settle(p)
  BY DEF List, Unlist, ForgetLeft
<1>4. CASE p \notin calm
  BY <1>2, <1>3, <1>4 DEF ListInv, SettledAgrees, Shape, TypeOK, Settle, Listed
<1>5. CASE p \in calm
  <2>1. conv[p] \in Listed' <=> conv[p] \in member \ Ims
    <3>1. found[p] = channelRow[conv[p]]
      BY <1>5 DEF ListInv, CalmKnows, List, Unlist, ForgetLeft
    <3>2. CASE List(p)
      BY <1>1, <1>5, <3>1, <3>2
      DEF ListInv, CalmKnows, List, Upsert, UpsertRaises, Gone, Listed, channelsTable
    <3>3. CASE Unlist(p) \/ ForgetLeft(p)
      BY <1>1, <1>5, <3>1, <3>3
      DEF ListInv, CalmKnows, Unlist, ForgetLeft, Delete, Gone, Listed, channelsTable
    <3> QED
      BY <3>2, <3>3
  <2> QED
    BY <1>2, <1>3, <1>5, <2>1 DEF ListInv, SettledAgrees, Shape, TypeOK, Settle, Listed
<1> QED
  BY <1>4, <1>5

LEMMA JobsKeepList ==
    ASSUME Shape, ListInv, NEW p \in Callers,
           \/ Visit(p) \/ ReadRow(p) \/ List(p) \/ Unlist(p) \/ Leave(p) \/ ForgetLeft(p)
           \/ Abandon(p)
    PROVE  ListInv'
<1>1. p \in Busy
  BY DEF Visit, ReadRow, List, Unlist, Leave, ForgetLeft, Abandon, Busy, ListSteps
<1>2. PICK step \in {"idle"} \union ListSteps : Goto(p, step)
  BY DEF Visit, ReadRow, List, Unlist, Leave, ForgetLeft, Abandon, ListEnds, ListSteps
<1>3. /\ pc'[p] = step
      /\ Busy' = IF step \in ListSteps THEN Busy ELSE Busy \ {p}
  BY <1>1, <1>2 DEF Shape, TypeOK, Goto, Busy
<1>4. calm' \subseteq calm /\ calm \subseteq {p}
  BY <1>1 DEF ListInv, CalmKnows, Visit, ReadRow, List, Unlist, Leave, ForgetLeft, Abandon, ListEnds
<1>5. step = "idle" => p \notin calm'
  BY <1>3 DEF Shape, TypeOK, Goto, Visit, ReadRow, List, Unlist, Leave, ForgetLeft, Abandon, ListEnds, ListSteps
<1>6. ASSUME p \in calm'
      PROVE  /\ pc'[p] \in {"list_read", "list"} => conv'[p] \in member' \ Ims
             /\ pc'[p] \in {"unlist_read", "unlist", "forget"} => conv'[p] \notin member' \ Ims
             /\ pc'[p] \in {"list", "unlist", "leave", "forget"} => found'[p] = channelRow'[conv'[p]]
  <2>0. /\ p \in calm
        /\ p \in Threads /\ found \in [Threads -> 0..channelRows]
        /\ conv \in [Callers -> Conversations \union {Nobody}]
        /\ pc \in [Callers -> Steps]
    BY <1>4, <1>6, SlackCallsAssumption DEF Shape, TypeOK, ChannelsTypeOK
  <2>1. CASE Visit(p)
    BY <1>6, <2>0, <2>1 DEF Visit, ListEnds, Goto, MayList
  <2>2. CASE ReadRow(p)
    BY <1>6, <2>0, <2>2 DEF ListInv, CalmKnows, ReadRow, Goto, FindChannel, channelsTable
  <2>3. CASE List(p) \/ Unlist(p)
    BY <1>6, <2>0, <2>3 DEF List, Unlist, ListEnds, Goto
  <2>4. CASE Leave(p)
    BY <1>6, <2>0, <2>4 DEF ListInv, CalmKnows, Leave, ListEnds, Goto, channelsTable
  <2>5. CASE ForgetLeft(p) \/ Abandon(p)
    BY <1>6, <2>5 DEF ForgetLeft, Abandon, ListEnds
  <2> QED
    BY <2>1, <2>2, <2>3, <2>4, <2>5
<1>7. CalmKnows'
  <2>1. p \in calm' => Busy' = {p}
    BY <1>3, <1>4, <1>5 DEF ListInv, CalmKnows
  <2> QED
    BY <1>4, <1>6, <2>1 DEF CalmKnows
<1>8. SettledAgrees'
  <2>1. CASE Visit(p) \/ ReadRow(p) \/ Abandon(p)
    BY <2>1 DEF ListInv, SettledAgrees, Visit, ReadRow, Abandon, Listed, FindChannel, channelsTable
  <2>2. CASE Leave(p)
    BY <2>2 DEF ListInv, SettledAgrees, Leave, Listed, channelsTable
  <2> QED
    BY <2>1, <2>2, WriteSettles
<1> QED
  BY <1>7, <1>8 DEF ListInv

\* The list agrees with Slack on every conversation last written by a job that
\* no other, and nobody in Slack, interfered with.
THEOREM SettledListAgrees == Spec => []SettledAgrees
<1>1. Spec => []Shape
  BY InitShape, NextShape, PTL DEF Spec
<1>2. Init => ListInv
  BY DEF Init, ListInv, CalmKnows, SettledAgrees
<1>3. Shape /\ ListInv /\ [Next]_vars => ListInv'
  <2> SUFFICES ASSUME Shape, ListInv, [Next]_vars PROVE ListInv'
    OBVIOUS
  <2>1. CASE UNCHANGED vars
    BY <2>1, UntouchedLists DEF vars, refreshes, Busy
  <2> QED
    BY <2>1, PostsKeepList, SlackKeepsList, BeginningKeepsList, JobsKeepList DEF Next, Step
<1>4. ListInv => SettledAgrees
  BY DEF ListInv
<1> QED
  BY <1>1, <1>2, <1>3, <1>4, PTL DEF Spec

-----------------------------------------------------------------------------
(* The first row of a service *)

\* Callers that have found no row and have not tried to insert it yet.
Unwritten == {p \in Callers : pc[p] = "record" /\ loaded[p] = 0}

\* Nobody loses before there is a row; then those in Unwritten lose, who were
\* there when another inserted it.
FirstInsert ==
    /\ \A p \in Callers : pc[p] = "record" => pause[p] > 0
    /\ cooldown = 0 => lost = 0
    /\ cooldown # 0 => lost + Cardinality(Unwritten) < Cardinality(Callers)

\* How many there may be.
LEMMA UnwrittenCount ==
    /\ Cardinality(Callers) \in Nat \ {0}
    /\ \A S \in SUBSET Callers :
        /\ Cardinality(S) \in Nat
        /\ \A T \in SUBSET S : Cardinality(T) <= Cardinality(S)
        /\ \A p \in S : Cardinality(S \ {p}) = Cardinality(S) - 1
<1>1. IsFiniteSet(Callers) /\ Callers # {}
  BY SlackCallsAssumption
<1>2. ASSUME NEW S \in SUBSET Callers
      PROVE  /\ IsFiniteSet(S) /\ Cardinality(S) \in Nat
             /\ \A T \in SUBSET S : Cardinality(T) <= Cardinality(S)
             /\ \A p \in S : Cardinality(S \ {p}) = Cardinality(S) - 1
  BY <1>1, FS_Subset, FS_CardinalityType, FS_RemoveElement
<1>3. Cardinality(Callers) # 0
  BY <1>1, FS_EmptySet
<1> QED
  BY <1>2, <1>3

LEMMA NextFirstInsert == Shape /\ FirstInsert /\ [Next]_vars => FirstInsert'
<1> SUFFICES ASSUME Shape, FirstInsert, [Next]_vars PROVE FirstInsert'
  OBVIOUS
<1>0. /\ lost \in Nat /\ cooldown \in Nat
      /\ pause \in [Callers -> Nat] /\ loaded \in [Callers -> Nat] /\ pc \in [Callers -> Steps]
  BY DEF Shape, TypeOK, CooldownTypeOK
<1>1. Unwritten \in SUBSET Callers /\ Unwritten' \in SUBSET Callers
  BY DEF Unwritten
\* Steps of everybody who is not at "record", before or after.
<1>2. ASSUME UNCHANGED <<cooldown, lost>>,
             \A p \in Callers : pc'[p] = "record" =>
                pc[p] = "record" /\ pause'[p] = pause[p] /\ loaded'[p] = loaded[p]
      PROVE  FirstInsert'
  <2>1. Unwritten' \subseteq Unwritten
    BY <1>2 DEF Unwritten
  <2>2. Cardinality(Unwritten') <= Cardinality(Unwritten)
    BY <1>1, <2>1, UnwrittenCount
  <2> QED
    BY <1>0, <1>1, <1>2, <2>2, UnwrittenCount DEF FirstInsert
<1>3. ASSUME NEW p \in Callers, RateLimited(p), BackOff(p), Goto(p, "record") PROVE FirstInsert'
  <2>1. pause'[p] > 0
    BY <1>0, <1>3, NextPauseType, ServiceCooldownAssumption DEF BackOff
  <2>2. /\ UNCHANGED <<cooldown, lost>> /\ loaded'[p] = cooldown
        /\ \A q \in Callers \ {p} : pause'[q] = pause[q] /\ loaded'[q] = loaded[q] /\ pc'[q] = pc[q]
    BY <1>0, <1>3 DEF RateLimited, BackOff, Selected, Goto, cooldownRow
  <2>3. cooldown # 0 => Cardinality(Unwritten') <= Cardinality(Unwritten)
    <3>1. cooldown # 0 => Unwritten' \subseteq Unwritten
      BY <2>2 DEF Unwritten
    <3> QED
      BY <1>1, <3>1, UnwrittenCount
  <2> QED
    BY <1>0, <1>1, <2>1, <2>2, <2>3, UnwrittenCount DEF FirstInsert
<1>4. ASSUME NEW p \in Callers, RecordPause(p) PROVE FirstInsert'
  <2>1. /\ pc[p] = "record" /\ pc'[p] # "record"
        /\ \A q \in Callers \ {p} : pause'[q] = pause[q] /\ loaded'[q] = loaded[q] /\ pc'[q] = pc[q]
    BY <1>0, <1>4 DEF RecordPause, Record, PostEnds, LeaveCall, Goto
  <2>2. Unwritten' = Unwritten \ {p}
    BY <2>1 DEF Unwritten
  <2>3. CASE Record(p) /\ lost' = lost
    <3>1. cooldown' \in {cooldown, pause[p]} /\ pause[p] > 0
      BY <2>1, <2>3 DEF Record, FirstInsert
    <3>2. CASE cooldown = 0
      <4>1. Cardinality(Unwritten') <= Cardinality(Callers \ {p})
        <5>1. Callers \ {p} \in SUBSET Callers /\ Unwritten' \in SUBSET (Callers \ {p})
          BY <1>1, <2>2
        <5> QED
          BY <5>1, UnwrittenCount
      <4>2. Cardinality(Callers \ {p}) = Cardinality(Callers) - 1
        BY UnwrittenCount
      <4> QED
        BY <1>0, <1>1, <2>1, <2>3, <3>1, <3>2, <4>1, <4>2, UnwrittenCount DEF FirstInsert
    <3>3. CASE cooldown # 0
      <4>1. Cardinality(Unwritten') <= Cardinality(Unwritten)
        BY <1>1, <2>2, UnwrittenCount
      <4> QED
        BY <1>0, <1>1, <2>1, <2>3, <3>1, <3>3, <4>1, UnwrittenCount DEF FirstInsert
    <3> QED
      BY <3>2, <3>3
  <2>4. CASE Beaten(p) /\ lost' = lost + 1 /\ cooldown' = cooldown
    <3>1. p \in Unwritten /\ cooldown # 0
      BY <2>1, <2>4 DEF Beaten, Unwritten
    <3>2. Cardinality(Unwritten') = Cardinality(Unwritten) - 1
      BY <1>1, <2>2, <3>1, UnwrittenCount
    <3> QED
      BY <1>0, <1>1, <2>1, <2>4, <3>1, <3>2, UnwrittenCount DEF FirstInsert
  <2> QED
    BY <1>4, <2>3, <2>4 DEF RecordPause, PostEnds, LeaveCall, cooldownRow
<1>5. ASSUME NEW p \in Callers,
             \/ Accepted(p) \/ Refused(p) \/ TimesOut(p) \/ ConnectionLost(p)
             \/ \E m \in Messages : Post(p, m)
      PROVE  FirstInsert'
  <2>1. /\ UNCHANGED <<cooldown, lost>> /\ pc'[p] # "record"
        /\ \A q \in Callers \ {p} : pause'[q] = pause[q] /\ loaded'[q] = loaded[q] /\ pc'[q] = pc[q]
    BY <1>0, <1>5 DEF Accepted, Refused, TimesOut, ConnectionLost, NoAnswer, Calls, Post, Returns, PostEnds,
       EnterCall, LeaveCall, Goto, cooldownVars, cooldownRow
  <2> QED
    BY <1>2, <2>1
<1>6. ASSUME NEW p \in Callers, RateLimited(p), PostEnds(p, "raised") PROVE FirstInsert'
  <2>1. /\ UNCHANGED <<cooldown, lost>> /\ pc'[p] # "record"
        /\ \A q \in Callers \ {p} : pause'[q] = pause[q] /\ loaded'[q] = loaded[q] /\ pc'[q] = pc[q]
    BY <1>0, <1>6 DEF RateLimited, PostEnds, LeaveCall, Goto, cooldownRow
  <2> QED
    BY <1>2, <2>1
<1>7. ASSUME NEW p \in Callers,
             \/ Visit(p) \/ ReadRow(p) \/ List(p) \/ Unlist(p) \/ Leave(p) \/ ForgetLeft(p)
             \/ StartRefresh(p) \/ Abandon(p) \/ \E c \in Conversations : StartLeave(p, c)
      PROVE  FirstInsert'
  <2>1. /\ UNCHANGED <<cooldownVars, posts>> /\ pc'[p] # "record"
        /\ \A q \in Callers \ {p} : pc'[q] = pc[q]
    BY <1>0, <1>7 DEF Visit, ReadRow, List, Unlist, Leave, ForgetLeft, StartRefresh, Abandon, StartLeave,
       ListEnds, Goto
  <2> QED
    BY <1>2, <2>1 DEF cooldownVars, cooldownRow, posts
<1>8. ASSUME UNCHANGED <<cooldown, lost, pause, loaded, pc>> PROVE FirstInsert'
  BY <1>2, <1>8
<1>9. ASSUME NEW p \in Callers, RateLimited(p) PROVE FirstInsert'
  BY <1>3, <1>6, <1>9 DEF RateLimited
<1>10. CASE Time \/ (\E c \in Conversations : Join(c) \/ Kick(c)) \/ UNCHANGED vars
  BY <1>8, <1>10 DEF Time, Elapse, Join, Kick, vars, cooldownVars, cooldownRow, posts
<1> QED
  BY <1>4, <1>5, <1>7, <1>9, <1>10 DEF Next, Step

\* The insert race ends fewer calls than there are callers, ever.
THEOREM FirstInsertEndsFew == Spec => []LostToFirstInsertOnly
<1>1. Spec => []Shape
  BY InitShape, NextShape, PTL DEF Spec
<1>2. Init => FirstInsert
  BY DEF Init, CooldownInit, FirstInsert
<1>3. Shape /\ FirstInsert => LostToFirstInsertOnly
  <2> SUFFICES ASSUME Shape, FirstInsert PROVE LostToFirstInsertOnly
    OBVIOUS
  <2>1. Unwritten \in SUBSET Callers /\ lost \in Nat
    BY DEF Unwritten, Shape, TypeOK
  <2> QED
    BY <2>1, UnwrittenCount DEF FirstInsert, LostToFirstInsertOnly
<1> QED
  BY <1>1, <1>2, <1>3, NextFirstInsert, PTL DEF Spec

=============================================================================
