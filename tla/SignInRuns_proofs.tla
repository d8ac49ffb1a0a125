-------------------------- MODULE SignInRuns_proofs --------------------------
(***************************************************************************)
(* How often an operation runs: the proof that SignIn never runs one more  *)
(* often than its links signed the user in, for any number of tasks,       *)
(* operations, links and events.  The argument is one of accounting: a     *)
(* task on its way to run an operation holds a permit, the permit the      *)
(* question came with or the one a completed link gave.                    *)
(***************************************************************************)
EXTENDS SignIn_proofs, FiniteSetTheorems

\* From completing a sign-in, or asking, to the body of authorize_for, and until the
\* credentials refused there are gone.
RunSteps == {"complete_delete", "authenticate", "refresh", "update_read", "update_write", "serve",
             "delete_write"}

\* Tasks on their way to run an operation.
Runs(o) == {p \in Tasks : pc[p] \in RunSteps /\ op[p] = o}

LinksFor(o) == {l \in 1..sent : linkOp[l] = o}
CompletedFor(o) == {l \in completed : linkOp[l] = o}

\* The operation is in a link, or about to be.
InLinks(o) == LinksFor(o) # {} \/ \E p \in Tasks : pc[p] = "post" /\ op[p] = o

\* What an operation has run and is about to run is paid for by completed
\* links, or by the question as long as no link carries it.
Budget ==
    \A o \in Operations :
        served[o] + Cardinality(Runs(o)) <= IF InLinks(o) THEN Cardinality(CompletedFor(o)) ELSE 1

RunsFinite == \A o \in Operations : IsFiniteSet(Runs(o))

\* Nobody works on an operation before it is asked.
UnaskedUntouched ==
    \A o \in Operations \ asked :
        /\ served[o] = 0
        /\ \A p \in Tasks : pc[p] # "idle" => op[p] # o
        /\ \A l \in 1..sent : linkOp[l] # o

\* A callback works on the operation of its link.
CallbackKnowsOperation ==
    \A p \in Tasks : pc[p] \in CallbackSteps => link[p] \in 1..sent /\ linkOp[link[p]] = op[p]

\* Callbacks in progress are of different links.
CallbacksApart ==
    \A p, q \in Tasks :
        pc[p] \in CallbackSteps /\ pc[q] \in CallbackSteps /\ p # q => link[p] # link[q]

\* A link is completed at most once.
AcceptedUnused == \A p \in Tasks : Accepted(p) => link[p] \notin completed

Accounts ==
    /\ Budget
    /\ RunsFinite
    /\ UnaskedUntouched
    /\ CallbackKnowsOperation
    /\ CallbacksApart
    /\ AcceptedUnused

-----------------------------------------------------------------------------
(* The kinds of steps the accounts tell apart *)

\* What runs, links and permits there are stays as it is.
SameAccounts == UNCHANGED <<sent, linkOp, completed, asked, served>>

\* A task goes on, towards a run only if it was on its way to one.
GoesOn(p) ==
    /\ OthersStay(p)
    /\ SameAccounts
    /\ pc'[p] # "idle" => pc[p] # "idle" /\ op'[p] = op[p]
    /\ pc'[p] \in RunSteps => pc[p] \in RunSteps
    /\ pc'[p] = "post" => pc[p] \in RunSteps \union CallbackSteps
    /\ pc'[p] \in CallbackSteps => pc[p] \in CallbackSteps /\ link'[p] = link[p]
    /\ Accepted(p)' => Accepted(p) \/ auth.state = link[p]

\* A task runs its operation.
RunsNow(p) ==
    /\ OthersStay(p)
    /\ UNCHANGED <<sent, linkOp, completed, asked>>
    /\ pc[p] = "serve" /\ pc'[p] = "idle"
    /\ served' = [served EXCEPT ![op[p]] = @ + 1]

\* A task sends a link.
SendsLink(p) ==
    /\ OthersStay(p)
    /\ UNCHANGED <<completed, asked, served>>
    /\ pc[p] = "post" /\ pc'[p] = "upsert_read" /\ op'[p] = op[p]
    /\ sent' = sent + 1 /\ sent + 1 \in Links
    /\ linkOp' = [linkOp EXCEPT ![sent + 1] = op[p]]

\* A callback completes its link.
UsesLink(p) ==
    /\ OthersStay(p)
    /\ UNCHANGED <<sent, linkOp, asked, served>>
    /\ pc[p] = "complete_write" /\ pc'[p] = "complete_delete"
    /\ op'[p] = op[p] /\ link'[p] = link[p]
    /\ completed' = completed \union {link[p]}

\* A new operation.
AsksFor(p, o) ==
    /\ OthersStay(p)
    /\ UNCHANGED <<sent, linkOp, completed, served>>
    /\ o \notin asked /\ asked' = asked \union {o}
    /\ pc[p] = "idle" /\ pc'[p] = "authenticate" /\ op'[p] = o

\* A callback comes in.
OpensLink(p, l) ==
    /\ OthersStay(p)
    /\ SameAccounts
    /\ pc[p] = "idle" /\ pc'[p] \in {"callback", "late_callback"}
    /\ l \in 1..sent /\ link'[p] = l /\ op'[p] = linkOp[l]
    /\ OverlappingClicks \/ \A q \in Tasks : pc[q] \in CallbackSteps => link[q] # l

\* No task moves.
NobodyMoves == SameAccounts /\ UNCHANGED locals

LEMMA StepKinds ==
    ASSUME IInv, [Next]_vars
    PROVE  \/ \E p \in Tasks : GoesOn(p) \/ RunsNow(p) \/ SendsLink(p) \/ UsesLink(p)
           \/ \E p \in Tasks, o \in Operations : AsksFor(p, o)
           \/ \E p \in Tasks, l \in Links : OpensLink(p, l)
           \/ NobodyMoves
<1>0. LocalsOK /\ sent \in Nat /\ sent <= MaxLinks
  BY SignInAssumption DEF IInv, TypeOK, LocalsOK
<1> USE DEF slackVars, SameAccounts
<1>1. ASSUME NEW p \in Tasks,
             \/ Authenticate(p) \/ Refresh(p) \/ UpdateRead(p) \/ UpdateWrite(p) \/ UpsertRead(p)
             \/ UpsertWrite(p) \/ DeleteOld(p)
      PROVE  GoesOn(p)
  <2> USE <1>0, GotoEffect, EndEffect, ReadEffect DEF GoesOn, RunSteps, CallbackSteps, Accepted
  <2>1. CASE Authenticate(p)
    BY <2>1 DEF Authenticate
  <2>2. CASE Refresh(p)
    BY <2>2 DEF Refresh
  <2>3. CASE UpdateRead(p)
    BY <2>3 DEF UpdateRead
  <2>4. CASE UpdateWrite(p)
    BY <2>4 DEF UpdateWrite
  <2>5. CASE UpsertRead(p)
    BY <2>5 DEF UpsertRead
  <2>6. CASE UpsertWrite(p)
    BY <2>6 DEF UpsertWrite, FlowEnds
  <2>7. CASE DeleteOld(p)
    BY <2>7 DEF DeleteOld, FlowEnds
  <2> QED
    BY <1>1, <2>1, <2>2, <2>3, <2>4, <2>5, <2>6, <2>7
<1>2. ASSUME NEW p \in Tasks,
             \/ Callback(p) \/ Exchange(p) \/ CompleteRead(p) \/ CompleteDelete(p)
             \/ Abort(p) \/ ServeDenied(p) \/ DeleteWrite(p)
      PROVE  GoesOn(p)
  <2> USE <1>0, GotoEffect, EndEffect, ReadEffect, BeginEffect DEF GoesOn, RunSteps, CallbackSteps, Accepted
  <2>1. CASE Callback(p)
    BY <2>1 DEF Callback, RequestMatches
  <2>2. CASE Exchange(p)
    BY <2>2 DEF Exchange
  <2>3. CASE CompleteRead(p)
    BY <2>3 DEF CompleteRead
  <2>4. CASE CompleteDelete(p)
    BY <2>4 DEF CompleteDelete, Resume
  <2>5. CASE Abort(p)
    BY <2>5 DEF Abort
  <2>6. CASE ServeDenied(p)
    BY <2>6 DEF ServeDenied
  <2>7. CASE DeleteWrite(p)
    BY <2>7 DEF DeleteWrite
  <2> QED
    BY <1>2, <2>1, <2>2, <2>3, <2>4, <2>5, <2>6, <2>7
<1>3. ASSUME NEW p \in Tasks, Serve(p) PROVE RunsNow(p)
  BY <1>0, <1>3, EndEffect DEF Serve, RunsNow
<1>4. ASSUME NEW p \in Tasks, Post(p) PROVE SendsLink(p)
  <2>1. sent + 1 \in Links
    BY <1>0, <1>4, SignInAssumption DEF Post, Room, Links
  <2>2. OthersStay(p) /\ pc'[p] = "upsert_read" /\ op'[p] = op[p]
    BY <1>0, <1>4 DEF Post, LocalsOK, OthersStay
  <2> QED
    BY <1>4, <2>1, <2>2 DEF Post, NewLink, SendsLink
<1>5. ASSUME NEW p \in Tasks, CompleteWrite(p) PROVE GoesOn(p) \/ UsesLink(p)
  <2>1. CASE auth.row = row[p]
    BY <1>0, <1>5, <2>1, GotoEffect DEF CompleteWrite, UsesLink
  <2>2. CASE auth.row # row[p]
    BY <1>0, <1>5, <2>2, EndEffect DEF CompleteWrite, GoesOn, RunSteps, CallbackSteps, Accepted
  <2> QED
    BY <2>1, <2>2
<1>6. ASSUME NEW p \in Tasks, NEW o \in Operations, Ask(p, o) PROVE AsksFor(p, o)
  BY <1>0, <1>6, BeginEffect DEF Ask, AsksFor
<1>7. ASSUME NEW p \in Tasks, NEW l \in Links, Click(p, l) PROVE OpensLink(p, l)
  BY <1>0, <1>7, BeginEffect DEF Click, OpensLink
<1>8. ASSUME TokenExpires \/ AdminRead \/ AdminDelete \/ (\E l \in Links : LinkExpires(l)) \/ UNCHANGED vars
      PROVE  NobodyMoves
  BY <1>8 DEF TokenExpires, AdminRead, AdminDelete, LinkExpires, vars, NobodyMoves
<1> QED
  BY <1>1, <1>2, <1>3, <1>4, <1>5, <1>6, <1>7, <1>8 DEF Next, Step, Environment

-----------------------------------------------------------------------------
(* Every kind of step balances *)

\* Types the accounts rest on.
LEMMA AccountTypes ==
    ASSUME IInv
    PROVE  /\ pc \in [Tasks -> Steps]
           /\ op \in [Tasks -> Operations \union {NoOperation}]
           /\ link \in [Tasks -> 0..sent]
           /\ served \in [Operations -> Nat]
           /\ linkOp \in [Links -> Operations \union {NoOperation}]
           /\ sent \in Nat /\ 1..sent \subseteq Links
           /\ completed \subseteq 1..sent
           /\ \A p \in Tasks : pc[p] # "idle" => op[p] \in Operations
           /\ \A l \in 1..sent : linkOp[l] \in Operations
  BY SignInAssumption DEF IInv, TypeOK, Ties, OperationKnown, Links

\* Completed links can be counted.
LEMMA CompletedCounted ==
    ASSUME IInv, NEW o
    PROVE  /\ IsFiniteSet(CompletedFor(o))
           /\ Cardinality(CompletedFor(o)) \in Nat
           /\ LinksFor(o) = {} => Cardinality(CompletedFor(o)) = 0
<1>1. sent \in Nat /\ completed \subseteq 1..sent
  BY AccountTypes
<1>2. IsFiniteSet(1..sent)
  BY <1>1, FS_Interval
<1>3. CompletedFor(o) \in SUBSET (1..sent)
  BY <1>1 DEF CompletedFor
<1>4. LinksFor(o) = {} => CompletedFor(o) = {}
  BY <1>1 DEF CompletedFor, LinksFor
<1> QED
  BY <1>2, <1>3, <1>4, FS_Subset, FS_CardinalityType, FS_EmptySet

\* So can the runs under way.
LEMMA RunsCounted ==
    ASSUME RunsFinite, NEW o \in Operations
    PROVE  Cardinality(Runs(o)) \in Nat /\ IsFiniteSet(Runs(o))
  BY FS_CardinalityType DEF RunsFinite

\* A step of one task takes it out of the runs of an operation, adds it to them
\* or neither.
LEMMA RunsMove ==
    ASSUME RunsFinite, NEW o \in Operations, NEW p \in Tasks, OthersStay(p)
    PROVE  /\ Runs(o)' \in {Runs(o), Runs(o) \union {p}, Runs(o) \ {p}}
           /\ p \in Runs(o)' <=> pc'[p] \in RunSteps /\ op'[p] = o
           /\ IsFiniteSet(Runs(o)') /\ Cardinality(Runs(o)') \in Nat
           /\ p \in Runs(o) /\ p \in Runs(o)' => Cardinality(Runs(o)') = Cardinality(Runs(o))
           /\ p \notin Runs(o) /\ p \notin Runs(o)' => Cardinality(Runs(o)') = Cardinality(Runs(o))
           /\ p \in Runs(o) /\ p \notin Runs(o)' => Cardinality(Runs(o)') = Cardinality(Runs(o)) - 1
           /\ p \notin Runs(o) /\ p \in Runs(o)' => Cardinality(Runs(o)') = Cardinality(Runs(o)) + 1
<1>1. IsFiniteSet(Runs(o)) /\ Cardinality(Runs(o)) \in Nat
  BY RunsCounted
<1>2. \A q \in Tasks : q # p => (q \in Runs(o)' <=> q \in Runs(o))
  BY DEF OthersStay, Runs
<1>3. p \in Runs(o)' <=> pc'[p] \in RunSteps /\ op'[p] = o
  BY DEF Runs
<1>4. Runs(o) \subseteq Tasks /\ Runs(o)' \subseteq Tasks
  BY DEF Runs
<1>5. CASE p \in Runs(o) <=> p \in Runs(o)'
  <2>1. Runs(o)' = Runs(o)
    BY <1>2, <1>4, <1>5
  <2> QED
    BY <1>1, <1>3, <1>5, <2>1
<1>6. CASE p \in Runs(o) /\ p \notin Runs(o)'
  <2>1. Runs(o)' = Runs(o) \ {p}
    BY <1>2, <1>4, <1>6
  <2>2. IsFiniteSet(Runs(o)') /\ Cardinality(Runs(o)') = Cardinality(Runs(o)) - 1
    BY <1>1, <1>6, <2>1, FS_RemoveElement
  <2> QED
    BY <1>3, <1>6, <2>1, <2>2, FS_CardinalityType
<1>7. CASE p \notin Runs(o) /\ p \in Runs(o)'
  <2>1. Runs(o)' = Runs(o) \union {p}
    BY <1>2, <1>4, <1>7
  <2>2. IsFiniteSet(Runs(o)') /\ Cardinality(Runs(o)') = Cardinality(Runs(o)) + 1
    BY <1>1, <1>7, <2>1, FS_AddElement
  <2> QED
    BY <1>3, <1>7, <2>1, <2>2, FS_CardinalityType
<1> QED
  BY <1>5, <1>6, <1>7

\* A task that goes on keeps the accounts.
LEMMA GoesOnBalances ==
    ASSUME IInv, IInv', Accounts, NEW p \in Tasks, GoesOn(p)
    PROVE  Accounts'
<1> USE DEF Accounts, GoesOn, SameAccounts, OthersStay
<1>1. Budget' /\ RunsFinite'
  <2> SUFFICES ASSUME NEW o \in Operations
               PROVE  /\ IsFiniteSet(Runs(o)')
                      /\ served'[o] + Cardinality(Runs(o)')
                            <= IF InLinks(o)' THEN Cardinality(CompletedFor(o)') ELSE 1
    BY DEF Budget, RunsFinite
  <2>1. /\ p \notin Runs(o) => p \notin Runs(o)'
        /\ served' = served /\ served[o] \in Nat
        /\ CompletedFor(o)' = CompletedFor(o) /\ LinksFor(o)' = LinksFor(o)
    BY AccountTypes DEF Runs, CompletedFor, LinksFor, RunSteps
  <2>2. /\ Cardinality(Runs(o)') \in Nat /\ Cardinality(Runs(o)) \in Nat
        /\ IsFiniteSet(Runs(o)')
        /\ Cardinality(Runs(o)') <= Cardinality(Runs(o))
        /\ p \in Runs(o) /\ p \notin Runs(o)' => Cardinality(Runs(o)') = Cardinality(Runs(o)) - 1
    BY <2>1, RunsMove, RunsCounted
  <2>3. CASE InLinks(o)' /\ ~InLinks(o)
    <3>1. LinksFor(o) = {} /\ pc'[p] = "post" /\ op'[p] = o
      BY <2>1, <2>3 DEF InLinks
    <3>2. p \in Runs(o) /\ p \notin Runs(o)'
      BY <3>1 DEF Runs, RunSteps, LinksFor, CallbackKnowsOperation
    <3> QED
      BY <2>1, <2>2, <2>3, <3>1, <3>2, CompletedCounted DEF Budget
  <2>4. CASE ~InLinks(o)' /\ InLinks(o)
    <3>1. LinksFor(o) = {}
      BY <2>1, <2>4 DEF InLinks
    <3> QED
      BY <2>1, <2>2, <2>4, <3>1, CompletedCounted DEF Budget
  <2>5. CASE InLinks(o)' <=> InLinks(o)
    BY <2>1, <2>2, <2>5, CompletedCounted DEF Budget
  <2> QED
    BY <2>3, <2>4, <2>5
<1>2. UnaskedUntouched'
  BY DEF UnaskedUntouched
<1>3. CallbackKnowsOperation' /\ CallbacksApart'
  BY DEF CallbackKnowsOperation, CallbacksApart, CallbackSteps
<1>4. AcceptedUnused'
  <2> SUFFICES ASSUME NEW q \in Tasks, Accepted(q)' PROVE link'[q] \notin completed
    BY DEF AcceptedUnused
  <2>1. CASE q = p
    BY <2>1 DEF AcceptedUnused, Accepted, CallbackSteps, IInv, Ties, RequestNotCompleted
  <2>2. CASE q # p
    BY <2>2 DEF AcceptedUnused, Accepted
  <2> QED
    BY <2>1, <2>2
<1> QED
  BY <1>1, <1>2, <1>3, <1>4

\* One that runs its operation spends its permit.
LEMMA RunsNowBalances ==
    ASSUME IInv, IInv', Accounts, NEW p \in Tasks, RunsNow(p)
    PROVE  Accounts'
<1> USE DEF Accounts, RunsNow, OthersStay
<1>1. Budget' /\ RunsFinite'
  <2> SUFFICES ASSUME NEW o \in Operations
               PROVE  /\ IsFiniteSet(Runs(o)')
                      /\ served'[o] + Cardinality(Runs(o)')
                            <= IF InLinks(o)' THEN Cardinality(CompletedFor(o)') ELSE 1
    BY DEF Budget, RunsFinite
  <2>1. /\ p \notin Runs(o)' /\ (p \in Runs(o) <=> op[p] = o)
        /\ served'[o] = served[o] + (IF op[p] = o THEN 1 ELSE 0) /\ served[o] \in Nat
        /\ CompletedFor(o)' = CompletedFor(o) /\ LinksFor(o)' = LinksFor(o)
        /\ InLinks(o)' <=> InLinks(o)
    BY AccountTypes DEF Runs, CompletedFor, LinksFor, RunSteps, InLinks
  <2>2. /\ Cardinality(Runs(o)') \in Nat /\ Cardinality(Runs(o)) \in Nat
        /\ IsFiniteSet(Runs(o)')
        /\ Cardinality(Runs(o)') = Cardinality(Runs(o)) - (IF op[p] = o THEN 1 ELSE 0)
    BY <2>1, RunsMove, RunsCounted
  <2> QED
    BY <2>1, <2>2, CompletedCounted DEF Budget
<1>2. UnaskedUntouched'
  <2>1. op[p] \in asked
    BY AccountTypes DEF UnaskedUntouched
  <2> QED
    BY <2>1, AccountTypes DEF UnaskedUntouched
<1>3. CallbackKnowsOperation' /\ CallbacksApart' /\ AcceptedUnused'
  BY DEF CallbackKnowsOperation, CallbacksApart, CallbackSteps, AcceptedUnused, Accepted
<1> QED
  BY <1>1, <1>2, <1>3

\* One that sends a link has no permit any more, and its link is unused.
LEMMA SendsLinkBalances ==
    ASSUME IInv, IInv', Accounts, NEW p \in Tasks, SendsLink(p)
    PROVE  Accounts'
<1> USE DEF Accounts, SendsLink, OthersStay
<1>0. /\ \A l \in 1..sent : linkOp'[l] = linkOp[l]
      /\ linkOp'[sent + 1] = op[p] /\ op[p] \in Operations
      /\ 1..sent' = (1..sent) \union {sent + 1}
  BY AccountTypes
<1>1. Budget' /\ RunsFinite'
  <2> SUFFICES ASSUME NEW o \in Operations
               PROVE  /\ IsFiniteSet(Runs(o)')
                      /\ served'[o] + Cardinality(Runs(o)')
                            <= IF InLinks(o)' THEN Cardinality(CompletedFor(o)') ELSE 1
    BY DEF Budget, RunsFinite
  <2>1. /\ p \notin Runs(o)' /\ p \notin Runs(o)
        /\ served'[o] = served[o] /\ served[o] \in Nat
    BY AccountTypes DEF Runs, RunSteps
  <2>2. CompletedFor(o)' = CompletedFor(o)
    BY <1>0, AccountTypes DEF CompletedFor
  <2>3. InLinks(o)' <=> InLinks(o)
    <3>1. CASE o = op[p]
      BY <1>0, <3>1 DEF InLinks, LinksFor
    <3>2. CASE o # op[p]
      <4>1. LinksFor(o)' = LinksFor(o)
        BY <1>0, <3>2 DEF LinksFor
      <4> QED
        BY <3>2, <4>1 DEF InLinks
    <3> QED
      BY <3>1, <3>2
  <2> QED
    BY <2>1, <2>2, <2>3, RunsMove, RunsCounted, CompletedCounted DEF Budget
<1>2. UnaskedUntouched'
  BY <1>0 DEF UnaskedUntouched
<1>3. CallbackKnowsOperation' /\ CallbacksApart' /\ AcceptedUnused'
  BY <1>0 DEF CallbackKnowsOperation, CallbacksApart, CallbackSteps, AcceptedUnused, Accepted
<1> QED
  BY <1>1, <1>2, <1>3

\* One that completes its link gets the permit of that link.
LEMMA UsesLinkBalances ==
    ASSUME IInv, IInv', Accounts, NEW p \in Tasks, UsesLink(p)
    PROVE  Accounts'
<1> USE DEF Accounts, UsesLink, OthersStay
<1>0. link[p] \in 1..sent /\ linkOp[link[p]] = op[p] /\ link[p] \notin completed
  BY DEF CallbackKnowsOperation, CallbackSteps, AcceptedUnused, Accepted
<1>1. Budget' /\ RunsFinite'
  <2> SUFFICES ASSUME NEW o \in Operations
               PROVE  /\ IsFiniteSet(Runs(o)')
                      /\ served'[o] + Cardinality(Runs(o)')
                            <= IF InLinks(o)' THEN Cardinality(CompletedFor(o)') ELSE 1
    BY DEF Budget, RunsFinite
  <2>1. /\ p \notin Runs(o) /\ (p \in Runs(o)' <=> op[p] = o)
        /\ served'[o] = served[o] /\ served[o] \in Nat
        /\ LinksFor(o)' = LinksFor(o) /\ (InLinks(o)' <=> InLinks(o))
    BY AccountTypes DEF Runs, RunSteps, InLinks, LinksFor
  <2>2. CASE op[p] = o
    <3>1. InLinks(o)
      BY <1>0, <2>2 DEF InLinks, LinksFor
    <3>2. CompletedFor(o)' = CompletedFor(o) \union {link[p]} /\ link[p] \notin CompletedFor(o)
      BY <1>0, <2>2 DEF CompletedFor
    <3>3. Cardinality(CompletedFor(o)') = Cardinality(CompletedFor(o)) + 1
      BY <3>2, CompletedCounted, FS_AddElement
    <3> QED
      BY <2>1, <2>2, <3>1, <3>3, RunsMove, RunsCounted, CompletedCounted DEF Budget
  <2>3. CASE op[p] # o
    <3>1. CompletedFor(o)' = CompletedFor(o)
      BY <1>0, <2>3 DEF CompletedFor
    <3> QED
      BY <2>1, <2>3, <3>1, RunsMove, RunsCounted, CompletedCounted DEF Budget
  <2> QED
    BY <2>2, <2>3
<1>2. UnaskedUntouched'
  BY DEF UnaskedUntouched
<1>3. CallbackKnowsOperation' /\ CallbacksApart'
  BY DEF CallbackKnowsOperation, CallbacksApart, CallbackSteps
<1>4. AcceptedUnused'
  BY DEF AcceptedUnused, Accepted, CallbacksApart, CallbackSteps
<1> QED
  BY <1>1, <1>2, <1>3, <1>4

\* A new operation comes with a permit.
LEMMA AsksForBalances ==
    ASSUME IInv, IInv', Accounts, NEW p \in Tasks, NEW a \in Operations, AsksFor(p, a)
    PROVE  Accounts'
<1> USE DEF Accounts, AsksFor, OthersStay
<1>1. Budget' /\ RunsFinite'
  <2> SUFFICES ASSUME NEW o \in Operations
               PROVE  /\ IsFiniteSet(Runs(o)')
                      /\ served'[o] + Cardinality(Runs(o)')
                            <= IF InLinks(o)' THEN Cardinality(CompletedFor(o)') ELSE 1
    BY DEF Budget, RunsFinite
  <2>1. /\ p \notin Runs(o) /\ (p \in Runs(o)' <=> a = o)
        /\ served'[o] = served[o] /\ served[o] \in Nat
        /\ CompletedFor(o)' = CompletedFor(o) /\ LinksFor(o)' = LinksFor(o)
        /\ InLinks(o)' <=> InLinks(o)
    BY AccountTypes DEF Runs, RunSteps, CompletedFor, InLinks, LinksFor
  <2>2. CASE a = o
    <3>1. served[o] = 0 /\ ~InLinks(o) /\ Runs(o) = {}
      BY <2>2 DEF UnaskedUntouched, InLinks, LinksFor, Runs, RunSteps
    <3>2. Cardinality(Runs(o)) = 0
      BY <3>1, FS_EmptySet
    <3>3. IsFiniteSet(Runs(o)') /\ Cardinality(Runs(o)') = 1
      BY <2>1, <2>2, <3>2, RunsMove
    <3>4. ~InLinks(o)' /\ served'[o] = 0
      BY <2>1, <3>1
    <3> QED
      BY <3>3, <3>4
  <2>3. CASE a # o
    BY <2>1, <2>3, RunsMove, RunsCounted, CompletedCounted DEF Budget
  <2> QED
    BY <2>2, <2>3
<1>2. UnaskedUntouched'
  BY DEF UnaskedUntouched
<1>3. CallbackKnowsOperation' /\ CallbacksApart' /\ AcceptedUnused'
  BY DEF CallbackKnowsOperation, CallbacksApart, CallbackSteps, AcceptedUnused, Accepted
<1> QED
  BY <1>1, <1>2, <1>3

\* A callback that comes in has no permit yet, and its link to itself.
LEMMA OpensLinkBalances ==
    ASSUME ~OverlappingClicks, IInv, IInv', Accounts, NEW p \in Tasks, NEW l \in Links, OpensLink(p, l)
    PROVE  Accounts'
<1> USE DEF Accounts, OpensLink, SameAccounts, OthersStay
<1>1. Budget' /\ RunsFinite'
  <2> SUFFICES ASSUME NEW o \in Operations
               PROVE  /\ IsFiniteSet(Runs(o)')
                      /\ served'[o] + Cardinality(Runs(o)')
                            <= IF InLinks(o)' THEN Cardinality(CompletedFor(o)') ELSE 1
    BY DEF Budget, RunsFinite
  <2>1. /\ p \notin Runs(o) /\ p \notin Runs(o)'
        /\ served'[o] = served[o] /\ served[o] \in Nat
        /\ CompletedFor(o)' = CompletedFor(o) /\ LinksFor(o)' = LinksFor(o)
        /\ InLinks(o)' <=> InLinks(o)
    BY AccountTypes DEF Runs, RunSteps, CompletedFor, InLinks, LinksFor
  <2> QED
    BY <2>1, RunsMove, RunsCounted, CompletedCounted DEF Budget
<1>2. UnaskedUntouched'
  BY DEF UnaskedUntouched
<1>3. CallbackKnowsOperation' /\ CallbacksApart' /\ AcceptedUnused'
  BY DEF CallbackKnowsOperation, CallbacksApart, CallbackSteps, AcceptedUnused, Accepted
<1> QED
  BY <1>1, <1>2, <1>3

LEMMA NextAccounts ==
    ASSUME ~OverlappingClicks
    PROVE  IInv /\ IInv' /\ Accounts /\ [Next]_vars => Accounts'
<1> SUFFICES ASSUME IInv, IInv', Accounts, [Next]_vars PROVE Accounts'
  OBVIOUS
<1>1. CASE NobodyMoves
  <2>1. UNCHANGED <<sent, linkOp, completed, asked, served, pc, op, link>>
    BY <1>1 DEF NobodyMoves, SameAccounts, locals
  <2>2. \A o : /\ Runs(o)' = Runs(o) /\ CompletedFor(o)' = CompletedFor(o)
               /\ InLinks(o)' <=> InLinks(o)
    BY <2>1 DEF Runs, InLinks, LinksFor, CompletedFor
  <2>3. Budget' /\ RunsFinite'
    BY <2>1, <2>2 DEF Accounts, Budget, RunsFinite
  <2> QED
    BY <2>1, <2>3 DEF Accounts, UnaskedUntouched, CallbackKnowsOperation, CallbacksApart, AcceptedUnused, Accepted
<1> QED
  BY <1>1, StepKinds, GoesOnBalances, RunsNowBalances, SendsLinkBalances, UsesLinkBalances, AsksForBalances,
     OpensLinkBalances

\* However tasks, renewals, superseded links, crashes and removals interleave,
\* an operation runs once, or once for each of its links that signed the user in,
\* as long as no two callbacks of one link overlap.
THEOREM RunsArePaidFor ==
    ASSUME ~OverlappingClicks
    PROVE  Spec => []ServedOncePerSignIn
<1>1. Init => Accounts
  <2> SUFFICES ASSUME Init PROVE Accounts
    OBVIOUS
  <2>1. \A o \in Operations : Runs(o) = {} /\ served[o] = 0 /\ ~InLinks(o)
    BY DEF Init, Runs, RunSteps, InLinks, LinksFor
  <2>2. Budget /\ RunsFinite
    BY <2>1, FS_EmptySet DEF Budget, RunsFinite
  <2>3. UnaskedUntouched /\ CallbackKnowsOperation /\ CallbacksApart /\ AcceptedUnused
    BY <2>1 DEF Init, UnaskedUntouched, CallbackKnowsOperation, CallbacksApart, CallbackSteps, AcceptedUnused, Accepted
  <2> QED
    BY <2>2, <2>3 DEF Accounts
<1>2. IInv /\ IInv' /\ Accounts /\ [Next]_vars => Accounts'
  BY NextAccounts
<1>3. IInv /\ Accounts => ServedOncePerSignIn
  <2> SUFFICES ASSUME IInv, Accounts, NEW o \in Operations, served[o] > 1
               PROVE  served[o] <= Cardinality({l \in completed : linkOp[l] = o})
    BY DEF ServedOncePerSignIn
  <2>1. served[o] \in Nat /\ Cardinality(Runs(o)) \in Nat
    BY AccountTypes, RunsCounted DEF Accounts
  <2>2. served[o] <= Cardinality(CompletedFor(o))
    BY <2>1, CompletedCounted DEF Accounts, Budget
  <2> QED
    BY <2>2 DEF CompletedFor
<1> QED
  BY <1>1, <1>2, <1>3, Invariance, PTL DEF Spec

=============================================================================
