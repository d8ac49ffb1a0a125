------------------------------- MODULE Access -------------------------------
(***************************************************************************)
(* What the sign-in promises one user, as if every transaction and every   *)
(* call were a single step: an operation runs with the user's token only   *)
(* if the user was signed in when it was cleared to; only a callback of    *)
(* the request on record, accepted while the user was signed out, signs    *)
(* the user in; a link is on record at most once in its life; and only a   *)
(* link that is neither on record nor about to be leaves Slack.            *)
(***************************************************************************)
EXTENDS Naturals

CONSTANTS Tasks, Operations

VARIABLES
    sent,           \* links ever sent: they are 1..sent
    shown,          \* links whose message is in Slack
    onWay,          \* links sent and not on record yet
    request,        \* the link on record
    accepted,       \* the link whose callback each task was accepted for
    used,           \* links that signed the user in
    signedIn,
    cleared,        \* tasks that may run their operation
    served          \* how often each operation ran

linkVars == <<sent, shown, onWay>>
accessVars == <<linkVars, request, accepted, used, signedIn, cleared, served>>

None == 0

Init ==
    /\ sent = 0 /\ shown = {} /\ onWay = {}
    /\ request = None
    /\ accepted = [c \in Tasks |-> None]
    /\ used = {}
    /\ signedIn = FALSE
    /\ cleared = {}
    /\ served = [o \in Operations |-> 0]

Send ==
    /\ sent' = sent + 1
    /\ shown' = shown \union {sent'}
    /\ onWay' = onWay \union {sent'}
    /\ UNCHANGED <<request, accepted, used, signedIn, cleared, served>>

Record(l) ==
    /\ l \in onWay
    /\ onWay' = onWay \ {l}
    /\ request' = l
    /\ UNCHANGED <<sent, shown, accepted, used, signedIn, cleared, served>>

Lose(l) ==
    /\ l \in onWay
    /\ onWay' = onWay \ {l}
    /\ UNCHANGED <<sent, shown, request, accepted, used, signedIn, cleared, served>>

TakeDown(l) ==
    /\ l \in shown \ onWay
    /\ l # request
    /\ shown' = shown \ {l}
    /\ UNCHANGED <<sent, onWay, request, accepted, used, signedIn, cleared, served>>

Accept(c) ==
    /\ ~signedIn
    /\ request \in (1..sent) \ (used \union onWay)
    /\ accepted[c] = None
    /\ accepted' = [accepted EXCEPT ![c] = request]
    /\ UNCHANGED <<linkVars, request, used, signedIn, cleared, served>>

Reject(c) ==
    /\ accepted[c] # None
    /\ accepted' = [accepted EXCEPT ![c] = None]
    /\ UNCHANGED <<linkVars, request, used, signedIn, cleared, served>>

SignIn(c) ==
    /\ accepted[c] # None
    /\ accepted' = [accepted EXCEPT ![c] = None]
    /\ used' = used \union {accepted[c]}
    /\ request' = None
    /\ signedIn' = TRUE
    /\ UNCHANGED <<linkVars, cleared, served>>

Clear(c) ==
    /\ signedIn
    /\ c \notin cleared
    /\ cleared' = cleared \union {c}
    /\ UNCHANGED <<linkVars, request, accepted, used, signedIn, served>>

Run(c, o) ==
    /\ c \in cleared
    /\ cleared' = cleared \ {c}
    /\ served' = [served EXCEPT ![o] = @ + 1]
    /\ UNCHANGED <<linkVars, request, accepted, used, signedIn>>

Leave(c) ==
    /\ c \in cleared
    /\ cleared' = cleared \ {c}
    /\ UNCHANGED <<linkVars, request, accepted, used, signedIn, served>>

Forget ==
    /\ signedIn \/ request # None
    /\ request' = None
    /\ signedIn' = FALSE
    /\ UNCHANGED <<linkVars, accepted, used, cleared, served>>

Next ==
    \/ Send
    \/ \E l \in 1..sent : Record(l) \/ Lose(l) \/ TakeDown(l)
    \/ \E c \in Tasks :
        \/ Accept(c) \/ Reject(c) \/ SignIn(c)
        \/ Clear(c) \/ Leave(c)
        \/ \E o \in Operations : Run(c, o)
    \/ Forget

Spec == Init /\ [][Next]_accessVars

=============================================================================
