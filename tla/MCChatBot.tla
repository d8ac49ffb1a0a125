------------------------------ MODULE MCChatBot ------------------------------
(* Instances of ChatBot for TLC. *)
EXTENDS ChatBot, TLC

CONSTANTS w1, w2, t1, q1, q2, q3, f1, f2, c1

OneWorker == {w1}
TwoWorkersAndWeb == {w1, w2, t1}

\* The follow-ups, and the click, are in the thread of q1.
InFirstThread == [m \in FollowUps \union Clicks |-> q1]

FirstTwice == [m \in Messages |-> IF m = f1 THEN 2 ELSE 1]

\* With one worker no question needs a sign-in.
NobodySignsIn == [k \in EventKinds |-> IF k = "sign_in" THEN 0 ELSE 1]

OneOfEach == [k \in EventKinds |-> 1]

\* Workers of the pool are alike.
WorkersAlike == Permutations(Workers)

=============================================================================
