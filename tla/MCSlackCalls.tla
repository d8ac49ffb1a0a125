----------------------------- MODULE MCSlackCalls -----------------------------
(* Instances of SlackCalls for TLC. *)
EXTENDS SlackCalls, TLC

CONSTANTS m1, m2, c1, im

\* The first message goes into the channel.
Destinations == [m \in Messages |-> IF m = m1 THEN c1 ELSE im]

\* Two refreshes, two accidents, and leaving once.
OneLeave == [k \in EventKinds |-> IF k = "leave" THEN 1 ELSE 2]

\* Callers are alike.
Alike == Permutations(Callers)

=============================================================================
