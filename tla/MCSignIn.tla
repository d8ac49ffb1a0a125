------------------------------ MODULE MCSignIn ------------------------------
(* Instances of SignIn for TLC: which events happen, and how often. *)
EXTENDS SignIn, TLC

NoEvents == [k \in EventKinds |-> 0]

\* Everything may go wrong once.
Everything == [k \in EventKinds |-> 1]

\* Two of everything, but nothing dies and nobody removes credentials.
Uneventful == [k \in EventKinds |-> IF k \in {"abort", "admin_delete"} THEN 0 ELSE 2]

\* A token expires and Atlassian refuses to renew it.
FailedRefresh == [NoEvents EXCEPT !["token_expiry"] = 1, !["refresh_failure"] = 1]

Symmetric == Permutations(Tasks) \union Permutations(Operations)
=============================================================================
