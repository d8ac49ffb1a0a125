--------------------------- MODULE MCKnowledgeBase ---------------------------
(* Instances of KnowledgeBase for TLC. *)
EXTENDS KnowledgeBase

CONSTANTS s1, s2, p1, p2, j1, j2

FirstSpace == [p \in Pages |-> s1]
OwnSpaces == [p \in Pages |-> IF p = p2 THEN s2 ELSE s1]

\* The order Confluence lists the pages in.
ByName == [p \in Pages |-> IF p = p2 THEN 2 ELSE 1]

\* One import of a space, updates without end, everything else once.
Once == [k \in EventKinds |-> IF k = "pull" THEN Unlimited ELSE 1]

\* An import of either space, a failure, a label, pages and spaces that go.
BothSpaces ==
    [k \in EventKinds |-> CASE k = "pull" -> Unlimited
                          [] k = "import" -> 2
                          [] k \in {"failure", "export", "trash", "label", "archive", "close"} -> 1
                          [] OTHER -> 0]

\* An import of a space that has been imported before runs into an update.
ImportsAndPulls ==
    [k \in EventKinds |-> CASE k = "import" -> 2 [] k = "pull" -> 1 [] OTHER -> 0]

=============================================================================
