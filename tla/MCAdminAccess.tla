--------------------------- MODULE MCAdminAccess ---------------------------
(***************************************************************************)
(* Instances of AdminAccess for TLC.                                       *)
(***************************************************************************)
EXTENDS AdminAccess, TLC

CONSTANTS root, staff, troot, tstaff

OneAddress == [u \in User |-> IF u = root THEN "root@" ELSE "staff@"]
Owners == [t \in Token |-> IF t = troot THEN root ELSE staff]

\* Requests are interchangeable.
Symmetry == Permutations(Request)

EachOnce == [k \in EventKind |-> 1]
AtMost(counts) ==
    [k \in EventKind |-> IF k \in DOMAIN counts THEN counts[k] ELSE 0]
FailuresOnce == AtMost([dbError |-> 1, crash |-> 1])

=============================================================================
