------------------------ MODULE MCClickupConnection ------------------------
(***************************************************************************)
(* Instances of ClickupConnection for TLC.                                 *)
(***************************************************************************)
EXTENDS ClickupConnection, TLC

CONSTANTS home, other, t1, t2

\* The business's token, authorized for a second workspace as well, and one
\* authorized for that other workspace only.
BothAndOther == [t \in Token |-> IF t = t1 THEN {home, other} ELSE {other}]

\* Two tokens of one account: the second replaces the first.
SameAccount == [t \in Token |-> {home}]

\* Everything once; two reconnects, so that they can compete.
Everything == [k \in EventKind |-> IF k = "reconnect" THEN 2 ELSE 1]
AtMost(counts) ==
    [k \in EventKind |-> IF k \in DOMAIN counts THEN counts[k] ELSE 0]
RevokedOnce == AtMost([setup |-> 1, revoke |-> 1, reconnect |-> 1])

=============================================================================
