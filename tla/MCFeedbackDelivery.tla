------------------------- MODULE MCFeedbackDelivery -------------------------
(***************************************************************************)
(* Instances of FeedbackDelivery for TLC.  A run picks the submissions and *)
(* how their titles relate, how many retry ticks may overlap, and the      *)
(* budget of what the environment may do.                                  *)
(***************************************************************************)
EXTENDS FeedbackDelivery, TLC

CONSTANTS f1, f2

\* Every submission comes from a site of its own, so its title is its own.
OwnTitles == [f \in Feedback |-> f]
\* All submissions come from one site.
OneTitle == [f \in Feedback |-> f1]

\* The environment does nothing but what `counts` says.
AtMost(counts) ==
    [k \in EventKind |-> IF k \in DOMAIN counts THEN counts[k] ELSE 0]

EverythingOnce == [k \in EventKind |-> 1]
Unreliable == AtMost([outage |-> 1, crash |-> 1, dbError |-> 1, externalDelete |-> 1])
TwoOutages == AtMost([outage |-> 2])
OneOutage == AtMost([outage |-> 1])
OneCrash == AtMost([crash |-> 1])
Calm == [k \in EventKind |-> 0]

-----------------------------------------------------------------------------
(* f1 alone with everything that can happen to it, or with a second        *)
(* submission of its site, and what their search for each other's tickets  *)
(* can meet.                                                               *)

Joined(f) == waiting'[f] > 0 \/ status'[f] # "none"

\* Both have the same title, so it does not matter which one comes first; of the
\* two the first one may be removed from the dashboard.
AloneOrTogether ==
    Joined(f2) =>
        /\ Joined(f1)
        /\ \A f \in Feedback : waiting'[f] = 0 \/ (waiting'[f] = 1 /\ status'[f] = "none")
        /\ removal'[<<"dashboard", f2>>] = NotRemoving
        /\ Cardinality({t \in Ticket : creator'[t] # NoFeedback}) <= 3
        /\ \A k \in EventKind \ {"outage", "lostAnswer", "gap"} : budget'[k] = Budget[k]

=============================================================================
