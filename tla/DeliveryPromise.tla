--------------------------- MODULE DeliveryPromise ---------------------------
(***************************************************************************)
(* What the feedback pipeline promises about one submission, without any   *)
(* of its mechanism (requests, retry jobs, cron ticks, ClickUp calls):     *)
(*                                                                         *)
(*   - a submission is open from the moment it is saved until it is        *)
(*     delivered, given up, or removed;                                    *)
(*   - it is delivered with a ticket that really was created before;       *)
(*   - a delivered submission keeps its ticket and is never reopened: it   *)
(*     can only be removed;                                                *)
(*   - only a submission that was given up can be reopened, and only       *)
(*     without a ticket;                                                   *)
(*   - a removed submission never comes back.                              *)
(*                                                                         *)
(* FeedbackDelivery implements it when its attempts do not overlap.        *)
(***************************************************************************)
CONSTANTS Feedback,   \* submissions
          Ticket,     \* ClickUp tickets
          NoTicket    \* the null ticket id

VARIABLES
    outcome,    \* what the dashboard tells of each submission
    recorded,   \* the ticket a submission is delivered with, or NoTicket
    existing    \* the tickets created so far

vars == <<outcome, recorded, existing>>

Outcome == {"absent", "open", "delivered", "givenUp", "removed"}

Init ==
    /\ outcome = [f \in Feedback |-> "absent"]
    /\ recorded = [f \in Feedback |-> NoTicket]
    /\ existing = {}

Moves(f, from, to) ==
    /\ outcome[f] \in from
    /\ outcome' = [outcome EXCEPT ![f] = to]

Receive(f) == Moves(f, {"absent"}, "open") /\ UNCHANGED <<recorded, existing>>

Create(t) ==
    /\ t \notin existing
    /\ existing' = existing \cup {t}
    /\ UNCHANGED <<outcome, recorded>>

Deliver(f, t) ==
    /\ Moves(f, {"open"}, "delivered")
    /\ t \in existing
    /\ recorded' = [recorded EXCEPT ![f] = t]
    /\ UNCHANGED existing

GiveUp(f) == Moves(f, {"open"}, "givenUp") /\ UNCHANGED <<recorded, existing>>

Reopen(f) ==
    /\ Moves(f, {"givenUp"}, "open")
    /\ recorded[f] = NoTicket
    /\ UNCHANGED <<recorded, existing>>

Remove(f) ==
    /\ Moves(f, {"open", "delivered", "givenUp"}, "removed")
    /\ recorded' = [recorded EXCEPT ![f] = NoTicket]
    /\ UNCHANGED existing

Next ==
    \/ \E f \in Feedback : Receive(f) \/ GiveUp(f) \/ Reopen(f) \/ Remove(f)
    \/ \E f \in Feedback, t \in Ticket : Deliver(f, t)
    \/ \E t \in Ticket : Create(t)

Spec == Init /\ [][Next]_vars

=============================================================================
