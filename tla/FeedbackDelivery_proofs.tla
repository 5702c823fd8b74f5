----------------------- MODULE FeedbackDelivery_proofs -----------------------
(***************************************************************************)
(* Proofs about FeedbackDelivery, for any number of submissions, tickets,  *)
(* overlapping ticks and admins, any titles, and any number of crashes,    *)
(* outages, lost answers and gaps; then what holds besides while retry     *)
(* ticks do not overlap, and while Retry requests do not overlap either.   *)
(***************************************************************************)
EXTENDS FeedbackDelivery, TLAPS

\* A ticket a submission may be recorded with: created, of its title, and its
\* own unless both are of one search window.
Matches(t, f) ==
    /\ t \in Ticket
    /\ creator[t] \in Feedback
    /\ TitleOf[creator[t]] = TitleOf[f]
    /\ creator[t] # f => createdAt[t] = submittedAt[f]

\* What an attempt in flight knows: whose it is, that its number is counted
\* from one, that its submission was inserted, and that the ticket it is about
\* to record matches.
WellFormed(a) ==
    a.pc # "idle" =>
        /\ a.f \in Feedback
        /\ a.n >= 1
        /\ status[a.f] # "none"
        /\ a.pc \in {"link", "succeed", "adopt"} => Matches(a.ticket, a.f)

AttemptsInFlight == \A p \in Proc : WellFormed(att[p])

\* A tick only snapshots rows that were inserted.
BatchesInserted == \A k \in Tick : \A due \in batch[k] : status[due[1]] # "none"

\* Until the request has created its job, the row is as it was inserted or gone.
NoJobYet ==
    \A f \in Feedback :
        att[<<"request", f>>].pc = "job" =>
            status[f] \in {"SUBMITTED", "removed"} /\ job[f] = NoJob

\* Only created tickets exist.
LiveAreCreated == \A t \in live : creator[t] \in Feedback

\* What is recorded matches.
RecordedMatches == \A f \in Feedback : taskId[f] # NoTicket => Matches(taskId[f], f)

IInv ==
    /\ TypeOK
    /\ JobMirrorsSubmission
    /\ AttemptBudget
    /\ AttemptsInFlight
    /\ BatchesInserted
    /\ NoJobYet
    /\ LiveAreCreated
    /\ RecordedMatches

-----------------------------------------------------------------------------

(* Types: what an update does to the functions of records. *)

LEMMA StartType ==
    ASSUME TypeOK, NEW p \in Proc, NEW pc \in AttemptPc, NEW f \in Feedback,
           NEW n \in 0 .. MAX_DELIVERY_ATTEMPTS, Start(p, pc, f, n)
    PROVE  att' \in [Proc -> Attempt]
<1>1. [pc |-> pc, f |-> f, n |-> n, ticket |-> NoTicket] \in Attempt
  BY DEF Attempt
<1>2. QED
  BY <1>1 DEF TypeOK, Start

LEMMA GotoType ==
    ASSUME TypeOK, NEW p \in Proc, NEW pc \in AttemptPc, Goto(p, pc)
    PROVE  att' \in [Proc -> Attempt]
<1>1. [att[p] EXCEPT !.pc = pc] \in Attempt
  BY DEF TypeOK, Attempt
<1>2. QED
  BY <1>1 DEF TypeOK, Goto

LEMMA FinishType ==
    ASSUME TypeOK, NEW p \in Proc, Finish(p)
    PROVE  att' \in [Proc -> Attempt]
<1>1. Idle \in Attempt
  BY DeliveryAssumption DEF Attempt, Idle, AttemptPc
<1>2. QED
  BY <1>1 DEF TypeOK, Finish

LEMMA TicketType ==
    ASSUME TypeOK, NEW p \in Proc, NEW pc \in AttemptPc,
           NEW t \in Ticket \cup {NoTicket},
           att' = [att EXCEPT ![p].pc = pc, ![p].ticket = t]
    PROVE  att' \in [Proc -> Attempt]
<1>1. [att[p] EXCEPT !.pc = pc, !.ticket = t] \in Attempt
  BY DEF TypeOK, Attempt
<1>2. att' = [att EXCEPT ![p] = [att[p] EXCEPT !.pc = pc, !.ticket = t]]
  BY DEF TypeOK, Attempt
<1>3. QED
  BY <1>1, <1>2 DEF TypeOK

LEMMA SpendType ==
    ASSUME TypeOK, NEW k \in EventKind, Spend(k)
    PROVE  budget' \in [EventKind -> Nat]
BY DEF TypeOK, Spend

-----------------------------------------------------------------------------

LEMMA InitIInv == Init => IInv
<1>1. SUFFICES ASSUME Init PROVE IInv
  OBVIOUS
<1> USE <1>1, DeliveryAssumption DEF Init
<1>2. TypeOK
  BY DEF TypeOK, Period, NoJob, Idle, Job, Attempt, Removal, NotRemoving, JobStatus, AttemptPc, RemovalPc,
         FeedbackStatus, EventKind
<1>3. JobMirrorsSubmission /\ AttemptBudget
  BY DEF JobMirrorsSubmission, AttemptBudget, NoJob
<1>4. AttemptsInFlight /\ BatchesInserted /\ NoJobYet
  BY DEF AttemptsInFlight, BatchesInserted, WellFormed, NoJobYet, Idle, Proc
<1>5. LiveAreCreated /\ RecordedMatches
  BY DEF LiveAreCreated, RecordedMatches
<1>6. QED
  BY <1>2, <1>3, <1>4, <1>5 DEF IInv

-----------------------------------------------------------------------------
(* Frames: what a conjunct of the invariant does not depend on. *)

\* Row, job and recorded ticket unchanged.
LEMMA RowsFrame ==
    ASSUME IInv, UNCHANGED rows
    PROVE  JobMirrorsSubmission' /\ AttemptBudget'
BY DEF IInv, JobMirrorsSubmission, AttemptBudget, rows

\* A ticket that matches goes on matching while tickets keep their creators and
\* the submission its time of insertion.
LEMMA MatchesFrame ==
    ASSUME NEW t, NEW f, Matches(t, f), submittedAt'[f] = submittedAt[f],
           \A u \in Ticket : creator[u] \in Feedback =>
               creator'[u] = creator[u] /\ createdAt'[u] = createdAt[u]
    PROVE  Matches(t, f)'
BY DEF Matches

\* Neither what is recorded nor the tickets change, but for tickets going away.
LEMMA ClickupFrame ==
    ASSUME IInv, UNCHANGED <<taskId, submittedAt, creator, createdAt>>, live' \subseteq live
    PROVE  LiveAreCreated' /\ RecordedMatches'
BY DEF IInv, LiveAreCreated, RecordedMatches, Matches

\* Inserted submissions stay inserted, and tickets as they were created.
LEMMA WellFormedFrame ==
    ASSUME NEW a, WellFormed(a), UNCHANGED <<submittedAt, creator, createdAt>>,
           \A f \in Feedback : status[f] # "none" => status'[f] # "none"
    PROVE  WellFormed(a)'
BY DEF WellFormed, Matches

LEMMA AttemptsFrame ==
    ASSUME IInv, UNCHANGED <<submittedAt, creator, createdAt, att>>,
           \A f \in Feedback : status[f] # "none" => status'[f] # "none"
    PROVE  AttemptsInFlight'
BY WellFormedFrame DEF IInv, AttemptsInFlight, WellFormed, Matches

LEMMA BatchFrame ==
    ASSUME IInv, \A k \in Tick : batch'[k] \subseteq batch[k],
           \A f \in Feedback : status[f] # "none" => status'[f] # "none"
    PROVE  BatchesInserted'
BY DEF IInv, BatchesInserted, TypeOK

\* Only rows with a job change, or rows go, and no attempt comes to create a job.
LEMMA NoJobFrame ==
    ASSUME IInv,
           \A f \in Feedback : att'[<<"request", f>>].pc = "job" =>
               att[<<"request", f>>].pc = "job",
           \A f \in Feedback : job[f] = NoJob =>
               job'[f] = NoJob /\ (status'[f] = status[f] \/ status'[f] = "removed")
    PROVE  NoJobYet'
BY DEF IInv, NoJobYet

\* A step that only moves attempt p on, or makes it idle.
LEMMA AttemptOnly ==
    ASSUME IInv, NEW p \in Proc, NEW a \in Attempt, WellFormed(a), a.pc # "job",
           att' = [att EXCEPT ![p] = a],
           batch' \in [Tick -> SUBSET (Feedback \X (0 .. MAX_DELIVERY_ATTEMPTS - 1))],
           BatchesInserted', budget' \in [EventKind -> Nat],
           UNCHANGED <<rows, clickup, waiting, removal, resetting, now>>
    PROVE  IInv'
<1>1. TypeOK'
  BY DEF IInv, TypeOK, rows, clickup
<1>2. JobMirrorsSubmission' /\ AttemptBudget'
  BY RowsFrame
<1>3. LiveAreCreated' /\ RecordedMatches'
  BY ClickupFrame DEF rows, clickup
<1>4. AttemptsInFlight'
  <2> SUFFICES ASSUME NEW q \in Proc PROVE WellFormed(att[q])'
    BY DEF AttemptsInFlight
  <2>1. WellFormed(att'[q])
    BY DEF IInv, TypeOK, AttemptsInFlight
  <2>2. QED
    BY <2>1 DEF WellFormed, Matches, rows, clickup
<1>5. NoJobYet'
  <2>1. \A f \in Feedback : att'[<<"request", f>>].pc = "job" =>
               att[<<"request", f>>].pc = "job"
    BY DEF IInv, TypeOK, Proc
  <2>2. QED
    BY <2>1, NoJobFrame DEF rows
<1>6. QED
  BY <1>1, <1>2, <1>3, <1>4, <1>5 DEF IInv

\* Abandoning an attempt and dropping the rest of a batch is always harmless.
LEMMA IdleIsFine == Idle \in Attempt /\ WellFormed(Idle) /\ Idle.pc # "job"
BY DeliveryAssumption DEF Attempt, Idle, AttemptPc, WellFormed

-----------------------------------------------------------------------------
(* Steps of an attempt that only move the attempt on *)

\* Going on to a step that needs no ticket.
LEMMA MoveOn ==
    ASSUME IInv, NEW p \in Proc, NEW pc \in {"search", "create", "fail"},
           att[p].pc # "idle", Goto(p, pc),
           UNCHANGED <<rows, clickup, waiting, batch, removal, resetting, env>>
    PROVE  IInv'
<1> DEFINE a == [att[p] EXCEPT !.pc = pc]
<1>t. TypeOK /\ WellFormed(att[p])
  BY DEF IInv, AttemptsInFlight
<1>1. a \in Attempt /\ a.pc = pc /\ a.f = att[p].f /\ a.n = att[p].n
  BY <1>t DEF TypeOK, Attempt, AttemptPc
<1>2. att' = [att EXCEPT ![p] = a]
  BY <1>t DEF TypeOK, Goto
<1>3. WellFormed(a)
  BY <1>1, <1>t DEF WellFormed
<1>4. QED
  <2> HIDE DEF a
  <2>1. budget' \in [EventKind -> Nat]
         /\ batch' \in [Tick -> SUBSET (Feedback \X (0 .. MAX_DELIVERY_ATTEMPTS - 1))]
    BY <1>t DEF TypeOK, env
  <2>2. BatchesInserted'
    BY BatchFrame DEF rows
  <2>3. QED
    BY <1>1, <1>2, <1>3, <2>1, <2>2, AttemptOnly DEF env

\* Going on with a ticket that matches, or losing it on the way to failure.
LEMMA MoveOnWith ==
    ASSUME IInv, NEW p \in Proc, NEW pc \in {"succeed", "adopt", "fail"},
           NEW t \in Ticket \cup {NoTicket},
           att[p].pc # "idle", pc # "fail" => Matches(t, att[p].f),
           att' = [att EXCEPT ![p].pc = pc, ![p].ticket = t],
           budget' \in [EventKind -> Nat],
           UNCHANGED <<rows, clickup, waiting, batch, removal, resetting, now>>
    PROVE  IInv'
<1> DEFINE a == [att[p] EXCEPT !.pc = pc, !.ticket = t]
<1>t. TypeOK /\ WellFormed(att[p])
  BY DEF IInv, AttemptsInFlight
<1>1. a \in Attempt /\ a.pc = pc /\ a.f = att[p].f /\ a.n = att[p].n /\ a.ticket = t
  BY <1>t DEF TypeOK, Attempt, AttemptPc
<1>2. att' = [att EXCEPT ![p] = a]
  BY <1>t DEF TypeOK, Attempt
<1>3. WellFormed(a)
  BY <1>1, <1>t DEF WellFormed
<1>4. QED
  <2> HIDE DEF a
  <2>1. batch' \in [Tick -> SUBSET (Feedback \X (0 .. MAX_DELIVERY_ATTEMPTS - 1))]
    BY <1>t DEF TypeOK
  <2>2. BatchesInserted'
    BY BatchFrame DEF rows
  <2>3. QED
    BY <1>1, <1>2, <1>3, <2>1, <2>2, AttemptOnly

\* Ending an attempt, whatever happens to the tick's batch.
LEMMA GiveUpAttempt ==
    ASSUME IInv, NEW p \in Proc, Finish(p),
           \A k \in Tick : batch'[k] \subseteq batch[k],
           batch' = [k \in Tick |-> batch'[k]],
           budget' \in [EventKind -> Nat],
           UNCHANGED <<rows, clickup, waiting, removal, resetting, now>>
    PROVE  IInv'
<1>1. batch' \in [Tick -> SUBSET (Feedback \X (0 .. MAX_DELIVERY_ATTEMPTS - 1))]
  BY DEF IInv, TypeOK
<1>2. BatchesInserted'
  BY BatchFrame DEF rows
<1>3. QED
  BY <1>1, <1>2, IdleIsFine, AttemptOnly DEF Finish

LEMMA SearchStep ==
    ASSUME IInv, NEW p \in Proc, Search(p) PROVE IInv'
<1> DEFINE f == att[p].f
<1>t. TypeOK /\ WellFormed(att[p]) /\ LiveAreCreated
  BY DEF IInv, AttemptsInFlight
<1>b. budget' \in [EventKind -> Nat]
  BY <1>t DEF TypeOK, Search, env
<1>1. att[p].pc = "search" /\ f \in Feedback
  BY <1>t DEF Search, WellFormed
<1>2. CASE Goto(p, "create")
  BY <1>1, <1>2, MoveOn DEF Search
<1>3. ASSUME NEW t \in Candidates(f),
             att' = [att EXCEPT ![p].ticket = t,
                           ![p].pc = IF p[1] = "recover" THEN "adopt" ELSE "succeed"]
      PROVE  IInv'
  <2> DEFINE pc == IF p[1] = "recover" THEN "adopt" ELSE "succeed"
  <2>1. t \in Ticket /\ Matches(t, f)
    BY <1>1, <1>t DEF Candidates, Matches, LiveAreCreated, TypeOK
  <2>2. att' = [att EXCEPT ![p].pc = pc, ![p].ticket = t]
    BY <1>3, <1>t DEF TypeOK, Attempt
  <2>3. pc \in {"succeed", "adopt", "fail"}
    OBVIOUS
  <2>4. QED
    <3> HIDE DEF pc
    <3>1. QED
      BY <1>1, <1>b, <2>1, <2>2, <2>3, MoveOnWith DEF Search, env
<1>4. QED
  BY <1>2, <1>3 DEF Search

LEMMA SearchFailsStep ==
    ASSUME IInv, NEW p \in Proc, SearchFails(p) PROVE IInv'
<1>1. CASE Goto(p, "fail")
  BY <1>1, MoveOn DEF SearchFails
<1>2. CASE Finish(p)
  <2>1. TypeOK
    BY DEF IInv
  <2>2. QED
    BY <1>2, <2>1, GiveUpAttempt DEF SearchFails, env, TypeOK
<1>3. QED
  BY <1>1, <1>2 DEF SearchFails

LEMMA CreateTaskFailsStep ==
    ASSUME IInv, NEW p \in Proc, CreateTaskFails(p) PROVE IInv'
BY MoveOn DEF CreateTaskFails

LEMMA LinkCompanyStep ==
    ASSUME IInv, NEW p \in Proc, LinkCompany(p) PROVE IInv'
<1>t. TypeOK /\ WellFormed(att[p])
  BY DEF IInv, AttemptsInFlight
<1>1. att[p].pc = "link" /\ Matches(att[p].ticket, att[p].f)
  BY <1>t DEF LinkCompany, WellFormed
<1>2. att' = [att EXCEPT ![p].pc = "succeed", ![p].ticket = att[p].ticket]
  BY <1>t DEF LinkCompany, Goto, TypeOK, Attempt
<1>3. att[p].ticket \in Ticket /\ budget' \in [EventKind -> Nat]
  BY <1>1, <1>t DEF Matches, TypeOK, LinkCompany, env
<1>4. QED
  BY <1>1, <1>2, <1>3, MoveOnWith DEF LinkCompany, env

LEMMA LinkCompanyFailsStep ==
    ASSUME IInv, NEW p \in Proc, LinkCompanyFails(p) PROVE IInv'
<1>1. TypeOK
  BY DEF IInv
<1>2. budget' \in [EventKind -> Nat]
  BY <1>1, SpendType DEF TypeOK, LinkCompanyFails, env, EventKind
<1>3. QED
  BY <1>2, MoveOnWith DEF LinkCompanyFails, env

-----------------------------------------------------------------------------
(* Steps that start an attempt on a row there is *)

LEMMA StartAttempt ==
    ASSUME IInv, NEW p \in Proc, NEW pc \in {"search", "create"}, NEW f \in Feedback,
           NEW n \in 0 .. MAX_DELIVERY_ATTEMPTS, n >= 1, status[f] # "none",
           Start(p, pc, f, n),
           batch' \in [Tick -> SUBSET (Feedback \X (0 .. MAX_DELIVERY_ATTEMPTS - 1))],
           BatchesInserted',
           UNCHANGED <<rows, clickup, waiting, removal, resetting, env>>
    PROVE  IInv'
<1> DEFINE a == [pc |-> pc, f |-> f, n |-> n, ticket |-> NoTicket]
<1>1. a \in Attempt /\ WellFormed(a) /\ a.pc # "job"
  BY DEF Attempt, AttemptPc, WellFormed
<1>2. budget' \in [EventKind -> Nat]
  BY DEF IInv, TypeOK, env
<1>3. att' = [att EXCEPT ![p] = a]
  BY DEF Start
<1>4. QED
  <2> HIDE DEF a
  <2>1. QED
    BY <1>1, <1>2, <1>3, AttemptOnly DEF env

LEMMA RecoverStuckStep ==
    ASSUME IInv, NEW f \in Feedback, RecoverStuck(f) PROVE IInv'
<1>t. TypeOK /\ AttemptBudget
  BY DEF IInv
<1>1. status[f] = "SUBMITTED" /\ job[f].attempts = 1
  BY <1>t DEF RecoverStuck, IsStuck, AttemptBudget
<1>2. job[f].attempts + 1 \in 0 .. MAX_DELIVERY_ATTEMPTS /\ job[f].attempts + 1 >= 1
  BY <1>1, DeliveryAssumption
<1>3. batch' \in [Tick -> SUBSET (Feedback \X (0 .. MAX_DELIVERY_ATTEMPTS - 1))]
  BY <1>t DEF TypeOK, RecoverStuck
<1>b. BatchesInserted'
  BY BatchFrame DEF RecoverStuck, rows
<1>4. <<"recover", f>> \in Proc
  BY DEF Proc
<1>5. QED
  BY <1>1, <1>2, <1>3, <1>4, <1>b, StartAttempt DEF RecoverStuck

LEMMA NextRetryStep ==
    ASSUME IInv, NEW k \in Tick, NextRetry(k) PROVE IInv'
<1>t. TypeOK /\ BatchesInserted
  BY DEF IInv
<1>1. PICK due \in batch[k] :
         /\ Start(<<"tick", k>>, IF IsFirstRetryAttempt(due[2]) THEN "search" ELSE "create",
                  due[1], due[2] + 1)
         /\ batch' = [batch EXCEPT ![k] = @ \ {due}]
  BY DEF NextRetry
<1>2. due \in Feedback \X (0 .. MAX_DELIVERY_ATTEMPTS - 1)
  BY <1>t DEF TypeOK
<1>3. due[1] \in Feedback /\ status[due[1]] # "none"
  BY <1>2, <1>t DEF BatchesInserted
<1>4. due[2] + 1 \in 0 .. MAX_DELIVERY_ATTEMPTS /\ due[2] + 1 >= 1
  BY <1>2, DeliveryAssumption
<1>5. batch' \in [Tick -> SUBSET (Feedback \X (0 .. MAX_DELIVERY_ATTEMPTS - 1))]
  BY <1>1, <1>t DEF TypeOK
<1>6. BatchesInserted'
  BY <1>1, <1>t, BatchFrame DEF NextRetry, rows, TypeOK
<1>7. <<"tick", k>> \in Proc
  BY DEF Proc
<1>8. QED
  BY <1>1, <1>3, <1>4, <1>5, <1>6, <1>7, StartAttempt DEF NextRetry

-----------------------------------------------------------------------------
(* Creating a ticket *)

LEMMA FreshTicketIsFresh ==
    ASSUME \E t \in Ticket : creator[t] = NoFeedback
    PROVE  FreshTicket \in Ticket /\ creator[FreshTicket] = NoFeedback
BY DEF FreshTicket

\* A new ticket disturbs no ticket there was, and matches its attempt's own
\* submission.
LEMMA NewTicketFrame ==
    ASSUME IInv, NEW p \in Proc, NewTicket(p), att[p].f \in Feedback,
           UNCHANGED <<taskId, submittedAt, status>>
    PROVE  /\ creator' \in [Ticket -> Feedback \cup {NoFeedback}]
           /\ createdAt' \in [Ticket -> Period]
           /\ live' \in SUBSET Ticket
           /\ \A u \in Ticket : creator[u] \in Feedback =>
                 creator'[u] = creator[u] /\ createdAt'[u] = createdAt[u]
           /\ LiveAreCreated'
           /\ RecordedMatches'
           /\ \E t \in Ticket : t = FreshTicket
                 /\ \A f \in Feedback : f = att[p].f => Matches(t, f)'
           /\ \A a : WellFormed(a) => WellFormed(a)'
<1>t. TypeOK
  BY DEF IInv
<1>1. FreshTicket \in Ticket /\ creator[FreshTicket] = NoFeedback
  BY FreshTicketIsFresh DEF NewTicket
<1>2. PICK n \in Ticket :
         /\ n = FreshTicket /\ creator[n] = NoFeedback
         /\ creator' = [creator EXCEPT ![n] = att[p].f]
         /\ createdAt' = [createdAt EXCEPT ![n] = now]
         /\ live' = live \cup {n}
  BY <1>1 DEF NewTicket
<1>3. creator' \in [Ticket -> Feedback \cup {NoFeedback}]
  BY <1>2, <1>t DEF TypeOK
<1>4. createdAt' \in [Ticket -> Period] /\ live' \in SUBSET Ticket
  BY <1>2, <1>t DEF TypeOK
<1>5. \A u \in Ticket : creator[u] \in Feedback =>
         creator'[u] = creator[u] /\ createdAt'[u] = createdAt[u]
  BY <1>2, <1>t, DeliveryAssumption DEF TypeOK
<1>6. LiveAreCreated'
  BY <1>2, <1>5, <1>t DEF IInv, LiveAreCreated, TypeOK
<1>7. RecordedMatches'
  BY <1>5, MatchesFrame DEF IInv, RecordedMatches
<1>8. ASSUME NEW f \in Feedback, f = att[p].f PROVE Matches(n, f)'
  BY <1>8, <1>2, <1>t DEF Matches, TypeOK
<1>9. ASSUME NEW a, WellFormed(a) PROVE WellFormed(a)'
  BY <1>5, <1>9, MatchesFrame DEF WellFormed
<1>10. QED
  BY <1>3, <1>4, <1>5, <1>2, <1>6, <1>7, <1>8, <1>9

LEMMA CreationStep ==
    ASSUME IInv, NEW p \in Proc, NEW a \in Attempt, att[p].f \in Feedback, NewTicket(p),
           WellFormed(a)', a.pc # "job", att' = [att EXCEPT ![p] = a],
           budget' \in [EventKind -> Nat],
           UNCHANGED <<rows, up, waiting, batch, removal, resetting, now>>
    PROVE  IInv'
<1>t. TypeOK
  BY DEF IInv
<1>1. /\ creator' \in [Ticket -> Feedback \cup {NoFeedback}]
      /\ createdAt' \in [Ticket -> Period]
      /\ live' \in SUBSET Ticket
      /\ LiveAreCreated' /\ RecordedMatches'
      /\ \A b : WellFormed(b) => WellFormed(b)'
  BY NewTicketFrame DEF rows
<1>2. TypeOK'
  BY <1>1, <1>t DEF TypeOK, rows
<1>3. JobMirrorsSubmission' /\ AttemptBudget'
  BY RowsFrame
<1>4. AttemptsInFlight'
  <2> SUFFICES ASSUME NEW q \in Proc PROVE WellFormed(att[q])'
    BY DEF AttemptsInFlight
  <2>1. CASE q = p
    BY <2>1, <1>t DEF TypeOK, WellFormed, Matches
  <2>2. CASE q # p
    <3>1. att'[q] = att[q] /\ WellFormed(att[q])
      BY <2>2, <1>t DEF TypeOK, IInv, AttemptsInFlight
    <3>2. PICK b : b = att[q] /\ b = att'[q]
      BY <3>1
    <3>3. WellFormed(b)'
      BY <3>1, <3>2, <1>1
    <3>4. QED
      BY <3>2, <3>3 DEF WellFormed, Matches
  <2>3. QED
    BY <2>1, <2>2
<1>5. NoJobYet'
  <2>1. \A f \in Feedback : att'[<<"request", f>>].pc = "job" =>
               att[<<"request", f>>].pc = "job"
    BY <1>t DEF TypeOK, Proc
  <2>2. QED
    BY <2>1, NoJobFrame DEF rows
<1>6. BatchesInserted'
  BY BatchFrame DEF rows
<1>7. QED
  BY <1>1, <1>2, <1>3, <1>4, <1>5, <1>6 DEF IInv

LEMMA CreateTaskStep ==
    ASSUME IInv, NEW p \in Proc, CreateTask(p) PROVE IInv'
<1>t. TypeOK /\ WellFormed(att[p]) /\ att[p] \in Attempt
  BY DEF IInv, AttemptsInFlight, TypeOK
<1>1. att[p].f \in Feedback /\ att[p].n >= 1 /\ status[att[p].f] # "none"
  BY <1>t DEF WellFormed, CreateTask
<1>2. PICK t \in Ticket :
         t = FreshTicket /\ \A f \in Feedback : f = att[p].f => Matches(t, f)'
  BY <1>1, NewTicketFrame DEF CreateTask, rows
<1>3. PICK a : a = [att[p] EXCEPT !.pc = "link", !.ticket = t]
  OBVIOUS
<1>4. /\ a \in Attempt
      /\ a.pc = "link" /\ a.f = att[p].f /\ a.n = att[p].n /\ a.ticket = t
  BY <1>3, <1>t DEF Attempt, AttemptPc
<1>5. att' = [att EXCEPT ![p] = a]
  BY <1>2, <1>3, <1>t DEF CreateTask, TypeOK, Attempt
<1>6. WellFormed(a)'
  BY <1>1, <1>2, <1>4 DEF WellFormed, CreateTask, rows
<1>7. budget' \in [EventKind -> Nat]
  BY <1>t DEF TypeOK, CreateTask, env
<1>8. QED
  BY <1>1, <1>4, <1>5, <1>6, <1>7, CreationStep DEF CreateTask, env

LEMMA CreateTaskLosesAnswerStep ==
    ASSUME IInv, NEW p \in Proc, CreateTaskLosesAnswer(p) PROVE IInv'
<1>t. TypeOK /\ WellFormed(att[p]) /\ att[p] \in Attempt
  BY DEF IInv, AttemptsInFlight, TypeOK
<1>1. att[p].f \in Feedback /\ att[p].n >= 1 /\ status[att[p].f] # "none"
  BY <1>t DEF WellFormed, CreateTaskLosesAnswer
<1>2. PICK a : a = [att[p] EXCEPT !.pc = "fail"]
  OBVIOUS
<1>3. a \in Attempt /\ a.pc = "fail" /\ a.f = att[p].f /\ a.n = att[p].n
  BY <1>2, <1>t DEF Attempt, AttemptPc
<1>4. att' = [att EXCEPT ![p] = a]
  BY <1>2, <1>t DEF CreateTaskLosesAnswer, Goto, TypeOK
<1>5. WellFormed(a)'
  BY <1>1, <1>3 DEF WellFormed, CreateTaskLosesAnswer, rows
<1>6. budget' \in [EventKind -> Nat]
  BY <1>t, SpendType DEF CreateTaskLosesAnswer, EventKind
<1>7. QED
  BY <1>1, <1>3, <1>4, <1>5, <1>6, CreationStep DEF CreateTaskLosesAnswer

-----------------------------------------------------------------------------
(* Steps that write a row and its job *)

\* The row s, job j and ticket t that a transaction leaves behind agree.
Agree(s, j, t) ==
    /\ j.externalId = t
    /\ s \in {"none", "removed"} => j = NoJob
    /\ s = "SUBMITTED" => j.status \in {"none", "PROCESSING"}
    /\ s = "DELIVERY_PENDING" => j.status = "RETRYING"
    /\ s = "DELIVERED" => j.status = "SUCCEEDED" /\ t # NoTicket
    /\ s = "DELIVERY_FAILED" => j.status = "FAILED"
    /\ j.status = "PROCESSING" => j.attempts = 1
    /\ j.status = "RETRYING" => j.attempts < MAX_DELIVERY_ATTEMPTS
    /\ j.status = "FAILED" => j.attempts = MAX_DELIVERY_ATTEMPTS

LEMMA RowsAgree ==
    ASSUME IInv, NEW f \in Feedback PROVE Agree(status[f], job[f], taskId[f])
BY DEF IInv, JobMirrorsSubmission, AttemptBudget, Agree

\* A transaction that leaves them agreeing, and that does not invent a ticket.
LEMMA RowWritten ==
    ASSUME IInv, NEW f \in Feedback, NEW s \in (FeedbackStatus \cup {"removed"}),
           NEW j \in Job, NEW t \in Ticket \cup {NoTicket},
           status' = [status EXCEPT ![f] = s], job' = [job EXCEPT ![f] = j],
           taskId' = [taskId EXCEPT ![f] = t],
           Agree(s, j, t), t # NoTicket => Matches(t, f),
           UNCHANGED <<submittedAt, clickup>>
    PROVE  /\ status' \in [Feedback -> FeedbackStatus \cup {"none", "removed"}]
           /\ taskId' \in [Feedback -> Ticket \cup {NoTicket}]
           /\ job' \in [Feedback -> Job]
           /\ JobMirrorsSubmission' /\ AttemptBudget' /\ LiveAreCreated' /\ RecordedMatches'
           /\ \A g \in Feedback : status[g] # "none" => status'[g] # "none"
<1>t. TypeOK /\ LiveAreCreated /\ RecordedMatches
  BY DEF IInv
<1>1. /\ status' \in [Feedback -> FeedbackStatus \cup {"none", "removed"}]
      /\ taskId' \in [Feedback -> Ticket \cup {NoTicket}]
      /\ job' \in [Feedback -> Job]
  BY <1>t DEF TypeOK
<1>2. \A g \in Feedback : Agree(status'[g], job'[g], taskId'[g])
  BY <1>t, RowsAgree DEF TypeOK
<1>3. JobMirrorsSubmission' /\ AttemptBudget'
  BY <1>2 DEF JobMirrorsSubmission, AttemptBudget, Agree
<1>4. LiveAreCreated'
  BY <1>t DEF LiveAreCreated, clickup
<1>5. RecordedMatches'
  BY <1>t DEF RecordedMatches, Matches, TypeOK, clickup
<1>6. \A g \in Feedback : status[g] # "none" => status'[g] # "none"
  BY <1>t DEF TypeOK, FeedbackStatus
<1>7. QED
  BY <1>1, <1>3, <1>4, <1>5, <1>6

\* The same, when the step also ends or moves on attempts.
LEMMA RowStep ==
    ASSUME IInv, NEW f \in Feedback, NEW s \in (FeedbackStatus \cup {"removed"}),
           NEW j \in Job, NEW t \in Ticket \cup {NoTicket},
           status' = [status EXCEPT ![f] = s], job' = [job EXCEPT ![f] = j],
           taskId' = [taskId EXCEPT ![f] = t],
           Agree(s, j, t), t # NoTicket => Matches(t, f),
           UNCHANGED <<submittedAt, clickup, waiting, batch, now>>,
           att' \in [Proc -> Attempt],
           \A p \in Proc : att'[p].pc # "idle" =>
               WellFormed(att'[p]) /\ (att'[p].pc = "job" => att[p].pc = "job"),
           \/ job[f] # NoJob
           \/ att'[<<"request", f>>].pc # "job"
           \/ s = "removed",
           removal' \in [Remover -> Removal],
           resetting' \in [Admin -> Feedback \cup {NoFeedback}],
           budget' \in [EventKind -> Nat]
    PROVE  IInv'
<1>t. TypeOK /\ NoJobYet
  BY DEF IInv
<1>1. /\ status' \in [Feedback -> FeedbackStatus \cup {"none", "removed"}]
      /\ taskId' \in [Feedback -> Ticket \cup {NoTicket}]
      /\ job' \in [Feedback -> Job]
      /\ JobMirrorsSubmission' /\ AttemptBudget' /\ LiveAreCreated' /\ RecordedMatches'
      /\ \A g \in Feedback : status[g] # "none" => status'[g] # "none"
  BY RowWritten
<1>2. TypeOK'
  BY <1>1, <1>t DEF TypeOK, clickup
<1>3. AttemptsInFlight'
  BY <1>1 DEF AttemptsInFlight, WellFormed, Matches, clickup
<1>4. BatchesInserted'
  BY <1>1, BatchFrame
<1>5. NoJobYet'
  <2> SUFFICES ASSUME NEW g \in Feedback, att'[<<"request", g>>].pc = "job"
               PROVE  status'[g] \in {"SUBMITTED", "removed"} /\ job'[g] = NoJob
    BY DEF NoJobYet
  <2>1. <<"request", g>> \in Proc
    BY DEF Proc
  <2>2. att[<<"request", g>>].pc = "job"
    BY <2>1
  <2>3. status[g] \in {"SUBMITTED", "removed"} /\ job[g] = NoJob
    BY <2>2, <1>t DEF NoJobYet
  <2>4. CASE g # f
    BY <2>3, <2>4, <1>t DEF TypeOK
  <2>5. CASE g = f
    <3>1. s = "removed"
      BY <2>3, <2>5
    <3>2. QED
      BY <3>1, <2>5, <1>t DEF TypeOK, Agree
  <2>6. QED
    BY <2>4, <2>5
<1>6. QED
  BY <1>1, <1>2, <1>3, <1>4, <1>5 DEF IInv

\* A step that ends attempt p leaves the others, and the idle one knows nothing.
LEMMA OthersGoOn ==
    ASSUME IInv, NEW p \in Proc, Finish(p)
    PROVE  /\ att' \in [Proc -> Attempt]
           /\ att'[p].pc = "idle"
           /\ \A q \in Proc : att'[q].pc # "idle" =>
                 WellFormed(att'[q]) /\ (att'[q].pc = "job" => att[q].pc = "job")
<1>1. TypeOK /\ AttemptsInFlight
  BY DEF IInv
<1>2. att' \in [Proc -> Attempt]
  BY <1>1, FinishType
<1>3. QED
  BY <1>1, <1>2 DEF Finish, TypeOK, AttemptsInFlight, Idle

\* An update that throws.
LEMMA RecordThrowsStep ==
    ASSUME IInv, NEW p \in Proc, att[p].pc \in {"succeed", "adopt"}, RecordThrows(p),
           budget' \in [EventKind -> Nat],
           UNCHANGED <<clickup, waiting, batch, removal, resetting, now>>
    PROVE  IInv'
<1>1. CASE Finish(p)
  <2>1. TypeOK
    BY DEF IInv
  <2>2. QED
    BY <1>1, <2>1, GiveUpAttempt DEF RecordThrows, TypeOK
<1>2. CASE att' = [att EXCEPT ![p].pc = "fail", ![p].ticket = NoTicket]
  BY <1>2, MoveOnWith DEF RecordThrows
<1>3. QED
  BY <1>1, <1>2 DEF RecordThrows

LEMMA RecordSuccessStep ==
    ASSUME IInv, NEW p \in Proc, RecordSuccess(p) PROVE IInv'
<1> DEFINE f == att[p].f
           t == att[p].ticket
           j == [job[f] EXCEPT !.status = "SUCCEEDED", !.externalId = t]
<1>t. TypeOK /\ WellFormed(att[p])
  BY DEF IInv, AttemptsInFlight
<1>1. att[p].pc \in {"succeed", "adopt"} /\ f \in Feedback /\ Matches(t, f) /\ t \in Ticket
  BY <1>t DEF RecordSuccess, WellFormed, Matches
<1>2. CASE /\ RowsExist(f)
           /\ RecordedAs(p, "DELIVERED", j)
           /\ taskId' = [taskId EXCEPT ![f] = t]
           /\ Finish(p)
           /\ UNCHANGED <<submittedAt, env>>
  <2>1. j \in Job /\ j.externalId = t /\ j.status = "SUCCEEDED"
    <3>1. job[f] \in Job
      BY <1>1, <1>t DEF TypeOK
    <3>2. QED
      BY <3>1, <1>1 DEF Job, JobStatus
  <2>2. Agree("DELIVERED", j, t)
    BY <2>1, <1>1, DeliveryAssumption DEF Agree
  <2>3. job[f] # NoJob
    BY <1>2 DEF RowsExist, NoJob
  <2>4. /\ status' = [status EXCEPT ![f] = "DELIVERED"]
        /\ job' = [job EXCEPT ![f] = j]
    BY <1>2 DEF RecordedAs
  <2>5. /\ removal' \in [Remover -> Removal]
        /\ resetting' \in [Admin -> Feedback \cup {NoFeedback}]
        /\ budget' \in [EventKind -> Nat]
        /\ UNCHANGED <<submittedAt, clickup, waiting, batch, now>>
    BY <1>2, <1>t DEF TypeOK, env, RecordSuccess
  <2>6. "DELIVERED" \in FeedbackStatus \cup {"removed"}
    BY DEF FeedbackStatus
  <2>7. QED
    <3> HIDE DEF j, f, t
    <3>1. taskId' = [taskId EXCEPT ![f] = t] /\ Finish(p)
      BY <1>2
    <3>2. QED
      BY <1>1, <2>1, <2>2, <2>3, <2>4, <2>5, <2>6, <3>1, OthersGoOn, RowStep
<1>3. CASE RecordThrows(p) /\ UNCHANGED env
  <2>1. budget' \in [EventKind -> Nat]
    BY <1>3, <1>t DEF TypeOK, env
  <2>2. QED
    BY <1>1, <1>3, <2>1, RecordThrowsStep DEF RecordSuccess, env
<1>4. CASE Spend("dbError") /\ RecordThrows(p) /\ UNCHANGED now
  <2>1. budget' \in [EventKind -> Nat]
    BY <1>4, <1>t, SpendType DEF EventKind
  <2>2. QED
    BY <1>1, <1>4, <2>1, RecordThrowsStep DEF RecordSuccess
<1>5. QED
  BY <1>2, <1>3, <1>4 DEF RecordSuccess

LEMMA RecordFailureStep ==
    ASSUME IInv, NEW p \in Proc, RecordFailure(p) PROVE IInv'
<1> DEFINE f == att[p].f
           failed == [job[f] EXCEPT !.attempts = att[p].n, !.due = FALSE]
<1>t. TypeOK /\ WellFormed(att[p]) /\ RecordedMatches
  BY DEF IInv, AttemptsInFlight
<1>1. att[p].pc = "fail" /\ f \in Feedback /\ att[p].n \in 0 .. MAX_DELIVERY_ATTEMPTS
  BY <1>t DEF RecordFailure, WellFormed, TypeOK, Attempt
<1>2. ASSUME RowsExist(f), NEW s \in {"DELIVERY_FAILED", "DELIVERY_PENDING"},
             NEW js \in {"FAILED", "RETRYING"},
             s = "DELIVERY_FAILED" => js = "FAILED" /\ att[p].n >= MAX_DELIVERY_ATTEMPTS,
             s = "DELIVERY_PENDING" => js = "RETRYING" /\ ~(att[p].n >= MAX_DELIVERY_ATTEMPTS),
             RecordedAs(p, s, [failed EXCEPT !.status = js]),
             Finish(p), UNCHANGED <<taskId, submittedAt, batch, env>>
      PROVE  IInv'
  <2>1. PICK j : j = [failed EXCEPT !.status = js]
    OBVIOUS
  <2>2. /\ j \in Job /\ j.status = js /\ j.attempts = att[p].n
        /\ j.externalId = job[f].externalId
    <3>1. job[f] \in Job
      BY <1>1, <1>t DEF TypeOK
    <3>2. QED
      BY <3>1, <1>1, <2>1 DEF Job, JobStatus
  <2>3. Agree(s, j, taskId[f])
    <3>1. job[f].externalId = taskId[f]
      BY <1>1, RowsAgree DEF Agree
    <3>2. att[p].n >= MAX_DELIVERY_ATTEMPTS => att[p].n = MAX_DELIVERY_ATTEMPTS
      BY <1>1, DeliveryAssumption
    <3>3. ~(att[p].n >= MAX_DELIVERY_ATTEMPTS) => att[p].n < MAX_DELIVERY_ATTEMPTS
      BY <1>1, DeliveryAssumption
    <3>4. QED
      BY <1>2, <2>2, <3>1, <3>2, <3>3 DEF Agree
  <2>4. job[f] # NoJob
    BY <1>2 DEF RowsExist, NoJob
  <2>5. /\ status' = [status EXCEPT ![f] = s]
        /\ job' = [job EXCEPT ![f] = j]
        /\ taskId' = [taskId EXCEPT ![f] = taskId[f]]
    BY <1>2, <2>1, <1>t DEF RecordedAs, TypeOK
  <2>6. /\ removal' \in [Remover -> Removal]
        /\ resetting' \in [Admin -> Feedback \cup {NoFeedback}]
        /\ budget' \in [EventKind -> Nat]
        /\ UNCHANGED <<submittedAt, clickup, waiting, batch, now>>
    BY <1>2, <1>t DEF TypeOK, env, RecordFailure
  <2>7. s \in FeedbackStatus \cup {"removed"} /\ taskId[f] \in Ticket \cup {NoTicket}
    BY <1>1, <1>t DEF FeedbackStatus, TypeOK
  <2>8. taskId[f] # NoTicket => Matches(taskId[f], f)
    BY <1>1, <1>t DEF RecordedMatches
  <2>9. QED
    <3> HIDE DEF f
    <3>1. QED
      BY <1>1, <1>2, <2>2, <2>3, <2>4, <2>5, <2>6, <2>7, <2>8, OthersGoOn, RowStep
<1>3. ASSUME AttemptThrows(p), budget' \in [EventKind -> Nat], UNCHANGED now
      PROVE  IInv'
  BY <1>3, <1>t, GiveUpAttempt DEF AttemptThrows, RecordFailure, TypeOK
<1>4. UNCHANGED env => budget' \in [EventKind -> Nat] /\ UNCHANGED now
  BY <1>t DEF env, TypeOK
<1>5. Spend("dbError") => budget' \in [EventKind -> Nat]
  BY <1>t, SpendType DEF EventKind
<1>6. QED
  BY <1>2, <1>3, <1>4, <1>5 DEF RecordFailure, Exhausted

\* A step that writes no row, starts no attempt and creates no ticket.
LEMMA QuietStep ==
    ASSUME IInv, up' \in BOOLEAN, live' \subseteq live,
           waiting' \in [Feedback -> 0 .. MaxRequests],
           batch' \in [Tick -> SUBSET (Feedback \X (0 .. MAX_DELIVERY_ATTEMPTS - 1))],
           BatchesInserted',
           removal' \in [Remover -> Removal],
           resetting' \in [Admin -> Feedback \cup {NoFeedback}],
           now' \in Period, budget' \in [EventKind -> Nat],
           UNCHANGED <<rows, creator, createdAt, att>>
    PROVE  IInv'
<1>1. TypeOK'
  BY DEF IInv, TypeOK, rows
<1>2. JobMirrorsSubmission' /\ AttemptBudget'
  BY RowsFrame
<1>3. LiveAreCreated' /\ RecordedMatches'
  BY ClickupFrame DEF rows
<1>4. AttemptsInFlight'
  BY AttemptsFrame DEF rows
<1>5. NoJobYet'
  BY NoJobFrame DEF rows
<1>6. QED
  BY <1>1, <1>2, <1>3, <1>4, <1>5 DEF IInv

\* The same, when the batches stay as well.
LEMMA QuieterStep ==
    ASSUME IInv, up' \in BOOLEAN, live' \subseteq live,
           waiting' \in [Feedback -> 0 .. MaxRequests],
           removal' \in [Remover -> Removal],
           resetting' \in [Admin -> Feedback \cup {NoFeedback}],
           now' \in Period, budget' \in [EventKind -> Nat],
           UNCHANGED <<rows, creator, createdAt, att, batch>>
    PROVE  IInv'
<1>1. batch' \in [Tick -> SUBSET (Feedback \X (0 .. MAX_DELIVERY_ATTEMPTS - 1))]
  BY DEF IInv, TypeOK
<1>2. BatchesInserted'
  BY BatchFrame DEF rows
<1>3. QED
  BY <1>1, <1>2, QuietStep

\* Writing a row outside any attempt.
LEMMA RowOnly ==
    ASSUME IInv, NEW f \in Feedback, NEW s \in (FeedbackStatus \cup {"removed"}),
           NEW j \in Job, NEW t \in Ticket \cup {NoTicket},
           status' = [status EXCEPT ![f] = s], job' = [job EXCEPT ![f] = j],
           taskId' = [taskId EXCEPT ![f] = t],
           Agree(s, j, t), t # NoTicket => t = taskId[f],
           job[f] # NoJob \/ s = "removed",
           removal' \in [Remover -> Removal],
           resetting' \in [Admin -> Feedback \cup {NoFeedback}],
           UNCHANGED <<submittedAt, clickup, waiting, att, batch, env>>
    PROVE  IInv'
<1>1. TypeOK /\ AttemptsInFlight /\ RecordedMatches
  BY DEF IInv
<1>2. t # NoTicket => Matches(t, f)
  BY <1>1 DEF RecordedMatches
<1>3. /\ att' \in [Proc -> Attempt]
      /\ budget' \in [EventKind -> Nat]
      /\ \A p \in Proc : att'[p].pc # "idle" =>
            WellFormed(att'[p]) /\ (att'[p].pc = "job" => att[p].pc = "job")
  BY <1>1 DEF TypeOK, AttemptsInFlight, env
<1>4. QED
  BY <1>2, <1>3, RowStep DEF env

LEMMA BackoffElapsesStep ==
    ASSUME IInv, NEW f \in Feedback, BackoffElapses(f) PROVE IInv'
<1>t. TypeOK
  BY DEF IInv
<1>1. PICK j : j = [job[f] EXCEPT !.due = TRUE]
  OBVIOUS
<1>2. job[f] \in Job /\ job[f].status = "RETRYING"
  BY <1>t DEF TypeOK, BackoffElapses
<1>3. /\ j \in Job /\ j.status = "RETRYING" /\ j.attempts = job[f].attempts
      /\ j.externalId = job[f].externalId
  BY <1>1, <1>2 DEF Job
<1>4. job[f] # NoJob
  BY <1>2 DEF NoJob
<1>5. Agree(status[f], job[f], taskId[f])
  BY RowsAgree
<1>6. status[f] \in FeedbackStatus \cup {"removed"} /\ taskId[f] \in Ticket \cup {NoTicket}
  BY <1>4, <1>5, <1>t DEF TypeOK, Agree
<1>7. Agree(status[f], j, taskId[f])
  BY <1>3, <1>4, <1>5, <1>2 DEF Agree
<1>8. /\ status' = [status EXCEPT ![f] = status[f]]
      /\ job' = [job EXCEPT ![f] = j]
      /\ taskId' = [taskId EXCEPT ![f] = taskId[f]]
  BY <1>1, <1>t DEF BackoffElapses, TypeOK
<1>9. QED
  BY <1>3, <1>4, <1>6, <1>7, <1>8, <1>t, RowOnly DEF BackoffElapses, memory, TypeOK

LEMMA WriteRetryStep ==
    ASSUME IInv, NEW a \in Admin, WriteRetry(a) PROVE IInv'
<1> DEFINE f == resetting[a]
<1>t. TypeOK
  BY DEF IInv
<1>1. f \in Feedback /\ resetting' \in [Admin -> Feedback \cup {NoFeedback}]
  BY <1>t DEF TypeOK, WriteRetry
<1>2. CASE /\ RowsExist(f)
           /\ job' = [job EXCEPT ![f].status = "RETRYING", ![f].attempts = 0,
                                 ![f].due = TRUE]
           /\ status' = [status EXCEPT ![f] = "DELIVERY_PENDING"]
  <2>1. PICK j : j = [job[f] EXCEPT !.status = "RETRYING", !.attempts = 0, !.due = TRUE]
    OBVIOUS
  <2>2. job[f] \in Job
    BY <1>1, <1>t DEF TypeOK
  <2>3. j \in Job /\ j.status = "RETRYING" /\ j.attempts = 0 /\ j.externalId = job[f].externalId
    <3>1. 0 \in 0 .. MAX_DELIVERY_ATTEMPTS
      BY DeliveryAssumption
    <3>2. QED
      BY <2>1, <2>2, <3>1 DEF Job, JobStatus
  <2>4. job[f] # NoJob
    BY <1>2 DEF RowsExist, NoJob
  <2>5. Agree(status[f], job[f], taskId[f])
    BY <1>1, RowsAgree
  <2>6. Agree("DELIVERY_PENDING", j, taskId[f])
    BY <2>3, <2>5, DeliveryAssumption DEF Agree
  <2>7. job' = [job EXCEPT ![f] = j]
    BY <1>2, <2>1, <2>2, <1>t DEF TypeOK, Job
  <2>8. /\ taskId[f] \in Ticket \cup {NoTicket}
        /\ taskId' = [taskId EXCEPT ![f] = taskId[f]]
        /\ removal' \in [Remover -> Removal]
        /\ "DELIVERY_PENDING" \in FeedbackStatus \cup {"removed"}
    BY <1>1, <1>t DEF WriteRetry, TypeOK, FeedbackStatus
  <2>9. QED
    <3> HIDE DEF f
    <3>1. QED
      BY <1>1, <1>2, <2>3, <2>4, <2>6, <2>7, <2>8, RowOnly DEF WriteRetry
<1>3. CASE UNCHANGED <<job, status>>
  BY <1>1, <1>3, <1>t, QuieterStep DEF WriteRetry, TypeOK, rows, clickup, env
<1>4. QED
  BY <1>2, <1>3 DEF WriteRetry

LEMMA DeleteRowStep ==
    ASSUME IInv, NEW r \in Remover, DeleteRow(r) PROVE IInv'
<1> DEFINE f == r[2]
<1>t. TypeOK
  BY DEF IInv
<1>1. f \in Feedback
  BY DEF Remover
<1>2. removal' \in [Remover -> Removal]
  <2>1. NotRemoving \in Removal
    BY DEF NotRemoving, Removal, RemovalPc
  <2>2. QED
    BY <2>1, <1>t DEF TypeOK, DeleteRow
<1>3. CASE /\ status' = [status EXCEPT ![f] = "removed"]
           /\ taskId' = [taskId EXCEPT ![f] = NoTicket]
           /\ job' = [job EXCEPT ![f] = NoJob]
  <2>1. NoJob \in Job
    BY DeliveryAssumption DEF NoJob, Job, JobStatus
  <2>2. Agree("removed", NoJob, NoTicket)
    BY DEF Agree, NoJob
  <2>3. resetting' \in [Admin -> Feedback \cup {NoFeedback}]
    BY <1>t DEF TypeOK, DeleteRow
  <2>4. QED
    <3> HIDE DEF f
    <3>1. QED
      BY <1>1, <1>2, <1>3, <2>1, <2>2, <2>3, RowOnly DEF DeleteRow
<1>4. CASE UNCHANGED <<status, taskId, job>>
  BY <1>2, <1>4, QuieterStep, <1>t DEF DeleteRow, rows, clickup, env, TypeOK
<1>5. QED
  BY <1>3, <1>4 DEF DeleteRow

-----------------------------------------------------------------------------
(* The request *)

LEMMA SubmitStep ==
    ASSUME IInv, NEW f \in Feedback, Submit(f) PROVE IInv'
<1>t. TypeOK
  BY DEF IInv
<1>1. waiting' \in [Feedback -> 0 .. MaxRequests]
  BY <1>t, DeliveryAssumption DEF TypeOK, Submit
<1>2. QED
  BY <1>1, <1>t, QuieterStep DEF Submit, rows, clickup, env, TypeOK

LEMMA CreateInitialJobStep ==
    ASSUME IInv, NEW f \in Feedback, CreateInitialJob(f) PROVE IInv'
<1> DEFINE p == <<"request", f>>
<1>t. TypeOK /\ NoJobYet /\ WellFormed(att[p])
  BY DEF IInv, AttemptsInFlight, Proc
<1>1. p \in Proc /\ att[p].pc = "job"
  BY DEF Proc, CreateInitialJob
<1>2. status[f] \in {"SUBMITTED", "removed"} /\ job[f] = NoJob
  BY <1>1, <1>t DEF NoJobYet
<1>3. CASE /\ Exists(f)
           /\ job' = [job EXCEPT ![f] = [NoJob EXCEPT !.status = "PROCESSING",
                                                      !.attempts = 1]]
           /\ Goto(p, "create")
           /\ UNCHANGED env
  <2>1. PICK j : j = [NoJob EXCEPT !.status = "PROCESSING", !.attempts = 1]
    OBVIOUS
  <2>2. /\ j.status = "PROCESSING" /\ j.attempts = 1 /\ j.externalId = NoTicket
        /\ j.due = FALSE /\ j = [status |-> "PROCESSING", attempts |-> 1,
                                 due |-> FALSE, externalId |-> NoTicket]
    BY <2>1 DEF NoJob
  <2>3. j \in Job
    <3>1. 1 \in 0 .. MAX_DELIVERY_ATTEMPTS
      BY DeliveryAssumption
    <3>2. QED
      BY <2>2, <3>1 DEF Job, JobStatus
  <2>4. status[f] = "SUBMITTED"
    BY <1>2, <1>3 DEF Exists, FeedbackStatus
  <2>5. taskId[f] = NoTicket
    BY <1>2, RowsAgree DEF Agree, NoJob
  <2>6. Agree("SUBMITTED", j, NoTicket)
    BY <2>2 DEF Agree
  <2>7. /\ status' = [status EXCEPT ![f] = "SUBMITTED"]
        /\ job' = [job EXCEPT ![f] = j]
        /\ taskId' = [taskId EXCEPT ![f] = NoTicket]
    BY <1>3, <2>1, <2>4, <2>5, <1>t DEF TypeOK, CreateInitialJob
  <2>8. att' \in [Proc -> Attempt]
    BY <1>1, <1>3, <1>t, GotoType DEF AttemptPc
  <2>9. att'[p].pc = "create"
    BY <1>1, <1>3, <1>t DEF Goto, TypeOK, Attempt
  <2>10. \A q \in Proc : att'[q].pc # "idle" =>
            WellFormed(att'[q]) /\ (att'[q].pc = "job" => att[q].pc = "job")
    <3> SUFFICES ASSUME NEW q \in Proc, att'[q].pc # "idle"
                 PROVE  WellFormed(att'[q]) /\ (att'[q].pc = "job" => att[q].pc = "job")
      OBVIOUS
    <3>1. CASE q = p
      <4>1. att'[p].f = att[p].f /\ att'[p].n = att[p].n
        BY <1>1, <1>3, <1>t DEF Goto, TypeOK, Attempt
      <4>2. QED
        <5> HIDE DEF p
        <5>1. QED
          BY <1>1, <1>t, <2>9, <3>1, <4>1 DEF WellFormed
    <3>2. CASE q # p
      BY <1>3, <3>2, <1>t DEF Goto, TypeOK, IInv, AttemptsInFlight
    <3>3. QED
      BY <3>1, <3>2
  <2>11. /\ removal' \in [Remover -> Removal]
         /\ resetting' \in [Admin -> Feedback \cup {NoFeedback}]
         /\ budget' \in [EventKind -> Nat]
         /\ UNCHANGED <<submittedAt, clickup, waiting, batch, now>>
    BY <1>3, <1>t DEF TypeOK, env, CreateInitialJob
  <2>12. "SUBMITTED" \in FeedbackStatus \cup {"removed"}
    BY DEF FeedbackStatus
  <2>13. QED
    BY <2>3, <2>6, <2>7, <2>8, <2>9, <2>10, <2>11, <2>12, RowStep
<1>4. ASSUME Finish(p), UNCHANGED job, UNCHANGED now, budget' \in [EventKind -> Nat]
      PROVE  IInv'
  BY <1>1, <1>4, <1>t, GiveUpAttempt DEF CreateInitialJob, rows, TypeOK
<1>5. UNCHANGED env => budget' \in [EventKind -> Nat] /\ UNCHANGED now
  BY <1>t DEF env, TypeOK
<1>6. Spend("dbError") => budget' \in [EventKind -> Nat]
  BY <1>t, SpendType DEF EventKind
<1>7. QED
  BY <1>3, <1>4, <1>5, <1>6 DEF CreateInitialJob

\* The unique idempotencyKey: a key is inserted while nothing of it exists, no
\* job, no recorded ticket, no attempt and no place in a batch.
LEMMA InsertStep ==
    ASSUME IInv, NEW f \in Feedback, Insert(f) PROVE IInv'
<1> DEFINE p == <<"request", f>>
<1>t. TypeOK /\ AttemptsInFlight /\ NoJobYet /\ LiveAreCreated /\ RecordedMatches
  BY DEF IInv
<1>1. p \in Proc
  BY DEF Proc
<1>2. waiting' \in [Feedback -> 0 .. MaxRequests]
  BY <1>t, DeliveryAssumption DEF TypeOK, Insert
<1>3. CASE /\ status[f] = "none"
           /\ status' = [status EXCEPT ![f] = "SUBMITTED"]
           /\ submittedAt' = [submittedAt EXCEPT ![f] = now]
           /\ Start(<<"request", f>>, "job", f, 1)
  <2>1. job[f] = NoJob /\ taskId[f] = NoTicket
    <3>1. job[f] = NoJob /\ job[f].externalId = taskId[f]
      BY <1>3, RowsAgree DEF Agree
    <3>2. QED
      BY <3>1 DEF NoJob
  <2>2. att' \in [Proc -> Attempt]
    <3>1. 1 \in 0 .. MAX_DELIVERY_ATTEMPTS
      BY DeliveryAssumption
    <3>2. QED
      BY <1>1, <1>3, <1>t, <3>1, StartType DEF AttemptPc
  <2>3. status' \in [Feedback -> FeedbackStatus \cup {"none", "removed"}]
        /\ submittedAt' \in [Feedback -> Period]
    BY <1>3, <1>t DEF TypeOK, FeedbackStatus
  <2>4. TypeOK'
    BY <1>2, <2>2, <2>3, <1>t DEF TypeOK, Insert, clickup, env
  <2>5. \A g \in Feedback : Agree(status'[g], job'[g], taskId'[g])
    <3>1. Agree("SUBMITTED", NoJob, NoTicket)
      BY DEF Agree, NoJob
    <3>2. QED
      BY <1>3, <1>t, <2>1, <3>1, RowsAgree DEF TypeOK, Insert
  <2>6. JobMirrorsSubmission' /\ AttemptBudget'
    BY <2>5 DEF JobMirrorsSubmission, AttemptBudget, Agree
  <2>7. ASSUME NEW t, NEW g \in Feedback, g # f, Matches(t, g) PROVE Matches(t, g)'
    BY <1>3, <1>t, <2>7 DEF TypeOK, Matches, Insert, clickup
  <2>8. LiveAreCreated' /\ RecordedMatches'
    BY <1>t, <2>1, <2>7 DEF LiveAreCreated, RecordedMatches, Insert, clickup
  <2>9. AttemptsInFlight'
    <3> SUFFICES ASSUME NEW q \in Proc, att'[q].pc # "idle" PROVE WellFormed(att[q])'
      BY DEF AttemptsInFlight, WellFormed
    <3>1. CASE q = p
      <4>1. att'[q] = [pc |-> "job", f |-> f, n |-> 1, ticket |-> NoTicket]
        BY <1>1, <1>3, <1>t, <3>1 DEF Start, TypeOK
      <4>2. status'[f] = "SUBMITTED"
        BY <1>3, <1>t DEF TypeOK
      <4>3. QED
        BY <4>1, <4>2 DEF WellFormed
    <3>2. CASE q # p
      <4>1. att'[q] = att[q] /\ WellFormed(att[q]) /\ att[q].pc # "idle"
        BY <1>3, <1>t, <3>2 DEF Start, TypeOK, AttemptsInFlight
      <4>2. PICK g \in Feedback : g = att[q].f /\ status[g] # "none" /\ g # f
        BY <4>1, <1>3 DEF WellFormed
      <4>3. status'[g] # "none"
        BY <4>2, <1>3, <1>t DEF TypeOK
      <4>4. PICK t : t = att[q].ticket
        OBVIOUS
      <4>5. att[q].pc \in {"link", "succeed", "adopt"} => Matches(t, g)'
        BY <4>1, <4>2, <4>4, <2>7 DEF WellFormed
      <4>6. QED
        BY <4>1, <4>2, <4>3, <4>4, <4>5 DEF WellFormed, Matches
    <3>3. QED
      BY <3>1, <3>2
  <2>10. BatchesInserted'
    BY <1>3, <1>t, BatchFrame DEF TypeOK, Insert
  <2>11. NoJobYet'
    <3> SUFFICES ASSUME NEW g \in Feedback, att'[<<"request", g>>].pc = "job"
                 PROVE  status'[g] \in {"SUBMITTED", "removed"} /\ job'[g] = NoJob
      BY DEF NoJobYet
    <3>1. CASE g = f
      BY <1>3, <1>t, <2>1, <3>1 DEF TypeOK, Insert
    <3>2. CASE g # f
      <4>1. <<"request", g>> \in Proc /\ <<"request", g>> # p
        BY <3>2 DEF Proc
      <4>2. att[<<"request", g>>].pc = "job"
        BY <4>1, <1>3, <1>t DEF Start, TypeOK
      <4>3. QED
        BY <4>2, <3>2, <1>3, <1>t DEF NoJobYet, TypeOK, Insert
    <3>3. QED
      BY <3>1, <3>2
  <2>12. QED
    BY <2>4, <2>6, <2>8, <2>9, <2>10, <2>11 DEF IInv
<1>4. CASE UNCHANGED <<status, submittedAt, att>>
  BY <1>2, <1>4, <1>t, QuieterStep DEF Insert, rows, clickup, env, TypeOK
<1>5. QED
  BY <1>3, <1>4 DEF Insert

-----------------------------------------------------------------------------
(* Ticks, reconciliation, the dashboard and the environment *)

LEMMA StartTickStep ==
    ASSUME IInv, NEW k \in Tick, StartTick(k) PROVE IInv'
<1>t. TypeOK /\ AttemptBudget /\ BatchesInserted
  BY DEF IInv
<1>1. PICK taken \in SUBSET {f \in Feedback : IsDue(f)} :
         batch' = [batch EXCEPT ![k] = {<<f, job[f].attempts>> : f \in taken}]
  BY DEF StartTick
<1>2. ASSUME NEW f \in taken
      PROVE  /\ f \in Feedback /\ status[f] # "none"
             /\ job[f].attempts \in 0 .. MAX_DELIVERY_ATTEMPTS - 1
  <2>1. f \in Feedback /\ job[f].status = "RETRYING"
    BY DEF IsDue
  <2>2. job[f].attempts < MAX_DELIVERY_ATTEMPTS
    BY <2>1, <1>t DEF AttemptBudget
  <2>3. job[f].attempts \in 0 .. MAX_DELIVERY_ATTEMPTS
    BY <2>1, <1>t DEF TypeOK, Job
  <2>4. job[f].attempts \in 0 .. MAX_DELIVERY_ATTEMPTS - 1
    BY <2>2, <2>3, DeliveryAssumption
  <2>5. Agree(status[f], job[f], taskId[f]) /\ job[f] # NoJob
    BY <2>1, RowsAgree DEF NoJob
  <2>6. QED
    BY <2>1, <2>4, <2>5 DEF Agree
<1>3. batch' \in [Tick -> SUBSET (Feedback \X (0 .. MAX_DELIVERY_ATTEMPTS - 1))]
  BY <1>1, <1>2, <1>t DEF TypeOK
<1>4. BatchesInserted'
  BY <1>1, <1>2, <1>t DEF BatchesInserted, TypeOK, StartTick, rows
<1>5. QED
  BY <1>3, <1>4, <1>t, QuietStep DEF StartTick, TypeOK, clickup, env

LEMMA StartCheckStep ==
    ASSUME IInv, NEW f \in Feedback, StartCheck(f) PROVE IInv'
<1>t. TypeOK
  BY DEF IInv
<1>1. [pc |-> "exists", ticket |-> taskId[f]] \in Removal
  BY <1>t DEF TypeOK, Removal, RemovalPc
<1>2. removal' \in [Remover -> Removal]
  BY <1>1, <1>t DEF TypeOK, StartCheck
<1>3. QED
  BY <1>2, <1>t, QuieterStep DEF StartCheck, TypeOK, clickup, env

LEMMA CheckTicketStep ==
    ASSUME IInv, NEW f \in Feedback, CheckTicket(f) PROVE IInv'
<1>t. TypeOK
  BY DEF IInv
<1>1. [pc |-> "read", ticket |-> NoTicket] \in Removal /\ NotRemoving \in Removal
  BY DEF Removal, RemovalPc, NotRemoving
<1>2. removal' \in [Remover -> Removal]
  BY <1>1, <1>t DEF TypeOK, CheckTicket
<1>3. QED
  BY <1>2, <1>t, QuieterStep DEF CheckTicket, TypeOK, clickup, env

LEMMA ReadForRemovalStep ==
    ASSUME IInv, NEW r \in Remover, ReadForRemoval(r) PROVE IInv'
<1>t. TypeOK
  BY DEF IInv
<1>1. [pc |-> "ticket", ticket |-> taskId[r[2]]] \in Removal /\ NotRemoving \in Removal
  BY <1>t DEF TypeOK, Removal, RemovalPc, NotRemoving, Remover
<1>2. removal' \in [Remover -> Removal]
  BY <1>1, <1>t DEF TypeOK, ReadForRemoval
<1>3. QED
  BY <1>2, <1>t, QuieterStep DEF ReadForRemoval, TypeOK, clickup, env

LEMMA DeleteTicketStep ==
    ASSUME IInv, NEW r \in Remover, DeleteTicket(r) PROVE IInv'
<1>t. TypeOK
  BY DEF IInv
<1>1. [removal[r] EXCEPT !.pc = "row"] \in Removal
  BY <1>t DEF TypeOK, Removal, RemovalPc
<1>2. removal' \in [Remover -> Removal]
  BY <1>1, <1>t DEF TypeOK, DeleteTicket
<1>3. QED
  BY <1>2, <1>t, QuieterStep DEF DeleteTicket, TypeOK, env

LEMMA ReadForRetryStep ==
    ASSUME IInv, NEW a \in Admin, NEW f \in Feedback, ReadForRetry(a, f) PROVE IInv'
<1>t. TypeOK
  BY DEF IInv
<1>1. /\ resetting' \in [Admin -> Feedback \cup {NoFeedback}]
      /\ budget' \in [EventKind -> Nat]
  BY <1>t, SpendType DEF TypeOK, ReadForRetry, EventKind
<1>2. QED
  BY <1>1, <1>t, QuieterStep DEF ReadForRetry, TypeOK, clickup

LEMMA CrashStep ==
    ASSUME IInv, Crash PROVE IInv'
<1>t. TypeOK
  BY DEF IInv
<1>1. Idle \in Attempt /\ NotRemoving \in Removal /\ 0 \in 0 .. MaxRequests
  BY IdleIsFine, DeliveryAssumption DEF NotRemoving, Removal, RemovalPc
<1>2. budget' \in [EventKind -> Nat]
  BY <1>t, SpendType DEF Crash, EventKind
<1>3. TypeOK'
  BY <1>1, <1>2, <1>t DEF TypeOK, Crash, rows, clickup
<1>4. JobMirrorsSubmission' /\ AttemptBudget'
  BY RowsFrame DEF Crash
<1>5. LiveAreCreated' /\ RecordedMatches'
  BY ClickupFrame DEF Crash, rows, clickup
<1>6. AttemptsInFlight' /\ BatchesInserted' /\ NoJobYet'
  BY DEF AttemptsInFlight, WellFormed, BatchesInserted, NoJobYet, Crash, Idle, Proc
<1>7. QED
  BY <1>3, <1>4, <1>5, <1>6 DEF IInv

LEMMA EnvironmentStep ==
    ASSUME IInv,
           \/ ClickupGoesDown \/ ClickupComesBack \/ Gap
           \/ \E t \in Ticket : DeletedInClickup(t)
    PROVE  IInv'
<1>t. TypeOK
  BY DEF IInv
<1>1. CASE ClickupGoesDown
  <2>1. budget' \in [EventKind -> Nat]
    BY <1>1, <1>t, SpendType DEF ClickupGoesDown, EventKind
  <2>2. QED
    BY <1>1, <2>1, <1>t, QuieterStep DEF ClickupGoesDown, TypeOK, memory
<1>2. CASE ClickupComesBack
  BY <1>2, <1>t, QuieterStep DEF ClickupComesBack, TypeOK, memory, env
<1>3. CASE Gap
  <2>1. budget' \in [EventKind -> Nat]
    BY <1>3, <1>t, SpendType DEF Gap, EventKind
  <2>2. now' \in Period
    BY <1>3, <1>t DEF Gap, TypeOK, Period
  <2>3. QED
    BY <1>3, <2>1, <2>2, <1>t, QuieterStep DEF Gap, TypeOK, memory, clickup
<1>4. CASE \E t \in Ticket : DeletedInClickup(t)
  <2>1. PICK t \in Ticket : DeletedInClickup(t)
    BY <1>4
  <2>2. budget' \in [EventKind -> Nat]
    BY <2>1, <1>t, SpendType DEF DeletedInClickup, EventKind
  <2>3. QED
    BY <2>1, <2>2, <1>t, QuieterStep DEF DeletedInClickup, TypeOK, memory
<1>5. QED
  BY <1>1, <1>2, <1>3, <1>4

-----------------------------------------------------------------------------
(* The invariant is inductive *)

LEMMA AttemptStepKeeps ==
    ASSUME IInv, NEW p \in Proc, AttemptStep(p) PROVE IInv'
BY SearchStep, SearchFailsStep, CreateTaskStep, CreateTaskLosesAnswerStep,
   CreateTaskFailsStep, LinkCompanyStep, LinkCompanyFailsStep, RecordSuccessStep,
   RecordFailureStep DEF AttemptStep

LEMMA StutterKeeps ==
    ASSUME IInv, UNCHANGED vars PROVE IInv'
<1>1. UNCHANGED <<rows, clickup, memory, env>>
  BY DEF vars
<1>2. QED
  BY <1>1, QuieterStep DEF IInv, TypeOK, clickup, memory, env

LEMMA NextIInv == IInv /\ [Next]_vars => IInv'
<1> SUFFICES ASSUME IInv, [Next]_vars PROVE IInv'
  OBVIOUS
<1>1. ASSUME NEW f \in Feedback,
             \/ Submit(f) \/ Insert(f) \/ CreateInitialJob(f)
             \/ BackoffElapses(f)
             \/ RecoverStuck(f) \/ StartCheck(f) \/ CheckTicket(f)
      PROVE  IInv'
  BY <1>1, SubmitStep, InsertStep, CreateInitialJobStep, BackoffElapsesStep,
     RecoverStuckStep, StartCheckStep, CheckTicketStep
<1>2. ASSUME NEW p \in Proc, AttemptStep(p) PROVE IInv'
  BY <1>2, AttemptStepKeeps
<1>3. ASSUME NEW k \in Tick, StartTick(k) \/ NextRetry(k) PROVE IInv'
  BY <1>3, StartTickStep, NextRetryStep
<1>4. ASSUME NEW r \in Remover, ReadForRemoval(r) \/ DeleteTicket(r) \/ DeleteRow(r)
      PROVE  IInv'
  BY <1>4, ReadForRemovalStep, DeleteTicketStep, DeleteRowStep
<1>5. ASSUME NEW a \in Admin, (\E f \in Feedback : ReadForRetry(a, f)) \/ WriteRetry(a)
      PROVE  IInv'
  BY <1>5, ReadForRetryStep, WriteRetryStep
<1>6. CASE \/ \E t \in Ticket : DeletedInClickup(t)
           \/ ClickupGoesDown \/ ClickupComesBack \/ Gap
  BY <1>6, EnvironmentStep
<1>7. CASE Crash
  BY <1>7, CrashStep
<1>8. CASE UNCHANGED vars
  BY <1>8, StutterKeeps
<1>9. QED
  BY <1>1, <1>2, <1>3, <1>4, <1>5, <1>6, <1>7, <1>8 DEF Next

LEMMA AlwaysIInv == Spec => []IInv
BY InitIInv, NextIInv, PTL DEF Spec

-----------------------------------------------------------------------------
(* Theorems *)

\* Type correctness: in every reachable state each variable has its type; in
\* particular no tick is ever handed a job without an attempt left.
THEOREM TypeCorrect == Spec => []TypeOK
<1>1. IInv => TypeOK
  BY DEF IInv
<1>2. QED
  BY <1>1, AlwaysIInv, PTL

\* However requests, overlapping ticks, reconciliation and dashboard requests
\* interleave, a row and its job always tell the same story.
THEOREM RowAndJobAgree == Spec => []JobMirrorsSubmission
<1>1. IInv => JobMirrorsSubmission
  BY DEF IInv
<1>2. QED
  BY <1>1, AlwaysIInv, PTL

\* A job is FAILED with exactly MAX_DELIVERY_ATTEMPTS attempts counted, and
\* while it is RETRYING one is left.
THEOREM BudgetIsExact == Spec => []AttemptBudget
<1>1. IInv => AttemptBudget
  BY DEF IInv
<1>2. QED
  BY <1>1, AlwaysIInv, PTL

\* A submission is only ever recorded with a ticket that was created, of its
\* title, and of its own search window if it is not its own.
THEOREM RecordedIsAMatch == Spec => []RecordedTicketMatches
<1>1. IInv => RecordedTicketMatches
  BY DeliveryAssumption DEF IInv, RecordedMatches, Matches, RecordedTicketMatches
<1>2. QED
  BY <1>1, AlwaysIInv, PTL

-----------------------------------------------------------------------------
(* While retry ticks do not overlap: who has which submission *)

\* Submission f is in the hands of process p: p attempts to deliver it, or is a
\* tick that has it left in its batch.
Has(p, f) ==
    \/ att[p].pc # "idle" /\ att[p].f = f
    \/ \E k \in Tick : p = <<"tick", k>> /\ \E due \in batch[k] : due[1] = f

\* What lets p have f: the request is about to create the job, PROCESSING is the
\* request's and then reconciliation's, RETRYING the worker's.  A removed row
\* says nothing any more.
Claim(p, f) ==
    \/ status[f] = "removed"
    \/ p[1] = "request" /\ att[p].pc = "job"
    \/ p[1] # "tick" /\ job[f].status = "PROCESSING"
    \/ p[1] = "tick" /\ job[f].status = "RETRYING"

Claims == \A p \in Proc, f \in Feedback : Has(p, f) => Claim(p, f)

\* No two processes have the same submission.
Exclusive == \A p, q \in Proc, f \in Feedback : Has(p, f) /\ Has(q, f) => p = q

\* What the request and reconciliation attempt is the submission they are named
\* after, and only the request creates a job.
OwnSubmission ==
    \A p \in Proc :
        /\ att[p].pc = "idle" => att[p].f = NoFeedback
        /\ att[p].pc # "idle" /\ p[1] # "tick" => att[p].f = p[2]
        /\ att[p].pc = "job" => p[1] = "request"

\* A tick has a submission once: in its batch, or in flight.
BatchDistinct ==
    \A k \in Tick : \A due \in batch[k] :
        /\ att[<<"tick", k>>].pc # "idle" => att[<<"tick", k>>].f # due[1]
        /\ \A other \in batch[k] : other[1] = due[1] => other = due

\* Retry has only ever read jobs that came to an end.
ResetsAreOld ==
    \A a \in Admin : resetting[a] # NoFeedback =>
        status[resetting[a]] \notin {"none", "SUBMITTED"}

Hands == Claims /\ Exclusive /\ OwnSubmission /\ BatchDistinct /\ ResetsAreOld

\* The retry ticks do not overlap.
OneTick == \A k, l \in Tick : k = l

-----------------------------------------------------------------------------

\* What the types give to a proof about attempts and batches.
LEMMA HandTypes ==
    ASSUME IInv
    PROVE  /\ \A p \in Proc : att[p] \in Attempt
           /\ \A f \in Feedback : <<"request", f>> \in Proc /\ <<"recover", f>> \in Proc
           /\ \A k \in Tick : <<"tick", k>> \in Proc
           /\ \A k \in Tick : \A due \in batch[k] : due[1] \in Feedback
BY DEF IInv, TypeOK, Proc

\* A process that has a submission makes it exist, or have existed.
LEMMA HadIsInserted ==
    ASSUME IInv, NEW p \in Proc, NEW f \in Feedback, Has(p, f)
    PROVE  status[f] # "none"
BY DEF IInv, Has, AttemptsInFlight, WellFormed, BatchesInserted

\* Nobody comes to have a submission, and what they claim stays so.
LEMMA HandsFrame ==
    ASSUME Claims, Exclusive,
           \A p \in Proc, f \in Feedback :
               Has(p, f)' => Has(p, f) /\ (Claim(p, f) => Claim(p, f)')
    PROVE  Claims' /\ Exclusive'
BY DEF Claims, Exclusive

\* No tick comes to have a submission.
LEMMA BatchDistinctFrame ==
    ASSUME BatchDistinct, \A k \in Tick : batch'[k] \subseteq batch[k],
           \A k \in Tick : att'[<<"tick", k>>].pc # "idle" =>
               att[<<"tick", k>>].pc # "idle" /\ att'[<<"tick", k>>].f = att[<<"tick", k>>].f
    PROVE  BatchDistinct'
<1> SUFFICES ASSUME NEW k \in Tick, NEW due \in batch'[k]
             PROVE  /\ att'[<<"tick", k>>].pc # "idle" => att'[<<"tick", k>>].f # due[1]
                    /\ \A other \in batch'[k] : other[1] = due[1] => other = due
  BY DEF BatchDistinct
<1>1. due \in batch[k]
  OBVIOUS
<1>2. /\ att[<<"tick", k>>].pc # "idle" => att[<<"tick", k>>].f # due[1]
      /\ \A other \in batch[k] : other[1] = due[1] => other = due
  BY <1>1 DEF BatchDistinct
<1>3. QED
  BY <1>2

\* A step that moves attempt p on or ends it, and writes no row.
LEMMA MovesOn ==
    ASSUME IInv, Hands, NEW p \in Proc,
           \A q \in Proc : q # p => att'[q] = att[q],
           \/ att'[p] = Idle
           \/ /\ att'[p].f = att[p].f
              /\ att[p].pc \notin {"idle", "job"} /\ att'[p].pc \notin {"idle", "job"},
           \A k \in Tick : batch'[k] \subseteq batch[k],
           UNCHANGED <<status, job, resetting>>
    PROVE  Hands'
<1>1. ASSUME NEW q \in Proc, NEW f \in Feedback, Has(q, f)'
      PROVE  Has(q, f) /\ (Claim(q, f) => Claim(q, f)')
  BY <1>1 DEF Has, Claim, Idle
<1>2. Claims' /\ Exclusive'
  BY <1>1, HandsFrame DEF Hands
<1>3. OwnSubmission'
  BY DEF Hands, OwnSubmission, Idle
<1>4. BatchDistinct'
  <2>1. \A q \in Proc : att'[q].pc # "idle" => att[q].pc # "idle" /\ att'[q].f = att[q].f
    BY DEF Idle
  <2>2. QED
    BY <2>1, HandTypes, BatchDistinctFrame DEF Hands
<1>5. ResetsAreOld'
  BY DEF Hands, ResetsAreOld
<1>6. QED
  BY <1>2, <1>3, <1>4, <1>5 DEF Hands

\* A step that leaves attempts, batches and what jobs are at alone, but for
\* removals.
LEMMA LeavesHands ==
    ASSUME IInv, Hands, UNCHANGED <<att, batch>>,
           \A f \in Feedback :
               \/ status'[f] = "removed"
               \/ status'[f] = status[f] /\ job'[f].status = job[f].status,
           \A a \in Admin : resetting'[a] \in {resetting[a], NoFeedback}
    PROVE  Hands'
<1>1. ASSUME NEW q \in Proc, NEW f \in Feedback, Has(q, f)'
      PROVE  Has(q, f) /\ (Claim(q, f) => Claim(q, f)')
  BY <1>1 DEF Has, Claim
<1>2. Claims' /\ Exclusive'
  BY <1>1, HandsFrame DEF Hands
<1>3. OwnSubmission' /\ BatchDistinct'
  BY DEF Hands, OwnSubmission, BatchDistinct
<1>4. ResetsAreOld'
  BY DEF Hands, ResetsAreOld, IInv, TypeOK
<1>5. QED
  BY <1>2, <1>3, <1>4 DEF Hands

\* A process that has a submission finishes with it: nobody else has it, so
\* whatever is written does not disturb them.
LEMMA HandsOff ==
    ASSUME IInv, Hands, NEW p \in Proc, att[p].pc # "idle", Finish(p),
           \A f \in Feedback : f # att[p].f =>
               status'[f] = status[f] /\ job'[f].status = job[f].status,
           status'[att[p].f] \notin {"none", "SUBMITTED"},
           UNCHANGED <<batch, resetting>>
    PROVE  Hands'
<1>t. /\ \A q \in Proc : q # p => att'[q] = att[q]
      /\ att'[p] = Idle
  BY DEF IInv, TypeOK, Finish
<1>1. PICK g \in Feedback : g = att[p].f /\ Has(p, g)
  BY DEF IInv, AttemptsInFlight, WellFormed, Has
<1>2. ASSUME NEW q \in Proc, Has(q, g)' PROVE FALSE
  <2>1. Has(q, g)
    BY <1>2, <1>t DEF Has, Idle
  <2>2. q = p
    BY <1>1, <2>1 DEF Hands, Exclusive
  <2>3. PICK k \in Tick : p = <<"tick", k>> /\ \E due \in batch[k] : due[1] = g
    BY <1>2, <2>2, <1>t DEF Has, Idle
  <2>4. QED
    BY <1>1, <2>2, <2>3 DEF Hands, BatchDistinct
<1>3. ASSUME NEW q \in Proc, NEW f \in Feedback, Has(q, f)'
      PROVE  Has(q, f) /\ (Claim(q, f) => Claim(q, f)')
  <2>1. f # g
    BY <1>2, <1>3
  <2>2. QED
    BY <2>1, <1>1, <1>3, <1>t DEF Has, Claim, Idle
<1>4. Claims' /\ Exclusive'
  BY <1>3, HandsFrame DEF Hands
<1>5. OwnSubmission'
  BY <1>t DEF Hands, OwnSubmission, Idle
<1>6. BatchDistinct'
  <2>1. \A q \in Proc : att'[q].pc # "idle" => att[q].pc # "idle" /\ att'[q].f = att[q].f
    BY <1>t DEF Idle
  <2>2. QED
    BY <2>1, HandTypes, BatchDistinctFrame DEF Hands
<1>7. ResetsAreOld'
  BY DEF Hands, ResetsAreOld, IInv, TypeOK
<1>8. QED
  BY <1>4, <1>5, <1>6, <1>7 DEF Hands

-----------------------------------------------------------------------------
(* Steps of an attempt *)

LEMMA AttemptHands ==
    ASSUME IInv, Hands, NEW p \in Proc, AttemptStep(p) PROVE Hands'
<1>t. TypeOK /\ att \in [Proc -> Attempt] /\ att[p] \in Attempt
  BY DEF IInv, TypeOK
<1> DEFINE moved(pc) == /\ \A q \in Proc : q # p => att'[q] = att[q]
                        /\ att'[p].f = att[p].f
                        /\ att'[p].pc = pc
           ended == (\A q \in Proc : q # p => att'[q] = att[q]) /\ att'[p] = Idle
<1>1. \A pc \in AttemptPc : Goto(p, pc) => moved(pc)
  BY <1>t DEF Goto, Attempt
<1>2. \A pc \in AttemptPc, t \in Ticket \cup {NoTicket} :
         att' = [att EXCEPT ![p].pc = pc, ![p].ticket = t] => moved(pc)
  BY <1>t DEF Attempt
<1>3. Finish(p) => ended
  BY <1>t DEF Finish
<1>4. ASSUME ended \/ (att[p].pc \notin {"idle", "job"} /\
                          \E pc \in AttemptPc \ {"idle", "job"} : moved(pc)),
             \A k \in Tick : batch'[k] \subseteq batch[k],
             UNCHANGED <<status, job, resetting>>
      PROVE  Hands'
  BY <1>4, MovesOn
<1> HIDE DEF moved, ended
<1>5. CASE Search(p)
  <2>1. CASE Goto(p, "create")
    BY <1>1, <1>4, <1>5, <2>1 DEF Search, rows, AttemptPc
  <2>2. ASSUME NEW t \in Candidates(att[p].f),
               att' = [att EXCEPT ![p].ticket = t,
                             ![p].pc = IF p[1] = "recover" THEN "adopt" ELSE "succeed"]
        PROVE  Hands'
    <3>1. PICK pc \in {"adopt", "succeed"} :
             att' = [att EXCEPT ![p].ticket = t, ![p].pc = pc]
      BY <2>2
    <3>2. att' = [att EXCEPT ![p].pc = pc, ![p].ticket = t]
      BY <3>1, <1>t DEF Attempt
    <3>3. t \in Ticket /\ pc \in AttemptPc
      BY <1>t DEF Candidates, TypeOK, AttemptPc
    <3>4. moved(pc)
      BY <1>2, <3>2, <3>3
    <3>5. QED
      BY <1>4, <1>5, <3>3, <3>4 DEF Search, rows
  <2>3. QED
    BY <1>5, <2>1, <2>2 DEF Search
<1>6. CASE SearchFails(p)
  BY <1>1, <1>3, <1>4, <1>6 DEF SearchFails, rows, AttemptPc
<1>7. CASE CreateTask(p)
  <2>1. FreshTicket \in Ticket
    BY <1>7, FreshTicketIsFresh DEF CreateTask, NewTicket
  <2>2. moved("link")
    BY <1>2, <1>7, <2>1 DEF CreateTask, AttemptPc
  <2>3. QED
    BY <1>4, <1>7, <2>2 DEF CreateTask, rows, AttemptPc
<1>8. CASE CreateTaskLosesAnswer(p) \/ CreateTaskFails(p)
  BY <1>1, <1>4, <1>8 DEF CreateTaskLosesAnswer, CreateTaskFails, rows, AttemptPc
<1>9. CASE LinkCompany(p)
  BY <1>1, <1>4, <1>9 DEF LinkCompany, rows, AttemptPc
<1>10. CASE LinkCompanyFails(p)
  BY <1>2, <1>4, <1>10 DEF LinkCompanyFails, rows, AttemptPc
<1>11. ASSUME att[p].pc \in {"succeed", "adopt"}, RecordThrows(p),
              UNCHANGED <<batch, resetting>>
       PROVE  Hands'
  BY <1>2, <1>3, <1>4, <1>11 DEF RecordThrows, rows, AttemptPc
<1>12. ASSUME att[p].pc # "idle", NEW s \in {"DELIVERED", "DELIVERY_FAILED", "DELIVERY_PENDING"},
              NEW j, RecordedAs(p, s, j), Finish(p), UNCHANGED <<batch, resetting>>
       PROVE  Hands'
  <2>1. att[p].f \in Feedback
    BY <1>12 DEF IInv, AttemptsInFlight, WellFormed
  <2>2. \A f \in Feedback : f # att[p].f =>
               status'[f] = status[f] /\ job'[f].status = job[f].status
    BY <1>12, <1>t DEF RecordedAs, TypeOK
  <2>3. status'[att[p].f] = s
    BY <1>12, <2>1, <1>t DEF RecordedAs, TypeOK
  <2>4. QED
    BY <1>12, <2>2, <2>3, HandsOff
<1>13. CASE RecordSuccess(p)
  BY <1>11, <1>12, <1>13 DEF RecordSuccess
<1>14. ASSUME AttemptThrows(p), UNCHANGED resetting PROVE Hands'
  <2>1. \A k \in Tick : batch'[k] \subseteq batch[k]
    BY <1>14 DEF AttemptThrows
  <2>2. QED
    BY <1>3, <1>4, <1>14, <2>1 DEF AttemptThrows, rows
<1>15. CASE RecordFailure(p)
  BY <1>12, <1>14, <1>15 DEF RecordFailure
<1>16. QED
  BY <1>5, <1>6, <1>7, <1>8, <1>9, <1>10, <1>13, <1>15 DEF AttemptStep

-----------------------------------------------------------------------------
(* Steps that come to have a submission *)

\* The key is new: nobody has it.
LEMMA InsertHands ==
    ASSUME IInv, Hands, NEW f \in Feedback, Insert(f) PROVE Hands'
<1>t. TypeOK
  BY DEF IInv
<1>1. CASE UNCHANGED <<status, submittedAt, att>>
  BY <1>1, LeavesHands DEF Insert
<1>2. CASE /\ status[f] = "none"
           /\ status' = [status EXCEPT ![f] = "SUBMITTED"]
           /\ Start(<<"request", f>>, "job", f, 1)
  <2> DEFINE p == <<"request", f>>
  <2>1. p \in Proc
    BY DEF Proc
  <2>2. /\ \A q \in Proc : q # p => att'[q] = att[q]
        /\ att'[p].pc = "job" /\ att'[p].f = f
        /\ UNCHANGED <<job, batch, resetting>>
    BY <1>2, <1>t, <2>1 DEF Start, TypeOK, Insert
  <2>3. \A q \in Proc : ~Has(q, f)
    BY <1>2, HadIsInserted
  <2>4. \A g \in Feedback : g # f => status'[g] = status[g]
    BY <1>2, <1>t DEF TypeOK
  <2>5. ASSUME NEW q \in Proc, NEW g \in Feedback, Has(q, g)'
        PROVE  (q = p /\ g = f) \/ (g # f /\ Has(q, g) /\ att'[q] = att[q])
    <3>1. CASE q = p
      <4>1. CASE g = f
        BY <3>1, <4>1
      <4>2. CASE g # f
        BY <2>2, <2>5, <3>1, <4>2 DEF Has
      <4>3. QED
        BY <4>1, <4>2
    <3>2. CASE q # p
      <4>1. Has(q, g)
        BY <2>2, <2>5, <3>2 DEF Has
      <4>2. QED
        BY <2>2, <2>3, <3>2, <4>1
    <3>3. QED
      BY <3>1, <3>2
  <2>6. Claims'
    <3> SUFFICES ASSUME NEW q \in Proc, NEW g \in Feedback, Has(q, g)' PROVE Claim(q, g)'
      BY DEF Claims
    <3>1. CASE q = p /\ g = f
      BY <2>2, <3>1 DEF Claim
    <3>2. CASE g # f /\ Has(q, g) /\ att'[q] = att[q]
      BY <2>2, <2>4, <3>2 DEF Claim, Hands, Claims
    <3>3. QED
      BY <2>5, <3>1, <3>2
  <2>7. Exclusive'
    BY <2>5 DEF Exclusive, Hands
  <2>8. OwnSubmission'
    BY <2>2 DEF OwnSubmission, Hands
  <2>9. BatchDistinct'
    <3>1. \A k \in Tick : att'[<<"tick", k>>] = att[<<"tick", k>>]
      BY <2>2, HandTypes
    <3>2. QED
      BY <2>2, <3>1, BatchDistinctFrame DEF Hands
  <2>10. ResetsAreOld'
    BY <1>2, <1>t, <2>2, <2>4 DEF Hands, ResetsAreOld, TypeOK
  <2>11. QED
    BY <2>6, <2>7, <2>8, <2>9, <2>10 DEF Hands
<1>3. QED
  BY <1>1, <1>2 DEF Insert

\* The request alone has the submission whose job it creates.
LEMMA CreateInitialJobHands ==
    ASSUME IInv, Hands, NEW f \in Feedback, CreateInitialJob(f) PROVE Hands'
<1> DEFINE p == <<"request", f>>
<1>t. TypeOK /\ p \in Proc /\ att[p].pc = "job" /\ att[p].f = f
  BY DEF IInv, Hands, OwnSubmission, CreateInitialJob, Proc
<1>1. CASE Finish(p) /\ UNCHANGED job
  <2>1. (\A q \in Proc : q # p => att'[q] = att[q]) /\ att'[p] = Idle
    BY <1>1, <1>t DEF Finish, TypeOK
  <2>2. QED
    <3> HIDE DEF p
    <3>1. UNCHANGED <<status, job, resetting, batch>>
      BY <1>1 DEF CreateInitialJob
    <3>2. QED
      BY <1>t, <2>1, <3>1, MovesOn
<1>2. CASE /\ Exists(f)
           /\ job' = [job EXCEPT ![f] = [NoJob EXCEPT !.status = "PROCESSING",
                                                      !.attempts = 1]]
           /\ Goto(p, "create")
  <2>1. /\ \A q \in Proc : q # p => att'[q] = att[q]
        /\ att'[p].pc = "create" /\ att'[p].f = f
        /\ UNCHANGED <<status, batch, resetting>>
    BY <1>2, <1>t DEF Goto, TypeOK, Attempt, CreateInitialJob
  <2>2. job'[f].status = "PROCESSING" /\ \A g \in Feedback : g # f => job'[g] = job[g]
    BY <1>2, <1>t DEF TypeOK, NoJob
  <2>3. \A q \in Proc, g \in Feedback : Has(q, g)' => Has(q, g)
    BY <1>t, <2>1 DEF Has
  <2>4. Has(p, f)
    BY <1>t DEF Has
  <2>5. ASSUME NEW q \in Proc, NEW g \in Feedback, Has(q, g)'
        PROVE  Claim(q, g) => Claim(q, g)'
    <3>1. CASE g = f
      <4>1. q = p
        BY <1>t, <2>3, <2>4, <2>5, <3>1 DEF Hands, Exclusive
      <4>2. QED
        BY <2>2, <3>1, <4>1 DEF Claim
    <3>2. CASE g # f
      <4>1. q # p
        <5>1. att'[p].f # g
          BY <2>1, <3>2
        <5>2. QED
          BY <2>5, <5>1 DEF Has
      <4>2. QED
        BY <2>1, <2>2, <3>2, <4>1 DEF Claim
    <3>3. QED
      BY <3>1, <3>2
  <2>6. Claims' /\ Exclusive'
    BY <2>3, <2>5, HandsFrame DEF Hands
  <2>7. OwnSubmission'
    BY <1>t, <2>1 DEF OwnSubmission, Hands
  <2>8. BatchDistinct'
    <3>1. \A k \in Tick : att'[<<"tick", k>>] = att[<<"tick", k>>]
      BY <2>1, HandTypes
    <3>2. QED
      BY <2>1, <3>1, BatchDistinctFrame DEF Hands
  <2>9. ResetsAreOld'
    BY <2>1 DEF Hands, ResetsAreOld
  <2>10. QED
    BY <2>6, <2>7, <2>8, <2>9 DEF Hands
<1>3. QED
  BY <1>1, <1>2 DEF CreateInitialJob

\* A submission that is PROCESSING is nobody's but the request's.
LEMMA RecoverStuckHands ==
    ASSUME IInv, Hands, NEW f \in Feedback, RecoverStuck(f) PROVE Hands'
<1> DEFINE p == <<"recover", f>>
<1>t. TypeOK /\ p \in Proc /\ <<"request", f>> \in Proc
  BY DEF IInv, Proc
<1>1. /\ \A q \in Proc : q # p => att'[q] = att[q]
      /\ att'[p].pc = "search" /\ att'[p].f = f
      /\ UNCHANGED <<status, job, batch, resetting>>
  BY <1>t DEF RecoverStuck, Start, TypeOK, rows
<1>2. /\ status[f] = "SUBMITTED" /\ job[f].status = "PROCESSING"
      /\ att[p].pc = "idle" /\ att[<<"request", f>>].pc = "idle"
  BY DEF RecoverStuck, IsStuck, IsIdle
<1>3. ASSUME NEW q \in Proc, Has(q, f) PROVE FALSE
  <2>1. q[1] = "tick" => FALSE
    BY <1>2, <1>3, <1>t DEF Hands, Claims, Claim
  <2>2. q[1] # "tick" => att[q].pc # "idle" /\ q[2] = f
    BY <1>3 DEF Has, Hands, OwnSubmission
  <2>3. q = <<"request", f>> \/ q = <<"recover", f>>
    BY <2>1, <2>2 DEF Proc
  <2>4. QED
    BY <1>2, <2>1, <2>2, <2>3
<1>4. ASSUME NEW q \in Proc, NEW g \in Feedback, Has(q, g)'
      PROVE  (q = p /\ g = f) \/ (g # f /\ Has(q, g) /\ q # p)
  <2>1. CASE q = p
    <3>1. CASE g = f
      BY <2>1, <3>1
    <3>2. CASE g # f
      BY <1>1, <1>4, <2>1, <3>2 DEF Has
    <3>3. QED
      BY <3>1, <3>2
  <2>2. CASE q # p
    BY <1>1, <1>3, <1>4, <2>2 DEF Has
  <2>3. QED
    BY <2>1, <2>2
<1>5. Claims'
  <2> SUFFICES ASSUME NEW q \in Proc, NEW g \in Feedback, Has(q, g)' PROVE Claim(q, g)'
    BY DEF Claims
  <2>1. CASE q = p /\ g = f
    BY <1>1, <1>2, <2>1 DEF Claim
  <2>2. CASE Has(q, g) /\ q # p
    BY <1>1, <2>2 DEF Claim, Hands, Claims
  <2>3. QED
    BY <1>4, <2>1, <2>2
<1>6. Exclusive'
  BY <1>4 DEF Exclusive, Hands
<1>7. OwnSubmission'
  BY <1>1 DEF OwnSubmission, Hands
<1>8. BatchDistinct'
  <2>1. \A k \in Tick : att'[<<"tick", k>>] = att[<<"tick", k>>]
    BY <1>1, HandTypes
  <2>2. QED
    BY <1>1, <2>1, BatchDistinctFrame DEF Hands
<1>9. ResetsAreOld'
  BY <1>1 DEF Hands, ResetsAreOld
<1>10. QED
  BY <1>5, <1>6, <1>7, <1>8, <1>9 DEF Hands

\* RETRYING jobs are nobody's while no other tick runs.
LEMMA StartTickHands ==
    ASSUME IInv, Hands, OneTick, NEW k \in Tick, StartTick(k) PROVE Hands'
<1> DEFINE p == <<"tick", k>>
<1>t. TypeOK /\ p \in Proc /\ UNCHANGED <<status, job, att, resetting>>
  BY DEF IInv, Proc, StartTick, rows
<1>1. PICK taken \in SUBSET {f \in Feedback : IsDue(f)} :
         batch' = [batch EXCEPT ![k] = {<<f, job[f].attempts>> : f \in taken}]
  BY DEF StartTick
<1>2. /\ batch'[k] = {<<f, job[f].attempts>> : f \in taken}
      /\ \A l \in Tick : l = k
      /\ batch[k] = {} /\ att[p].pc = "idle"
  BY <1>1, <1>t DEF TypeOK, OneTick, StartTick, IsIdle
<1>3. ASSUME NEW f \in taken
      PROVE  /\ f \in Feedback /\ job[f].status = "RETRYING"
             /\ \A q \in Proc : ~Has(q, f)
  <2>1. f \in Feedback /\ job[f].status = "RETRYING"
    BY DEF IsDue
  <2>2. Agree(status[f], job[f], taskId[f])
    BY <2>1, RowsAgree
  <2>3. ASSUME NEW q \in Proc, Has(q, f) PROVE FALSE
    <3>1. q[1] # "tick"
      BY <1>2, <2>3 DEF Has, Proc
    <3>2. status[f] # "removed"
      BY <2>1, <2>2 DEF Agree, NoJob
    <3>3. q[1] = "request" /\ att[q].pc = "job" /\ att[q].pc # "idle"
      BY <2>1, <2>3, <3>1, <3>2 DEF Hands, Claims, Claim
    <3>4. q = <<"request", f>>
      BY <2>3, <3>1, <3>3 DEF Has, Hands, OwnSubmission, Proc
    <3>5. job[f] = NoJob
      BY <2>1, <3>3, <3>4 DEF IInv, NoJobYet
    <3>6. QED
      BY <2>1, <3>5 DEF NoJob
  <2>4. QED
    BY <2>1, <2>3
<1>4. ASSUME NEW q \in Proc, NEW g \in Feedback, Has(q, g)'
      PROVE  (q = p /\ g \in taken) \/ Has(q, g)
  <2>1. CASE att[q].pc # "idle" /\ att[q].f = g
    BY <2>1 DEF Has
  <2>2. CASE \E l \in Tick : q = <<"tick", l>> /\ \E due \in batch'[l] : due[1] = g
    BY <1>2, <2>2
  <2>3. QED
    BY <1>4, <1>t, <2>1, <2>2 DEF Has
<1>5. Claims'
  BY <1>3, <1>4, <1>t DEF Claims, Claim, Hands
<1>6. Exclusive'
  BY <1>3, <1>4 DEF Exclusive, Hands
<1>7. OwnSubmission' /\ ResetsAreOld'
  BY <1>t DEF Hands, OwnSubmission, ResetsAreOld
<1>8. BatchDistinct'
  <2> SUFFICES ASSUME NEW due \in batch'[k]
               PROVE  \A other \in batch'[k] : other[1] = due[1] => other = due
    BY <1>2, <1>t DEF BatchDistinct
  <2>1. QED
    BY <1>2
<1>9. QED
  BY <1>5, <1>6, <1>7, <1>8 DEF Hands

\* From the batch to an attempt: the tick has it before and after.
LEMMA NextRetryHands ==
    ASSUME IInv, Hands, OneTick, NEW k \in Tick, NextRetry(k) PROVE Hands'
<1> DEFINE p == <<"tick", k>>
<1>t. TypeOK /\ p \in Proc /\ UNCHANGED <<status, job, resetting>>
  BY DEF IInv, Proc, NextRetry, rows
<1>1. PICK due \in batch[k] :
         /\ Start(p, IF IsFirstRetryAttempt(due[2]) THEN "search" ELSE "create",
                  due[1], due[2] + 1)
         /\ batch' = [batch EXCEPT ![k] = @ \ {due}]
  BY DEF NextRetry
<1>2. /\ \A q \in Proc : q # p => att'[q] = att[q]
      /\ att'[p].pc \in {"search", "create"} /\ att'[p].f = due[1]
      /\ batch'[k] = batch[k] \ {due} /\ \A l \in Tick : batch'[l] \subseteq batch[l]
      /\ \A l \in Tick : l = k
  BY <1>1, <1>t DEF Start, TypeOK, OneTick
<1>3. due[1] \in Feedback /\ Has(p, due[1])
  BY HandTypes DEF Has
<1>4. ASSUME NEW q \in Proc, NEW f \in Feedback, Has(q, f)'
      PROVE  Has(q, f) /\ (Claim(q, f) => Claim(q, f)')
  <2>1. CASE q = p
    <3>1. Has(p, f)
      BY <1>2, <1>3, <1>4, <2>1 DEF Has
    <3>2. QED
      BY <1>t, <2>1, <3>1 DEF Claim
  <2>2. CASE q # p
    BY <1>2, <1>4, <1>t, <2>2 DEF Has, Claim
  <2>3. QED
    BY <2>1, <2>2
<1>5. Claims' /\ Exclusive'
  BY <1>4, HandsFrame DEF Hands
<1>6. OwnSubmission' /\ ResetsAreOld'
  BY <1>2, <1>t DEF Hands, OwnSubmission, ResetsAreOld
<1>7. BatchDistinct'
  <2> SUFFICES ASSUME NEW other \in batch'[k]
               PROVE  /\ due[1] # other[1]
                      /\ \A o \in batch'[k] : o[1] = other[1] => o = other
    BY <1>2 DEF BatchDistinct
  <2>1. QED
    BY <1>2 DEF Hands, BatchDistinct
<1>8. QED
  BY <1>5, <1>6, <1>7 DEF Hands

-----------------------------------------------------------------------------
(* The dashboard and the environment *)

\* Retry resets no job the request or reconciliation counts on: it was read as
\* FAILED, and a job never becomes PROCESSING again.
LEMMA WriteRetryHands ==
    ASSUME IInv, Hands, NEW a \in Admin, WriteRetry(a) PROVE Hands'
<1>t. TypeOK /\ NoJobYet /\ UNCHANGED <<att, batch>>
  BY DEF IInv, WriteRetry
<1>1. PICK f \in Feedback : f = resetting[a]
  BY <1>t DEF WriteRetry, TypeOK
<1>2. \A b \in Admin : resetting'[b] \in {resetting[b], NoFeedback}
  BY <1>t DEF WriteRetry, TypeOK
<1>3. CASE UNCHANGED <<job, status>>
  BY <1>2, <1>3, <1>t, LeavesHands
<1>4. CASE /\ RowsExist(f)
           /\ job' = [job EXCEPT ![f].status = "RETRYING", ![f].attempts = 0,
                                 ![f].due = TRUE]
           /\ status' = [status EXCEPT ![f] = "DELIVERY_PENDING"]
  <2>1. /\ job'[f].status = "RETRYING"
        /\ status'[f] = "DELIVERY_PENDING"
        /\ \A g \in Feedback : g # f => job'[g] = job[g] /\ status'[g] = status[g]
    BY <1>1, <1>4, <1>t DEF TypeOK, Job
  <2>2. status[f] \notin {"none", "SUBMITTED", "removed"} /\ job[f].status # "none"
    <3>1. resetting[a] # NoFeedback
      BY <1>1, DeliveryAssumption
    <3>2. QED
      BY <1>1, <1>4, <3>1 DEF Hands, ResetsAreOld, RowsExist, Exists, FeedbackStatus
  <2>3. Agree(status[f], job[f], taskId[f])
    BY RowsAgree
  <2>4. job[f].status # "PROCESSING"
    <3>1. status[f] \in FeedbackStatus
      BY <1>4 DEF RowsExist, Exists
    <3>2. QED
      BY <2>2, <2>3, <3>1 DEF Agree, FeedbackStatus
  <2>5. ASSUME NEW q \in Proc, Has(q, f), q[1] # "tick" PROVE FALSE
    <3>1. q[1] = "request" /\ att[q].pc = "job"
      BY <2>2, <2>4, <2>5 DEF Hands, Claims, Claim
    <3>2. q = <<"request", f>>
      BY <2>5, <3>1 DEF Has, Hands, OwnSubmission, Proc
    <3>3. job[f] = NoJob
      BY <3>1, <3>2, <1>t DEF NoJobYet
    <3>4. QED
      BY <2>2, <3>3 DEF NoJob
  <2>6. ASSUME NEW q \in Proc, NEW g \in Feedback, Has(q, g)'
        PROVE  Has(q, g) /\ (Claim(q, g) => Claim(q, g)')
    <3>1. Has(q, g)
      BY <1>t, <2>6 DEF Has
    <3>2. CASE g # f
      BY <1>t, <2>1, <3>1, <3>2 DEF Claim
    <3>3. CASE g = f
      <4>1. q[1] = "tick"
        BY <2>5, <3>1, <3>3
      <4>2. QED
        BY <2>1, <3>1, <3>3, <4>1 DEF Claim
    <3>4. QED
      BY <3>2, <3>3
  <2>7. Claims' /\ Exclusive'
    BY <2>6, HandsFrame DEF Hands
  <2>8. OwnSubmission' /\ BatchDistinct'
    BY <1>t DEF Hands, OwnSubmission, BatchDistinct
  <2>9. ResetsAreOld'
    BY <1>2, <1>t, <2>1 DEF Hands, ResetsAreOld, TypeOK
  <2>10. QED
    BY <2>7, <2>8, <2>9 DEF Hands
<1>5. QED
  BY <1>1, <1>3, <1>4 DEF WriteRetry

LEMMA ReadForRetryHands ==
    ASSUME IInv, Hands, NEW a \in Admin, NEW f \in Feedback, ReadForRetry(a, f)
    PROVE  Hands'
<1>t. TypeOK /\ UNCHANGED <<status, job, att, batch>>
  BY DEF IInv, ReadForRetry, rows
<1>1. status[f] \notin {"none", "SUBMITTED"}
  BY RowsAgree DEF ReadForRetry, MayRetry, Agree, NoJob
<1>2. ResetsAreOld'
  BY <1>1, <1>t DEF Hands, ResetsAreOld, ReadForRetry, TypeOK
<1>3. Claims' /\ Exclusive' /\ OwnSubmission' /\ BatchDistinct'
  BY <1>t DEF Hands, Claims, Claim, Exclusive, Has, OwnSubmission, BatchDistinct
<1>4. QED
  BY <1>2, <1>3 DEF Hands

\* After a crash nobody has anything.
LEMMA CrashHands ==
    ASSUME Crash PROVE Hands'
<1>1. \A p \in Proc, f \in Feedback : ~Has(p, f)'
  BY DEF Crash, Has, Idle
<1>2. Claims' /\ Exclusive'
  BY <1>1 DEF Claims, Exclusive
<1>3. OwnSubmission' /\ BatchDistinct' /\ ResetsAreOld'
  BY DEF Crash, OwnSubmission, BatchDistinct, ResetsAreOld, Idle
<1>4. QED
  BY <1>2, <1>3 DEF Hands

\* Removing a row takes away what its claims are about, and nothing else does.
LEMMA QuietHands ==
    ASSUME IInv, Hands,
           \/ \E f \in Feedback : Submit(f) \/ BackoffElapses(f) \/ StartCheck(f) \/ CheckTicket(f)
           \/ \E r \in Remover : ReadForRemoval(r) \/ DeleteTicket(r) \/ DeleteRow(r)
           \/ \E t \in Ticket : DeletedInClickup(t)
           \/ ClickupGoesDown \/ ClickupComesBack \/ Gap
           \/ UNCHANGED vars
    PROVE  Hands'
<1>t. TypeOK
  BY DEF IInv
<1>1. UNCHANGED <<att, batch>> /\ \A a \in Admin : resetting'[a] = resetting[a]
  BY DEF Submit, BackoffElapses, StartCheck, CheckTicket, ReadForRemoval, DeleteTicket,
         DeleteRow, DeletedInClickup, ClickupGoesDown, ClickupComesBack, Gap, vars, memory
<1>2. ASSUME NEW f \in Feedback
      PROVE  \/ status'[f] = "removed"
             \/ status'[f] = status[f] /\ job'[f].status = job[f].status
  <2>1. CASE UNCHANGED <<status, job>>
    BY <2>1
  <2>2. CASE \E g \in Feedback : BackoffElapses(g)
    BY <2>2, <1>t DEF BackoffElapses, TypeOK, Job
  <2>3. CASE \E r \in Remover : DeleteRow(r)
    BY <2>3, <1>t DEF DeleteRow, TypeOK, Remover
  <2>4. QED
    BY <2>1, <2>2, <2>3 DEF Submit, StartCheck, CheckTicket, ReadForRemoval, DeleteTicket,
       DeletedInClickup, ClickupGoesDown, ClickupComesBack, Gap, vars, rows
<1>3. QED
  BY <1>1, <1>2, LeavesHands

LEMMA InitHands == Init => Hands
<1> SUFFICES ASSUME Init PROVE Hands
  OBVIOUS
<1>1. \A p \in Proc, f \in Feedback : ~Has(p, f)
  BY DEF Init, Has, Idle
<1>2. Claims /\ Exclusive
  BY <1>1 DEF Claims, Exclusive
<1>3. OwnSubmission /\ BatchDistinct /\ ResetsAreOld
  BY DEF Init, OwnSubmission, BatchDistinct, ResetsAreOld, Idle
<1>4. QED
  BY <1>2, <1>3 DEF Hands

LEMMA NextHands ==
    ASSUME OneTick, IInv, Hands, [Next]_vars PROVE Hands'
<1>1. CASE \E f \in Feedback : Insert(f) \/ CreateInitialJob(f) \/ RecoverStuck(f)
  BY <1>1, InsertHands, CreateInitialJobHands, RecoverStuckHands
<1>2. CASE \E p \in Proc : AttemptStep(p)
  BY <1>2, AttemptHands
<1>3. CASE \E k \in Tick : StartTick(k) \/ NextRetry(k)
  BY <1>3, StartTickHands, NextRetryHands
<1>4. CASE \E a \in Admin : (\E f \in Feedback : ReadForRetry(a, f)) \/ WriteRetry(a)
  BY <1>4, ReadForRetryHands, WriteRetryHands
<1>5. CASE Crash
  BY <1>5, CrashHands
<1>6. QED
  BY <1>1, <1>2, <1>3, <1>4, <1>5, QuietHands DEF Next

LEMMA AlwaysHands ==
    ASSUME OneTick PROVE Spec => [](IInv /\ Hands)
<1>1. Init => IInv /\ Hands
  BY InitIInv, InitHands
<1>2. IInv /\ Hands /\ [Next]_vars => IInv' /\ Hands'
  BY NextIInv, NextHands
<1>3. QED
  BY <1>1, <1>2, PTL DEF Spec

\* While retry ticks do not overlap, the request, the worker and reconciliation
\* never attempt to deliver one submission at the same time, however many admins
\* press Retry.
THEOREM AttemptsDoNotOverlap ==
    ASSUME OneTick PROVE Spec => []OneAttemptAtATime
<1>1. ASSUME IInv, Hands PROVE OneAttemptAtATime
  <2> SUFFICES ASSUME NEW p \in Proc, NEW q \in Proc, att[p].f = att[q].f, ~IsIdle(p)
               PROVE  p = q
    BY DEF OneAttemptAtATime
  <2>1. PICK f \in Feedback : f = att[p].f
    BY <1>1 DEF IsIdle, IInv, AttemptsInFlight, WellFormed
  <2>2. att[q].pc # "idle"
    BY <1>1, <2>1, DeliveryAssumption DEF Hands, OwnSubmission
  <2>3. QED
    BY <1>1, <2>1, <2>2 DEF Has, Hands, Exclusive, IsIdle
<1>2. QED
  BY <1>1, AlwaysHands, PTL


\* Whoever is about to create a ticket still has a submission to deliver.
CreatesForUndelivered ==
    \A t \in Ticket : creator'[t] # creator[t] => status[creator'[t]] # "DELIVERED"

\* Only these two steps give a ticket a creator.
LEMMA CreatorChanges ==
    ASSUME IInv, Next
    PROVE  \/ UNCHANGED creator
           \/ \E p \in Proc : /\ att[p].pc = "create" /\ NewTicket(p)
                              /\ UNCHANGED <<rows, resetting, removal>>
<1>1. ASSUME NEW p \in Proc, CreateTask(p) \/ CreateTaskLosesAnswer(p)
      PROVE  /\ att[p].pc = "create" /\ NewTicket(p)
             /\ UNCHANGED <<rows, resetting, removal>>
  BY <1>1 DEF CreateTask, CreateTaskLosesAnswer
<1>2. ASSUME NEW p \in Proc, AttemptStep(p)
      PROVE  UNCHANGED creator \/ CreateTask(p) \/ CreateTaskLosesAnswer(p)
  BY <1>2 DEF AttemptStep, Search, SearchFails, CreateTaskFails, LinkCompany,
     LinkCompanyFails, RecordSuccess, RecordFailure, clickup
<1>3. CASE \E f \in Feedback :
              \/ Submit(f) \/ Insert(f) \/ CreateInitialJob(f)
              \/ BackoffElapses(f)
              \/ RecoverStuck(f) \/ StartCheck(f) \/ CheckTicket(f)
  BY <1>3 DEF Submit, Insert, CreateInitialJob, BackoffElapses, RecoverStuck, StartCheck,
     CheckTicket, clickup
<1>4. CASE \/ \E k \in Tick : StartTick(k) \/ NextRetry(k)
           \/ \E r \in Remover : ReadForRemoval(r) \/ DeleteTicket(r) \/ DeleteRow(r)
           \/ \E a \in Admin : (\E f \in Feedback : ReadForRetry(a, f)) \/ WriteRetry(a)
           \/ \E t \in Ticket : DeletedInClickup(t)
           \/ Crash \/ ClickupGoesDown \/ ClickupComesBack \/ Gap
  BY <1>4 DEF StartTick, NextRetry, ReadForRemoval, DeleteTicket, DeleteRow, ReadForRetry,
     WriteRetry, DeletedInClickup, Crash, ClickupGoesDown, ClickupComesBack, Gap, clickup
<1>5. QED
  BY <1>1, <1>2, <1>3, <1>4 DEF Next

\* While retry ticks do not overlap, no ticket is created for a submission that
\* is DELIVERED already.
THEOREM DeliveredGetNoTicket ==
    ASSUME OneTick PROVE Spec => NoTicketAfterDelivery
<1>1. ASSUME IInv, Hands, Next PROVE CreatesForUndelivered
  <2> SUFFICES ASSUME NEW t \in Ticket, creator'[t] # creator[t],
                      status[creator'[t]] = "DELIVERED"
               PROVE  FALSE
    BY DEF CreatesForUndelivered
  <2>1. PICK p \in Proc : att[p].pc = "create" /\ NewTicket(p)
    BY <1>1, CreatorChanges
  <2>2. creator'[t] = att[p].f
    BY <1>1, <2>1 DEF NewTicket, IInv, TypeOK
  <2>3. PICK f \in Feedback : f = att[p].f /\ Has(p, f)
    BY <1>1, <2>1 DEF IInv, AttemptsInFlight, WellFormed, Has
  <2>4. Claim(p, f)
    BY <1>1, <2>3 DEF Hands, Claims
  <2>5. Agree(status[f], job[f], taskId[f])
    BY <1>1, RowsAgree
  <2>6. QED
    BY <2>1, <2>2, <2>3, <2>4, <2>5 DEF Claim, Agree
<1>2. IInv /\ Hands /\ [Next]_vars => [CreatesForUndelivered]_vars
  BY <1>1
<1>3. Spec => [][CreatesForUndelivered]_vars
  BY <1>2, AlwaysHands, PTL DEF Spec
<1>4. QED
  BY <1>3 DEF NoTicketAfterDelivery, CreatesForUndelivered

-----------------------------------------------------------------------------
(* With a single Retry request as well: how rows move *)

\* With a single Retry request as well: what it has read as FAILED still is.
ResetsAreCurrent ==
    \A a \in Admin : resetting[a] # NoFeedback =>
        status[resetting[a]] \in {"DELIVERY_FAILED", "removed"}

\* Only a delivered submission has a ticket.
OnlyDeliveredHasTicket == \A f \in Feedback : status[f] # "DELIVERED" => taskId[f] = NoTicket

\* What reconciliation knows of the submission it checks or removes.
ReconcilerKnows ==
    \A f \in Feedback :
        LET r == removal[<<"reconcile", f>>] IN
        r.pc # "idle" =>
            \/ status[f] = "removed"
            \/ /\ status[f] = "DELIVERED"
               /\ IF r.pc = "exists" THEN r.ticket = taskId[f] ELSE taskId[f] \notin live

Settling == ResetsAreCurrent /\ OnlyDeliveredHasTicket /\ ReconcilerKnows

\* Retry is not pressed twice at once.
OneAdmin == \A a, b \in Admin : a = b

Moves(f, from, to, t) ==
    /\ status[f] \in from
    /\ status' = [status EXCEPT ![f] = to]
    /\ taskId' = [taskId EXCEPT ![f] = t]

Open == {"SUBMITTED", "DELIVERY_PENDING"}

\* What a step can do to a row and the ticket it is recorded with.
RowMoves ==
    \E f \in Feedback :
        \/ Moves(f, {"none"}, "SUBMITTED", taskId[f])
        \/ \E t \in Ticket : creator[t] \in Feedback /\ Moves(f, Open, "DELIVERED", t)
        \/ Moves(f, Open, "DELIVERY_PENDING", taskId[f])
        \/ Moves(f, Open, "DELIVERY_FAILED", taskId[f])
        \/ /\ Moves(f, {"DELIVERY_FAILED"}, "DELIVERY_PENDING", taskId[f])
           /\ \E a \in Admin : resetting[a] = f /\ resetting'[a] = NoFeedback
        \/ Moves(f, FeedbackStatus, "removed", NoTicket)

\* An attempt that is not about to create the job has a row that is open or gone.
LEMMA InFlightIsOpen ==
    ASSUME IInv, Hands, NEW p \in Proc, att[p].pc \notin {"idle", "job"}
    PROVE  att[p].f \in Feedback /\ status[att[p].f] \in Open \cup {"removed"}
<1>1. PICK f \in Feedback : f = att[p].f /\ Has(p, f)
  BY DEF IInv, AttemptsInFlight, WellFormed, Has
<1>2. Claim(p, f)
  BY <1>1 DEF Hands, Claims
<1>3. Agree(status[f], job[f], taskId[f]) /\ status[f] \in FeedbackStatus \cup {"none", "removed"}
  BY RowsAgree DEF IInv, TypeOK
<1>4. QED
  BY <1>1, <1>2, <1>3 DEF Claim, Agree, Open, FeedbackStatus, NoJob

LEMMA RecordSuccessMoves ==
    ASSUME IInv, Hands, NEW p \in Proc, RecordSuccess(p)
    PROVE  UNCHANGED <<status, taskId>> \/ RowMoves
<1>1. CASE UNCHANGED rows
  BY <1>1 DEF rows
<1>2. CASE /\ RowsExist(att[p].f)
           /\ \E j : RecordedAs(p, "DELIVERED", j)
           /\ taskId' = [taskId EXCEPT ![att[p].f] = att[p].ticket]
  <2>1. att[p].pc \in {"succeed", "adopt"}
    BY DEF RecordSuccess
  <2>2. PICK f \in Feedback : f = att[p].f /\ status[f] \in Open \cup {"removed"}
    BY <2>1, InFlightIsOpen
  <2>3. Matches(att[p].ticket, f)
    BY <2>1, <2>2 DEF IInv, AttemptsInFlight, WellFormed
  <2>4. Moves(f, Open, "DELIVERED", att[p].ticket)
    BY <1>2, <2>2 DEF Moves, RowsExist, Exists, FeedbackStatus, RecordedAs
  <2>5. QED
    BY <2>3, <2>4 DEF RowMoves, Matches
<1>3. QED
  BY <1>1, <1>2 DEF RecordSuccess, RecordThrows

LEMMA RecordFailureMoves ==
    ASSUME IInv, Hands, NEW p \in Proc, RecordFailure(p)
    PROVE  UNCHANGED <<status, taskId>> \/ RowMoves
<1>1. CASE UNCHANGED rows
  BY <1>1 DEF rows
<1>2. ASSUME RowsExist(att[p].f), NEW s \in {"DELIVERY_FAILED", "DELIVERY_PENDING"}, NEW j,
             RecordedAs(p, s, j), UNCHANGED taskId
      PROVE  RowMoves
  <2>1. PICK f \in Feedback : f = att[p].f /\ status[f] \in Open \cup {"removed"}
    BY InFlightIsOpen DEF RecordFailure
  <2>2. Moves(f, Open, s, taskId[f])
    BY <1>2, <2>1 DEF Moves, RowsExist, Exists, FeedbackStatus, RecordedAs, IInv, TypeOK
  <2>3. QED
    BY <2>2 DEF RowMoves
<1>3. QED
  BY <1>1, <1>2 DEF RecordFailure, AttemptThrows

LEMMA WriteRetryMoves ==
    ASSUME IInv, ResetsAreCurrent, NEW a \in Admin, WriteRetry(a)
    PROVE  UNCHANGED <<status, taskId>> \/ RowMoves
<1>1. CASE UNCHANGED <<job, status>>
  BY <1>1 DEF WriteRetry
<1>2. CASE RowsExist(resetting[a]) /\ status' = [status EXCEPT ![resetting[a]] = "DELIVERY_PENDING"]
  <2>1. PICK f \in Feedback : f = resetting[a] /\ f # NoFeedback
    BY DEF IInv, TypeOK, WriteRetry
  <2>2. status[f] = "DELIVERY_FAILED"
    BY <1>2, <2>1 DEF ResetsAreCurrent, RowsExist, Exists, FeedbackStatus
  <2>3. Moves(f, {"DELIVERY_FAILED"}, "DELIVERY_PENDING", taskId[f])
    BY <1>2, <2>1, <2>2 DEF Moves, WriteRetry, IInv, TypeOK
  <2>4. resetting'[a] = NoFeedback
    BY DEF WriteRetry, IInv, TypeOK
  <2>5. QED
    BY <2>1, <2>3, <2>4 DEF RowMoves
<1>3. QED
  BY <1>1, <1>2 DEF WriteRetry

LEMMA RowTransitions ==
    ASSUME IInv, Hands, ResetsAreCurrent, Next
    PROVE  UNCHANGED <<status, taskId>> \/ RowMoves
<1>t. TypeOK
  BY DEF IInv
<1>1. ASSUME NEW p \in Proc, AttemptStep(p)
      PROVE  UNCHANGED <<status, taskId>> \/ RowMoves
  BY <1>1, RecordSuccessMoves, RecordFailureMoves DEF AttemptStep, Search, SearchFails,
     CreateTask, CreateTaskLosesAnswer, CreateTaskFails, LinkCompany, LinkCompanyFails, rows
<1>2. ASSUME NEW f \in Feedback, Insert(f)
      PROVE  UNCHANGED <<status, taskId>> \/ RowMoves
  <2>1. CASE UNCHANGED status
    BY <1>2, <2>1 DEF Insert
  <2>2. CASE status[f] = "none" /\ status' = [status EXCEPT ![f] = "SUBMITTED"]
    <3>1. Moves(f, {"none"}, "SUBMITTED", taskId[f])
      BY <1>2, <2>2, <1>t DEF Moves, Insert, TypeOK
    <3>2. QED
      BY <3>1 DEF RowMoves
  <2>3. QED
    BY <1>2, <2>1, <2>2 DEF Insert
<1>3. ASSUME NEW r \in Remover, DeleteRow(r)
      PROVE  UNCHANGED <<status, taskId>> \/ RowMoves
  <2>1. CASE UNCHANGED <<status, taskId, job>>
    BY <2>1
  <2>2. CASE /\ Exists(r[2])
             /\ status' = [status EXCEPT ![r[2]] = "removed"]
             /\ taskId' = [taskId EXCEPT ![r[2]] = NoTicket]
    <3>1. r[2] \in Feedback /\ Moves(r[2], FeedbackStatus, "removed", NoTicket)
      BY <2>2 DEF Moves, Exists, Remover
    <3>2. QED
      BY <3>1 DEF RowMoves
  <2>3. QED
    BY <1>3, <2>1, <2>2 DEF DeleteRow
<1>4. CASE \/ \E f \in Feedback :
                 \/ Submit(f) \/ CreateInitialJob(f) \/ BackoffElapses(f)
                 \/ RecoverStuck(f) \/ StartCheck(f) \/ CheckTicket(f)
           \/ \E k \in Tick : StartTick(k) \/ NextRetry(k)
           \/ \E r \in Remover : ReadForRemoval(r) \/ DeleteTicket(r)
           \/ \E a \in Admin, f \in Feedback : ReadForRetry(a, f)
           \/ \E t \in Ticket : DeletedInClickup(t)
           \/ Crash \/ ClickupGoesDown \/ ClickupComesBack \/ Gap
  BY <1>4 DEF Submit, CreateInitialJob, BackoffElapses, RecoverStuck, StartCheck, CheckTicket,
     StartTick, NextRetry, ReadForRemoval, DeleteTicket, ReadForRetry, DeletedInClickup, Crash,
     ClickupGoesDown, ClickupComesBack, Gap, rows
<1>5. QED
  BY <1>1, <1>2, <1>3, <1>4, WriteRetryMoves DEF Next

\* Delivered submissions stay so, with their ticket, until they are removed.
LEMMA StaysDelivered ==
    ASSUME IInv, UNCHANGED <<status, taskId>> \/ RowMoves, NEW f \in Feedback
    PROVE  /\ status[f] = "DELIVERED" =>
                  \/ status'[f] = "removed"
                  \/ status'[f] = "DELIVERED" /\ taskId'[f] = taskId[f]
           /\ status[f] = "removed" => status'[f] = "removed"
BY DEF RowMoves, Moves, Open, IInv, TypeOK, FeedbackStatus

\* A recorded ticket that is gone does not come back: ClickUp gives new ones.
LEMMA GoneStaysGone ==
    ASSUME IInv, [Next]_vars, NEW f \in Feedback, taskId[f] # NoTicket, taskId[f] \notin live
    PROVE  taskId[f] \notin live'
<1>1. CASE live' \subseteq live
  BY <1>1
<1>2. CASE \E p \in Proc : NewTicket(p)
  <2>1. FreshTicket \in Ticket /\ creator[FreshTicket] = NoFeedback
    BY <1>2, FreshTicketIsFresh DEF NewTicket
  <2>2. creator[taskId[f]] # NoFeedback
    BY DeliveryAssumption DEF IInv, RecordedMatches, Matches
  <2>3. QED
    BY <1>2, <2>1, <2>2 DEF NewTicket
<1>3. ASSUME NEW p \in Proc, AttemptStep(p) PROVE UNCHANGED live \/ NewTicket(p)
  BY <1>3 DEF AttemptStep, Search, SearchFails, CreateTask, CreateTaskLosesAnswer,
     CreateTaskFails, LinkCompany, LinkCompanyFails, RecordSuccess, RecordFailure, clickup
<1>4. CASE \E g \in Feedback :
              \/ Submit(g) \/ Insert(g) \/ CreateInitialJob(g)
              \/ BackoffElapses(g)
              \/ RecoverStuck(g) \/ StartCheck(g) \/ CheckTicket(g)
  BY <1>1, <1>4 DEF Submit, Insert, CreateInitialJob, BackoffElapses, RecoverStuck, StartCheck,
     CheckTicket, clickup
<1>5. CASE \/ \E k \in Tick : StartTick(k) \/ NextRetry(k)
           \/ \E r \in Remover : ReadForRemoval(r) \/ DeleteTicket(r) \/ DeleteRow(r)
           \/ \E a \in Admin : (\E g \in Feedback : ReadForRetry(a, g)) \/ WriteRetry(a)
           \/ \E t \in Ticket : DeletedInClickup(t)
           \/ Crash \/ ClickupGoesDown \/ ClickupComesBack \/ Gap
           \/ UNCHANGED vars
  BY <1>1, <1>5 DEF StartTick, NextRetry, ReadForRemoval, DeleteTicket, DeleteRow, ReadForRetry,
     WriteRetry, DeletedInClickup, Crash, ClickupGoesDown, ClickupComesBack, Gap, clickup, vars
<1>6. QED
  BY <1>1, <1>2, <1>3, <1>4, <1>5 DEF Next

\* Retry only comes to hold a submission whose job it has just read as FAILED.
LEMMA ResettingChanges ==
    ASSUME IInv, [Next]_vars, NEW a \in Admin
    PROVE  \/ resetting'[a] \in {resetting[a], NoFeedback}
           \/ \E f \in Feedback : /\ resetting'[a] = f /\ status[f] = "DELIVERY_FAILED"
                                  /\ UNCHANGED status
<1>t. TypeOK
  BY DEF IInv
<1>1. ASSUME NEW b \in Admin, NEW f \in Feedback, ReadForRetry(b, f)
      PROVE  \/ resetting'[a] = resetting[a]
             \/ resetting'[a] = f /\ status[f] = "DELIVERY_FAILED" /\ UNCHANGED status
  <2>1. Agree(status[f], job[f], taskId[f]) /\ status[f] \in FeedbackStatus \cup {"none", "removed"}
    BY RowsAgree, <1>t DEF TypeOK
  <2>2. status[f] = "DELIVERY_FAILED"
    BY <1>1, <2>1 DEF ReadForRetry, MayRetry, Agree, NoJob, FeedbackStatus
  <2>3. QED
    BY <1>1, <2>2, <1>t DEF ReadForRetry, rows, TypeOK
<1>2. ASSUME NEW b \in Admin, WriteRetry(b) PROVE resetting'[a] \in {resetting[a], NoFeedback}
  BY <1>2, <1>t DEF WriteRetry, TypeOK
<1>3. CASE Crash
  BY <1>3 DEF Crash
<1>4. ASSUME NEW p \in Proc, AttemptStep(p) PROVE UNCHANGED resetting
  BY <1>4 DEF AttemptStep, Search, SearchFails, CreateTask, CreateTaskLosesAnswer,
     CreateTaskFails, LinkCompany, LinkCompanyFails, RecordSuccess, RecordFailure
<1>5. ASSUME NEW g \in Feedback,
              \/ Submit(g) \/ Insert(g) \/ CreateInitialJob(g)
              \/ BackoffElapses(g)
              \/ RecoverStuck(g) \/ StartCheck(g) \/ CheckTicket(g)
      PROVE  UNCHANGED resetting
  BY <1>5 DEF Submit, Insert, CreateInitialJob, BackoffElapses, RecoverStuck, StartCheck,
     CheckTicket, memory
<1>6. CASE \/ \E k \in Tick : StartTick(k) \/ NextRetry(k)
           \/ \E r \in Remover : ReadForRemoval(r) \/ DeleteTicket(r) \/ DeleteRow(r)
           \/ \E t \in Ticket : DeletedInClickup(t)
           \/ ClickupGoesDown \/ ClickupComesBack \/ Gap
           \/ UNCHANGED vars
  BY <1>6 DEF StartTick, NextRetry, ReadForRemoval, DeleteTicket, DeleteRow, DeletedInClickup,
     ClickupGoesDown, ClickupComesBack, Gap, memory, vars
<1>7. QED
  BY <1>1, <1>2, <1>3, <1>4, <1>5, <1>6 DEF Next

LEMMA ResetsStayCurrent ==
    ASSUME OneAdmin, IInv, ResetsAreCurrent, [Next]_vars,
           UNCHANGED <<status, taskId>> \/ RowMoves
    PROVE  ResetsAreCurrent'
<1> SUFFICES ASSUME NEW a \in Admin, resetting'[a] # NoFeedback
             PROVE  status'[resetting'[a]] \in {"DELIVERY_FAILED", "removed"}
  BY DEF ResetsAreCurrent
<1>1. CASE \E f \in Feedback : /\ resetting'[a] = f /\ status[f] = "DELIVERY_FAILED"
                               /\ UNCHANGED status
  BY <1>1
<1>2. CASE resetting'[a] = resetting[a]
  <2>1. PICK f \in Feedback : f = resetting[a] /\ status[f] \in {"DELIVERY_FAILED", "removed"}
    BY <1>2 DEF ResetsAreCurrent, IInv, TypeOK
  <2>2. \A b \in Admin : resetting'[b] # NoFeedback
    BY DEF OneAdmin
  <2>3. status'[f] \in {"DELIVERY_FAILED", "removed"}
    BY <2>1, <2>2 DEF RowMoves, Moves, Open, IInv, TypeOK
  <2>4. QED
    BY <1>2, <2>1, <2>3
<1>3. QED
  BY <1>1, <1>2, ResettingChanges

LEMMA OnlyDeliveredKeepsTicket ==
    ASSUME IInv, OnlyDeliveredHasTicket, UNCHANGED <<status, taskId>> \/ RowMoves
    PROVE  OnlyDeliveredHasTicket'
BY DEF OnlyDeliveredHasTicket, RowMoves, Moves, Open, IInv, TypeOK


\* What a step does to reconciliation's view of submission f.
LEMMA RemovalChanges ==
    ASSUME IInv, [Next]_vars, NEW f \in Feedback, NEW r \in Remover, r = <<"reconcile", f>>
    PROVE  \/ removal'[r] = removal[r]
           \/ removal'[r].pc = "idle"
           \/ /\ status[f] = "DELIVERED" /\ UNCHANGED rows
              /\ removal'[r].pc = "exists" /\ removal'[r].ticket = taskId[f]
           \/ /\ removal[r].pc = "exists" /\ removal[r].ticket \notin live
              /\ removal'[r].pc = "read" /\ UNCHANGED <<rows, live>>
           \/ /\ removal[r].pc \in {"read", "ticket"}
              /\ removal'[r].pc \in {"ticket", "row"} /\ UNCHANGED rows
<1>t. TypeOK /\ removal \in [Remover -> Removal]
  BY DEF IInv, TypeOK
<1>1. ASSUME NEW g \in Feedback, StartCheck(g)
      PROVE  \/ removal'[r] = removal[r]
             \/ /\ status[f] = "DELIVERED" /\ UNCHANGED rows
                /\ removal'[r].pc = "exists" /\ removal'[r].ticket = taskId[f]
  BY <1>1, <1>t DEF StartCheck
<1>2. ASSUME NEW g \in Feedback, CheckTicket(g)
      PROVE  \/ removal'[r] = removal[r]
             \/ removal'[r].pc = "idle"
             \/ /\ removal[r].pc = "exists" /\ removal[r].ticket \notin live
                /\ removal'[r].pc = "read" /\ UNCHANGED <<rows, live>>
  BY <1>2, <1>t DEF CheckTicket, TicketIsGone, NotRemoving, clickup
<1>3. ASSUME NEW q \in Remover, ReadForRemoval(q)
      PROVE  \/ removal'[r] = removal[r]
             \/ removal'[r].pc = "idle"
             \/ /\ removal[r].pc = "read" /\ removal'[r].pc = "ticket" /\ UNCHANGED rows
  BY <1>3, <1>t DEF ReadForRemoval, NotRemoving
<1>4. ASSUME NEW q \in Remover, DeleteTicket(q)
      PROVE  \/ removal'[r] = removal[r]
             \/ /\ removal[r].pc = "ticket" /\ removal'[r].pc = "row" /\ UNCHANGED rows
  BY <1>4, <1>t DEF DeleteTicket, Removal
<1>5. ASSUME NEW q \in Remover, DeleteRow(q)
      PROVE  removal'[r] = removal[r] \/ removal'[r].pc = "idle"
  BY <1>5, <1>t DEF DeleteRow, NotRemoving
<1>6. CASE Crash
  BY <1>6 DEF Crash, NotRemoving
<1>7. ASSUME NEW p \in Proc, AttemptStep(p) PROVE UNCHANGED removal
  BY <1>7 DEF AttemptStep, Search, SearchFails, CreateTask, CreateTaskLosesAnswer,
     CreateTaskFails, LinkCompany, LinkCompanyFails, RecordSuccess, RecordFailure
<1>8. ASSUME NEW g \in Feedback,
              \/ Submit(g) \/ Insert(g) \/ CreateInitialJob(g)
              \/ BackoffElapses(g) \/ RecoverStuck(g)
      PROVE  UNCHANGED removal
  BY <1>8 DEF Submit, Insert, CreateInitialJob, BackoffElapses, RecoverStuck, memory
<1>9. CASE \/ \E k \in Tick : StartTick(k) \/ NextRetry(k)
           \/ \E a \in Admin : (\E g \in Feedback : ReadForRetry(a, g)) \/ WriteRetry(a)
           \/ \E t \in Ticket : DeletedInClickup(t)
           \/ ClickupGoesDown \/ ClickupComesBack \/ Gap
           \/ UNCHANGED vars
  BY <1>9 DEF StartTick, NextRetry, ReadForRetry, WriteRetry, DeletedInClickup,
     ClickupGoesDown, ClickupComesBack, Gap, memory, vars
<1>10. QED
  BY <1>1, <1>2, <1>3, <1>4, <1>5, <1>6, <1>7, <1>8, <1>9 DEF Next

\* Found gone, a ticket stays gone, and the submission delivered until removed.
LEMMA ReconcilerKeepsKnowing ==
    ASSUME IInv, ReconcilerKnows, [Next]_vars, UNCHANGED <<status, taskId>> \/ RowMoves
    PROVE  ReconcilerKnows'
<1> SUFFICES ASSUME NEW f \in Feedback, NEW r \in Remover, r = <<"reconcile", f>>,
                    removal'[r].pc # "idle", status'[f] # "removed"
             PROVE  /\ status'[f] = "DELIVERED"
                    /\ IF removal'[r].pc = "exists" THEN removal'[r].ticket = taskId'[f]
                                                    ELSE taskId'[f] \notin live'
  BY DEF ReconcilerKnows, Remover
<1>1. status[f] # "removed"
  BY StaysDelivered
<1>2. removal[r].pc # "idle" =>
         /\ status[f] = "DELIVERED"
         /\ IF removal[r].pc = "exists" THEN removal[r].ticket = taskId[f]
                                        ELSE taskId[f] \notin live
  BY <1>1 DEF ReconcilerKnows
<1>3. status[f] = "DELIVERED" =>
         status'[f] = "DELIVERED" /\ taskId'[f] = taskId[f] /\ taskId[f] # NoTicket
  BY StaysDelivered DEF IInv, JobMirrorsSubmission
<1>4. status[f] = "DELIVERED" /\ taskId[f] \notin live => taskId[f] \notin live'
  BY <1>3, GoneStaysGone
<1>5. CASE removal'[r] = removal[r]
  BY <1>2, <1>3, <1>4, <1>5
<1>6. CASE /\ status[f] = "DELIVERED"
           /\ removal'[r].pc = "exists" /\ removal'[r].ticket = taskId[f]
  BY <1>3, <1>6
<1>7. CASE /\ removal[r].pc = "exists" /\ removal[r].ticket \notin live
           /\ removal'[r].pc = "read"
  BY <1>2, <1>3, <1>4, <1>7
<1>8. CASE removal[r].pc \in {"read", "ticket"} /\ removal'[r].pc \in {"ticket", "row"}
  BY <1>2, <1>3, <1>4, <1>8
<1>9. QED
  BY <1>5, <1>6, <1>7, <1>8, RemovalChanges

LEMMA InitSettling == Init => Settling
BY DEF Init, Settling, ResetsAreCurrent, OnlyDeliveredHasTicket, ReconcilerKnows, NotRemoving,
       Remover

LEMMA NextSettling ==
    ASSUME OneAdmin, IInv, Hands, Settling, [Next]_vars PROVE Settling'
<1>1. UNCHANGED <<status, taskId>> \/ RowMoves
  BY RowTransitions DEF Settling, vars, rows
<1>2. QED
  BY <1>1, ResetsStayCurrent, OnlyDeliveredKeepsTicket, ReconcilerKeepsKnowing DEF Settling

LEMMA AlwaysSettling ==
    ASSUME OneTick, OneAdmin PROVE Spec => [](IInv /\ Hands /\ Settling)
<1>1. Init => IInv /\ Hands /\ Settling
  BY InitIInv, InitHands, InitSettling
<1>2. IInv /\ Hands /\ Settling /\ [Next]_vars => IInv' /\ Hands' /\ Settling'
  BY NextIInv, NextHands, NextSettling
<1>3. QED
  BY <1>1, <1>2, PTL DEF Spec

RemovesOnlyGone ==
    \A f \in Feedback :
        (removal[<<"reconcile", f>>].pc = "row" /\ DeleteRow(<<"reconcile", f>>)
           /\ Exists(f)) => taskId[f] # NoTicket /\ taskId[f] \notin live

\* While neither retry ticks nor Retry requests overlap, reconciliation removes a
\* submission only when its ticket is gone from ClickUp: what it found out
\* several steps before is still so.
THEOREM ReconciliationIsRight ==
    ASSUME OneTick, OneAdmin PROVE Spec => ReconcileRemovesOnlyGone
<1>1. ASSUME IInv, Settling PROVE RemovesOnlyGone
  <2> SUFFICES ASSUME NEW f \in Feedback, removal[<<"reconcile", f>>].pc = "row", Exists(f)
               PROVE  taskId[f] # NoTicket /\ taskId[f] \notin live
    BY DEF RemovesOnlyGone
  <2>1. status[f] = "DELIVERED" /\ taskId[f] \notin live
    BY <1>1 DEF Settling, ReconcilerKnows, Exists, FeedbackStatus
  <2>2. QED
    BY <1>1, <2>1 DEF IInv, JobMirrorsSubmission
<1>2. IInv /\ Hands /\ Settling /\ [Next]_vars => [RemovesOnlyGone]_vars
  BY <1>1
<1>3. Spec => [][RemovesOnlyGone]_vars
  BY <1>2, AlwaysSettling, PTL DEF Spec
<1>4. QED
  BY <1>3 DEF ReconcileRemovesOnlyGone, RemovesOnlyGone

-----------------------------------------------------------------------------
(* Refinement of DeliveryPromise *)


\* What a status looks like to the promise.
LEMMA OutcomeOf ==
    ASSUME NEW f \in Feedback
    PROVE  /\ status[f] = "none" => Outcome(f) = "absent"
           /\ status[f] \in Open => Outcome(f) = "open"
           /\ status[f] = "DELIVERED" => Outcome(f) = "delivered"
           /\ status[f] = "DELIVERY_FAILED" => Outcome(f) = "givenUp"
           /\ status[f] = "removed" => Outcome(f) = "removed"
BY DEF Outcome, Open

\* One row moves, and to the promise one outcome.
LEMMA OutcomeMoves ==
    ASSUME TypeOK, NEW f \in Feedback, NEW from, NEW to, NEW t, Moves(f, from, to, t),
           NEW o,
           to \in Open => o = "open",
           to = "DELIVERED" => o = "delivered",
           to = "DELIVERY_FAILED" => o = "givenUp",
           to = "removed" => o = "removed",
           to \in FeedbackStatus \cup {"removed"}
    PROVE  [g \in Feedback |-> Outcome(g)]' =
               [[g \in Feedback |-> Outcome(g)] EXCEPT ![f] = o]
<1>1. status'[f] = to /\ \A g \in Feedback : g # f => status'[g] = status[g]
  BY DEF Moves, TypeOK
<1>2. \A g \in Feedback : g # f => Outcome(g)' = Outcome(g)
  BY <1>1 DEF Outcome
<1>3. Outcome(f)' = o
  BY <1>1 DEF Outcome, Open, FeedbackStatus
<1>4. QED
  BY <1>2, <1>3

LEMMA PromisedInit == Init => Promise!Init
BY DeliveryAssumption DEF Init, Promise!Init, Outcome

\* A step that creates a ticket.
LEMMA PromisedCreation ==
    ASSUME IInv, NEW p \in Proc, NewTicket(p), att[p].f \in Feedback, UNCHANGED rows
    PROVE  Promise!Next
<1>1. PICK n \in Ticket : n = FreshTicket /\ creator[n] = NoFeedback
  BY FreshTicketIsFresh DEF NewTicket
<1>2. creator' = [creator EXCEPT ![n] = att[p].f]
  BY <1>1 DEF NewTicket
<1>3. {t \in Ticket : creator[t] # NoFeedback}' =
         {t \in Ticket : creator[t] # NoFeedback} \cup {n}
  BY <1>2, DeliveryAssumption DEF IInv, TypeOK
<1>4. [f \in Feedback |-> Outcome(f)]' = [f \in Feedback |-> Outcome(f)] /\ taskId' = taskId
  BY DEF rows, Outcome
<1>5. Promise!Create(n)
  BY <1>1, <1>3, <1>4 DEF Promise!Create
<1>6. QED
  BY <1>5 DEF Promise!Next

\* A step that moves a row.
LEMMA PromisedRowMove ==
    ASSUME IInv, OnlyDeliveredHasTicket, RowMoves, UNCHANGED creator
    PROVE  [Promise!Next]_(Promise!vars)
<1>t. TypeOK
  BY DEF IInv
<1>e. UNCHANGED {t \in Ticket : creator[t] # NoFeedback}
  OBVIOUS
<1>s. ASSUME NEW f \in Feedback, NEW from, NEW to, Moves(f, from, to, taskId[f])
      PROVE  UNCHANGED taskId
  BY <1>s, <1>t DEF Moves, TypeOK
<1>1. ASSUME NEW f \in Feedback, Moves(f, {"none"}, "SUBMITTED", taskId[f])
      PROVE  Promise!Next
  <2>1. [g \in Feedback |-> Outcome(g)]' =
            [[g \in Feedback |-> Outcome(g)] EXCEPT ![f] = "open"]
    BY <1>1, <1>t, OutcomeMoves DEF Open, FeedbackStatus
  <2>2. Promise!Receive(f)
    BY <1>1, <1>e, <1>s, <2>1, OutcomeOf DEF Promise!Receive, Promise!Moves, Moves
  <2>3. QED
    BY <2>2 DEF Promise!Next
<1>2. ASSUME NEW f \in Feedback, NEW t \in Ticket, creator[t] \in Feedback,
             Moves(f, Open, "DELIVERED", t)
      PROVE  Promise!Next
  <2>1. [g \in Feedback |-> Outcome(g)]' =
            [[g \in Feedback |-> Outcome(g)] EXCEPT ![f] = "delivered"]
    BY <1>2, <1>t, OutcomeMoves DEF Open, FeedbackStatus
  <2>2. t \in {u \in Ticket : creator[u] # NoFeedback}
    BY <1>2, DeliveryAssumption
  <2>3. Promise!Deliver(f, t)
    BY <1>2, <1>e, <2>1, <2>2, OutcomeOf DEF Promise!Deliver, Promise!Moves, Moves
  <2>4. QED
    BY <2>3 DEF Promise!Next
<1>3. ASSUME NEW f \in Feedback, Moves(f, Open, "DELIVERY_PENDING", taskId[f])
      PROVE  UNCHANGED Promise!vars
  <2>1. [g \in Feedback |-> Outcome(g)]' =
            [[g \in Feedback |-> Outcome(g)] EXCEPT ![f] = "open"]
    BY <1>3, <1>t, OutcomeMoves DEF Open, FeedbackStatus
  <2>2. Outcome(f) = "open"
    BY <1>3, OutcomeOf DEF Moves
  <2>3. QED
    BY <1>3, <1>e, <1>s, <2>1, <2>2 DEF Promise!vars
<1>4. ASSUME NEW f \in Feedback, Moves(f, Open, "DELIVERY_FAILED", taskId[f])
      PROVE  Promise!Next
  <2>1. [g \in Feedback |-> Outcome(g)]' =
            [[g \in Feedback |-> Outcome(g)] EXCEPT ![f] = "givenUp"]
    BY <1>4, <1>t, OutcomeMoves DEF Open, FeedbackStatus
  <2>2. Promise!GiveUp(f)
    BY <1>4, <1>e, <1>s, <2>1, OutcomeOf DEF Promise!GiveUp, Promise!Moves, Moves
  <2>3. QED
    BY <2>2 DEF Promise!Next
<1>5. ASSUME NEW f \in Feedback, Moves(f, {"DELIVERY_FAILED"}, "DELIVERY_PENDING", taskId[f])
      PROVE  Promise!Next
  <2>1. [g \in Feedback |-> Outcome(g)]' =
            [[g \in Feedback |-> Outcome(g)] EXCEPT ![f] = "open"]
    BY <1>5, <1>t, OutcomeMoves DEF Open, FeedbackStatus
  <2>2. taskId[f] = NoTicket
    BY <1>5 DEF OnlyDeliveredHasTicket, Moves
  <2>3. Promise!Reopen(f)
    BY <1>5, <1>e, <1>s, <2>1, <2>2, OutcomeOf DEF Promise!Reopen, Promise!Moves, Moves
  <2>4. QED
    BY <2>3 DEF Promise!Next
<1>6. ASSUME NEW f \in Feedback, Moves(f, FeedbackStatus, "removed", NoTicket)
      PROVE  Promise!Next
  <2>1. [g \in Feedback |-> Outcome(g)]' =
            [[g \in Feedback |-> Outcome(g)] EXCEPT ![f] = "removed"]
    BY <1>6, <1>t, OutcomeMoves DEF Open, FeedbackStatus
  <2>2. Outcome(f) \in {"open", "delivered", "givenUp"}
    BY <1>6, OutcomeOf DEF Moves, Open, FeedbackStatus
  <2>3. Promise!Remove(f)
    BY <1>6, <1>e, <2>1, <2>2 DEF Promise!Remove, Promise!Moves, Moves
  <2>4. QED
    BY <2>3 DEF Promise!Next
<1>7. QED
  BY <1>1, <1>2, <1>3, <1>4, <1>5, <1>6 DEF RowMoves

LEMMA PromisedStep ==
    ASSUME IInv, Hands, Settling, [Next]_vars PROVE [Promise!Next]_(Promise!vars)
<1>1. CASE UNCHANGED <<status, taskId, creator>>
  <2>1. [f \in Feedback |-> Outcome(f)]' = [f \in Feedback |-> Outcome(f)]
    BY <1>1 DEF Outcome
  <2>2. QED
    BY <1>1, <2>1 DEF Promise!vars
<1>2. CASE Next
  <2>1. CASE UNCHANGED creator
    BY <1>1, <1>2, <2>1, RowTransitions, PromisedRowMove DEF Settling
  <2>2. ASSUME NEW p \in Proc, att[p].pc = "create", NewTicket(p), UNCHANGED rows
        PROVE  Promise!Next
    <3>1. att[p].f \in Feedback
      BY <2>2 DEF IInv, AttemptsInFlight, WellFormed
    <3>2. QED
      BY <2>2, <3>1, PromisedCreation
  <2>3. QED
    BY <1>2, <2>1, <2>2, CreatorChanges
<1>3. QED
  BY <1>1, <1>2 DEF vars, rows, clickup

\* While neither retry ticks nor Retry requests overlap, the pipeline keeps its
\* promise: it delivers with a ticket that was created before, takes nothing back
\* that it delivered but by removing it, and reopens only what was given up.
THEOREM PipelineKeepsPromise ==
    ASSUME OneTick, OneAdmin PROVE Spec => PromiseKept
<1>1. IInv /\ Hands /\ Settling /\ [Next]_vars => [Promise!Next]_(Promise!vars)
  BY PromisedStep
<1>2. Spec => Promise!Spec
  BY <1>1, PromisedInit, AlwaysSettling, PTL DEF Spec, Promise!Spec
<1>3. QED
  BY <1>2 DEF PromiseKept

=============================================================================
