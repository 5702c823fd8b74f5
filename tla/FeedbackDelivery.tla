-------------------------- MODULE FeedbackDelivery --------------------------
(***************************************************************************)
(* Delivery of QR-code feedback to ClickUp: the request that saves a       *)
(* submission and makes the first attempt, the every-minute retry worker,  *)
(* the ten-minute reconciliation (stuck submissions, tickets deleted in    *)
(* ClickUp), the dashboard's Retry and Delete, and the ClickUp account     *)
(* they all talk to.                                                       *)
(*                                                                         *)
(* Everything between two awaits of the code is one action, and what a     *)
(* handler read before an await stays in its memory (att, batch, removal,  *)
(* resetting) until it uses it.  A $transaction is one action.  Time is    *)
(* abstract: a backoff elapses, and a gap longer than the search window    *)
(* of thirty minutes passes.  A submission is named by its idempotency     *)
(* key; a key whose row was removed is not submitted again.                *)
(***************************************************************************)
EXTENDS Naturals, FiniteSets

CONSTANTS
    Feedback,               \* submissions, by idempotency key
    Title,                  \* ticket titles, "<client name> - <business name>"
    TitleOf,                \* the title each submission's site gives its ticket
    Ticket,                 \* ids ClickUp gives to tickets (bounds the creations)
    NoTicket,               \* the null ticket id
    NoFeedback,             \* no submission
    Tick,                   \* runs of the retry worker that may overlap
    Admin,                  \* dashboard requests that may press Retry at once
    MAX_DELIVERY_ATTEMPTS,  \* 3 in the code: the first attempt and two retries
    BATCH_SIZE,             \* due jobs one tick takes, 20 in the code
    MaxRequests,            \* bound: requests of one key waiting to insert
    Budget                  \* bound: how often each EventKind may happen

\* What the environment does at most Budget[k] times.
EventKind == {"outage", "lostAnswer", "dbError", "crash", "externalDelete",
              "manualRetry", "gap"}

ASSUME DeliveryAssumption ==
    /\ TitleOf \in [Feedback -> Title]
    /\ NoTicket \notin Ticket
    /\ NoFeedback \notin Feedback
    /\ MAX_DELIVERY_ATTEMPTS \in Nat /\ MAX_DELIVERY_ATTEMPTS >= 2
    /\ BATCH_SIZE \in Nat \ {0}
    /\ MaxRequests \in Nat
    /\ Budget \in [EventKind -> Nat]

VARIABLES
    \* Postgres: feedback_submissions and integration_jobs
    status,       \* FeedbackStatus of each row; "none" before, "removed" after
    taskId,       \* clickupTaskId of each row
    submittedAt,  \* the period in which the row was inserted
    job,          \* the row's integration job, NoJob while there is none
    \* ClickUp
    creator,      \* the submission an attempt created each ticket for
    createdAt,    \* the period in which each ticket was created
    live,         \* the tickets that exist now
    up,           \* ClickUp answers and a connection is ready
    \* the memory of the one server process
    waiting,      \* requests of each key between the replay check and the insert
    att,          \* delivery attempts in flight
    batch,        \* <<submission, attempts made>> a tick snapshotted and has left
    removal,      \* calls of remove() in flight
    resetting,    \* the submission each Retry request has read as FAILED
    \* the environment
    now,          \* the current period
    budget        \* what the environment may still do

rows    == <<status, taskId, submittedAt, job>>
clickup == <<creator, createdAt, live, up>>
memory  == <<waiting, att, batch, removal, resetting>>
env     == <<now, budget>>
vars    == <<rows, clickup, memory, env>>

FeedbackStatus == {"SUBMITTED", "DELIVERY_PENDING", "DELIVERED", "DELIVERY_FAILED"}
JobStatus == {"PROCESSING", "RETRYING", "SUCCEEDED", "FAILED"}
AttemptPc == {"idle", "job", "search", "create", "link", "adopt", "succeed", "fail"}
RemovalPc == {"idle", "exists", "read", "ticket", "row"}

\* Periods are counted; Budget["gap"] bounds how many there are.
Period == Nat

\* The request's own attempt, a stuck submission's recovery, a retry tick.
Proc == ({"request", "recover"} \X Feedback) \cup ({"tick"} \X Tick)
Remover == {"dashboard", "reconcile"} \X Feedback

NoJob == [status |-> "none", attempts |-> 0, due |-> FALSE, externalId |-> NoTicket]
Idle == [pc |-> "idle", f |-> NoFeedback, n |-> 0, ticket |-> NoTicket]
NotRemoving == [pc |-> "idle", ticket |-> NoTicket]

Job == [status : JobStatus \cup {"none"},
        attempts : 0 .. MAX_DELIVERY_ATTEMPTS,
        due : BOOLEAN,
        externalId : Ticket \cup {NoTicket}]
Attempt == [pc : AttemptPc,
            f : Feedback \cup {NoFeedback},
            n : 0 .. MAX_DELIVERY_ATTEMPTS,
            ticket : Ticket \cup {NoTicket}]
Removal == [pc : RemovalPc, ticket : Ticket \cup {NoTicket}]

TypeOK ==
    /\ status \in [Feedback -> FeedbackStatus \cup {"none", "removed"}]
    /\ taskId \in [Feedback -> Ticket \cup {NoTicket}]
    /\ submittedAt \in [Feedback -> Period]
    /\ job \in [Feedback -> Job]
    /\ creator \in [Ticket -> Feedback \cup {NoFeedback}]
    /\ createdAt \in [Ticket -> Period]
    /\ live \in SUBSET Ticket
    /\ up \in BOOLEAN
    /\ waiting \in [Feedback -> 0 .. MaxRequests]
    /\ att \in [Proc -> Attempt]
    /\ batch \in [Tick -> SUBSET (Feedback \X (0 .. MAX_DELIVERY_ATTEMPTS - 1))]
    /\ removal \in [Remover -> Removal]
    /\ resetting \in [Admin -> Feedback \cup {NoFeedback}]
    /\ now \in Period
    /\ budget \in [EventKind -> Nat]

Init ==
    /\ status = [f \in Feedback |-> "none"]
    /\ taskId = [f \in Feedback |-> NoTicket]
    /\ submittedAt = [f \in Feedback |-> 0]
    /\ job = [f \in Feedback |-> NoJob]
    /\ creator = [t \in Ticket |-> NoFeedback]
    /\ createdAt = [t \in Ticket |-> 0]
    /\ live = {}
    /\ up = TRUE
    /\ waiting = [f \in Feedback |-> 0]
    /\ att = [p \in Proc |-> Idle]
    /\ batch = [k \in Tick |-> {}]
    /\ removal = [r \in Remover |-> NotRemoving]
    /\ resetting = [a \in Admin |-> NoFeedback]
    /\ now = 0
    /\ budget = Budget

-----------------------------------------------------------------------------
(* Helpers *)

Spend(kind) ==
    /\ budget[kind] > 0
    /\ budget' = [budget EXCEPT ![kind] = @ - 1]

Exists(f) == status[f] \in FeedbackStatus
IsIdle(p) == att[p].pc = "idle"
Start(p, pc, f, n) ==
    att' = [att EXCEPT ![p] = [pc |-> pc, f |-> f, n |-> n, ticket |-> NoTicket]]
Goto(p, pc) == att' = [att EXCEPT ![p].pc = pc]
Finish(p) == att' = [att EXCEPT ![p] = Idle]

\* The WHERE id = jobId and WHERE id = feedbackId of an update both match.
\* Deleting a submission cascades to its job, so a late update finds neither
\* and throws.
RowsExist(f) == Exists(f) /\ job[f].status # "none"

-----------------------------------------------------------------------------
(* The request: FeedbackService.submit *)

\* Site and client are active and no row has the key: the request goes on to
\* verify its media.  A key with a row gets that row back and changes nothing.
Submit(f) ==
    /\ status[f] = "none"
    /\ waiting[f] < MaxRequests
    /\ waiting' = [waiting EXCEPT ![f] = @ + 1]
    /\ UNCHANGED <<rows, clickup, att, batch, removal, resetting, env>>

\* The media is verified; idempotencyKey is unique, so only the first of the
\* waiting requests inserts its row and the others fail.  One that waits until the
\* row was removed again would insert another row, of another id: not modelled.
Insert(f) ==
    /\ waiting[f] > 0
    /\ waiting' = [waiting EXCEPT ![f] = @ - 1]
    /\ \/ /\ status[f] = "none"
          /\ status' = [status EXCEPT ![f] = "SUBMITTED"]
          /\ submittedAt' = [submittedAt EXCEPT ![f] = now]
          /\ Start(<<"request", f>>, "job", f, 1)
       \/ /\ status[f] # "none"
          /\ UNCHANGED <<status, submittedAt, att>>
    /\ UNCHANGED <<taskId, job, clickup, batch, removal, resetting, env>>

\* createInitialJob stands before deliverToClickup's try: when it throws,
\* the request ends.
CreateInitialJob(f) ==
    LET p == <<"request", f>> IN
    /\ att[p].pc = "job"
    /\ \/ /\ Exists(f)
          /\ job' = [job EXCEPT ![f] = [NoJob EXCEPT !.status = "PROCESSING",
                                                     !.attempts = 1]]
          /\ Goto(p, "create")
          /\ UNCHANGED env
       \/ /\ ~Exists(f)
          /\ Finish(p)
          /\ UNCHANGED <<job, env>>
       \/ /\ Spend("dbError")
          /\ Finish(p)
          /\ UNCHANGED <<job, now>>
    /\ UNCHANGED <<status, taskId, submittedAt, clickup, waiting, batch, removal,
                   resetting>>

-----------------------------------------------------------------------------
(* The steps of one delivery attempt, whoever makes it *)

\* Mutant: the search forgets its time window.
Candidates_AnyTime(f) == {t \in live : TitleOf[creator[t]] = TitleOf[f]}

\* Tickets whose title and creation time could be submission f's own.
Candidates(f) ==
    {t \in live : /\ TitleOf[creator[t]] = TitleOf[f]
                  /\ createdAt[t] = submittedAt[f]}

\* Without a single candidate the attempt goes on to create a ticket.  What a
\* recovery adopts is recorded outside the try that records failures.
Search(p) ==
    LET f == att[p].f IN
    /\ att[p].pc = "search"
    /\ up
    /\ \/ \E t \in Candidates(f) :
             /\ Candidates(f) = {t}
             /\ att' = [att EXCEPT ![p].ticket = t,
                           ![p].pc = IF p[1] = "recover" THEN "adopt" ELSE "succeed"]
       \/ /\ \A t \in Candidates(f) : Candidates(f) # {t}
          /\ Goto(p, "create")
    /\ UNCHANGED <<rows, clickup, waiting, batch, removal, resetting, env>>

\* A tick counts a failed search as a failed attempt; a recovery is skipped
\* until the next reconciliation.
SearchFails(p) ==
    /\ att[p].pc = "search"
    /\ ~up
    /\ IF p[1] = "recover" THEN Finish(p) ELSE Goto(p, "fail")
    /\ UNCHANGED <<rows, clickup, waiting, batch, removal, resetting, env>>

\* An id ClickUp has not given yet; which one does not matter.
FreshTicket == CHOOSE t \in Ticket : creator[t] = NoFeedback

\* ClickUp creates a ticket for the submission of attempt p.
NewTicket(p) ==
    /\ \E t \in Ticket : creator[t] = NoFeedback
    /\ creator' = [creator EXCEPT ![FreshTicket] = att[p].f]
    /\ createdAt' = [createdAt EXCEPT ![FreshTicket] = now]
    /\ live' = live \cup {FreshTicket}

CreateTask(p) ==
    /\ att[p].pc = "create"
    /\ up
    /\ NewTicket(p)
    /\ att' = [att EXCEPT ![p].pc = "link", ![p].ticket = FreshTicket]
    /\ UNCHANGED <<rows, up, waiting, batch, removal, resetting, env>>

\* The ticket is created, but the answer times out or is lost.
CreateTaskLosesAnswer(p) ==
    /\ att[p].pc = "create"
    /\ up
    /\ Spend("lostAnswer")
    /\ NewTicket(p)
    /\ Goto(p, "fail")
    /\ UNCHANGED <<rows, up, waiting, batch, removal, resetting, now>>

CreateTaskFails(p) ==
    /\ att[p].pc = "create"
    /\ ~up
    /\ Goto(p, "fail")
    /\ UNCHANGED <<rows, clickup, waiting, batch, removal, resetting, env>>

\* The lookup of the client's Company succeeds or is cached; failing to set the
\* field after it is only logged.
LinkCompany(p) ==
    /\ att[p].pc = "link"
    /\ Goto(p, "succeed")
    /\ UNCHANGED <<rows, clickup, waiting, batch, removal, resetting, env>>

\* resolveClientEntityId throws out of createTicket, because ClickUp does not
\* answer or the match cannot be saved: the ticket exists, and the caller takes
\* the attempt for failed.
LinkCompanyFails(p) ==
    /\ att[p].pc = "link"
    /\ \/ ~up /\ UNCHANGED env
       \/ Spend("dbError") /\ UNCHANGED now
    /\ att' = [att EXCEPT ![p].pc = "fail", ![p].ticket = NoTicket]
    /\ UNCHANGED <<rows, clickup, waiting, batch, removal, resetting>>

\* Mutant: one of the two updates spares a delivered row, the other does not.
RecordedAs_SparesDelivered(p, s, j) ==
    /\ status' = [status EXCEPT ![att[p].f] = IF @ = "DELIVERED" THEN @ ELSE s]
    /\ job' = [job EXCEPT ![att[p].f] = j]

\* The two updates of a $transaction: the row of attempt p and its job.
RecordedAs(p, s, j) ==
    /\ status' = [status EXCEPT ![att[p].f] = s]
    /\ job' = [job EXCEPT ![att[p].f] = j]

\* The update throws: inside the try the attempt then counts as failed, an
\* adoption is skipped.
RecordThrows(p) ==
    /\ IF att[p].pc = "adopt" THEN Finish(p)
                              ELSE att' = [att EXCEPT ![p].pc = "fail",
                                                      ![p].ticket = NoTicket]
    /\ UNCHANGED rows

RecordSuccess(p) ==
    LET f == att[p].f IN
    /\ att[p].pc \in {"succeed", "adopt"}
    /\ \/ /\ RowsExist(f)
          /\ RecordedAs(p, "DELIVERED",
                [job[f] EXCEPT !.status = "SUCCEEDED", !.externalId = att[p].ticket])
          /\ taskId' = [taskId EXCEPT ![f] = att[p].ticket]
          /\ Finish(p)
          /\ UNCHANGED <<submittedAt, env>>
       \/ ~RowsExist(f) /\ RecordThrows(p) /\ UNCHANGED env
       \/ Spend("dbError") /\ RecordThrows(p) /\ UNCHANGED now
    /\ UNCHANGED <<clickup, waiting, batch, removal, resetting>>

\* Mutants: the exhaustion check is one attempt late, or one early (as in the
\* earlier version the constant's comment tells of).
Exhausted_Late(n) == n > MAX_DELIVERY_ATTEMPTS
Exhausted_Early(n) == n >= MAX_DELIVERY_ATTEMPTS - 1

\* The attempt that just failed was the last one.
Exhausted(n) == n >= MAX_DELIVERY_ATTEMPTS

\* The update throws out of the caller's catch: a tick drops the rest of its
\* batch.
AttemptThrows(p) ==
    /\ Finish(p)
    /\ batch' = [k \in Tick |-> IF p = <<"tick", k>> THEN {} ELSE batch[k]]
    /\ UNCHANGED rows

RecordFailure(p) ==
    LET f == att[p].f
        failed == [job[f] EXCEPT !.attempts = att[p].n, !.due = FALSE]
    IN
    /\ att[p].pc = "fail"
    /\ \/ /\ RowsExist(f)
          /\ IF Exhausted(att[p].n)
             THEN RecordedAs(p, "DELIVERY_FAILED", [failed EXCEPT !.status = "FAILED"])
             ELSE RecordedAs(p, "DELIVERY_PENDING", [failed EXCEPT !.status = "RETRYING"])
          /\ Finish(p)
          /\ UNCHANGED <<taskId, submittedAt, batch, env>>
       \/ ~RowsExist(f) /\ AttemptThrows(p) /\ UNCHANGED env
       \/ Spend("dbError") /\ AttemptThrows(p) /\ UNCHANGED now
    /\ UNCHANGED <<clickup, waiting, removal, resetting>>

AttemptStep(p) ==
    \/ Search(p) \/ SearchFails(p)
    \/ CreateTask(p) \/ CreateTaskLosesAnswer(p) \/ CreateTaskFails(p)
    \/ LinkCompany(p) \/ LinkCompanyFails(p)
    \/ RecordSuccess(p) \/ RecordFailure(p)

-----------------------------------------------------------------------------
(* The retry worker: processRetries, every minute *)

\* nextAttemptAt has come.
BackoffElapses(f) ==
    /\ job[f].status = "RETRYING"
    /\ ~job[f].due
    /\ job' = [job EXCEPT ![f].due = TRUE]
    /\ UNCHANGED <<status, taskId, submittedAt, clickup, memory, env>>

\* Mutant: findDueRetries filters on nextAttemptAt alone.
IsDue_AnyStatus(f) == job[f].due

\* WHERE status = RETRYING and nextAttemptAt <= now.
IsDue(f) == job[f].status = "RETRYING" /\ job[f].due

\* findDueRetries: a tick starts although an earlier one may still run, and
\* snapshots up to BATCH_SIZE due jobs.
StartTick(k) ==
    LET due == {f \in Feedback : IsDue(f)} IN
    /\ IsIdle(<<"tick", k>>)
    /\ batch[k] = {}
    /\ \E taken \in SUBSET due \ {{}} :
          /\ Cardinality(taken) <= BATCH_SIZE
          /\ taken = due \/ Cardinality(taken) = BATCH_SIZE
          /\ batch' = [batch EXCEPT ![k] = {<<f, job[f].attempts>> : f \in taken}]
    /\ UNCHANGED <<rows, clickup, waiting, att, removal, resetting, env>>

\* isFirstRetryAttempt: only then may an earlier attempt's ticket be adopted.
IsFirstRetryAttempt(attempts) == attempts <= 1

\* The loop takes its next job, as snapshotted.
NextRetry(k) ==
    LET p == <<"tick", k>> IN
    /\ IsIdle(p)
    /\ \E due \in batch[k] :
          /\ Start(p, IF IsFirstRetryAttempt(due[2]) THEN "search" ELSE "create",
                   due[1], due[2] + 1)
          /\ batch' = [batch EXCEPT ![k] = @ \ {due}]
    /\ UNCHANGED <<rows, clickup, waiting, removal, resetting, env>>

-----------------------------------------------------------------------------
(* Reconciliation: reconcile, every ten minutes *)

\* Mutants: the query for stuck submissions takes the retry worker's jobs too,
\* or looks for them instead.
IsStuck_AnyUndelivered(f) ==
    status[f] \in {"SUBMITTED", "DELIVERY_PENDING"} /\ job[f].status # "none"
IsStuck_Retrying(f) == status[f] = "SUBMITTED" /\ job[f].status = "RETRYING"

\* The row is SUBMITTED and its job PROCESSING.
IsStuck(f) == status[f] = "SUBMITTED" /\ job[f].status = "PROCESSING"

\* Five minutes after its job was created a request has long timed out of all
\* its calls, so it is no longer in flight.
RecoverStuck(f) ==
    LET p == <<"recover", f>> IN
    /\ IsStuck(f)
    /\ IsIdle(<<"request", f>>)
    /\ IsIdle(p)
    /\ Start(p, "search", f, job[f].attempts + 1)
    /\ UNCHANGED <<rows, clickup, waiting, batch, removal, resetting, env>>

\* A DELIVERED row and its ticket id are read for checkAndReconcile.
StartCheck(f) ==
    LET r == <<"reconcile", f>> IN
    /\ status[f] = "DELIVERED"
    /\ taskId[f] # NoTicket
    /\ removal[r].pc = "idle"
    /\ removal' = [removal EXCEPT ![r] = [pc |-> "exists", ticket |-> taskId[f]]]
    /\ UNCHANGED <<rows, clickup, waiting, att, batch, resetting, env>>

\* Mutants: an error is taken for a 404, or a 404 for an error.
TicketIsGone_OrError(t) == up => t \notin live
TicketIsGone_Never(t) == FALSE

\* Only an answer that the ticket is gone leads to a removal; an error does not.
TicketIsGone(t) == up /\ t \notin live

CheckTicket(f) ==
    LET r == <<"reconcile", f>> IN
    /\ removal[r].pc = "exists"
    /\ removal' = [removal EXCEPT ![r] =
                      IF TicketIsGone(removal[r].ticket)
                      THEN [pc |-> "read", ticket |-> NoTicket]
                      ELSE NotRemoving]
    /\ UNCHANGED <<rows, clickup, waiting, att, batch, resetting, env>>

-----------------------------------------------------------------------------
(* AdminFeedbackService.remove, from the dashboard or from reconciliation *)

\* findUnique: the row and its ticket id are read, or the call ends with 404.
ReadForRemoval(r) ==
    LET f == r[2] IN
    /\ removal[r].pc = IF r[1] = "dashboard" THEN "idle" ELSE "read"
    /\ r[1] = "dashboard" => Exists(f)
    /\ removal' = [removal EXCEPT ![r] =
                      IF Exists(f) THEN [pc |-> "ticket", ticket |-> taskId[f]]
                                   ELSE NotRemoving]
    /\ UNCHANGED <<rows, clickup, waiting, att, batch, resetting, env>>

\* Deleting the ticket is best-effort: a failure is only logged.
DeleteTicket(r) ==
    /\ removal[r].pc = "ticket"
    /\ live' = IF up THEN live \ {removal[r].ticket} ELSE live
    /\ removal' = [removal EXCEPT ![r].pc = "row"]
    /\ UNCHANGED <<rows, creator, createdAt, up, waiting, att, batch, resetting, env>>

\* The row goes and its job with it; a row already gone makes delete throw.
DeleteRow(r) ==
    LET f == r[2] IN
    /\ removal[r].pc = "row"
    /\ removal' = [removal EXCEPT ![r] = NotRemoving]
    /\ \/ /\ Exists(f)
          /\ status' = [status EXCEPT ![f] = "removed"]
          /\ taskId' = [taskId EXCEPT ![f] = NoTicket]
          /\ job' = [job EXCEPT ![f] = NoJob]
       \/ /\ ~Exists(f)
          /\ UNCHANGED <<status, taskId, job>>
    /\ UNCHANGED <<submittedAt, clickup, waiting, att, batch, resetting, env>>

-----------------------------------------------------------------------------
(* The dashboard's Retry: resetForRetry *)

\* Mutant: any job may be retried.
MayRetry_AnyStatus(f) == job[f].status # "none"

\* The job is read; only a FAILED one passes.
MayRetry(f) == job[f].status = "FAILED"

ReadForRetry(a, f) ==
    /\ resetting[a] = NoFeedback
    /\ MayRetry(f)
    /\ Spend("manualRetry")
    /\ resetting' = [resetting EXCEPT ![a] = f]
    /\ UNCHANGED <<rows, clickup, waiting, att, batch, removal, now>>

\* The transaction does not look at the status again.
WriteRetry(a) ==
    LET f == resetting[a] IN
    /\ f # NoFeedback
    /\ resetting' = [resetting EXCEPT ![a] = NoFeedback]
    /\ \/ /\ RowsExist(f)
          /\ job' = [job EXCEPT ![f].status = "RETRYING", ![f].attempts = 0,
                                ![f].due = TRUE]
          /\ status' = [status EXCEPT ![f] = "DELIVERY_PENDING"]
       \/ ~RowsExist(f) /\ UNCHANGED <<job, status>>
    /\ UNCHANGED <<taskId, submittedAt, clickup, waiting, att, batch, removal, env>>

-----------------------------------------------------------------------------
(* The environment *)

\* The process dies and restarts: what it held in memory is gone.
Crash ==
    /\ Spend("crash")
    /\ waiting' = [f \in Feedback |-> 0]
    /\ att' = [p \in Proc |-> Idle]
    /\ batch' = [k \in Tick |-> {}]
    /\ removal' = [r \in Remover |-> NotRemoving]
    /\ resetting' = [a \in Admin |-> NoFeedback]
    /\ UNCHANGED <<rows, clickup, now>>

ClickupGoesDown ==
    /\ up
    /\ Spend("outage")
    /\ up' = FALSE
    /\ UNCHANGED <<rows, creator, createdAt, live, memory, now>>

ClickupComesBack ==
    /\ ~up
    /\ up' = TRUE
    /\ UNCHANGED <<rows, creator, createdAt, live, memory, env>>

\* Somebody deletes a ticket in ClickUp itself.
DeletedInClickup(t) ==
    /\ t \in live
    /\ Spend("externalDelete")
    /\ live' = live \ {t}
    /\ UNCHANGED <<rows, creator, createdAt, up, memory, now>>

\* More than the search window of thirty minutes passes.
Gap ==
    /\ Spend("gap")
    /\ now' = now + 1
    /\ UNCHANGED <<rows, clickup, memory>>

Next ==
    \/ \E f \in Feedback :
          \/ Submit(f) \/ Insert(f) \/ CreateInitialJob(f)
          \/ BackoffElapses(f)
          \/ RecoverStuck(f) \/ StartCheck(f) \/ CheckTicket(f)
    \/ \E p \in Proc : AttemptStep(p)
    \/ \E k \in Tick : StartTick(k) \/ NextRetry(k)
    \/ \E r \in Remover : ReadForRemoval(r) \/ DeleteTicket(r) \/ DeleteRow(r)
    \/ \E a \in Admin : (\E f \in Feedback : ReadForRetry(a, f)) \/ WriteRetry(a)
    \/ \E t \in Ticket : DeletedInClickup(t)
    \/ Crash \/ ClickupGoesDown \/ ClickupComesBack \/ Gap

Spec == Init /\ [][Next]_vars

\* While the process runs, its handlers go on, the clock reaches a backoff's
\* end, and the two crons keep firing; an outage ends.  Nobody has to submit,
\* press Retry or Delete, or break anything.
Fairness ==
    /\ WF_vars(ClickupComesBack)
    /\ \A p \in Proc : WF_vars(AttemptStep(p))
    /\ \A f \in Feedback : /\ WF_vars(CreateInitialJob(f))
                           /\ WF_vars(BackoffElapses(f))
                           /\ WF_vars(RecoverStuck(f))
                           /\ WF_vars(StartCheck(f))
                           /\ WF_vars(CheckTicket(f))
                           /\ WF_vars(ReadForRemoval(<<"reconcile", f>>))
    /\ \A r \in Remover : WF_vars(DeleteTicket(r)) /\ WF_vars(DeleteRow(r))
    /\ \A k \in Tick : WF_vars(StartTick(k)) /\ WF_vars(NextRetry(k))
    /\ \A a \in Admin : WF_vars(WriteRetry(a))

FairSpec == Spec /\ Fairness

-----------------------------------------------------------------------------
(* Safety *)

\* A row and its job tell the same story, and name the same ticket: every
\* transition of IntegrationJobsService writes both in one transaction, whoever
\* calls it and however stale what the caller read.
JobMirrorsSubmission ==
    \A f \in Feedback :
        /\ job[f].externalId = taskId[f]
        /\ status[f] \in {"none", "removed"} => job[f] = NoJob
        /\ status[f] = "SUBMITTED" => job[f].status \in {"none", "PROCESSING"}
        /\ status[f] = "DELIVERY_PENDING" => job[f].status = "RETRYING"
        /\ status[f] = "DELIVERED" => job[f].status = "SUCCEEDED" /\ taskId[f] # NoTicket
        /\ status[f] = "DELIVERY_FAILED" => job[f].status = "FAILED"

\* A job is given up at exactly MAX_DELIVERY_ATTEMPTS failed attempts: while one
\* is left it is never FAILED, and none waits for a retry it may not have.
AttemptBudget ==
    \A f \in Feedback :
        /\ job[f].status = "PROCESSING" => job[f].attempts = 1
        /\ job[f].status = "RETRYING" => job[f].attempts < MAX_DELIVERY_ATTEMPTS
        /\ job[f].status = "FAILED" => job[f].attempts = MAX_DELIVERY_ATTEMPTS

\* The ticket a submission is recorded with was really created, carries its
\* title, and is its own unless both were made in the same search window.
RecordedTicketMatches ==
    \A f \in Feedback :
        LET t == taskId[f] IN
        t # NoTicket => /\ creator[t] # NoFeedback
                        /\ TitleOf[creator[t]] = TitleOf[f]
                        /\ creator[t] # f => createdAt[t] = submittedAt[f]

\* At most one delivery attempt of a submission is in flight.  The request, the
\* retry worker and reconciliation keep apart by job status alone: PROCESSING
\* belongs to the request, then to reconciliation, RETRYING to the worker.
OneAttemptAtATime ==
    \A p, q \in Proc : att[p].f = att[q].f /\ ~IsIdle(p) => p = q

\* No ticket is created for a submission that is already DELIVERED.
NoTicketAfterDelivery ==
    [][\A t \in Ticket :
          creator'[t] # creator[t] => status[creator'[t]] # "DELIVERED"]_vars

\* Reconciliation removes a delivered submission only when the ticket it is
\* recorded with is gone.
ReconcileRemovesOnlyGone ==
    [][\A f \in Feedback :
          (removal[<<"reconcile", f>>].pc = "row" /\ DeleteRow(<<"reconcile", f>>)
             /\ Exists(f)) => taskId[f] # NoTicket /\ taskId[f] \notin live]_vars

-----------------------------------------------------------------------------
(* Refinement *)

Outcome(f) ==
    CASE status[f] = "none" -> "absent"
      [] status[f] \in {"SUBMITTED", "DELIVERY_PENDING"} -> "open"
      [] status[f] = "DELIVERED" -> "delivered"
      [] status[f] = "DELIVERY_FAILED" -> "givenUp"
      [] status[f] = "removed" -> "removed"

Promise == INSTANCE DeliveryPromise WITH
    outcome  <- [f \in Feedback |-> Outcome(f)],
    recorded <- taskId,
    existing <- {t \in Ticket : creator[t] # NoFeedback}

\* Submissions move as DeliveryPromise says: delivered with a ticket that was
\* created before and from then on only removed, reopened only when given up.
PromiseKept == Promise!Spec

-----------------------------------------------------------------------------
(* Liveness *)

Settled(f) == status[f] \in {"DELIVERED", "DELIVERY_FAILED", "removed"}

\* A submission with a delivery job is eventually delivered, given up or
\* removed, through crashes, outages and lost answers.
EveryJobSettles ==
    \A f \in Feedback : job[f].status \in {"PROCESSING", "RETRYING"} ~> Settled(f)

\* A submission is not shown as delivered for ever once its ticket was deleted
\* in ClickUp: reconciliation finds out and removes it, unless an overlapping
\* attempt takes it out of DELIVERED before.
DeletionInClickupPropagates ==
    \A f \in Feedback :
        (status[f] = "DELIVERED" /\ taskId[f] \notin live) ~>
            (status[f] # "DELIVERED" \/ taskId[f] \in live)

-----------------------------------------------------------------------------
(* What docs and comments say, and the code does not guarantee *)

\* schema.prisma: a submission never creates more than one ClickUp task.
AtMostOneTicket ==
    \A t, u \in Ticket : creator[t] # NoFeedback /\ creator[t] = creator[u] => t = u

\* clickup.service.ts: the search window leaves out other submissions' tickets.
TicketsAreNotShared ==
    \A f, g \in Feedback : taskId[f] # NoTicket /\ taskId[f] = taskId[g] => f = g

\* admin-feedback.service.ts: after a removal both sides agree.  Once nothing
\* is in flight for it, a removed submission has no ticket in ClickUp.
RemovalReachesClickup ==
    \A f \in Feedback :
        /\ status[f] = "removed"
        /\ \A p \in Proc : att[p].f # f
        /\ \A r \in Remover : r[2] = f => removal[r].pc = "idle"
        => \A t \in live : creator[t] # f

\* feedback-reconciliation.service.ts: an interrupted submission is delivered
\* instead of staying stuck forever.
EverySubmissionSettles ==
    \A f \in Feedback : status[f] = "SUBMITTED" ~> Settled(f)

=============================================================================
