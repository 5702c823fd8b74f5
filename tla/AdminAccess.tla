----------------------------- MODULE AdminAccess -----------------------------
(***************************************************************************)
(* Who may use the dashboard: the accounts at Supabase, the profiles in    *)
(* admin_users, the guard with its thirty-second cache and its shared      *)
(* verifications in flight, and the operations that create, change and     *)
(* delete users while all this goes on.                                    *)
(*                                                                         *)
(* Of a profile only what decides access is kept; the three roles that are *)
(* not ADMIN have the same rights and are one here.  Tokens are genuine    *)
(* and do not expire: a token that is not changes nothing.  A User is an   *)
(* account id, which Supabase gives once.                                  *)
(***************************************************************************)
EXTENDS Naturals

CONSTANTS
    User,       \* account ids
    NoUser,
    Root,       \* the one Admin, set up with the database
    Initially,  \* the users there are at first
    Email,      \* email addresses
    EmailOf,    \* the address of each user
    Token,      \* access tokens
    NoToken,
    OwnerOf,    \* claims.sub of each token
    TTL,        \* CACHE_TTL_MS, in ticks of the clock
    Request,    \* guarded requests in flight at once
    Cron,       \* the nightly removal of inactive users
    Budget      \* bound: how often each EventKind may happen

\* What happens at most Budget[k] times.
EventKind == {"dbError", "authError", "crash", "inactivity"}

ASSUME AccessAssumption ==
    /\ NoUser \notin User
    /\ NoToken \notin Token
    /\ Root \in Initially
    /\ Initially \subseteq User
    /\ EmailOf \in [User -> Email]
    /\ OwnerOf \in [Token -> User]
    /\ TTL \in Nat \ {0}
    /\ Cron \notin Request
    /\ Budget \in [EventKind -> Nat]

Actor == Request \cup {Cron}

VARIABLES
    account,  \* auth.users: the accounts at Supabase
    unused,   \* the ids not given to an account yet
    profile,  \* admin_users
    cache,    \* AuthCacheService.cache
    verify,   \* SupabaseAuthGuard.inFlight
    act,      \* what each request, and the cron, is doing
    queue,    \* the cron's candidates it has not reached yet
    budget    \* what may still happen

vars == <<account, unused, profile, cache, verify, act, queue, budget>>

NoProfile == [role |-> "none", status |-> "none", recent |-> FALSE]
NoEntry == [role |-> "none", left |-> 0, missed |-> FALSE]
NoVerification == [pc |-> "idle", role |-> "none", missed |-> FALSE]
NoAct == [pc |-> "idle", token |-> NoToken, role |-> "none", on |-> NoUser,
          change |-> "none"]

Role == {"ADMIN", "STAFF"}
Change == {"name", "role", "ACTIVE", "INACTIVE"}

Profile == {NoProfile} \cup
    [role : Role, status : {"ACTIVE", "INACTIVE"}, recent : BOOLEAN]

\* left: ticks until the entry expires.  missed is not in the code: it marks a
\* row that was read before an invalidation and cached after it.
Entry == {NoEntry} \cup [role : Role, left : 1 .. TTL, missed : BOOLEAN]
Verification == {NoVerification} \cup
    [pc : {"asked", "refused"}, role : {"none"}, missed : {FALSE}] \cup
    [pc : {"read"}, role : Role, missed : BOOLEAN]
Act == {NoAct} \cup
    [pc : {"waiting"}, token : Token, role : {"none"}, on : {NoUser},
     change : {"none"}] \cup
    [pc : {"in"}, token : Token, role : Role, on : {NoUser}, change : {"none"}] \cup
    [pc : {"find", "count", "write"}, token : {NoToken}, role : {"none"}, on : User,
     change : Change] \cup
    [pc : {"login", "forget", "toRemove", "unaccount", "unprofile", "email", "account",
           "profile", "undo"}, token : {NoToken}, role : {"none"}, on : User,
     change : {"none"}]

TypeOK ==
    /\ account \in SUBSET User
    /\ unused \in SUBSET User
    /\ profile \in [User -> Profile]
    /\ cache \in [Token -> Entry]
    /\ verify \in [Token -> Verification]
    /\ act \in [Actor -> Act]
    /\ queue \in SUBSET User
    /\ budget \in [EventKind -> Nat]

Init ==
    /\ account = Initially
    /\ unused = User \ Initially
    /\ profile = [u \in User |->
          IF u \in Initially
            THEN [role |-> IF u = Root THEN "ADMIN" ELSE "STAFF", status |-> "ACTIVE",
                  recent |-> TRUE]
            ELSE NoProfile]
    /\ cache = [t \in Token |-> NoEntry]
    /\ verify = [t \in Token |-> NoVerification]
    /\ act = [x \in Actor |-> NoAct]
    /\ queue = {}
    /\ budget = Budget

-----------------------------------------------------------------------------
(* Helpers *)

Spend(kind) ==
    /\ budget[kind] > 0
    /\ budget' = [budget EXCEPT ![kind] = @ - 1]

Spent(kind) == budget[kind] < Budget[kind]

\* Mutant: a missing row is not noticed.
OnFile_Unchecked(u) == TRUE

OnFile(u) == profile[u].status # "none"
Active(u) == profile[u].status = "ACTIVE"

\* An operation on a user, about to take its step pc.
Doing(pc, u, change) ==
    [pc |-> pc, token |-> NoToken, role |-> "none", on |-> u, change |-> change]
Starts(x, pc, u, change) == act' = [act EXCEPT ![x] = Doing(pc, u, change)]
Goes(x, pc) == act' = [act EXCEPT ![x].pc = pc]
Ends(x) == act' = [act EXCEPT ![x] = NoAct]

\* AuthCacheService.get: the entry has not expired.
Live(t) == cache[t].left > 0

\* Mutant: entries do not expire.
Lapse_Never(e) == e

\* An entry, one tick later; pruneExpired drops it when it has expired.
Lapse(e) == IF e.left <= 1 THEN NoEntry ELSE [e EXCEPT !.left = @ - 1]

Tick ==
    /\ cache' = [t \in Token |-> Lapse(cache[t])]
    /\ UNCHANGED <<account, unused, profile, verify, act, queue, budget>>

-----------------------------------------------------------------------------
(* The guard: canActivate and verifyToken *)

\* A request gets in with a cached row.
Hit(r, t) ==
    /\ act[r].pc = "idle"
    /\ Live(t)
    /\ act' = [act EXCEPT ![r] = [NoAct EXCEPT !.pc = "in", !.token = t,
                                               !.role = cache[t].role]]
    /\ UNCHANGED <<account, unused, profile, cache, verify, queue, budget>>

\* It waits for the verification in flight, or for one it starts.
Miss(r, t) ==
    /\ act[r].pc = "idle"
    /\ ~Live(t)
    /\ act' = [act EXCEPT ![r] = [NoAct EXCEPT !.pc = "waiting", !.token = t]]
    /\ verify' = IF verify[t].pc = "idle"
                   THEN [verify EXCEPT ![t].pc = "asked"]
                   ELSE verify
    /\ UNCHANGED <<account, unused, profile, cache, queue, budget>>

\* The database reads the row; the answer is on its way.
ReadRow(t) ==
    LET u == OwnerOf[t] IN
    /\ verify[t].pc = "asked"
    /\ \/ /\ Active(u)
          /\ verify' = [verify EXCEPT ![t].pc = "read", ![t].role = profile[u].role]
          /\ UNCHANGED budget
       \/ /\ ~Active(u)
          /\ verify' = [verify EXCEPT ![t].pc = "refused"]
          /\ UNCHANGED budget
       \/ /\ Spend("dbError")
          /\ verify' = [verify EXCEPT ![t].pc = "refused"]
    /\ UNCHANGED <<account, unused, profile, cache, act, queue>>

\* Mutant: a rejected promise stays in inFlight.
AfterVerification_KeepsRejected(t) ==
    IF verify[t].pc = "refused" THEN verify[t] ELSE NoVerification

\* finally: whether it succeeds or not, the promise leaves inFlight.
AfterVerification(t) == NoVerification

\* All who await a promise are told its outcome.
Awaits(x, t) == act[x].pc = "waiting" /\ act[x].token = t

\* The answer is cached, and all who wait for the promise get in.
Admit(t) ==
    /\ verify[t].pc = "read"
    /\ cache' = [cache EXCEPT ![t] = [role |-> verify[t].role, left |-> TTL,
                                      missed |-> verify[t].missed]]
    /\ act' = [x \in Actor |->
          IF Awaits(x, t) THEN [act[x] EXCEPT !.pc = "in", !.role = verify[t].role]
                          ELSE act[x]]
    /\ verify' = [verify EXCEPT ![t] = AfterVerification(t)]
    /\ UNCHANGED <<account, unused, profile, queue, budget>>

Refuse(t) ==
    /\ verify[t].pc = "refused"
    /\ act' = [x \in Actor |-> IF Awaits(x, t) THEN NoAct ELSE act[x]]
    /\ verify' = [verify EXCEPT ![t] = AfterVerification(t)]
    /\ UNCHANGED <<account, unused, profile, cache, queue, budget>>

\* RolesGuard, on the routes of AdminUsersController.
MayManageUsers(r) == act[r].role = "ADMIN"

\* A request that got in records its login, renames itself, manages users, or
\* does something that does not touch them.
Begin(r) ==
    LET u == OwnerOf[act[r].token] IN
    /\ act[r].pc = "in"
    /\ \/ Ends(r)
       \/ Starts(r, "login", u, "none")
       \/ Starts(r, "find", u, "name")
       \/ /\ MayManageUsers(r)
          /\ \E v \in User : \/ \E c \in Change : Starts(r, "find", v, c)
                             \/ Starts(r, "toRemove", v, "none")
                             \/ Starts(r, "email", v, "none")
    /\ UNCHANGED <<account, unused, profile, cache, verify, queue, budget>>

-----------------------------------------------------------------------------
(* Changing a user: recordLogin, update *)

RecordLogin(x) ==
    LET u == act[x].on IN
    /\ act[x].pc = "login"
    /\ \/ /\ OnFile(u)
          /\ profile' = [profile EXCEPT ![u].recent = TRUE]
       \/ ~OnFile(u) /\ UNCHANGED profile
    /\ Ends(x)
    /\ UNCHANGED <<account, unused, cache, verify, queue, budget>>

\* Mutant: the Admin is not looked for.
RemovesAnAdmin_Never(u, change) == FALSE

\* The update would leave the active Admin u without the role or the status.
RemovesAnAdmin(u, change) ==
    /\ change \in {"role", "INACTIVE"}
    /\ profile[u].role = "ADMIN"
    /\ Active(u)

FindOne(x) ==
    LET u == act[x].on IN
    /\ act[x].pc = "find"
    /\ \/ ~OnFile(u) /\ Ends(x)
       \/ OnFile(u) /\ Goes(x, IF RemovesAnAdmin(u, act[x].change) THEN "count" ELSE "write")
    /\ UNCHANGED <<account, unused, profile, cache, verify, queue, budget>>

\* assertNotLastActiveAdmin
CountAdmins(x) ==
    /\ act[x].pc = "count"
    /\ IF \E v \in User \ {act[x].on} : profile[v].role = "ADMIN" /\ Active(v)
         THEN Goes(x, "write")
         ELSE Ends(x)
    /\ UNCHANGED <<account, unused, profile, cache, verify, queue, budget>>

Changed(p, change) ==
    CASE change = "name" -> p
      [] change = "role" -> [p EXCEPT !.role = "STAFF"]
      [] change \in {"ACTIVE", "INACTIVE"} -> [p EXCEPT !.status = change]

\* A row that is gone by now is an error, and so nothing is invalidated.
WriteUser(x) ==
    LET u == act[x].on IN
    /\ act[x].pc = "write"
    /\ \/ /\ OnFile(u)
          /\ profile' = [profile EXCEPT ![u] = Changed(@, act[x].change)]
          /\ Starts(x, "forget", u, "none")
       \/ ~OnFile(u) /\ Ends(x) /\ UNCHANGED profile
    /\ UNCHANGED <<account, unused, cache, verify, queue, budget>>

\* invalidateUser, when the answer to the write or the deletion has arrived.
Forget(x) ==
    LET Of(t) == OwnerOf[t] = act[x].on IN
    /\ act[x].pc = "forget"
    /\ cache' = [t \in Token |-> IF Of(t) THEN NoEntry ELSE cache[t]]
    /\ verify' = [t \in Token |->
          IF Of(t) /\ verify[t].pc = "read" THEN [verify[t] EXCEPT !.missed = TRUE]
                                            ELSE verify[t]]
    /\ Ends(x)
    /\ UNCHANGED <<account, unused, profile, queue, budget>>

-----------------------------------------------------------------------------
(* Deleting a user: remove, by the dashboard or the cron *)

StartSweep ==
    /\ act[Cron].pc = "idle"
    /\ queue = {}
    /\ queue' = {u \in User : OnFile(u) /\ profile[u].role # "ADMIN" /\ ~profile[u].recent}
    /\ UNCHANGED <<account, unused, profile, cache, verify, act, budget>>

SweepNext ==
    /\ act[Cron].pc = "idle"
    /\ \E u \in queue :
          /\ Starts(Cron, "toRemove", u, "none")
          /\ queue' = queue \ {u}
    /\ UNCHANGED <<account, unused, profile, cache, verify, budget>>

FindRemovable(x) ==
    LET u == act[x].on IN
    /\ act[x].pc = "toRemove"
    /\ IF OnFile(u) /\ profile[u].role # "ADMIN" THEN Goes(x, "unaccount") ELSE Ends(x)
    /\ UNCHANGED <<account, unused, profile, cache, verify, queue, budget>>

\* Mutant: deleteAuthUser deletes nothing.
Unaccounted_Kept(u) == account

Unaccounted(u) == account \ {u}

\* auth.users' foreign key: the profile goes with the account.
DeleteAuthUser(u) ==
    /\ account' = Unaccounted(u)
    /\ profile' = [profile EXCEPT ![u] = IF u \in account' THEN @ ELSE NoProfile]

\* Best effort: an error, returned or thrown, changes nothing.
RemoveAccount(x) ==
    /\ act[x].pc = "unaccount"
    /\ \/ DeleteAuthUser(act[x].on) /\ UNCHANGED budget
       \/ Spend("authError") /\ UNCHANGED <<account, profile>>
    /\ Goes(x, "unprofile")
    /\ UNCHANGED <<unused, cache, verify, queue>>

\* Mutant: a row that is gone already is left at that.
AfterDelete_UnlessGone(u) == IF OnFile(u) THEN Doing("forget", u, "none") ELSE NoAct

\* P2025, the row is gone already, counts as success.
AfterDelete(u) == Doing("forget", u, "none")

\* Any other error is thrown, and nothing is invalidated.
RemoveProfile(x) ==
    LET u == act[x].on IN
    /\ act[x].pc = "unprofile"
    /\ \/ /\ profile' = [profile EXCEPT ![u] = NoProfile]
          /\ act' = [act EXCEPT ![x] = AfterDelete(u)]
          /\ UNCHANGED budget
       \/ /\ Spend("dbError")
          /\ Ends(x)
          /\ UNCHANGED profile
    /\ UNCHANGED <<account, unused, cache, verify, queue>>

-----------------------------------------------------------------------------
(* Creating a user: create *)

\* Addresses are unique in both systems.
SameEmail(u, S) == \E v \in S : EmailOf[v] = EmailOf[u]

CheckEmail(x) ==
    LET u == act[x].on IN
    /\ act[x].pc = "email"
    /\ IF SameEmail(u, {v \in User : OnFile(v)}) THEN Ends(x) ELSE Goes(x, "account")
    /\ UNCHANGED <<account, unused, profile, cache, verify, queue, budget>>

\* createAuthUser: Supabase refuses an address it knows.  An id is not given
\* twice, so that a user once deleted is not created again under it.
CreateAccount(x) ==
    LET u == act[x].on IN
    /\ act[x].pc = "account"
    /\ \/ /\ u \in unused /\ ~SameEmail(u, account)
          /\ account' = account \cup {u}
          /\ unused' = unused \ {u}
          /\ Goes(x, "profile")
          /\ UNCHANGED budget
       \/ /\ u \notin unused \/ SameEmail(u, account)
          /\ Ends(x)
          /\ UNCHANGED <<account, unused, budget>>
       \/ /\ Spend("authError")
          /\ Ends(x)
          /\ UNCHANGED <<account, unused>>
    /\ UNCHANGED <<profile, cache, verify, queue>>

CreateProfile(x) ==
    LET u == act[x].on IN
    /\ act[x].pc = "profile"
    /\ \/ /\ profile' = [profile EXCEPT ![u] = [role |-> "STAFF", status |-> "ACTIVE",
                                                recent |-> TRUE]]
          /\ Ends(x)
          /\ UNCHANGED budget
       \/ /\ Spend("dbError")
          /\ Goes(x, "undo")
          /\ UNCHANGED profile
    /\ UNCHANGED <<account, unused, cache, verify, queue>>

\* The rollback; it may fail as well.
UndoAccount(x) ==
    /\ act[x].pc = "undo"
    /\ \/ DeleteAuthUser(act[x].on) /\ UNCHANGED budget
       \/ Spend("authError") /\ UNCHANGED <<account, profile>>
    /\ Ends(x)
    /\ UNCHANGED <<unused, cache, verify, queue>>

-----------------------------------------------------------------------------
(* The environment *)

\* A query of findOne, count, update or the email check fails: the request
\* ends, and so does a removal that was looking for its user.
QueryFails(x) ==
    /\ act[x].pc \in {"find", "count", "write", "toRemove", "email"}
    /\ Spend("dbError")
    /\ Ends(x)
    /\ UNCHANGED <<account, unused, profile, cache, verify, queue>>

\* Twenty-one days without a login have passed.
BecomesInactive(u) ==
    /\ OnFile(u)
    /\ profile[u].recent
    /\ Spend("inactivity")
    /\ profile' = [profile EXCEPT ![u].recent = FALSE]
    /\ UNCHANGED <<account, unused, cache, verify, act, queue>>

\* The process restarts.
Crash ==
    /\ Spend("crash")
    /\ cache' = [t \in Token |-> NoEntry]
    /\ verify' = [t \in Token |-> NoVerification]
    /\ act' = [x \in Actor |-> NoAct]
    /\ queue' = {}
    /\ UNCHANGED <<account, unused, profile>>

VerifyStep(t) == ReadRow(t) \/ Admit(t) \/ Refuse(t)
Update(x) == FindOne(x) \/ CountAdmins(x) \/ WriteUser(x) \/ Forget(x)
Remove(x) == FindRemovable(x) \/ RemoveAccount(x) \/ RemoveProfile(x)
Create(x) == CheckEmail(x) \/ CreateAccount(x) \/ CreateProfile(x) \/ UndoAccount(x)
ActStep(x) == RecordLogin(x) \/ Update(x) \/ Remove(x) \/ Create(x)

Next ==
    \/ Tick
    \/ \E t \in Token : VerifyStep(t)
    \/ \E r \in Request, t \in Token : Hit(r, t) \/ Miss(r, t)
    \/ \E r \in Request : Begin(r)
    \/ \E x \in Actor : ActStep(x) \/ QueryFails(x)
    \/ StartSweep \/ SweepNext
    \/ \E u \in User : BecomesInactive(u)
    \/ Crash

Spec == Init /\ [][Next]_vars

\* Time passes, queries are answered and handlers go on.
Fairness ==
    /\ WF_vars(Tick)
    /\ \A t \in Token : WF_vars(VerifyStep(t))
    /\ \A r \in Request : WF_vars(Begin(r))
    /\ \A x \in Actor : WF_vars(ActStep(x))

FairSpec == Spec /\ Fairness

-----------------------------------------------------------------------------
(* Properties *)

\* There is an active Admin, whatever updates, removals and sweeps overlap.
AdminRemains ==
    /\ Root \in account
    /\ profile[Root].role = "ADMIN"
    /\ Active(Root)

\* The cache lets a user in with a row that is not theirs any more.
Outdated(t) ==
    Live(t) /\ (~Active(OwnerOf[t]) \/ profile[OwnerOf[t]].role # cache[t].role)

\* A change to u is under way that will invalidate its entries.
BeingChanged(u) == \E x \in Actor : act[x].on = u /\ act[x].pc \in {"unprofile", "forget"}

\* A deactivated or deleted user is let in from the cache only until the change
\* has invalidated it, or when the row was read before that and cached after;
\* or when the database failed in the middle of a removal.
StaleOnlyIfOverlapped ==
    \A t \in Token :
        Outdated(t) => \/ BeingChanged(OwnerOf[t])
                       \/ cache[t].missed
                       \/ Spent("dbError")

\* Even then not for long: the entry expires, however often it is used.
StaleAccessEnds == \A t \in Token : Outdated(t) ~> ~Outdated(t)

\* An account without a profile is being created, or Supabase failed or the
\* process died on the way: nothing else leaves one, in any order of creations,
\* rollbacks and removals.
OrphansComeFromFailures ==
    \A u \in account :
        ~OnFile(u) => \/ \E x \in Actor : act[x].on = u /\ act[x].pc \in {"profile", "undo"}
                      \/ Spent("authError")
                      \/ Spent("crash")

\* A failed verification is not remembered: an Admin who keeps coming gets in
\* again, on the promise of others or on one of their own.
ActiveGetIn ==
    \A r \in Request, t \in Token :
        OwnerOf[t] = Root =>
            (([]<>Awaits(r, t)) => []<>(act[r].pc = "in" /\ act[r].token = t))

=============================================================================
