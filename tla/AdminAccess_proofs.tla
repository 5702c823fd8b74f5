-------------------------- MODULE AdminAccess_proofs --------------------------
(***************************************************************************)
(* Proofs about AdminAccess, for any users, tokens, cache life, number of  *)
(* concurrent requests, and budgets.                                       *)
(***************************************************************************)
EXTENDS AdminAccess, TLAPS

Creating(x) == act[x].pc \in {"profile", "undo"}
Removing(x) == act[x].pc \in {"unaccount", "unprofile"}

BudgetsShrink == \A k \in EventKind : budget[k] <= Budget[k]

\* Only Root is an Admin, and whatever passed its checks spares Root.
RootSpared ==
    /\ \A u \in User : profile[u].role = "ADMIN" => u = Root
    /\ \A x \in Actor :
          /\ act[x].pc = "count" => act[x].on = Root
          /\ act[x].pc = "write" /\ act[x].on = Root => act[x].change \in {"name", "ACTIVE"}
          /\ Creating(x) \/ Removing(x) => act[x].on # Root

\* An unused id has neither account nor profile; each account is created once,
\* by one actor, and has no profile until then.
IdsAreFresh ==
    /\ \A u \in unused : u \notin account /\ ~OnFile(u)
    /\ \A x \in Actor : Removing(x) \/ Creating(x) => act[x].on \notin unused
    /\ \A x \in Actor : Creating(x) => ~OnFile(act[x].on)
    /\ \A x, y \in Actor : Creating(x) /\ Creating(y) /\ act[x].on = act[y].on => x = y

\* A row that was read fits the user still, or the change since then will be
\* noticed as it is for an entry of the cache.
Misfits(u, role) == ~Active(u) \/ profile[u].role # role
ReadsAreTracked ==
    \A t \in Token :
        verify[t].pc = "read" /\ Misfits(OwnerOf[t], verify[t].role) =>
            \/ BeingChanged(OwnerOf[t])
            \/ verify[t].missed
            \/ Spent("dbError")

\* Before the profile is deleted the account is gone, unless Supabase failed.
AccountGoesFirst ==
    \A x \in Actor :
        act[x].pc = "unprofile" => act[x].on \notin account \/ Spent("authError")

IInv ==
    /\ TypeOK
    /\ BudgetsShrink
    /\ AdminRemains
    /\ RootSpared
    /\ IdsAreFresh
    /\ ReadsAreTracked
    /\ StaleOnlyIfOverlapped
    /\ AccountGoesFirst
    /\ OrphansComeFromFailures

-----------------------------------------------------------------------------

LEMMA InitIInv == Init => IInv
<1> SUFFICES ASSUME Init PROVE IInv
  OBVIOUS
<1>1. \A x \in Actor : act[x].pc = "idle"
  BY DEF Init, NoAct
<1>2. \A t \in Token : ~Live(t) /\ verify[t].pc = "idle"
  BY DEF Init, NoEntry, NoVerification, Live
<1>3. TypeOK
  <2>1. profile \in [User -> Profile]
    BY DEF Init, Profile, Role
  <2>2. QED
    BY <2>1, AccessAssumption DEF Init, TypeOK, Entry, Verification, Act
<1>4. BudgetsShrink
  BY AccessAssumption DEF Init, BudgetsShrink
<1>5. \A u \in User : OnFile(u) <=> u \in Initially
  BY DEF Init, OnFile, NoProfile
<1>6. AdminRemains /\ \A u \in User : profile[u].role = "ADMIN" => u = Root
  BY AccessAssumption DEF Init, AdminRemains, Active, NoProfile
<1>7. RootSpared /\ IdsAreFresh /\ AccountGoesFirst
  BY <1>1, <1>5, <1>6 DEF Init, RootSpared, IdsAreFresh, AccountGoesFirst, Creating, Removing
<1>8. ReadsAreTracked /\ StaleOnlyIfOverlapped
  BY <1>2 DEF ReadsAreTracked, StaleOnlyIfOverlapped, Outdated
<1>9. OrphansComeFromFailures
  BY <1>5, AccessAssumption DEF Init, OrphansComeFromFailures
<1>10. QED
  BY <1>3, <1>4, <1>6, <1>7, <1>8, <1>9 DEF IInv

-----------------------------------------------------------------------------
(* What an actor may be doing *)

Checking == {"find", "count", "write"}
Simple == {"login", "forget", "toRemove", "unaccount", "unprofile", "email", "account",
           "profile", "undo"}

LEMMA ActShape ==
    ASSUME NEW a \in Act
    PROVE  /\ a.pc \in {"idle", "waiting", "in"} \cup Checking \cup Simple
           /\ a.pc = "idle" => a = NoAct
           /\ a.pc = "waiting" => a.token \in Token /\ a.role = "none"
           /\ a.pc = "in" => a.token \in Token /\ a.role \in Role
           /\ a.pc \in Checking =>
                 a.on \in User /\ a.change \in Change /\ a = Doing(a.pc, a.on, a.change)
           /\ a.pc \in Simple => a.on \in User /\ a = Doing(a.pc, a.on, "none")
BY DEF Act, NoAct, Checking, Simple, Doing

LEMMA DoingType ==
    ASSUME NEW u \in User, NEW pc, NEW c,
           \/ pc \in Checking /\ c \in Change
           \/ pc \in Simple /\ c = "none"
    PROVE  /\ Doing(pc, u, c) \in Act
           /\ Doing(pc, u, c).pc = pc
           /\ Doing(pc, u, c).on = u
           /\ Doing(pc, u, c).change = c
BY DEF Act, Checking, Simple, Doing

LEMMA NoActType == NoAct \in Act /\ NoAct.pc = "idle"
BY DEF Act, NoAct

\* Going on means doing the next thing to the same user.
LEMMA GoesIsDoing ==
    ASSUME TypeOK, NEW x \in Actor, NEW pc, Goes(x, pc),
           act[x].pc \in Checking \cup Simple
    PROVE  act' = [act EXCEPT ![x] = Doing(pc, act[x].on, act[x].change)]
<1>1. act[x] = Doing(act[x].pc, act[x].on, act[x].change)
  <2>1. act[x] \in Act
    BY DEF TypeOK
  <2>2. CASE act[x].pc \in Checking
    BY <2>1, <2>2, ActShape
  <2>3. CASE act[x].pc \in Simple
    <3>1. act[x] = Doing(act[x].pc, act[x].on, "none")
      BY <2>1, <2>3, ActShape
    <3>2. act[x].change = "none"
      BY <3>1 DEF Doing
    <3>3. QED
      BY <3>1, <3>2
  <2>4. QED
    BY <2>2, <2>3
<1>2. [act[x] EXCEPT !.pc = pc] = Doing(pc, act[x].on, act[x].change)
  BY <1>1 DEF Doing
<1>3. QED
  BY <1>2 DEF Goes

BudgetStep ==
    /\ budget' \in [EventKind -> Nat]
    /\ \A k \in EventKind : budget'[k] <= budget[k]

LEMMA SpendStep ==
    ASSUME TypeOK, BudgetsShrink, NEW k \in EventKind, Spend(k)
    PROVE  BudgetStep /\ budget'[k] < Budget[k]
<1>1. budget \in [EventKind -> Nat] /\ Budget \in [EventKind -> Nat]
  BY AccessAssumption DEF TypeOK
<1>2. /\ budget' = [budget EXCEPT ![k] = budget[k] - 1]
      /\ budget[k] > 0 /\ budget[k] <= Budget[k]
  BY DEF Spend, BudgetsShrink
<1>3. QED
  BY <1>1, <1>2 DEF BudgetStep

LEMMA NoSpending == ASSUME TypeOK, UNCHANGED budget PROVE BudgetStep
BY DEF TypeOK, BudgetStep

\* What has failed stays failed.
LEMMA BudgetKeeps ==
    ASSUME TypeOK, BudgetsShrink, BudgetStep
    PROVE  /\ BudgetsShrink'
           /\ \A k \in EventKind : Spent(k) => budget'[k] < Budget[k]
BY AccessAssumption DEF TypeOK, BudgetsShrink, BudgetStep, Spent

-----------------------------------------------------------------------------
(* Steps in which one actor moves on and nothing else happens *)

\* a may follow act[x] when x changes neither tables nor cache.
Tame(x, a) ==
    /\ a \in Act
    /\ a.pc = "count" => a.on = Root
    /\ a.pc = "write" /\ a.on = Root => a.change \in {"name", "ACTIVE"}
    /\ a.pc \in {"unaccount", "unprofile"} => a.on # Root /\ a.on \notin unused
    /\ a.pc = "unprofile" => a.on \notin account \/ budget'["authError"] < Budget["authError"]
    /\ a.pc \in {"profile", "undo"} => Creating(x) /\ a.on = act[x].on
    /\ Creating(x) => \/ a.pc \in {"profile", "undo"}
                      \/ budget'["authError"] < Budget["authError"]
    /\ act[x].pc \in {"unprofile", "forget"} => budget'["dbError"] < Budget["dbError"]

LEMMA ActFrame ==
    ASSUME IInv, NEW x \in Actor, NEW a, Tame(x, a),
           act' = [act EXCEPT ![x] = a],
           UNCHANGED <<account, unused, profile, cache, verify>>,
           queue' \in SUBSET User, BudgetStep
    PROVE  IInv'
<1>t. TypeOK /\ BudgetsShrink
  BY DEF IInv
<1>1. act'[x] = a /\ \A y \in Actor : y # x => act'[y] = act[y]
  BY <1>t DEF TypeOK
<1>2. TypeOK'
  <2>1. act' \in [Actor -> Act]
    BY <1>t DEF TypeOK, Tame
  <2>2. QED
    BY <1>t, <2>1 DEF TypeOK, BudgetStep
<1>3. BudgetsShrink' /\ \A k \in EventKind : Spent(k) => budget'[k] < Budget[k]
  BY <1>t, BudgetKeeps
<1>4. AdminRemains'
  BY DEF IInv, AdminRemains, Active
<1>5. RootSpared'
  BY <1>1 DEF IInv, RootSpared, Creating, Removing, Tame
<1>6. IdsAreFresh'
  <2>1. (\A u \in unused : u \notin account /\ ~OnFile(u))'
    BY DEF IInv, IdsAreFresh, OnFile
  <2>2. \A y \in Actor : act'[y].pc \in {"profile", "undo"} =>
            Creating(y) /\ act'[y].on = act[y].on
    BY <1>1 DEF Tame, Creating
  <2>3. (\A y \in Actor : Removing(y) \/ Creating(y) => act[y].on \notin unused)'
    BY <1>1, <2>2 DEF IInv, IdsAreFresh, Creating, Removing, Tame
  <2>4. (\A y \in Actor : Creating(y) => ~OnFile(act[y].on))'
    BY <2>2 DEF IInv, IdsAreFresh, Creating, OnFile
  <2>5. (\A y, z \in Actor : Creating(y) /\ Creating(z) /\ act[y].on = act[z].on => y = z)'
    BY <2>2 DEF IInv, IdsAreFresh, Creating
  <2>6. QED
    BY <2>1, <2>3, <2>4, <2>5 DEF IdsAreFresh
<1>7. ASSUME NEW u, BeingChanged(u)
      PROVE  BeingChanged(u)' \/ budget'["dbError"] < Budget["dbError"]
  BY <1>1, <1>7 DEF BeingChanged, Tame
<1>8. ReadsAreTracked'
  BY <1>3, <1>7 DEF IInv, ReadsAreTracked, Misfits, Active, Spent, EventKind
<1>9. StaleOnlyIfOverlapped'
  BY <1>3, <1>7 DEF IInv, StaleOnlyIfOverlapped, Outdated, Live, Active, Spent, EventKind
<1>10. AccountGoesFirst'
  BY <1>1, <1>3 DEF IInv, AccountGoesFirst, Tame, Spent, EventKind
<1>11. OrphansComeFromFailures'
  <2>1. ASSUME NEW y \in Actor, Creating(y)
        PROVE  \/ act'[y].on = act[y].on /\ act'[y].pc \in {"profile", "undo"}
               \/ budget'["authError"] < Budget["authError"]
    BY <1>1, <2>1 DEF Tame, Creating
  <2>2. QED
    BY <1>3, <2>1 DEF IInv, OrphansComeFromFailures, OnFile, Spent, EventKind, Creating
<1>12. QED
  BY <1>2, <1>3, <1>4, <1>5, <1>6, <1>8, <1>9, <1>10, <1>11 DEF IInv

LEMMA HitStep ==
    ASSUME IInv, NEW r \in Request, NEW t \in Token, Hit(r, t)
    PROVE  IInv'
<1>t. TypeOK
  BY DEF IInv
<1>1. PICK a : a = [NoAct EXCEPT !.pc = "in", !.token = t, !.role = cache[t].role]
  OBVIOUS
<1>2. cache[t].role \in Role
  BY <1>t DEF Hit, Live, TypeOK, Entry, NoEntry
<1>3. a \in Act /\ a.pc = "in"
  BY <1>1, <1>2 DEF Act, NoAct
<1>4. Tame(r, a)
  BY <1>3 DEF Hit, Tame, Creating
<1>5. QED
  BY <1>t, <1>1, <1>4, ActFrame, NoSpending DEF Hit, Actor, TypeOK

LEMMA BeginStep ==
    ASSUME IInv, NEW r \in Request, Begin(r)
    PROVE  IInv'
<1>t. TypeOK
  BY DEF IInv
<1>1. act[r] \in Act /\ act[r].pc = "in"
  BY <1>t DEF Begin, TypeOK, Actor
<1>2. OwnerOf[act[r].token] \in User
  BY <1>1, ActShape, AccessAssumption
<1>3. PICK a : /\ act' = [act EXCEPT ![r] = a]
               /\ \/ a = NoAct
                  \/ \E u \in User, pc \in {"login", "toRemove", "email"} : a = Doing(pc, u, "none")
                  \/ \E u \in User, c \in Change : a = Doing("find", u, c)
  BY <1>2, Zenon DEF Begin, Ends, Starts, Change
<1>4. a \in Act /\ a.pc \in {"idle", "login", "toRemove", "email", "find"}
  BY <1>3, DoingType, NoActType DEF Simple, Checking
<1>5. Tame(r, a)
  BY <1>1, <1>4 DEF Tame, Creating
<1>6. QED
  BY <1>t, <1>3, <1>5, ActFrame, NoSpending DEF Begin, Actor, TypeOK

\* An actor that neither creates a user nor has to invalidate anything may end.
LEMMA EndIsTame ==
    ASSUME NEW x \in Actor,
           act[x].pc \notin {"profile", "undo", "unprofile", "forget"}
    PROVE  Tame(x, NoAct)
BY NoActType DEF Tame, Creating

LEMMA EndStep ==
    ASSUME IInv, NEW x \in Actor, Ends(x), BudgetStep,
           act[x].pc \notin {"profile", "undo", "unprofile", "forget"},
           UNCHANGED <<account, unused, profile, cache, verify, queue>>
    PROVE  IInv'
BY EndIsTame, ActFrame DEF Ends, IInv, TypeOK

LEMMA QueryFailsStep ==
    ASSUME IInv, NEW x \in Actor, QueryFails(x)
    PROVE  IInv'
<1>1. BudgetStep
  BY SpendStep DEF QueryFails, IInv, EventKind
<1>2. QED
  BY <1>1, EndStep DEF QueryFails

LEMMA FindOneStep ==
    ASSUME IInv, NEW x \in Actor, FindOne(x)
    PROVE  IInv'
<1>t. TypeOK /\ BudgetStep
  BY NoSpending DEF IInv, FindOne
<1>1. CASE Ends(x)
  BY <1>1, <1>t, EndStep DEF FindOne
<1>2. ASSUME NEW pc \in {"count", "write"}, Goes(x, pc),
             pc = "count" <=> RemovesAnAdmin(act[x].on, act[x].change)
      PROVE  IInv'
  <2>1. act[x].pc = "find" /\ act[x].on \in User /\ act[x].change \in Change
    BY <1>t, ActShape DEF FindOne, TypeOK, Checking
  <2>2. act' = [act EXCEPT ![x] = Doing(pc, act[x].on, act[x].change)]
    BY <1>t, <1>2, <2>1, GoesIsDoing DEF Checking
  <2>3. RemovesAnAdmin(act[x].on, act[x].change) => act[x].on = Root
    BY <2>1 DEF IInv, RootSpared, RemovesAnAdmin
  <2>4. act[x].on = Root /\ pc = "write" => act[x].change \in {"name", "ACTIVE"}
    BY <1>2, <2>1 DEF IInv, AdminRemains, RemovesAnAdmin, Change
  <2>5. PICK a : a = Doing(pc, act[x].on, act[x].change)
    OBVIOUS
  <2>6. a \in Act /\ a.pc = pc /\ a.on = act[x].on /\ a.change = act[x].change
    BY <2>1, <2>5, DoingType DEF Checking
  <2>7. Tame(x, a)
    BY <1>2, <2>1, <2>3, <2>4, <2>6 DEF Tame, Creating
  <2>8. QED
    BY <1>t, <2>2, <2>5, <2>7, ActFrame DEF FindOne, TypeOK
<1>3. QED
  BY <1>1, <1>2 DEF FindOne

\* Only Root is counted for, and there is no other Admin: the check never passes.
LEMMA CountAdminsStep ==
    ASSUME IInv, NEW x \in Actor, CountAdmins(x)
    PROVE  IInv'
<1>t. TypeOK /\ BudgetStep
  BY NoSpending DEF IInv, CountAdmins
<1>1. act[x].on = Root
  BY DEF IInv, RootSpared, CountAdmins
<1>2. ~\E v \in User \ {act[x].on} : profile[v].role = "ADMIN" /\ Active(v)
  BY <1>1 DEF IInv, RootSpared
<1>3. Ends(x)
  BY <1>2 DEF CountAdmins
<1>4. QED
  BY <1>t, <1>3, EndStep DEF CountAdmins

\* One that moves on to a step with a user that is neither Root nor unused.
LEMMA MoveStep ==
    ASSUME IInv, NEW x \in Actor, NEW pc \in {"unaccount", "account"}, Goes(x, pc),
           act[x].pc \in {"toRemove", "email"},
           pc = "unaccount" => act[x].on # Root /\ act[x].on \notin unused,
           UNCHANGED <<account, unused, profile, cache, verify, queue, budget>>
    PROVE  IInv'
<1>t. TypeOK
  BY DEF IInv
<1>1. act[x].on \in User /\ act[x].change = "none"
  <2>1. act[x] \in Act /\ act[x].pc \in Simple
    BY <1>t DEF TypeOK, Simple
  <2>2. act[x].on \in User /\ act[x] = Doing(act[x].pc, act[x].on, "none")
    BY <2>1, ActShape
  <2>3. QED
    BY <2>1, <2>2, DoingType
<1>2. PICK a : a = Doing(pc, act[x].on, "none")
  OBVIOUS
<1>3. a \in Act /\ a.pc = pc /\ a.on = act[x].on
  BY <1>1, <1>2, DoingType DEF Simple
<1>4. act' = [act EXCEPT ![x] = a]
  BY <1>t, <1>1, <1>2, GoesIsDoing DEF Simple
<1>5. Tame(x, a)
  BY <1>3 DEF Tame, Creating
<1>6. QED
  BY <1>t, <1>4, <1>5, ActFrame, NoSpending DEF TypeOK

LEMMA FindRemovableStep ==
    ASSUME IInv, NEW x \in Actor, FindRemovable(x)
    PROVE  IInv'
<1>t. TypeOK /\ BudgetStep
  BY NoSpending DEF IInv, FindRemovable
<1>1. CASE Ends(x)
  BY <1>1, <1>t, EndStep DEF FindRemovable
<1>2. CASE Goes(x, "unaccount") /\ OnFile(act[x].on) /\ profile[act[x].on].role # "ADMIN"
  <2>1. act[x].on # Root /\ act[x].on \notin unused
    BY <1>2 DEF IInv, AdminRemains, IdsAreFresh
  <2>2. QED
    BY <1>2, <2>1, MoveStep DEF FindRemovable
<1>3. QED
  BY <1>1, <1>2 DEF FindRemovable

LEMMA CheckEmailStep ==
    ASSUME IInv, NEW x \in Actor, CheckEmail(x)
    PROVE  IInv'
<1>t. TypeOK /\ BudgetStep
  BY NoSpending DEF IInv, CheckEmail
<1>1. CASE Ends(x)
  BY <1>1, <1>t, EndStep DEF CheckEmail
<1>2. CASE Goes(x, "account")
  BY <1>2, MoveStep DEF CheckEmail
<1>3. QED
  BY <1>1, <1>2 DEF CheckEmail

LEMMA SweepStep ==
    ASSUME IInv, StartSweep \/ SweepNext
    PROVE  IInv'
<1>t. TypeOK /\ BudgetStep
  BY NoSpending DEF IInv, StartSweep, SweepNext
<1>1. CASE StartSweep
  <2>1. act' = [act EXCEPT ![Cron] = NoAct]
    <3>1. act[Cron] = NoAct
      BY <1>t, <1>1, ActShape DEF StartSweep, TypeOK, Actor
    <3>2. QED
      BY <1>t, <1>1, <3>1 DEF StartSweep, TypeOK
  <2>2. Tame(Cron, NoAct)
    BY <1>1, EndIsTame DEF StartSweep, Actor
  <2>3. QED
    BY <1>t, <1>1, <2>1, <2>2, ActFrame DEF StartSweep, Actor
<1>2. CASE SweepNext
  <2>1. PICK u \in queue : act' = [act EXCEPT ![Cron] = Doing("toRemove", u, "none")]
                           /\ queue' = queue \ {u}
    BY <1>2 DEF SweepNext, Starts
  <2>2. PICK a : a = Doing("toRemove", u, "none")
    OBVIOUS
  <2>3. a \in Act /\ a.pc = "toRemove"
    BY <1>t, <2>2, DoingType DEF TypeOK, Simple
  <2>4. Tame(Cron, a)
    BY <1>2, <2>3 DEF SweepNext, Tame, Creating
  <2>5. QED
    BY <1>t, <1>2, <2>1, <2>2, <2>4, ActFrame DEF SweepNext, Actor, TypeOK
<1>3. QED
  BY <1>1, <1>2

-----------------------------------------------------------------------------
(* Steps of the guard, of the clock and of the table's recent flag *)

LEMMA VerificationShape ==
    ASSUME NEW v \in Verification
    PROVE  /\ v.pc \in {"idle", "asked", "refused", "read"}
           /\ v.pc = "idle" => v = NoVerification
           /\ v.pc \in {"asked", "refused"} =>
                 v \in [pc : {"asked", "refused"}, role : {"none"}, missed : {FALSE}]
           /\ v.pc = "read" => v \in [pc : {"read"}, role : Role, missed : BOOLEAN]
<1>1. CASE v = NoVerification
  BY <1>1 DEF NoVerification
<1>2. CASE v \in [pc : {"asked", "refused"}, role : {"none"}, missed : {FALSE}]
  <2>1. v.pc \in {"asked", "refused"}
    BY <1>2
  <2>2. QED
    BY <1>2, <2>1
<1>3. CASE v \in [pc : {"read"}, role : Role, missed : BOOLEAN]
  <2>1. v.pc = "read"
    BY <1>3
  <2>2. QED
    BY <1>3, <2>1
<1>4. QED
  BY <1>1, <1>2, <1>3 DEF Verification

\* Actors that only wait or get in: nothing else about them counts.
Passing(x) == act[x].pc \in {"idle", "waiting", "in"}

LEMMA GuardFrame ==
    ASSUME IInv, TypeOK',
           \A x \in Actor : act'[x] = act[x] \/ (Passing(x) /\ Passing(x)'),
           UNCHANGED <<account, unused, profile, queue>>, BudgetStep
    PROVE  /\ BudgetsShrink' /\ AdminRemains' /\ RootSpared' /\ IdsAreFresh'
           /\ AccountGoesFirst' /\ OrphansComeFromFailures'
           /\ \A u : BeingChanged(u) => BeingChanged(u)'
           /\ Spent("dbError") => Spent("dbError")'
<1>t. TypeOK /\ BudgetsShrink
  BY DEF IInv
<1>1. BudgetsShrink' /\ \A k \in EventKind : Spent(k) => budget'[k] < Budget[k]
  BY <1>t, BudgetKeeps
<1>2. AdminRemains'
  BY DEF IInv, AdminRemains, Active
<1>3. RootSpared'
  BY DEF IInv, RootSpared, Creating, Removing, Passing
<1>4. IdsAreFresh'
  BY DEF IInv, IdsAreFresh, Creating, Removing, Passing, OnFile
<1>5. AccountGoesFirst'
  BY <1>1 DEF IInv, AccountGoesFirst, Passing, Spent, EventKind
<1>6. OrphansComeFromFailures'
  BY <1>1 DEF IInv, OrphansComeFromFailures, Passing, OnFile, Spent, EventKind
<1>7. \A u : BeingChanged(u) => BeingChanged(u)'
  BY DEF BeingChanged, Passing
<1>8. Spent("dbError") => Spent("dbError")'
  BY <1>1 DEF Spent, EventKind
<1>9. QED
  BY <1>1, <1>2, <1>3, <1>4, <1>5, <1>6, <1>7, <1>8

LEMMA TickStep == ASSUME IInv, Tick PROVE IInv'
<1>t. TypeOK /\ BudgetStep
  BY NoSpending DEF IInv, Tick
<1>1. ASSUME NEW t \in Token
      PROVE  /\ cache'[t] \in Entry
             /\ Live(t)' => /\ Live(t)
                            /\ cache'[t].role = cache[t].role
                            /\ cache'[t].missed = cache[t].missed
  <2>1. cache[t] \in Entry /\ cache'[t] = Lapse(cache[t])
    BY <1>t DEF TypeOK, Tick
  <2>2. QED
    BY <2>1, AccessAssumption DEF Lapse, Entry, NoEntry, Live
<1>2. TypeOK'
  BY <1>t, <1>1 DEF TypeOK, Tick
<1>3. \A x \in Actor : act'[x] = act[x]
  BY DEF Tick
<1>4. /\ BudgetsShrink' /\ AdminRemains' /\ RootSpared' /\ IdsAreFresh'
      /\ AccountGoesFirst' /\ OrphansComeFromFailures'
      /\ \A u : BeingChanged(u) => BeingChanged(u)'
      /\ Spent("dbError") => Spent("dbError")'
  BY <1>t, <1>2, <1>3, GuardFrame DEF Tick
<1>5. ReadsAreTracked'
  BY <1>4 DEF IInv, ReadsAreTracked, Misfits, Active, Tick
<1>6. StaleOnlyIfOverlapped'
  BY <1>1, <1>4 DEF IInv, StaleOnlyIfOverlapped, Outdated, Active, Tick
<1>7. QED
  BY <1>2, <1>4, <1>5, <1>6 DEF IInv

LEMMA MissStep ==
    ASSUME IInv, NEW r \in Request, NEW t \in Token, Miss(r, t)
    PROVE  IInv'
<1>t. TypeOK /\ BudgetStep
  BY NoSpending DEF IInv, Miss
<1>1. PICK a : a = [NoAct EXCEPT !.pc = "waiting", !.token = t]
  OBVIOUS
<1>2. a \in Act /\ a.pc = "waiting"
  BY <1>1 DEF Act, NoAct
<1>3. /\ act' = [act EXCEPT ![r] = a] /\ act' \in [Actor -> Act]
      /\ \A x \in Actor : act'[x] = act[x] \/ (Passing(x) /\ Passing(x)')
  BY <1>t, <1>1, <1>2 DEF Miss, TypeOK, Passing, Actor
<1>4. /\ verify' \in [Token -> Verification]
      /\ \A s \in Token : verify'[s] = verify[s] \/ verify'[s].pc = "asked"
  <2>1. CASE verify[t].pc = "idle"
    <3>1. PICK v : v = [verify[t] EXCEPT !.pc = "asked"]
      OBVIOUS
    <3>2. v \in Verification /\ v.pc = "asked"
      <4>1. verify[t] = NoVerification
        BY <1>t, <2>1, VerificationShape DEF TypeOK
      <4>2. v = [NoVerification EXCEPT !.pc = "asked"]
        BY <3>1, <4>1
      <4>3. v = [pc |-> "asked", role |-> "none", missed |-> FALSE]
        BY <4>2 DEF NoVerification
      <4>4. QED
        BY <4>3 DEF Verification
    <3>3. verify' = [verify EXCEPT ![t] = v]
      BY <2>1, <3>1 DEF Miss
    <3>4. QED
      BY <1>t, <3>2, <3>3 DEF TypeOK
  <2>2. CASE verify[t].pc # "idle"
    BY <1>t, <2>2 DEF Miss, TypeOK
  <2>3. QED
    BY <2>1, <2>2
<1>5. TypeOK'
  BY <1>t, <1>3, <1>4 DEF TypeOK, Miss
<1>6. /\ BudgetsShrink' /\ AdminRemains' /\ RootSpared' /\ IdsAreFresh'
      /\ AccountGoesFirst' /\ OrphansComeFromFailures'
      /\ \A u : BeingChanged(u) => BeingChanged(u)'
      /\ Spent("dbError") => Spent("dbError")'
  BY <1>t, <1>3, <1>5, GuardFrame DEF Miss
<1>7. ReadsAreTracked'
  BY <1>4, <1>6 DEF IInv, ReadsAreTracked, Misfits, Active, Miss
<1>8. StaleOnlyIfOverlapped'
  BY <1>6 DEF IInv, StaleOnlyIfOverlapped, Outdated, Live, Active, Miss
<1>9. QED
  BY <1>5, <1>6, <1>7, <1>8 DEF IInv

\* A row just read fits.
LEMMA ReadRowStep ==
    ASSUME IInv, NEW t \in Token, ReadRow(t)
    PROVE  IInv'
<1>t. TypeOK /\ BudgetsShrink
  BY DEF IInv
<1>b. BudgetStep
  <2>1. UNCHANGED budget \/ Spend("dbError")
    BY DEF ReadRow
  <2>2. QED
    BY <1>t, <2>1, NoSpending, SpendStep DEF EventKind
<1>1. OwnerOf[t] \in User
  BY AccessAssumption
<1>2. \E v \in Verification :
          /\ verify' = [verify EXCEPT ![t] = v]
          /\ v.pc = "read" => ~Misfits(OwnerOf[t], v.role)
  <2>1. verify[t] \in [pc : {"asked", "refused"}, role : {"none"}, missed : {FALSE}]
    BY <1>t, VerificationShape DEF ReadRow, TypeOK
  <2>2. CASE verify' = [verify EXCEPT ![t].pc = "refused"]
    <3>1. PICK v : v = [verify[t] EXCEPT !.pc = "refused"]
      OBVIOUS
    <3>2. v \in Verification /\ v.pc = "refused"
      BY <2>1, <3>1 DEF Verification
    <3>3. verify' = [verify EXCEPT ![t] = v]
      BY <2>2, <3>1
    <3>4. QED
      BY <3>2, <3>3
  <2>3. CASE /\ Active(OwnerOf[t])
             /\ verify' = [verify EXCEPT ![t].pc = "read",
                                         ![t].role = profile[OwnerOf[t]].role]
    <3>1. PICK v : v = [verify[t] EXCEPT !.pc = "read", !.role = profile[OwnerOf[t]].role]
      OBVIOUS
    <3>2. profile[OwnerOf[t]].role \in Role
      BY <1>t, <1>1, <2>3 DEF TypeOK, Active, Profile, NoProfile
    <3>3. v \in Verification /\ v.role = profile[OwnerOf[t]].role
      BY <2>1, <3>1, <3>2 DEF Verification
    <3>4. verify' = [verify EXCEPT ![t] = v]
      BY <1>t, <2>3, <3>1 DEF TypeOK
    <3>5. QED
      BY <2>3, <3>3, <3>4 DEF Misfits
  <2>4. QED
    BY <2>2, <2>3 DEF ReadRow
<1>3. PICK v \in Verification : /\ verify' = [verify EXCEPT ![t] = v]
                                /\ v.pc = "read" => ~Misfits(OwnerOf[t], v.role)
  BY <1>2
<1>4. verify' \in [Token -> Verification] /\ verify'[t] = v
      /\ \A s \in Token : s # t => verify'[s] = verify[s]
  BY <1>t, <1>3 DEF TypeOK
<1>5. TypeOK'
  BY <1>t, <1>b, <1>4 DEF TypeOK, ReadRow, BudgetStep
<1>6. /\ BudgetsShrink' /\ AdminRemains' /\ RootSpared' /\ IdsAreFresh'
      /\ AccountGoesFirst' /\ OrphansComeFromFailures'
      /\ \A u : BeingChanged(u) => BeingChanged(u)'
      /\ Spent("dbError") => Spent("dbError")'
  BY <1>b, <1>5, GuardFrame DEF ReadRow
<1>7. ReadsAreTracked'
  BY <1>3, <1>4, <1>6 DEF IInv, ReadsAreTracked, Misfits, Active, ReadRow
<1>8. StaleOnlyIfOverlapped'
  BY <1>6 DEF IInv, StaleOnlyIfOverlapped, Outdated, Live, Active, ReadRow
<1>9. QED
  BY <1>5, <1>6, <1>7, <1>8 DEF IInv

\* What is cached is what was read, with what is known of it.
LEMMA SettleStep ==
    ASSUME IInv, NEW t \in Token, Admit(t) \/ Refuse(t)
    PROVE  IInv'
<1>t. TypeOK /\ BudgetStep
  BY NoSpending DEF IInv, Admit, Refuse
<1>1. /\ verify' \in [Token -> Verification]
      /\ \A s \in Token : verify'[s].pc = "read" => verify'[s] = verify[s]
  <2>1. verify' = [verify EXCEPT ![t] = NoVerification]
    BY DEF Admit, Refuse, AfterVerification
  <2>2. NoVerification \in Verification /\ NoVerification.pc = "idle"
    BY DEF Verification, NoVerification
  <2>3. QED
    BY <1>t, <2>1, <2>2 DEF TypeOK
<1>2. \A x \in Actor : act'[x] \in Act /\ (act'[x] = act[x] \/ (Passing(x) /\ Passing(x)'))
  <2> TAKE x \in Actor
  <2>1. act[x] \in Act
    BY <1>t DEF TypeOK
  <2>2. CASE act'[x] = act[x]
    BY <2>1, <2>2
  <2>3. CASE Refuse(t) /\ Awaits(x, t)
    BY <2>3, NoActType DEF Refuse, Awaits, Passing
  <2>4. CASE Admit(t) /\ Awaits(x, t)
    <3>1. PICK a : a = [act[x] EXCEPT !.pc = "in", !.role = verify[t].role]
      OBVIOUS
    <3>2. verify[t].role \in Role
      <4>1. verify[t] \in [pc : {"read"}, role : Role, missed : BOOLEAN]
        BY <1>t, <2>4, VerificationShape DEF Admit, TypeOK
      <4>2. QED
        BY <4>1
    <3>3. act[x] \in [pc : {"waiting"}, token : Token, role : {"none"}, on : {NoUser},
                      change : {"none"}]
      BY <2>1, <2>4 DEF Act, Awaits, NoAct
    <3>4. a \in Act /\ a.pc = "in"
      BY <3>1, <3>2, <3>3 DEF Act
    <3>5. act'[x] = a
      BY <2>4, <3>1 DEF Admit
    <3>6. QED
      BY <2>4, <3>4, <3>5 DEF Awaits, Passing
  <2>5. QED
    BY <2>2, <2>3, <2>4 DEF Admit, Refuse
<1>3. \E e \in Entry :
          /\ Admit(t) => /\ cache' = [cache EXCEPT ![t] = e] /\ verify[t].pc = "read"
                         /\ e.role = verify[t].role /\ e.missed = verify[t].missed
  <2>1. CASE ~Admit(t)
    BY <2>1 DEF Entry
  <2>2. CASE Admit(t)
    <3>1. PICK e : e = [role |-> verify[t].role, left |-> TTL, missed |-> verify[t].missed]
      OBVIOUS
    <3>2. verify[t].role \in Role /\ verify[t].missed \in BOOLEAN
      <4>1. verify[t] \in [pc : {"read"}, role : Role, missed : BOOLEAN]
        BY <1>t, <2>2, VerificationShape DEF Admit, TypeOK
      <4>2. QED
        BY <4>1
    <3>3. e \in Entry
      BY <3>1, <3>2, AccessAssumption DEF Entry
    <3>4. QED
      BY <2>2, <3>1, <3>3 DEF Admit
  <2>3. QED
    BY <2>1, <2>2
<1>4. PICK e \in Entry :
          /\ Admit(t) => /\ cache' = [cache EXCEPT ![t] = e] /\ verify[t].pc = "read"
                         /\ e.role = verify[t].role /\ e.missed = verify[t].missed
  BY <1>3
<1>5. TypeOK'
  <2>1. cache' \in [Token -> Entry]
    BY <1>t, <1>4 DEF TypeOK, Refuse
  <2>2. act' \in [Actor -> Act]
    BY <1>2 DEF Admit, Refuse
  <2>3. QED
    BY <1>t, <1>1, <2>1, <2>2 DEF TypeOK, Admit, Refuse
<1>6. /\ BudgetsShrink' /\ AdminRemains' /\ RootSpared' /\ IdsAreFresh'
      /\ AccountGoesFirst' /\ OrphansComeFromFailures'
      /\ \A u : BeingChanged(u) => BeingChanged(u)'
      /\ Spent("dbError") => Spent("dbError")'
  BY <1>t, <1>2, <1>5, GuardFrame DEF Admit, Refuse
<1>7. profile' = profile
  BY DEF Admit, Refuse
<1>8. ReadsAreTracked'
  BY <1>1, <1>6, <1>7 DEF IInv, ReadsAreTracked, Misfits, Active
<1>9. StaleOnlyIfOverlapped'
  <2>1. ASSUME NEW s \in Token, Outdated(s)'
        PROVE  BeingChanged(OwnerOf[s])' \/ cache'[s].missed \/ Spent("dbError")'
    <3>1. CASE cache'[s] = cache[s]
      BY <1>6, <1>7, <2>1, <3>1 DEF IInv, StaleOnlyIfOverlapped, Outdated, Live, Active
    <3>2. CASE Admit(t) /\ s = t
      <4>1. cache'[t] = e
        BY <1>t, <1>4, <3>2 DEF TypeOK
      <4>2. QED
        BY <1>4, <1>6, <1>7, <2>1, <3>2, <4>1
           DEF IInv, ReadsAreTracked, Misfits, Outdated, Active
    <3>3. QED
      BY <1>t, <1>4, <3>1, <3>2 DEF TypeOK, Refuse
  <2>2. QED
    BY <2>1 DEF StaleOnlyIfOverlapped
<1>10. QED
  BY <1>5, <1>6, <1>8, <1>9 DEF IInv

-----------------------------------------------------------------------------
(* Steps that change accounts and profiles *)

\* Cache and readings stay tracked when every user whose row changes was not
\* active, or is being changed.
LEMMA CacheFrame ==
    ASSUME IInv, BudgetStep, UNCHANGED <<cache, verify>>,
           \A v \in User : BeingChanged(v) => BeingChanged(v)',
           \A v \in User : \/ /\ profile'[v].status = profile[v].status
                              /\ profile'[v].role = profile[v].role
                           \/ BeingChanged(v)'
                           \/ ~Active(v)
    PROVE  ReadsAreTracked' /\ StaleOnlyIfOverlapped'
<1>1. \A k \in EventKind : Spent(k) => budget'[k] < Budget[k]
  BY BudgetKeeps DEF IInv
<1>2. \A t \in Token : OwnerOf[t] \in User
  BY AccessAssumption
<1>3. ReadsAreTracked'
  BY <1>1, <1>2 DEF IInv, ReadsAreTracked, Misfits, Active, Spent, EventKind
<1>4. StaleOnlyIfOverlapped'
  BY <1>1, <1>2 DEF IInv, StaleOnlyIfOverlapped, Outdated, Live, Active, Spent, EventKind
<1>5. QED
  BY <1>3, <1>4

\* The rest of the invariant, for a step of actor x that changes at most the
\* account and the profile of the user it is about.
LEMMA TableFrame ==
    ASSUME IInv, NEW x \in Actor, NEW u \in User, u = act[x].on,
           NEW q \in Profile, profile' = [profile EXCEPT ![u] = q],
           NEW a, a \in Act, act' = [act EXCEPT ![x] = a],
           a.pc \in {"idle", "forget", "unprofile"}, a.pc # "idle" => a.on = u,
           account' \in {account, account \ {u}},
           UNCHANGED <<unused, cache, verify, queue>>, BudgetStep,
           u \notin unused,
           u = Root => q.role = "ADMIN" /\ q.status = "ACTIVE" /\ account' = account,
           q.role = "ADMIN" => u = Root,
           a.pc = "unprofile" => u # Root /\ u \notin account',
           u \in account' => q.status # "none" \/ budget'["authError"] < Budget["authError"],
           q.status = "none" \/ ~\E y \in Actor : y # x /\ Creating(y) /\ act[y].on = u,
           act[x].pc \in {"unprofile", "forget"} => a.pc = "forget",
           \/ q.status = profile[u].status /\ q.role = profile[u].role
           \/ a.pc # "idle"
           \/ ~Active(u)
    PROVE  IInv'
<1>t. TypeOK /\ BudgetsShrink
  BY DEF IInv
<1>1. act'[x] = a /\ \A y \in Actor : y # x => act'[y] = act[y]
  BY <1>t DEF TypeOK
<1>2. profile'[u] = q /\ \A v \in User : v # u => profile'[v] = profile[v]
  BY <1>t DEF TypeOK
<1>3. TypeOK'
  <2>1. act' \in [Actor -> Act]
    BY <1>t DEF TypeOK
  <2>2. profile' \in [User -> Profile] /\ account' \in SUBSET User
    BY <1>t DEF TypeOK
  <2>3. QED
    BY <1>t, <2>1, <2>2 DEF TypeOK, BudgetStep
<1>4. BudgetsShrink' /\ \A k \in EventKind : Spent(k) => budget'[k] < Budget[k]
  BY <1>t, BudgetKeeps
<1>5. Root \in User
  BY AccessAssumption
<1>6. AdminRemains'
  BY <1>2, <1>5 DEF IInv, AdminRemains, Active
<1>7. RootSpared'
  BY <1>1, <1>2 DEF IInv, RootSpared, Creating, Removing
<1>8. IdsAreFresh'
  <2>1. \A v \in User : v # u => (OnFile(v)' <=> OnFile(v))
    BY <1>2 DEF OnFile
  <2>2. (\A v \in unused : v \notin account /\ ~OnFile(v))'
    BY <1>t, <2>1 DEF IInv, IdsAreFresh, TypeOK
  <2>3. \A y \in Actor : Creating(y)' => y # x /\ Creating(y) /\ act'[y] = act[y]
    BY <1>1 DEF Creating
  <2>4. (\A y \in Actor : Removing(y) \/ Creating(y) => act[y].on \notin unused)'
    BY <1>1, <2>3 DEF IInv, IdsAreFresh, Creating, Removing
  <2>5. (\A y \in Actor : Creating(y) => ~OnFile(act[y].on))'
    <3> SUFFICES ASSUME NEW y \in Actor, Creating(y)' PROVE ~OnFile(act[y].on)'
      OBVIOUS
    <3>1. y # x /\ Creating(y) /\ act'[y] = act[y] /\ ~OnFile(act[y].on)
      BY <2>3 DEF IInv, IdsAreFresh
    <3>2. act[y].on \in User
      BY <1>t, <3>1, ActShape DEF TypeOK, Creating, Simple
    <3>3. CASE act[y].on = u
      BY <1>2, <3>1, <3>3 DEF OnFile
    <3>4. CASE act[y].on # u
      BY <1>2, <3>1, <3>2, <3>4 DEF OnFile
    <3>5. QED
      BY <3>3, <3>4
  <2>6. (\A y, z \in Actor : Creating(y) /\ Creating(z) /\ act[y].on = act[z].on => y = z)'
    BY <2>3 DEF IInv, IdsAreFresh
  <2>7. QED
    BY <2>2, <2>4, <2>5, <2>6 DEF IdsAreFresh
<1>9. AccountGoesFirst'
  BY <1>1, <1>4 DEF IInv, AccountGoesFirst, Spent, EventKind
<1>10. OrphansComeFromFailures'
  <2> SUFFICES ASSUME NEW v \in account', ~OnFile(v)'
               PROVE  \/ \E y \in Actor : act'[y].on = v /\ act'[y].pc \in {"profile", "undo"}
                      \/ Spent("authError")' \/ Spent("crash")'
    BY DEF OrphansComeFromFailures
  <2>1. CASE v = u
    BY <1>2, <2>1 DEF OnFile, Spent
  <2>2. CASE v # u
    <3>1. v \in account /\ ~OnFile(v)
      BY <1>t, <1>2, <2>2 DEF OnFile, TypeOK
    <3>2. \A y \in Actor : act[y].on = v => act'[y] = act[y]
      BY <1>1, <2>2
    <3>3. QED
      BY <1>4, <3>1, <3>2 DEF IInv, OrphansComeFromFailures, Spent, EventKind
  <2>3. QED
    BY <2>1, <2>2
<1>11. \A v \in User : BeingChanged(v) => BeingChanged(v)'
  BY <1>1 DEF BeingChanged
<1>12. \A v \in User : \/ /\ profile'[v].status = profile[v].status
                          /\ profile'[v].role = profile[v].role
                       \/ BeingChanged(v)'
                       \/ ~Active(v)
  BY <1>1, <1>2 DEF BeingChanged
<1>13. ReadsAreTracked' /\ StaleOnlyIfOverlapped'
  BY <1>11, <1>12, CacheFrame
<1>14. QED
  BY <1>3, <1>4, <1>6, <1>7, <1>8, <1>9, <1>10, <1>13 DEF IInv

LEMMA ProfileShape ==
    ASSUME NEW p \in Profile
    PROVE  /\ p.status \in {"none", "ACTIVE", "INACTIVE"}
           /\ p.status = "none" => p = NoProfile
           /\ p.status # "none" =>
                 p \in [role : Role, status : {"ACTIVE", "INACTIVE"}, recent : BOOLEAN]
<1>1. CASE p = NoProfile
  BY <1>1 DEF NoProfile
<1>2. CASE p \in [role : Role, status : {"ACTIVE", "INACTIVE"}, recent : BOOLEAN]
  <2>1. p.status \in {"ACTIVE", "INACTIVE"}
    BY <1>2
  <2>2. QED
    BY <1>2, <2>1
<1>3. QED
  BY <1>1, <1>2 DEF Profile

LEMMA ChangedShape ==
    ASSUME NEW p \in Profile, p.status # "none", NEW c \in Change
    PROVE  /\ Changed(p, c) \in Profile
           /\ Changed(p, c).status # "none"
           /\ Changed(p, c).role \in {p.role, "STAFF"}
           /\ c \in {"name", "ACTIVE"} /\ p.status = "ACTIVE" =>
                 Changed(p, c).status = "ACTIVE" /\ Changed(p, c).role = p.role
<1>1. p \in [role : Role, status : {"ACTIVE", "INACTIVE"}, recent : BOOLEAN]
  BY ProfileShape
<1>2. p.status \in {"ACTIVE", "INACTIVE"}
  BY <1>1
<1>3. CASE c = "name"
  BY <1>2, <1>3 DEF Changed
<1>4. CASE c = "role"
  <2>1. PICK q : q = [p EXCEPT !.role = "STAFF"]
    OBVIOUS
  <2>2. q \in [role : Role, status : {"ACTIVE", "INACTIVE"}, recent : BOOLEAN]
    BY <1>1, <2>1 DEF Role
  <2>3. q.status = p.status /\ q.role = "STAFF"
    BY <1>1, <2>1
  <2>4. Changed(p, c) = q
    BY <1>4, <2>1 DEF Changed
  <2>5. QED
    BY <1>2, <1>4, <2>2, <2>3, <2>4 DEF Profile
<1>5. CASE c \in {"ACTIVE", "INACTIVE"}
  <2>1. PICK q : q = [p EXCEPT !.status = c]
    OBVIOUS
  <2>2. q \in [role : Role, status : {"ACTIVE", "INACTIVE"}, recent : BOOLEAN]
    BY <1>1, <1>5, <2>1
  <2>3. q.status = c /\ q.role = p.role
    BY <1>1, <2>1
  <2>4. Changed(p, c) = q
    BY <1>5, <2>1 DEF Changed
  <2>5. QED
    BY <1>5, <2>2, <2>3, <2>4 DEF Profile
<1>6. QED
  BY <1>3, <1>4, <1>5 DEF Change

\* What an actor at a simple step is about.
LEMMA SimpleShape ==
    ASSUME TypeOK, NEW x \in Actor, act[x].pc \in Simple
    PROVE  act[x].on \in User /\ act[x].change = "none"
<1>1. act[x] \in Act
  BY DEF TypeOK
<1>2. act[x].on \in User /\ act[x] = Doing(act[x].pc, act[x].on, "none")
  BY <1>1, ActShape
<1>3. QED
  BY <1>2, DoingType

LEMMA OnFileIsUsed ==
    ASSUME IInv, NEW u \in User, OnFile(u)
    PROVE  /\ u \notin unused
           /\ ~\E y \in Actor : Creating(y) /\ act[y].on = u
BY DEF IInv, IdsAreFresh

LEMMA RecordLoginStep ==
    ASSUME IInv, NEW x \in Actor, RecordLogin(x)
    PROVE  IInv'
<1>t. TypeOK /\ BudgetStep
  BY NoSpending DEF IInv, RecordLogin
<1>1. PICK u \in User : u = act[x].on
  BY <1>t, SimpleShape DEF RecordLogin, Simple
<1>2. CASE UNCHANGED profile
  BY <1>t, <1>2, EndStep DEF RecordLogin
<1>3. CASE OnFile(u) /\ profile' = [profile EXCEPT ![u].recent = TRUE]
  <2>1. PICK q : q = [profile[u] EXCEPT !.recent = TRUE]
    OBVIOUS
  <2>2. profile[u] \in [role : Role, status : {"ACTIVE", "INACTIVE"}, recent : BOOLEAN]
    BY <1>t, <1>3, ProfileShape DEF TypeOK, OnFile
  <2>3. /\ q \in Profile /\ q.status # "none"
        /\ q.status = profile[u].status /\ q.role = profile[u].role
    BY <2>1, <2>2 DEF Profile
  <2>4. profile' = [profile EXCEPT ![u] = q]
    BY <1>3, <2>1
  <2>5. u = Root => profile[u].role = "ADMIN" /\ profile[u].status = "ACTIVE"
    BY DEF IInv, AdminRemains, Active
  <2>6. profile[u].role = "ADMIN" => u = Root
    BY DEF IInv, RootSpared
  <2>7. /\ u \notin unused
        /\ ~\E y \in Actor : y # x /\ Creating(y) /\ act[y].on = u
    BY <1>3, OnFileIsUsed
  <2>8. /\ act' = [act EXCEPT ![x] = NoAct] /\ act[x].pc = "login" /\ account' = account
        /\ UNCHANGED <<unused, cache, verify, queue>>
    BY DEF RecordLogin, Ends
  <2>9. QED
    BY <1>t, <1>1, <2>3, <2>4, <2>5, <2>6, <2>7, <2>8, NoActType, TableFrame
<1>4. QED
  BY <1>1, <1>2, <1>3 DEF RecordLogin

LEMMA WriteUserStep ==
    ASSUME IInv, NEW x \in Actor, WriteUser(x)
    PROVE  IInv'
<1>t. TypeOK /\ BudgetStep
  BY NoSpending DEF IInv, WriteUser
<1>1. act[x].on \in User /\ act[x].change \in Change
  BY <1>t, ActShape DEF WriteUser, TypeOK, Checking
<1>2. PICK u \in User : u = act[x].on
  BY <1>1
<1>3. CASE UNCHANGED profile /\ Ends(x)
  BY <1>t, <1>3, EndStep DEF WriteUser
<1>4. CASE /\ OnFile(u)
           /\ profile' = [profile EXCEPT ![u] = Changed(profile[u], act[x].change)]
           /\ Starts(x, "forget", u, "none")
  <2>1. PICK q : q = Changed(profile[u], act[x].change)
    OBVIOUS
  <2>2. profile[u] \in Profile /\ profile[u].status # "none"
    BY <1>t, <1>4 DEF TypeOK, OnFile
  <2>3. /\ q \in Profile /\ q.status # "none" /\ q.role \in {profile[u].role, "STAFF"}
        /\ act[x].change \in {"name", "ACTIVE"} /\ profile[u].status = "ACTIVE" =>
              q.status = "ACTIVE" /\ q.role = profile[u].role
    BY <1>1, <2>1, <2>2, ChangedShape
  <2>4. u = Root => q.role = "ADMIN" /\ q.status = "ACTIVE"
    BY <1>2, <2>3 DEF IInv, AdminRemains, RootSpared, Active, WriteUser
  <2>5. q.role = "ADMIN" => u = Root
    BY <2>3 DEF IInv, RootSpared
  <2>6. PICK a : a = Doing("forget", u, "none")
    OBVIOUS
  <2>7. a \in Act /\ a.pc = "forget" /\ a.on = u
    BY <2>6, DoingType DEF Simple
  <2>8. act' = [act EXCEPT ![x] = a] /\ profile' = [profile EXCEPT ![u] = q]
    BY <1>4, <2>1, <2>6 DEF Starts
  <2>9. QED
    BY <1>t, <1>2, <1>4, <2>3, <2>4, <2>5, <2>7, <2>8, OnFileIsUsed, TableFrame
       DEF WriteUser
<1>5. QED
  BY <1>2, <1>3, <1>4 DEF WriteUser

\* deleteAuthUser succeeds: account and profile are gone together.
LEMMA AccountDeleted ==
    ASSUME IInv, NEW u \in User, DeleteAuthUser(u)
    PROVE  account' = account \ {u} /\ profile' = [profile EXCEPT ![u] = NoProfile]
<1>1. account' = account \ {u}
  BY DEF DeleteAuthUser, Unaccounted
<1>2. u \notin account'
  BY <1>1
<1>3. QED
  BY <1>1, <1>2 DEF DeleteAuthUser

LEMMA NoProfileShape ==
    NoProfile \in Profile /\ NoProfile.status = "none" /\ NoProfile.role = "none"
BY DEF NoProfile, Profile

LEMMA RemoveAccountStep ==
    ASSUME IInv, NEW x \in Actor, RemoveAccount(x)
    PROVE  IInv'
<1>t. TypeOK /\ BudgetsShrink
  BY DEF IInv
<1>1. act[x].on \in User /\ act[x].change = "none"
  BY <1>t, SimpleShape DEF RemoveAccount, Simple
<1>2. PICK u \in User : u = act[x].on
  BY <1>1
<1>3. u # Root /\ u \notin unused
  BY <1>2 DEF IInv, RootSpared, IdsAreFresh, Removing, RemoveAccount
<1>4. PICK a : a = Doing("unprofile", u, "none")
  OBVIOUS
<1>5. a \in Act /\ a.pc = "unprofile" /\ a.on = u
  BY <1>4, DoingType DEF Simple
<1>6. act' = [act EXCEPT ![x] = a]
  BY <1>t, <1>1, <1>2, <1>4, GoesIsDoing DEF RemoveAccount, Simple
<1>7. CASE DeleteAuthUser(u) /\ UNCHANGED budget
  BY <1>t, <1>2, <1>3, <1>5, <1>6, <1>7, NoSpending, AccountDeleted, NoProfileShape,
     TableFrame DEF RemoveAccount
<1>8. CASE Spend("authError") /\ UNCHANGED <<account, profile>>
  <2>1. BudgetStep /\ budget'["authError"] < Budget["authError"]
    BY <1>t, <1>8, SpendStep DEF EventKind
  <2>2. Tame(x, a)
    BY <1>3, <1>5, <2>1 DEF Tame, Creating, RemoveAccount
  <2>3. QED
    BY <1>t, <1>6, <1>8, <2>1, <2>2, ActFrame DEF RemoveAccount, TypeOK
<1>9. QED
  BY <1>2, <1>7, <1>8 DEF RemoveAccount

LEMMA RemoveProfileStep ==
    ASSUME IInv, NEW x \in Actor, RemoveProfile(x)
    PROVE  IInv'
<1>t. TypeOK /\ BudgetsShrink
  BY DEF IInv
<1>1. PICK u \in User : u = act[x].on
  BY <1>t, SimpleShape DEF RemoveProfile, Simple
<1>2. u # Root /\ u \notin unused
  BY <1>1 DEF IInv, RootSpared, IdsAreFresh, Removing, RemoveProfile
<1>3. CASE /\ profile' = [profile EXCEPT ![u] = NoProfile]
           /\ act' = [act EXCEPT ![x] = AfterDelete(u)]
           /\ UNCHANGED budget
  <2>1. PICK a : a = Doing("forget", u, "none")
    OBVIOUS
  <2>2. a \in Act /\ a.pc = "forget" /\ a.on = u
    BY <2>1, DoingType DEF Simple
  <2>3. act' = [act EXCEPT ![x] = a]
    BY <1>3, <2>1 DEF AfterDelete
  <2>4. u \in account => budget'["authError"] < Budget["authError"]
    BY <1>1, <1>3 DEF IInv, AccountGoesFirst, Spent, RemoveProfile
  <2>5. BudgetStep
    BY <1>t, <1>3, NoSpending
  <2>6. QED
    BY <1>1, <1>2, <1>3, <2>2, <2>3, <2>4, <2>5, NoProfileShape, TableFrame
       DEF RemoveProfile
<1>4. CASE Spend("dbError") /\ Ends(x) /\ UNCHANGED profile
  <2>1. BudgetStep /\ budget'["dbError"] < Budget["dbError"]
    BY <1>t, <1>4, SpendStep DEF EventKind
  <2>2. Tame(x, NoAct)
    BY <2>1, NoActType DEF Tame, Creating, RemoveProfile
  <2>3. QED
    BY <1>t, <1>4, <2>1, <2>2, ActFrame DEF RemoveProfile, Ends, TypeOK
<1>5. QED
  BY <1>1, <1>3, <1>4 DEF RemoveProfile

LEMMA CreateProfileStep ==
    ASSUME IInv, NEW x \in Actor, CreateProfile(x)
    PROVE  IInv'
<1>t. TypeOK /\ BudgetsShrink
  BY DEF IInv
<1>1. act[x].on \in User /\ act[x].change = "none"
  BY <1>t, SimpleShape DEF CreateProfile, Simple
<1>2. PICK u \in User : u = act[x].on
  BY <1>1
<1>3. u # Root /\ u \notin unused /\ ~OnFile(u)
  BY <1>2 DEF IInv, RootSpared, IdsAreFresh, Creating, CreateProfile
<1>4. PICK q : q = [role |-> "STAFF", status |-> "ACTIVE", recent |-> TRUE]
  OBVIOUS
<1>5. CASE profile' = [profile EXCEPT ![u] = q] /\ Ends(x) /\ UNCHANGED budget
  <2>1. q \in Profile /\ q.status = "ACTIVE" /\ q.role = "STAFF"
    BY <1>4 DEF Profile, Role
  <2>2. ~\E y \in Actor : y # x /\ Creating(y) /\ act[y].on = u
    BY <1>2 DEF IInv, IdsAreFresh, Creating, CreateProfile
  <2>3. ~Active(u)
    BY <1>3 DEF OnFile, Active
  <2>4. BudgetStep
    BY <1>t, <1>5, NoSpending
  <2>5. QED
    BY <1>2, <1>3, <1>5, <2>1, <2>2, <2>3, <2>4, NoActType, TableFrame
       DEF CreateProfile, Ends
<1>6. CASE Spend("dbError") /\ Goes(x, "undo") /\ UNCHANGED profile
  <2>1. PICK a : a = Doing("undo", u, "none")
    OBVIOUS
  <2>2. a \in Act /\ a.pc = "undo" /\ a.on = u
    BY <2>1, DoingType DEF Simple
  <2>3. act' = [act EXCEPT ![x] = a]
    BY <1>t, <1>1, <1>2, <1>6, <2>1, GoesIsDoing DEF CreateProfile, Simple
  <2>4. BudgetStep
    BY <1>t, <1>6, SpendStep DEF EventKind
  <2>5. Tame(x, a)
    BY <1>2, <2>2 DEF Tame, Creating, CreateProfile
  <2>6. QED
    BY <1>t, <1>6, <2>3, <2>4, <2>5, ActFrame DEF CreateProfile, TypeOK
<1>7. QED
  BY <1>2, <1>4, <1>5, <1>6 DEF CreateProfile

LEMMA UndoAccountStep ==
    ASSUME IInv, NEW x \in Actor, UndoAccount(x)
    PROVE  IInv'
<1>t. TypeOK /\ BudgetsShrink
  BY DEF IInv
<1>1. PICK u \in User : u = act[x].on
  BY <1>t, SimpleShape DEF UndoAccount, Simple
<1>2. u # Root /\ u \notin unused /\ ~OnFile(u)
  BY <1>1 DEF IInv, RootSpared, IdsAreFresh, Creating, UndoAccount
<1>3. CASE DeleteAuthUser(u) /\ UNCHANGED budget
  <2>1. ~Active(u)
    BY <1>2 DEF OnFile, Active
  <2>2. account' = account \ {u} /\ profile' = [profile EXCEPT ![u] = NoProfile]
    BY <1>3, AccountDeleted
  <2>3. BudgetStep
    BY <1>t, <1>3, NoSpending
  <2>4. QED
    BY <1>1, <1>2, <2>1, <2>2, <2>3, NoProfileShape, NoActType, TableFrame
       DEF UndoAccount, Ends
<1>4. CASE Spend("authError") /\ UNCHANGED <<account, profile>>
  <2>1. BudgetStep /\ budget'["authError"] < Budget["authError"]
    BY <1>t, <1>4, SpendStep DEF EventKind
  <2>2. Tame(x, NoAct)
    BY <2>1, NoActType DEF Tame, Creating, UndoAccount
  <2>3. QED
    BY <1>t, <1>4, <2>1, <2>2, ActFrame DEF UndoAccount, Ends, TypeOK
<1>5. QED
  BY <1>1, <1>3, <1>4 DEF UndoAccount

LEMMA BecomesInactiveStep ==
    ASSUME IInv, NEW u \in User, BecomesInactive(u)
    PROVE  IInv'
<1>t. TypeOK /\ BudgetsShrink
  BY DEF IInv
<1>b. BudgetStep
  BY <1>t, SpendStep DEF BecomesInactive, EventKind
<1>1. PICK q : q = [profile[u] EXCEPT !.recent = FALSE]
  OBVIOUS
<1>2. profile[u] \in [role : Role, status : {"ACTIVE", "INACTIVE"}, recent : BOOLEAN]
  BY <1>t, ProfileShape DEF BecomesInactive, TypeOK, OnFile
<1>3. /\ q \in Profile
      /\ q.status = profile[u].status /\ q.role = profile[u].role
  BY <1>1, <1>2 DEF Profile
<1>4. profile' = [profile EXCEPT ![u] = q]
  BY <1>1 DEF BecomesInactive
<1>5. /\ profile' \in [User -> Profile]
      /\ \A v \in User : profile'[v].status = profile[v].status
                         /\ profile'[v].role = profile[v].role
  BY <1>t, <1>3, <1>4 DEF TypeOK
<1>6. TypeOK'
  BY <1>t, <1>b, <1>5 DEF TypeOK, BecomesInactive, BudgetStep
<1>7. BudgetsShrink' /\ \A k \in EventKind : Spent(k) => budget'[k] < Budget[k]
  BY <1>t, <1>b, BudgetKeeps
<1>8. AdminRemains' /\ RootSpared'
  BY <1>5, AccessAssumption
     DEF IInv, AdminRemains, RootSpared, Active, Creating, Removing, BecomesInactive
<1>9. \A v \in User : OnFile(v)' <=> OnFile(v)
  BY <1>5 DEF OnFile
<1>10. IdsAreFresh'
  <2>1. \A x \in Actor : Creating(x) => act[x].on \in User
    BY <1>t, SimpleShape DEF Creating, Simple
  <2>2. (\A x \in Actor : Creating(x) => ~OnFile(act[x].on))'
    BY <1>9, <2>1 DEF IInv, IdsAreFresh, Creating, BecomesInactive
  <2>3. (\A v \in unused : v \notin account /\ ~OnFile(v))'
    BY <1>t, <1>9 DEF IInv, IdsAreFresh, TypeOK, BecomesInactive
  <2>4. QED
    BY <2>2, <2>3 DEF IInv, IdsAreFresh, Creating, Removing, BecomesInactive
<1>11. AccountGoesFirst'
  BY <1>7 DEF IInv, AccountGoesFirst, Spent, EventKind, BecomesInactive
<1>12. OrphansComeFromFailures'
  BY <1>t, <1>7, <1>9
     DEF IInv, OrphansComeFromFailures, TypeOK, Spent, EventKind, BecomesInactive
<1>13. \A v \in User : BeingChanged(v) => BeingChanged(v)'
  BY DEF BeingChanged, BecomesInactive
<1>14. ReadsAreTracked' /\ StaleOnlyIfOverlapped'
  BY <1>b, <1>5, <1>13, CacheFrame DEF BecomesInactive
<1>15. QED
  BY <1>6, <1>7, <1>8, <1>10, <1>11, <1>12, <1>14 DEF IInv

\* Afterwards nothing of the user is cached, and what was read is marked.
LEMMA ForgetStep ==
    ASSUME IInv, NEW x \in Actor, Forget(x)
    PROVE  IInv'
<1>t. TypeOK /\ BudgetStep /\ BudgetsShrink
  BY NoSpending DEF IInv, Forget
<1>1. PICK u : u = act[x].on
  OBVIOUS
<1>2. act'[x] = NoAct /\ \A y \in Actor : y # x => act'[y] = act[y]
  BY <1>t DEF Forget, Ends, TypeOK
<1>3. \A t \in Token : cache'[t] = IF OwnerOf[t] = u THEN NoEntry ELSE cache[t]
  BY <1>1 DEF Forget
<1>4. \A t \in Token :
        verify'[t] = IF OwnerOf[t] = u /\ verify[t].pc = "read"
                       THEN [verify[t] EXCEPT !.missed = TRUE] ELSE verify[t]
  BY <1>1 DEF Forget
<1>5. \A t \in Token : OwnerOf[t] = u /\ verify[t].pc = "read" =>
            verify'[t] \in Verification /\ verify'[t].missed
  <2> TAKE t \in Token
  <2> HAVE OwnerOf[t] = u /\ verify[t].pc = "read"
  <2>1. PICK v : v = [verify[t] EXCEPT !.missed = TRUE]
    OBVIOUS
  <2>2. verify[t] \in [pc : {"read"}, role : Role, missed : BOOLEAN]
    BY <1>t, VerificationShape DEF TypeOK
  <2>3. v \in [pc : {"read"}, role : Role, missed : BOOLEAN] /\ v.missed
    BY <2>1, <2>2
  <2>4. QED
    BY <1>4, <2>1, <2>3 DEF Verification
<1>6. TypeOK'
  <2>1. cache' \in [Token -> Entry]
    BY <1>t, <1>3 DEF Forget, TypeOK, Entry
  <2>2. \A t \in Token : verify'[t] \in Verification
    BY <1>t, <1>4, <1>5 DEF TypeOK
  <2>3. verify' \in [Token -> Verification]
    BY <2>2 DEF Forget
  <2>4. act' \in [Actor -> Act]
    BY <1>t, NoActType DEF Forget, Ends, TypeOK
  <2>5. QED
    BY <1>t, <2>1, <2>3, <2>4 DEF Forget, TypeOK
<1>7. BudgetsShrink' /\ AdminRemains'
  BY <1>t DEF IInv, Forget, BudgetsShrink, AdminRemains, Active
<1>8. \A y \in Actor : act'[y] = act[y] \/ (act'[y].pc = "idle" /\ act[y].pc = "forget")
  BY <1>2, NoActType DEF Forget
<1>9. RootSpared'
  BY <1>8 DEF IInv, Forget, RootSpared, Creating, Removing
<1>10. IdsAreFresh'
  BY <1>8 DEF IInv, Forget, IdsAreFresh, Creating, Removing, OnFile
<1>11. AccountGoesFirst'
  BY <1>8 DEF IInv, Forget, AccountGoesFirst, Spent
<1>12. OrphansComeFromFailures'
  BY <1>8 DEF IInv, Forget, OrphansComeFromFailures, OnFile, Spent
<1>13. \A v : v # u /\ BeingChanged(v) => BeingChanged(v)'
  BY <1>1, <1>2 DEF BeingChanged
<1>14. UNCHANGED <<profile, budget>>
  BY DEF Forget
<1>15. ReadsAreTracked'
  <2> SUFFICES ASSUME NEW t \in Token, verify'[t].pc = "read",
                      Misfits(OwnerOf[t], verify[t].role)'
               PROVE  BeingChanged(OwnerOf[t])' \/ verify'[t].missed \/ Spent("dbError")'
    BY DEF ReadsAreTracked
  <2>1. CASE OwnerOf[t] = u /\ verify[t].pc = "read"
    BY <1>5, <2>1
  <2>2. CASE ~(OwnerOf[t] = u /\ verify[t].pc = "read")
    <3>1. verify'[t] = verify[t]
      BY <1>4, <2>2
    <3>2. OwnerOf[t] # u /\ verify[t].pc = "read"
      BY <2>2, <3>1
    <3>3. QED
      BY <1>13, <1>14, <3>1, <3>2 DEF IInv, ReadsAreTracked, Misfits, Active, Spent
  <2>3. QED
    BY <2>1, <2>2
<1>16. StaleOnlyIfOverlapped'
  <2> SUFFICES ASSUME NEW t \in Token, Outdated(t)'
               PROVE  BeingChanged(OwnerOf[t])' \/ cache'[t].missed \/ Spent("dbError")'
    BY DEF StaleOnlyIfOverlapped
  <2>1. OwnerOf[t] # u
    BY <1>3 DEF Outdated, Live, NoEntry
  <2>2. QED
    BY <1>3, <1>13, <1>14, <2>1
       DEF IInv, StaleOnlyIfOverlapped, Outdated, Live, Active, Spent
<1>17. QED
  BY <1>6, <1>7, <1>9, <1>10, <1>11, <1>12, <1>15, <1>16 DEF IInv

LEMMA CreateAccountStep ==
    ASSUME IInv, NEW x \in Actor, CreateAccount(x)
    PROVE  IInv'
<1>t. TypeOK /\ BudgetsShrink
  BY DEF IInv
<1>b. BudgetStep
  BY <1>t, NoSpending, SpendStep DEF CreateAccount, EventKind
<1>1. act[x].on \in User /\ act[x].change = "none"
  BY <1>t, SimpleShape DEF CreateAccount, Simple
<1>2. PICK u \in User : u = act[x].on
  BY <1>1
<1>3. CASE Ends(x) /\ UNCHANGED <<account, unused>>
  BY <1>b, <1>3, EndStep DEF CreateAccount
<1>4. CASE /\ u \in unused /\ account' = account \cup {u} /\ unused' = unused \ {u}
           /\ Goes(x, "profile") /\ UNCHANGED budget
  <2>1. PICK a : a = Doing("profile", u, "none")
    OBVIOUS
  <2>2. a \in Act /\ a.pc = "profile" /\ a.on = u
    BY <2>1, DoingType DEF Simple
  <2>3. act' = [act EXCEPT ![x] = a]
    BY <1>t, <1>1, <1>2, <1>4, <2>1, GoesIsDoing DEF CreateAccount, Simple
  <2>4. act'[x] = a /\ \A y \in Actor : y # x => act'[y] = act[y]
    BY <1>t, <2>3 DEF TypeOK
  <2>5. act[x].pc = "account" /\ UNCHANGED <<profile, cache, verify, queue>>
    BY DEF CreateAccount
  <2>6. TypeOK'
    <3>1. act' \in [Actor -> Act]
      BY <1>t, <2>2, <2>3 DEF TypeOK
    <3>2. QED
      BY <1>t, <1>b, <1>4, <2>5, <3>1 DEF TypeOK, BudgetStep
  <2>7. u # Root /\ ~OnFile(u) /\ \A y \in Actor : Removing(y) \/ Creating(y) => act[y].on # u
    BY <1>4 DEF IInv, AdminRemains, IdsAreFresh
  <2>8. BudgetsShrink' /\ \A k \in EventKind : Spent(k) => budget'[k] < Budget[k]
    BY <1>t, <1>b, BudgetKeeps
  <2>9. AdminRemains'
    BY <1>4, <2>5 DEF IInv, AdminRemains, Active
  <2>10. RootSpared'
    BY <2>2, <2>4, <2>5, <2>7 DEF IInv, RootSpared, Creating, Removing
  <2>11. IdsAreFresh'
    <3>1. (\A v \in unused : v \notin account /\ ~OnFile(v))'
      BY <1>4, <2>5 DEF IInv, IdsAreFresh, OnFile
    <3>2. (\A y \in Actor : Removing(y) \/ Creating(y) => act[y].on \notin unused)'
      BY <1>4, <2>2, <2>4 DEF IInv, IdsAreFresh, Creating, Removing
    <3>3. (\A y \in Actor : Creating(y) => ~OnFile(act[y].on))'
      BY <2>2, <2>4, <2>5, <2>7 DEF IInv, IdsAreFresh, Creating, OnFile
    <3>4. (\A y, z \in Actor :
             Creating(y) /\ Creating(z) /\ act[y].on = act[z].on => y = z)'
      BY <2>2, <2>4, <2>7 DEF IInv, IdsAreFresh, Creating
    <3>5. QED
      BY <3>1, <3>2, <3>3, <3>4 DEF IdsAreFresh
  <2>12. AccountGoesFirst'
    BY <1>4, <2>2, <2>4, <2>7, <2>8
       DEF IInv, AccountGoesFirst, Removing, Spent, EventKind
  <2>13. OrphansComeFromFailures'
    BY <1>4, <2>2, <2>4, <2>5, <2>8
       DEF IInv, OrphansComeFromFailures, OnFile, Spent, EventKind
  <2>14. \A v \in User : BeingChanged(v) => BeingChanged(v)'
    BY <2>4, <2>5 DEF BeingChanged
  <2>15. ReadsAreTracked' /\ StaleOnlyIfOverlapped'
    BY <1>b, <2>5, <2>14, CacheFrame
  <2>16. QED
    BY <2>6, <2>8, <2>9, <2>10, <2>11, <2>12, <2>13, <2>15 DEF IInv
<1>5. QED
  BY <1>2, <1>3, <1>4 DEF CreateAccount

LEMMA CrashStep == ASSUME IInv, Crash PROVE IInv'
<1>t. TypeOK /\ BudgetsShrink
  BY DEF IInv
<1>b. BudgetStep /\ budget'["crash"] < Budget["crash"]
  BY <1>t, SpendStep DEF Crash, EventKind
<1>1. \A x \in Actor : act'[x] = NoAct /\ act'[x].pc = "idle"
  BY NoActType DEF Crash
<1>2. \A t \in Token : ~Live(t)' /\ verify'[t].pc = "idle"
  BY DEF Crash, NoEntry, NoVerification, Live
<1>3. TypeOK'
  <2>1. act' \in [Actor -> Act]
    BY NoActType DEF Crash
  <2>2. cache' \in [Token -> Entry] /\ verify' \in [Token -> Verification]
    BY DEF Crash, Entry, Verification
  <2>3. QED
    BY <1>t, <1>b, <2>1, <2>2 DEF TypeOK, Crash, BudgetStep
<1>4. BudgetsShrink'
  BY <1>t, <1>b, BudgetKeeps
<1>5. AdminRemains'
  BY DEF IInv, AdminRemains, Active, Crash
<1>6. RootSpared' /\ AccountGoesFirst'
  BY <1>1 DEF IInv, RootSpared, AccountGoesFirst, Creating, Removing, Crash
<1>7. IdsAreFresh'
  BY <1>1 DEF IInv, IdsAreFresh, Creating, Removing, OnFile, Crash
<1>8. ReadsAreTracked' /\ StaleOnlyIfOverlapped'
  BY <1>2 DEF ReadsAreTracked, StaleOnlyIfOverlapped, Outdated
<1>9. OrphansComeFromFailures'
  BY <1>b DEF OrphansComeFromFailures, Spent
<1>10. QED
  BY <1>3, <1>4, <1>5, <1>6, <1>7, <1>8, <1>9 DEF IInv

LEMMA StutterStep == ASSUME IInv, UNCHANGED vars PROVE IInv'
<1>t. TypeOK /\ BudgetStep
  BY NoSpending DEF IInv, vars
<1>1. TypeOK'
  BY <1>t DEF vars, TypeOK
<1>2. \A x \in Actor : act'[x] = act[x]
  BY DEF vars
<1>3. /\ BudgetsShrink' /\ AdminRemains' /\ RootSpared' /\ IdsAreFresh'
      /\ AccountGoesFirst' /\ OrphansComeFromFailures'
      /\ \A u : BeingChanged(u) => BeingChanged(u)'
  BY <1>t, <1>1, <1>2, GuardFrame DEF vars
<1>4. ReadsAreTracked' /\ StaleOnlyIfOverlapped'
  BY <1>t, <1>3, CacheFrame DEF vars
<1>5. QED
  BY <1>1, <1>3, <1>4 DEF IInv

-----------------------------------------------------------------------------
(* The invariant is inductive *)

LEMMA ActStepKeeps == ASSUME IInv, NEW x \in Actor, ActStep(x) PROVE IInv'
BY RecordLoginStep, FindOneStep, CountAdminsStep, WriteUserStep, ForgetStep,
   FindRemovableStep, RemoveAccountStep, RemoveProfileStep, CheckEmailStep,
   CreateAccountStep, CreateProfileStep, UndoAccountStep
   DEF ActStep, Update, Remove, Create

LEMMA NextIInv == IInv /\ [Next]_vars => IInv'
<1> SUFFICES ASSUME IInv, [Next]_vars PROVE IInv'
  OBVIOUS
<1>1. CASE Tick
  BY <1>1, TickStep
<1>2. ASSUME NEW t \in Token, VerifyStep(t) PROVE IInv'
  BY <1>2, ReadRowStep, SettleStep DEF VerifyStep
<1>3. ASSUME NEW r \in Request, NEW t \in Token, Hit(r, t) \/ Miss(r, t) PROVE IInv'
  BY <1>3, HitStep, MissStep
<1>4. ASSUME NEW r \in Request, Begin(r) PROVE IInv'
  BY <1>4, BeginStep
<1>5. ASSUME NEW x \in Actor, ActStep(x) \/ QueryFails(x) PROVE IInv'
  BY <1>5, ActStepKeeps, QueryFailsStep
<1>6. CASE StartSweep \/ SweepNext
  BY <1>6, SweepStep
<1>7. ASSUME NEW u \in User, BecomesInactive(u) PROVE IInv'
  BY <1>7, BecomesInactiveStep
<1>8. CASE Crash
  BY <1>8, CrashStep
<1>9. CASE UNCHANGED vars
  BY <1>9, StutterStep
<1>10. QED
  BY <1>1, <1>2, <1>3, <1>4, <1>5, <1>6, <1>7, <1>8, <1>9 DEF Next

LEMMA AlwaysIInv == Spec => []IInv
BY InitIInv, NextIInv, PTL DEF Spec

-----------------------------------------------------------------------------
(* Theorems *)

\* Type correctness.
THEOREM TypeCorrect == Spec => []TypeOK
<1>1. IInv => TypeOK
  BY DEF IInv
<1>2. QED
  BY <1>1, AlwaysIInv, PTL

\* The Admin can be neither demoted, deactivated nor deleted, whatever was
\* checked when.
THEOREM TheAdminRemains == Spec => []AdminRemains
<1>1. IInv => AdminRemains
  BY DEF IInv
<1>2. QED
  BY <1>1, AlwaysIInv, PTL

\* The cache is wrong about a user only while the change is under way, after a
\* verification that overlapped it, or after a database error.
THEOREM CacheIsCoherent == Spec => []StaleOnlyIfOverlapped
<1>1. IInv => StaleOnlyIfOverlapped
  BY DEF IInv
<1>2. QED
  BY <1>1, AlwaysIInv, PTL

\* Account and profile come apart through failures and restarts only.
THEOREM NoOrphansWithoutFailure == Spec => []OrphansComeFromFailures
<1>1. IInv => OrphansComeFromFailures
  BY DEF IInv
<1>2. QED
  BY <1>1, AlwaysIInv, PTL

=============================================================================
