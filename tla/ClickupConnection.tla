-------------------------- MODULE ClickupConnection --------------------------
(***************************************************************************)
(* The stored ClickUp connection: the token taken from the environment on  *)
(* boot, the OAuth callback, the dashboard's reconnect and setup, the      *)
(* calls that use a stored token, and the downgrade to RECONNECT_REQUIRED  *)
(* when ClickUp refuses it.                                                *)
(*                                                                         *)
(* A handler keeps what it read before an await in call, req or boot until *)
(* it uses it.  A revoked token is never accepted again.  Whether an OAuth *)
(* state is genuine and fresh is left out: a callback that fails that test *)
(* changes nothing.                                                        *)
(***************************************************************************)
EXTENDS Naturals

CONSTANTS
    Workspace,      \* ClickUp workspaces
    NoWorkspace,    \* no workspace
    Token,          \* access tokens
    NoToken,        \* CLICKUP_API_TOKEN is not set
    TeamsOf,        \* the workspaces each token is authorized for
    Pinned,         \* CLICKUP_WORKSPACE_ID, or NoWorkspace
    InitialToken,   \* CLICKUP_API_TOKEN of the first boot, or NoToken
    Call,           \* ClickUp calls in flight at once
    Admin,          \* dashboard requests in flight at once
    Budget          \* bound: how often each EventKind may happen

\* What happens at most Budget[k] times.
EventKind == {"failure", "crash", "revoke", "edit", "reconnect", "callback", "setup"}

ASSUME ConnectionAssumption ==
    /\ NoWorkspace \notin Workspace
    /\ NoToken \notin Token
    /\ TeamsOf \in [Token -> SUBSET Workspace]
    /\ Pinned \in Workspace \cup {NoWorkspace}
    /\ InitialToken \in Token \cup {NoToken}
    /\ Budget \in [EventKind -> Nat]

VARIABLES
    row,       \* clickup_connections, by workspaceId
    upserts,   \* how many upserts there were: the clock of connectedAt
    variable,  \* CLICKUP_API_TOKEN as Railway will give it to the next process
    process,   \* what the server process is doing
    boot,      \* the token a booting process was given, and its workspace
    call,      \* ClickUp calls in flight: what getReadyConnection gave them
    req,       \* dashboard requests in flight
    revoked,   \* the tokens ClickUp refuses
    budget     \* what may still happen

vars == <<row, upserts, variable, process, boot, call, req, revoked, budget>>

NoRow == [status |-> "none", token |-> NoToken, at |-> 0, configured |-> FALSE]
NoCall == [pc |-> "idle", token |-> NoToken, ws |-> NoWorkspace]
NoBoot == [token |-> NoToken, ws |-> NoWorkspace]

Row == {NoRow} \cup
    [status : {"CONNECTED", "RECONNECT_REQUIRED"}, token : Token, at : Nat,
     configured : BOOLEAN]
CallState == {NoCall} \cup [pc : {"asked", "refused"}, token : Token, ws : Workspace]
Request == {NoCall} \cup [pc : {"teams"}, token : Token, ws : {NoWorkspace}] \cup
    [pc : {"store", "sync", "callback", "fields", "configure"}, token : Token,
     ws : Workspace]
Boot == [token : Token \cup {NoToken}, ws : Workspace \cup {NoWorkspace}]

TypeOK ==
    /\ row \in [Workspace -> Row]
    /\ upserts \in Nat
    /\ variable \in Token \cup {NoToken}
    /\ process \in {"down", "validate", "store", "up"}
    /\ boot \in Boot
    /\ call \in [Call -> CallState]
    /\ req \in [Admin -> Request]
    /\ revoked \in SUBSET Token
    /\ budget \in [EventKind -> Nat]

Init ==
    /\ row = [w \in Workspace |-> NoRow]
    /\ upserts = 0
    /\ variable = InitialToken
    /\ process = "down"
    /\ boot = NoBoot
    /\ call = [c \in Call |-> NoCall]
    /\ req = [a \in Admin |-> NoCall]
    /\ revoked = {}
    /\ budget = Budget

-----------------------------------------------------------------------------
(* Helpers *)

Spend(kind) ==
    /\ budget[kind] > 0
    /\ budget' = [budget EXCEPT ![kind] = @ - 1]

OnFile(w) == row[w].status # "none"
Connected(w) == row[w].status = "CONNECTED"

\* findFirst of the rows S, orderBy connectedAt desc.
IsNewestOf(w, S) == w \in S /\ \A v \in S : row[v].at <= row[w].at

\* getAnyConnection, and getLatestConnectionRecord with any status.
IsCurrent(w) == IsNewestOf(w, {v \in Workspace : Connected(v)})
IsLatest(w) == IsNewestOf(w, {v \in Workspace : OnFile(v)})

\* Mutant: a missing connection is not noticed.
IsReady_Unchecked(w) == OnFile(w) => IsCurrent(w) /\ row[w].configured

\* getReadyConnection: the current connection, if its lists are configured.
IsReady(w) == IsCurrent(w) /\ row[w].configured

\* The list configuration of a row there was is kept.
UpsertConnection(w, t) ==
    /\ row' = [row EXCEPT ![w] = [status |-> "CONNECTED", token |-> t,
                                  at |-> upserts + 1, configured |-> @.configured]]
    /\ upserts' = upserts + 1

Accepted(t) == t \in Token \ revoked

-----------------------------------------------------------------------------
(* Boot: onModuleInit, before any request or cron is served *)

BootStart ==
    /\ process = "down"
    /\ boot' = [token |-> variable, ws |-> NoWorkspace]
    /\ process' = IF variable = NoToken THEN "up" ELSE "validate"
    /\ UNCHANGED <<row, upserts, variable, call, req, revoked, budget>>

\* Mutant: a pinned workspace is taken without looking for it among the teams.
MayBootInto_Blindly(w) == IF Pinned # NoWorkspace THEN w = Pinned ELSE w \in TeamsOf[boot.token]

\* teams[0] without a pinned workspace: whichever ClickUp lists first.
MayBootInto(w) == w \in TeamsOf[boot.token] /\ Pinned \in {NoWorkspace, w}

BootValidated ==
    /\ process = "validate"
    /\ Accepted(boot.token)
    /\ \E w \in Workspace : MayBootInto(w) /\ boot' = [boot EXCEPT !.ws = w]
    /\ process' = "store"
    /\ UNCHANGED <<row, upserts, variable, call, req, revoked, budget>>

\* The token is refused, no team fits, ClickUp does not answer or the upsert
\* fails: only a warning is logged.
BootGivesUp ==
    /\ \/ /\ process = "validate"
          /\ ~Accepted(boot.token) \/ ~\E w \in Workspace : MayBootInto(w)
          /\ UNCHANGED budget
       \/ /\ process \in {"validate", "store"}
          /\ Spend("failure")
    /\ process' = "up"
    /\ UNCHANGED <<row, upserts, variable, boot, call, req, revoked>>

BootStore ==
    /\ process = "store"
    /\ UpsertConnection(boot.ws, boot.token)
    /\ process' = "up"
    /\ UNCHANGED <<variable, boot, call, req, revoked, budget>>

-----------------------------------------------------------------------------
(* ClickUp calls: getReadyConnection, then runClickupCall *)

StartCall(c) ==
    /\ process = "up"
    /\ call[c].pc = "idle"
    /\ \E w \in Workspace :
          /\ IsReady(w)
          /\ call' = [call EXCEPT ![c] = [pc |-> "asked", token |-> row[w].token, ws |-> w]]
    /\ UNCHANGED <<row, upserts, variable, process, boot, req, revoked, budget>>

\* The last answer.  createTicket asks more than once with one token: it
\* stays at "asked" in between.
CallAnswered(c) ==
    /\ call[c].pc = "asked"
    /\ Accepted(call[c].token)
    /\ call' = [call EXCEPT ![c] = NoCall]
    /\ UNCHANGED <<row, upserts, variable, process, boot, req, revoked, budget>>

\* Mutants: a call is taken for refused whatever went wrong, or never.
IsAuthError_Any(c) == TRUE
IsAuthError_Never(c) == FALSE

\* ClickupAuthError: ClickUp answers 401 or OAUTH_025.
IsAuthError(c) == ~Accepted(call[c].token)

CallRefused(c) ==
    /\ call[c].pc = "asked"
    /\ IsAuthError(c)
    /\ call' = [call EXCEPT ![c].pc = "refused"]
    /\ UNCHANGED <<row, upserts, variable, process, boot, req, revoked, budget>>

\* A timeout or any other error.
CallFails(c) ==
    /\ call[c].pc = "asked"
    /\ Spend("failure")
    /\ call' = [call EXCEPT ![c] = NoCall]
    /\ UNCHANGED <<row, upserts, variable, process, boot, req, revoked>>

\* updateMany WHERE workspaceId AND status = CONNECTED, then the error goes on.
MarkReconnectRequired(c) ==
    LET w == call[c].ws IN
    /\ call[c].pc = "refused"
    /\ row' = IF Connected(w) THEN [row EXCEPT ![w].status = "RECONNECT_REQUIRED"] ELSE row
    /\ call' = [call EXCEPT ![c] = NoCall]
    /\ UNCHANGED <<upserts, variable, process, boot, req, revoked, budget>>

-----------------------------------------------------------------------------
(* The dashboard: reconnectToken, the OAuth callback, setup *)

\* ClickUp accepts the pasted token; a refused one ends the request.
PasteToken(a, t) ==
    /\ process = "up"
    /\ req[a].pc = "idle"
    /\ Spend("reconnect")
    /\ Accepted(t)
    /\ TeamsOf[t] # {}
    /\ req' = [req EXCEPT ![a] = [pc |-> "teams", token |-> t, ws |-> NoWorkspace]]
    /\ UNCHANGED <<row, upserts, variable, process, boot, call, revoked>>

\* The workspace on file is kept, with a token for another the request ends;
\* with nothing on file it is whichever ClickUp lists first.
FindWorkspace(a) ==
    /\ req[a].pc = "teams"
    /\ \/ \E w \in TeamsOf[req[a].token] :
             /\ \A v \in Workspace : IsLatest(v) => w = v
             /\ req' = [req EXCEPT ![a].pc = "store", ![a].ws = w]
       \/ /\ \E v \in Workspace : IsLatest(v) /\ v \notin TeamsOf[req[a].token]
          /\ req' = [req EXCEPT ![a] = NoCall]
    /\ UNCHANGED <<row, upserts, variable, process, boot, call, revoked, budget>>

\* The code and the teams of its token have come back to the OAuth callback.
Callback(a, t) ==
    /\ process = "up"
    /\ req[a].pc = "idle"
    /\ Spend("callback")
    /\ Accepted(t)
    /\ \E w \in TeamsOf[t] :
          req' = [req EXCEPT ![a] = [pc |-> "callback", token |-> t, ws |-> w]]
    /\ UNCHANGED <<row, upserts, variable, process, boot, call, revoked>>

StoreToken(a) ==
    /\ req[a].pc \in {"store", "callback"}
    /\ UpsertConnection(req[a].ws, req[a].token)
    /\ req' = [req EXCEPT ![a] = IF @.pc = "store" THEN [@ EXCEPT !.pc = "sync"] ELSE NoCall]
    /\ UNCHANGED <<variable, process, boot, call, revoked, budget>>

\* Best effort: whatever happens, the request succeeds.
SyncRailway(a) ==
    /\ req[a].pc = "sync"
    /\ \/ variable' = req[a].token /\ UNCHANGED budget
       \/ Spend("failure") /\ UNCHANGED variable
    /\ req' = [req EXCEPT ![a] = NoCall]
    /\ UNCHANGED <<row, upserts, process, boot, call, revoked>>

StartSetup(a) ==
    /\ process = "up"
    /\ req[a].pc = "idle"
    /\ Spend("setup")
    /\ \E w \in Workspace :
          /\ IsCurrent(w)
          /\ req' = [req EXCEPT ![a] = [pc |-> "fields", token |-> row[w].token, ws |-> w]]
    /\ UNCHANGED <<row, upserts, variable, process, boot, call, revoked>>

\* Both lists have the fields; or one lacks them, or ClickUp refuses: setup
\* does not go through runClickupCall and downgrades nothing.
FieldsFound(a) ==
    /\ req[a].pc = "fields"
    /\ \/ Accepted(req[a].token) /\ req' = [req EXCEPT ![a].pc = "configure"]
       \/ req' = [req EXCEPT ![a] = NoCall]
    /\ UNCHANGED <<row, upserts, variable, process, boot, call, revoked, budget>>

SetListConfig(a) ==
    /\ req[a].pc = "configure"
    /\ row' = [row EXCEPT ![req[a].ws].configured = TRUE]
    /\ req' = [req EXCEPT ![a] = NoCall]
    /\ UNCHANGED <<upserts, variable, process, boot, call, revoked, budget>>

-----------------------------------------------------------------------------
(* The environment *)

\* The process dies; Railway starts another.
Crash ==
    /\ process # "down"
    /\ Spend("crash")
    /\ process' = "down"
    /\ boot' = NoBoot
    /\ call' = [c \in Call |-> NoCall]
    /\ req' = [a \in Admin |-> NoCall]
    /\ UNCHANGED <<row, upserts, variable, revoked>>

\* Somebody regenerates or revokes a token in ClickUp.
Revoke(t) ==
    /\ Accepted(t)
    /\ Spend("revoke")
    /\ revoked' = revoked \cup {t}
    /\ UNCHANGED <<row, upserts, variable, process, boot, call, req>>

\* Somebody edits CLICKUP_API_TOKEN; the running process keeps its own.
EditVariable(t) ==
    /\ Spend("edit")
    /\ variable' = t
    /\ UNCHANGED <<row, upserts, process, boot, call, req, revoked>>

CallStep(c) == CallAnswered(c) \/ CallRefused(c) \/ MarkReconnectRequired(c)
RequestStep(a) ==
    FindWorkspace(a) \/ StoreToken(a) \/ SyncRailway(a) \/ FieldsFound(a) \/ SetListConfig(a)
BootStep == BootStart \/ BootValidated \/ BootGivesUp \/ BootStore

Next ==
    \/ BootStep
    \/ \E c \in Call : StartCall(c) \/ CallStep(c) \/ CallFails(c)
    \/ \E a \in Admin : RequestStep(a) \/ StartSetup(a)
    \/ \E a \in Admin, t \in Token : PasteToken(a, t) \/ Callback(a, t)
    \/ \E t \in Token : Revoke(t) \/ EditVariable(t)
    \/ Crash

Spec == Init /\ [][Next]_vars

\* The process comes up again, handlers go on, and there is always another call
\* to make: feedback arrives, and the crons ask ClickUp for tickets.
Fairness ==
    /\ WF_vars(BootStep)
    /\ \A c \in Call : WF_vars(StartCall(c)) /\ WF_vars(CallStep(c))
    /\ \A a \in Admin : WF_vars(RequestStep(a))

FairSpec == Spec /\ Fairness

-----------------------------------------------------------------------------
(* Properties *)

\* The token stored for a workspace is authorized for it, whoever stored it,
\* at boot or from the dashboard, and whatever came between the check and the
\* upsert; so is the token every call carries.
TokenFitsWorkspace ==
    /\ \A w \in Workspace : OnFile(w) => w \in TeamsOf[row[w].token]
    /\ \A c \in Call : call[c].pc # "idle" => call[c].ws \in TeamsOf[call[c].token]

\* No false alarm: a connection is marked only when ClickUp refused a token in
\* a call for that same workspace; a timeout never marks one.
MarkedOnlyAfterRefusal ==
    [][\A w \in Workspace :
          (Connected(w) /\ row'[w].status = "RECONNECT_REQUIRED") =>
              \E c \in Call : call[c].ws = w /\ call[c].token \in revoked]_vars

\* A revoked token in use does not go unnoticed ("the gap that let the last
\* outage run silently"): the connection is marked or gets another token.
RevocationSurfaces ==
    \A w \in Workspace : (IsReady(w) /\ row[w].token \in revoked) ~>
                            ~(IsReady(w) /\ row[w].token \in revoked)

\* clickup-connection.service.ts: the guard on CONNECTED avoids downgrading a
\* connection that was reconnected with a fresh token moments before.
ReconnectedIsSpared ==
    [][\A w \in Workspace :
          (Connected(w) /\ row'[w].status = "RECONNECT_REQUIRED") =>
              row[w].token \in revoked]_vars

=============================================================================
