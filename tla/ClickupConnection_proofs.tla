---------------------- MODULE ClickupConnection_proofs ----------------------
(***************************************************************************)
(* Proofs about ClickupConnection, for any workspaces, tokens and teams,   *)
(* and any number of calls, dashboard requests, crashes and revocations in *)
(* flight at once.                                                         *)
(***************************************************************************)
EXTENDS ClickupConnection, TLAPS

\* What a booting process is about to store was checked.
BootFits ==
    /\ process \in {"validate", "store"} => boot.token \in Token
    /\ process = "store" => boot.ws \in TeamsOf[boot.token]

\* What a request is about to store was checked, and a setup configures a
\* connection there is.
RequestFits(q) ==
    /\ q.pc \in {"store", "callback"} => q.ws \in TeamsOf[q.token]
    /\ q.pc \in {"fields", "configure"} => OnFile(q.ws)

RequestsFit == \A a \in Admin : RequestFits(req[a])

\* A call taken for refused carries a token that ClickUp refuses.
RefusedAreRevoked ==
    \A c \in Call : call[c].pc = "refused" => call[c].token \in revoked

IInv ==
    /\ TypeOK
    /\ TokenFitsWorkspace
    /\ BootFits
    /\ RequestsFit
    /\ RefusedAreRevoked

-----------------------------------------------------------------------------

LEMMA InitIInv == Init => IInv
<1> SUFFICES ASSUME Init PROVE IInv
  OBVIOUS
<1>1. TypeOK
  BY ConnectionAssumption DEF Init, TypeOK, Row, Boot, NoBoot, CallState, Request
<1>2. TokenFitsWorkspace /\ RequestsFit /\ RefusedAreRevoked /\ BootFits
  BY DEF Init, TokenFitsWorkspace, OnFile, NoRow, NoCall, RequestsFit, RequestFits,
         RefusedAreRevoked, BootFits
<1>3. QED
  BY <1>1, <1>2 DEF IInv

LEMMA SpendType ==
    ASSUME TypeOK, NEW k \in EventKind, Spend(k)
    PROVE  budget' \in [EventKind -> Nat]
BY DEF TypeOK, Spend

\* A workspace is on file exactly when its row has a token.
LEMMA RowShape ==
    ASSUME NEW x \in Row
    PROVE  /\ x.status \in {"none", "CONNECTED", "RECONNECT_REQUIRED"}
           /\ x.at \in Nat /\ x.configured \in BOOLEAN
           /\ x.status # "none" =>
                 x \in [status : {"CONNECTED", "RECONNECT_REQUIRED"}, token : Token,
                        at : Nat, configured : BOOLEAN]
           /\ x.status = "none" => x = NoRow
<1>1. CASE x = NoRow
  BY <1>1 DEF NoRow
<1>2. CASE x \in [status : {"CONNECTED", "RECONNECT_REQUIRED"}, token : Token, at : Nat,
                  configured : BOOLEAN]
  <2>1. x.status # "none"
    BY <1>2
  <2>2. x.status \in {"none", "CONNECTED", "RECONNECT_REQUIRED"}
    BY <1>2
  <2>3. x.at \in Nat /\ x.configured \in BOOLEAN
    BY <1>2
  <2>4. QED
    BY <1>2, <2>1, <2>2, <2>3
<1>3. QED
  BY <1>1, <1>2 DEF Row

LEMMA CallShape ==
    ASSUME NEW x \in CallState
    PROVE  /\ x.pc \in {"idle", "asked", "refused"}
           /\ x.pc # "idle" => x \in [pc : {"asked", "refused"}, token : Token, ws : Workspace]
BY DEF CallState, NoCall

LEMMA RequestShape ==
    ASSUME NEW x \in Request
    PROVE  /\ x.pc # "idle" => x.token \in Token
           /\ x.pc \notin {"idle", "teams"} =>
                 x \in [pc : {"store", "sync", "callback", "fields", "configure"},
                        token : Token, ws : Workspace]
           /\ x.pc = "teams" => x \in [pc : {"teams"}, token : Token, ws : {NoWorkspace}]
BY DEF Request, NoCall

-----------------------------------------------------------------------------
(* Frames *)

\* Requests stay fit while no workspace leaves the file.
LEMMA RequestsFrame ==
    ASSUME IInv, UNCHANGED req, \A w \in Workspace : OnFile(w) => OnFile(w)'
    PROVE  RequestsFit'
<1> SUFFICES ASSUME NEW a \in Admin PROVE RequestFits(req[a])'
  BY DEF RequestsFit
<1>1. req[a] \in Request /\ RequestFits(req[a]) /\ req'[a] = req[a]
  BY DEF IInv, TypeOK, RequestsFit
<1>2. req[a].pc \in {"fields", "configure"} => req[a].ws \in Workspace
  BY <1>1, RequestShape
<1>3. QED
  BY <1>1, <1>2 DEF RequestFits, OnFile

\* One request moves to a fit state.
LEMMA RequestMoves ==
    ASSUME IInv, NEW a \in Admin, NEW q \in Request, req' = [req EXCEPT ![a] = q],
           RequestFits(q)',
           \A w \in Workspace : OnFile(w) => OnFile(w)'
    PROVE  req' \in [Admin -> Request] /\ RequestsFit'
<1>1. req' \in [Admin -> Request]
  BY DEF IInv, TypeOK
<1>2. ASSUME NEW b \in Admin PROVE RequestFits(req[b])'
  <2>1. CASE b = a
    BY <2>1 DEF IInv, TypeOK, RequestFits, OnFile
  <2>2. CASE b # a
    <3>1. req[b] \in Request /\ RequestFits(req[b]) /\ req'[b] = req[b]
      BY <2>2 DEF IInv, TypeOK, RequestsFit
    <3>2. req[b].pc \in {"fields", "configure"} => req[b].ws \in Workspace
      BY <3>1, RequestShape
    <3>3. QED
      BY <3>1, <3>2 DEF RequestFits, OnFile
  <2>3. QED
    BY <2>1, <2>2
<1>3. QED
  BY <1>1, <1>2 DEF RequestsFit

\* A call that is over.
LEMMA IdleFits == NoCall \in CallState /\ NoCall \in Request /\ RequestFits(NoCall)
BY DEF CallState, Request, NoCall, RequestFits

\* An upsert of a token for a workspace it is authorized for.
LEMMA UpsertFits ==
    ASSUME IInv, NEW w \in Workspace, NEW t \in Token, w \in TeamsOf[t],
           UpsertConnection(w, t)
    PROVE  /\ row' \in [Workspace -> Row]
           /\ upserts' \in Nat
           /\ \A v \in Workspace : OnFile(v)' => v \in TeamsOf[row'[v].token]
           /\ \A v \in Workspace : OnFile(v) => OnFile(v)'
<1>1. row[w] \in Row /\ upserts \in Nat /\ row \in [Workspace -> Row]
  BY DEF IInv, TypeOK
<1>2. PICK x : x = [status |-> "CONNECTED", token |-> t, at |-> upserts + 1,
                    configured |-> row[w].configured]
  OBVIOUS
<1>3. x \in Row /\ x.status = "CONNECTED" /\ x.token = t
  BY <1>1, <1>2, RowShape DEF Row
<1>4. row' = [row EXCEPT ![w] = x]
  BY <1>2 DEF UpsertConnection
<1>5. row' \in [Workspace -> Row] /\ upserts' \in Nat
  BY <1>1, <1>3, <1>4 DEF UpsertConnection
<1>6. \A v \in Workspace : row'[v] = IF v = w THEN x ELSE row[v]
  BY <1>1, <1>4
<1>7. QED
  BY <1>3, <1>5, <1>6 DEF IInv, TokenFitsWorkspace, OnFile

-----------------------------------------------------------------------------
(* One lemma per group of actions *)

LEMMA BootKeeps ==
    ASSUME IInv, BootStep PROVE IInv'
<1>t. TypeOK /\ TokenFitsWorkspace /\ BootFits /\ RefusedAreRevoked
  BY DEF IInv
<1>1. CASE BootStart
  <2>1. TypeOK'
    BY <1>1, <1>t DEF BootStart, TypeOK, Boot
  <2>2. TokenFitsWorkspace' /\ RefusedAreRevoked'
    BY <1>1, <1>t DEF BootStart, TokenFitsWorkspace, RefusedAreRevoked, OnFile
  <2>3. BootFits'
    BY <1>1, <1>t DEF BootStart, BootFits, TypeOK
  <2>4. RequestsFit'
    BY <1>1, RequestsFrame DEF BootStart, OnFile
  <2>5. QED
    BY <2>1, <2>2, <2>3, <2>4 DEF IInv
<1>2. CASE BootValidated
  <2>1. PICK w \in Workspace : MayBootInto(w) /\ boot' = [boot EXCEPT !.ws = w]
    BY <1>2 DEF BootValidated
  <2>2. boot' \in Boot /\ boot'.ws = w /\ boot'.token = boot.token
    BY <2>1, <1>t DEF TypeOK, Boot
  <2>3. TypeOK'
    BY <1>2, <2>2, <1>t DEF BootValidated, TypeOK
  <2>4. TokenFitsWorkspace' /\ RefusedAreRevoked'
    BY <1>2, <1>t DEF BootValidated, TokenFitsWorkspace, RefusedAreRevoked, OnFile
  <2>5. BootFits'
    BY <1>2, <2>1, <2>2, <1>t DEF BootValidated, BootFits, MayBootInto
  <2>6. RequestsFit'
    BY <1>2, RequestsFrame DEF BootValidated, OnFile
  <2>7. QED
    BY <2>3, <2>4, <2>5, <2>6 DEF IInv
<1>3. CASE BootGivesUp
  <2>1. budget' \in [EventKind -> Nat]
    BY <1>3, <1>t, SpendType DEF BootGivesUp, EventKind, TypeOK
  <2>2. TypeOK'
    BY <1>3, <2>1, <1>t DEF BootGivesUp, TypeOK
  <2>3. TokenFitsWorkspace' /\ RefusedAreRevoked' /\ BootFits'
    BY <1>3, <1>t DEF BootGivesUp, TokenFitsWorkspace, RefusedAreRevoked, OnFile, BootFits
  <2>4. RequestsFit'
    BY <1>3, RequestsFrame DEF BootGivesUp, OnFile
  <2>5. QED
    BY <2>2, <2>3, <2>4 DEF IInv
<1>4. CASE BootStore
  <2>1. boot.token \in Token /\ boot.ws \in TeamsOf[boot.token] /\ boot.ws \in Workspace
    BY <1>4, <1>t, ConnectionAssumption DEF BootStore, BootFits
  <2>2. /\ row' \in [Workspace -> Row]
        /\ upserts' \in Nat
        /\ \A v \in Workspace : OnFile(v)' => v \in TeamsOf[row'[v].token]
        /\ \A v \in Workspace : OnFile(v) => OnFile(v)'
    BY <1>4, <2>1, UpsertFits DEF BootStore
  <2>3. TypeOK'
    BY <1>4, <2>2, <1>t DEF BootStore, TypeOK
  <2>4. TokenFitsWorkspace' /\ RefusedAreRevoked' /\ BootFits'
    BY <1>4, <2>2, <1>t DEF BootStore, TokenFitsWorkspace, RefusedAreRevoked, BootFits
  <2>5. RequestsFit'
    BY <1>4, <2>2, RequestsFrame DEF BootStore
  <2>6. QED
    BY <2>3, <2>4, <2>5 DEF IInv
<1>5. QED
  BY <1>1, <1>2, <1>3, <1>4 DEF BootStep

\* A step that only changes one call, and perhaps the budget.
LEMMA CallMoves ==
    ASSUME IInv, NEW c \in Call, NEW x \in CallState, call' = [call EXCEPT ![c] = x],
           x.pc # "idle" => x.ws \in TeamsOf[x.token],
           x.pc = "refused" => x.token \in revoked,
           budget' \in [EventKind -> Nat],
           UNCHANGED <<row, upserts, variable, process, boot, req, revoked>>
    PROVE  IInv'
<1>t. TypeOK /\ TokenFitsWorkspace /\ BootFits /\ RefusedAreRevoked
  BY DEF IInv
<1>1. TypeOK'
  BY <1>t DEF TypeOK
<1>2. TokenFitsWorkspace' /\ RefusedAreRevoked'
  BY <1>t DEF TypeOK, TokenFitsWorkspace, RefusedAreRevoked, OnFile
<1>3. BootFits'
  BY <1>t DEF BootFits
<1>4. RequestsFit'
  BY RequestsFrame DEF OnFile
<1>5. QED
  BY <1>1, <1>2, <1>3, <1>4 DEF IInv

LEMMA StartCallStep ==
    ASSUME IInv, NEW c \in Call, StartCall(c) PROVE IInv'
<1>t. TypeOK /\ TokenFitsWorkspace
  BY DEF IInv
<1>1. PICK w \in Workspace :
         IsReady(w) /\ call' = [call EXCEPT ![c] =
                                 [pc |-> "asked", token |-> row[w].token, ws |-> w]]
  BY DEF StartCall
<1>2. OnFile(w) /\ row[w] \in Row
  BY <1>1, <1>t DEF IsReady, IsCurrent, IsNewestOf, Connected, OnFile, TypeOK
<1>3. row[w].token \in Token /\ w \in TeamsOf[row[w].token]
  BY <1>2, <1>t, RowShape DEF OnFile, TokenFitsWorkspace
<1>4. PICK x : x = [pc |-> "asked", token |-> row[w].token, ws |-> w]
  OBVIOUS
<1>5. x \in CallState /\ x.pc = "asked" /\ x.ws = w /\ x.token = row[w].token
  BY <1>3, <1>4 DEF CallState
<1>6. QED
  BY <1>1, <1>3, <1>4, <1>5, <1>t, CallMoves DEF StartCall, TypeOK

LEMMA CallRefusedStep ==
    ASSUME IInv, NEW c \in Call, CallRefused(c) PROVE IInv'
<1>t. TypeOK /\ TokenFitsWorkspace
  BY DEF IInv
<1>1. call[c] \in CallState /\ call[c].pc = "asked"
  BY <1>t DEF TypeOK, CallRefused
<1>2. call[c] \in [pc : {"asked", "refused"}, token : Token, ws : Workspace]
  BY <1>1, CallShape
<1>3. PICK x : x = [call[c] EXCEPT !.pc = "refused"]
  OBVIOUS
<1>4. x \in CallState /\ x.pc = "refused" /\ x.ws = call[c].ws /\ x.token = call[c].token
  BY <1>2, <1>3 DEF CallState
<1>5. call[c].ws \in TeamsOf[call[c].token] /\ call[c].token \in revoked
  BY <1>1, <1>2, <1>t DEF TokenFitsWorkspace, CallRefused, IsAuthError, Accepted
<1>6. call' = [call EXCEPT ![c] = x]
  BY <1>3 DEF CallRefused
<1>7. QED
  BY <1>4, <1>5, <1>6, <1>t, CallMoves DEF CallRefused, TypeOK

LEMMA CallEndsStep ==
    ASSUME IInv, NEW c \in Call, CallAnswered(c) \/ CallFails(c) PROVE IInv'
<1>t. TypeOK
  BY DEF IInv
<1>1. budget' \in [EventKind -> Nat]
  BY <1>t, SpendType DEF CallAnswered, CallFails, TypeOK, EventKind
<1>2. NoCall.pc = "idle"
  BY DEF NoCall
<1>3. QED
  BY <1>1, <1>2, IdleFits, CallMoves DEF CallAnswered, CallFails

LEMMA MarkStep ==
    ASSUME IInv, NEW c \in Call, MarkReconnectRequired(c) PROVE IInv'
<1> DEFINE w == call[c].ws
<1>t. TypeOK /\ TokenFitsWorkspace /\ BootFits /\ RefusedAreRevoked
  BY DEF IInv
<1>1. row' \in [Workspace -> Row]
         /\ \A v \in Workspace : OnFile(v)' = OnFile(v) /\ row'[v].token = row[v].token
  <2>1. CASE Connected(w)
    <3>1. CASE w \in Workspace
      <4>1. PICK x : x = [row[w] EXCEPT !.status = "RECONNECT_REQUIRED"]
        OBVIOUS
      <4>2. row[w] \in Row /\ row[w].status = "CONNECTED"
        BY <2>1, <3>1, <1>t DEF TypeOK, Connected
      <4>3. row[w] \in [status : {"CONNECTED", "RECONNECT_REQUIRED"}, token : Token,
                        at : Nat, configured : BOOLEAN]
        BY <4>2, RowShape
      <4>4. x \in Row /\ x.status = "RECONNECT_REQUIRED" /\ x.token = row[w].token
        BY <4>1, <4>3 DEF Row
      <4>5. row' = [row EXCEPT ![w] = x]
        BY <2>1, <4>1 DEF MarkReconnectRequired
      <4>6. QED
        BY <4>2, <4>4, <4>5, <1>t DEF TypeOK, OnFile
    <3>2. CASE w \notin Workspace
      BY <2>1, <3>2, <1>t DEF TypeOK, OnFile, MarkReconnectRequired
    <3>3. QED
      BY <3>1, <3>2
  <2>2. CASE ~Connected(w)
    BY <2>2, <1>t DEF TypeOK, OnFile, MarkReconnectRequired
  <2>3. QED
    BY <2>1, <2>2
<1>2. call' \in [Call -> CallState]
  BY <1>t, IdleFits DEF TypeOK, MarkReconnectRequired
<1>3. TypeOK'
  BY <1>1, <1>2, <1>t DEF TypeOK, MarkReconnectRequired
<1>4. \A d \in Call : call'[d] = NoCall \/ call'[d] = call[d]
  BY <1>t DEF TypeOK, MarkReconnectRequired
<1>5. NoCall.pc = "idle"
  BY DEF NoCall
<1>6. TokenFitsWorkspace' /\ RefusedAreRevoked'
  BY <1>1, <1>4, <1>5, <1>t DEF TokenFitsWorkspace, RefusedAreRevoked, MarkReconnectRequired
<1>7. BootFits'
  BY <1>t DEF BootFits, MarkReconnectRequired
<1>8. RequestsFit'
  BY <1>1, RequestsFrame DEF MarkReconnectRequired
<1>9. QED
  BY <1>3, <1>6, <1>7, <1>8 DEF IInv

\* A step that only changes one request, and perhaps variable and budget.
LEMMA RequestOnly ==
    ASSUME IInv, NEW a \in Admin, NEW q \in Request, req' = [req EXCEPT ![a] = q],
           RequestFits(q), variable' \in Token \cup {NoToken},
           budget' \in [EventKind -> Nat],
           UNCHANGED <<row, upserts, process, boot, call, revoked>>
    PROVE  IInv'
<1>t. TypeOK /\ TokenFitsWorkspace /\ BootFits /\ RefusedAreRevoked
  BY DEF IInv
<1>1. RequestFits(q)' /\ \A w \in Workspace : OnFile(w) => OnFile(w)'
  BY DEF RequestFits, OnFile
<1>2. req' \in [Admin -> Request] /\ RequestsFit'
  BY <1>1, RequestMoves
<1>3. TypeOK'
  BY <1>2, <1>t DEF TypeOK
<1>4. TokenFitsWorkspace' /\ RefusedAreRevoked' /\ BootFits'
  BY <1>t DEF TokenFitsWorkspace, RefusedAreRevoked, OnFile, BootFits
<1>5. QED
  BY <1>2, <1>3, <1>4 DEF IInv

LEMMA FindWorkspaceStep ==
    ASSUME IInv, NEW a \in Admin, FindWorkspace(a) PROVE IInv'
<1>t. TypeOK
  BY DEF IInv
<1>1. CASE req' = [req EXCEPT ![a] = NoCall]
  BY <1>1, <1>t, IdleFits, RequestOnly DEF FindWorkspace, TypeOK
<1>2. ASSUME NEW w \in TeamsOf[req[a].token],
             req' = [req EXCEPT ![a].pc = "store", ![a].ws = w]
      PROVE  IInv'
  <2>1. req[a] \in [pc : {"teams"}, token : Token, ws : {NoWorkspace}]
    BY <1>t, RequestShape DEF TypeOK, FindWorkspace
  <2>2. w \in Workspace
    BY <2>1, <1>2, ConnectionAssumption
  <2>3. PICK q : q = [req[a] EXCEPT !.pc = "store", !.ws = w]
    OBVIOUS
  <2>4. q \in Request /\ q.pc = "store" /\ q.ws = w /\ q.token = req[a].token
    BY <2>1, <2>2, <2>3 DEF Request
  <2>5. req' = [req EXCEPT ![a] = q]
    BY <1>2, <2>1, <2>3, <1>t DEF TypeOK
  <2>6. RequestFits(q)
    BY <1>2, <2>4 DEF RequestFits
  <2>7. QED
    BY <2>4, <2>5, <2>6, <1>t, RequestOnly DEF FindWorkspace, TypeOK
<1>3. QED
  BY <1>1, <1>2 DEF FindWorkspace

LEMMA PasteOrCallbackStep ==
    ASSUME IInv, NEW a \in Admin, NEW t \in Token, PasteToken(a, t) \/ Callback(a, t)
    PROVE  IInv'
<1>t. TypeOK
  BY DEF IInv
<1>b. budget' \in [EventKind -> Nat] /\ variable' \in Token \cup {NoToken}
  BY <1>t, SpendType DEF PasteToken, Callback, EventKind, TypeOK
<1>1. CASE PasteToken(a, t)
  <2>1. PICK q : q = [pc |-> "teams", token |-> t, ws |-> NoWorkspace]
    OBVIOUS
  <2>2. q \in Request /\ RequestFits(q)
    BY <2>1 DEF Request, RequestFits
  <2>3. QED
    BY <1>1, <1>b, <2>1, <2>2, RequestOnly DEF PasteToken
<1>2. CASE Callback(a, t)
  <2>1. PICK w \in TeamsOf[t] :
           req' = [req EXCEPT ![a] = [pc |-> "callback", token |-> t, ws |-> w]]
    BY <1>2 DEF Callback
  <2>2. PICK q : q = [pc |-> "callback", token |-> t, ws |-> w]
    OBVIOUS
  <2>3. w \in Workspace
    BY <2>1, ConnectionAssumption
  <2>4. q \in Request /\ RequestFits(q)
    BY <2>1, <2>2, <2>3 DEF Request, RequestFits
  <2>5. QED
    BY <1>2, <1>b, <2>1, <2>2, <2>4, RequestOnly DEF Callback
<1>3. QED
  BY <1>1, <1>2

LEMMA StoreTokenStep ==
    ASSUME IInv, NEW a \in Admin, StoreToken(a) PROVE IInv'
<1>t. TypeOK /\ TokenFitsWorkspace /\ BootFits /\ RefusedAreRevoked /\ RequestsFit
  BY DEF IInv
<1>1. req[a] \in [pc : {"store", "sync", "callback", "fields", "configure"},
                 token : Token, ws : Workspace]
  BY <1>t, RequestShape DEF TypeOK, StoreToken
<1>2. req[a].ws \in TeamsOf[req[a].token]
  BY <1>t DEF RequestsFit, RequestFits, StoreToken
<1>3. /\ row' \in [Workspace -> Row]
      /\ upserts' \in Nat
      /\ \A v \in Workspace : OnFile(v)' => v \in TeamsOf[row'[v].token]
      /\ \A v \in Workspace : OnFile(v) => OnFile(v)'
  BY <1>1, <1>2, UpsertFits DEF StoreToken
<1>4. PICK q : q = IF req[a].pc = "store" THEN [req[a] EXCEPT !.pc = "sync"] ELSE NoCall
  OBVIOUS
<1>5. q \in Request /\ q.pc \in {"sync", "idle"}
  <2>1. CASE req[a].pc = "store"
    BY <1>1, <1>4, <2>1 DEF Request
  <2>2. CASE req[a].pc # "store"
    BY <1>4, <2>2, IdleFits DEF NoCall
  <2>3. QED
    BY <2>1, <2>2
<1>6. RequestFits(q)'
  BY <1>5 DEF RequestFits
<1>7. req' \in [Admin -> Request] /\ RequestsFit'
  <2>1. req' = [req EXCEPT ![a] = q]
    BY <1>4, <1>t DEF StoreToken, TypeOK
  <2>2. QED
    BY <1>3, <1>5, <1>6, <2>1, RequestMoves
<1>8. TypeOK'
  BY <1>3, <1>7, <1>t DEF TypeOK, StoreToken
<1>9. TokenFitsWorkspace' /\ RefusedAreRevoked' /\ BootFits'
  BY <1>3, <1>t DEF TokenFitsWorkspace, RefusedAreRevoked, BootFits, StoreToken
<1>10. QED
  BY <1>7, <1>8, <1>9 DEF IInv

LEMMA SyncRailwayStep ==
    ASSUME IInv, NEW a \in Admin, SyncRailway(a) PROVE IInv'
<1>t. TypeOK
  BY DEF IInv
<1>1. req[a].token \in Token
  BY <1>t, RequestShape DEF TypeOK, SyncRailway
<1>2. budget' \in [EventKind -> Nat] /\ variable' \in Token \cup {NoToken}
  BY <1>1, <1>t, SpendType DEF SyncRailway, EventKind, TypeOK
<1>3. QED
  BY <1>2, IdleFits, RequestOnly DEF SyncRailway

LEMMA SetupStep ==
    ASSUME IInv, NEW a \in Admin, StartSetup(a) \/ FieldsFound(a) PROVE IInv'
<1>t. TypeOK /\ RequestsFit
  BY DEF IInv
<1>b. budget' \in [EventKind -> Nat] /\ variable' \in Token \cup {NoToken}
  BY <1>t, SpendType DEF StartSetup, FieldsFound, EventKind, TypeOK
<1>1. CASE StartSetup(a)
  <2>1. PICK w \in Workspace :
           /\ IsCurrent(w)
           /\ req' = [req EXCEPT ![a] = [pc |-> "fields", token |-> row[w].token, ws |-> w]]
    BY <1>1 DEF StartSetup
  <2>2. OnFile(w) /\ row[w] \in Row
    BY <2>1, <1>t DEF IsCurrent, IsNewestOf, Connected, OnFile, TypeOK
  <2>3. row[w].token \in Token
    BY <2>2, RowShape DEF OnFile
  <2>4. PICK q : q = [pc |-> "fields", token |-> row[w].token, ws |-> w]
    OBVIOUS
  <2>5. q \in Request /\ RequestFits(q)
    BY <2>2, <2>3, <2>4 DEF Request, RequestFits
  <2>6. QED
    BY <1>1, <1>b, <2>1, <2>4, <2>5, RequestOnly DEF StartSetup
<1>2. CASE FieldsFound(a)
  <2>1. CASE req' = [req EXCEPT ![a] = NoCall]
    BY <1>2, <1>b, <2>1, IdleFits, RequestOnly DEF FieldsFound
  <2>2. CASE req' = [req EXCEPT ![a].pc = "configure"]
    <3>1. req[a] \in [pc : {"store", "sync", "callback", "fields", "configure"},
                     token : Token, ws : Workspace]
      BY <1>2, <1>t, RequestShape DEF TypeOK, FieldsFound
    <3>2. PICK q : q = [req[a] EXCEPT !.pc = "configure"]
      OBVIOUS
    <3>3. q \in Request /\ q.pc = "configure" /\ q.ws = req[a].ws
      BY <3>1, <3>2 DEF Request
    <3>4. OnFile(req[a].ws)
      BY <1>2, <1>t DEF RequestsFit, RequestFits, FieldsFound
    <3>5. RequestFits(q)
      BY <3>3, <3>4 DEF RequestFits
    <3>6. req' = [req EXCEPT ![a] = q]
      BY <2>2, <3>2, <1>t DEF TypeOK
    <3>7. QED
      BY <1>2, <1>b, <3>3, <3>5, <3>6, RequestOnly DEF FieldsFound
  <2>3. QED
    BY <1>2, <2>1, <2>2 DEF FieldsFound
<1>3. QED
  BY <1>1, <1>2

LEMMA SetListConfigStep ==
    ASSUME IInv, NEW a \in Admin, SetListConfig(a) PROVE IInv'
<1> DEFINE w == req[a].ws
<1>t. TypeOK /\ TokenFitsWorkspace /\ BootFits /\ RefusedAreRevoked /\ RequestsFit
  BY DEF IInv
<1>1. w \in Workspace /\ OnFile(w)
  <2>1. req[a] \in [pc : {"store", "sync", "callback", "fields", "configure"},
                   token : Token, ws : Workspace]
    BY <1>t, RequestShape DEF TypeOK, SetListConfig
  <2>2. QED
    BY <2>1, <1>t DEF RequestsFit, RequestFits, SetListConfig
<1>2. PICK x : x = [row[w] EXCEPT !.configured = TRUE]
  OBVIOUS
<1>3. row[w] \in [status : {"CONNECTED", "RECONNECT_REQUIRED"}, token : Token,
                 at : Nat, configured : BOOLEAN]
  BY <1>1, <1>t, RowShape DEF TypeOK, OnFile
<1>4. x \in Row /\ x.status = row[w].status /\ x.token = row[w].token
  BY <1>2, <1>3 DEF Row
<1>5. row' = [row EXCEPT ![w] = x]
  BY <1>2 DEF SetListConfig
<1>6. row' \in [Workspace -> Row]
        /\ \A v \in Workspace : OnFile(v)' = OnFile(v) /\ row'[v].token = row[v].token
  <2> HIDE DEF w
  <2>1. QED
    BY <1>1, <1>4, <1>5, <1>t DEF TypeOK, OnFile
<1>7. req' \in [Admin -> Request] /\ RequestsFit'
  <2>1. RequestFits(NoCall)'
    BY DEF RequestFits, NoCall
  <2>2. QED
    BY <1>6, <2>1, IdleFits, RequestMoves DEF SetListConfig
<1>8. TypeOK'
  BY <1>6, <1>7, <1>t DEF TypeOK, SetListConfig
<1>9. TokenFitsWorkspace' /\ RefusedAreRevoked' /\ BootFits'
  BY <1>6, <1>t DEF TokenFitsWorkspace, RefusedAreRevoked, BootFits, SetListConfig
<1>10. QED
  BY <1>7, <1>8, <1>9 DEF IInv

LEMMA CrashStep ==
    ASSUME IInv, Crash PROVE IInv'
<1>t. TypeOK /\ TokenFitsWorkspace
  BY DEF IInv
<1>1. budget' \in [EventKind -> Nat] /\ NoBoot \in Boot
  BY <1>t, SpendType DEF Crash, EventKind, NoBoot, Boot
<1>2. TypeOK'
  BY <1>1, <1>t, IdleFits DEF TypeOK, Crash
<1>3. TokenFitsWorkspace' /\ RefusedAreRevoked' /\ BootFits' /\ RequestsFit'
  BY <1>t DEF Crash, TokenFitsWorkspace, RefusedAreRevoked, BootFits, RequestsFit,
              RequestFits, OnFile, NoCall
<1>4. QED
  BY <1>2, <1>3 DEF IInv

LEMMA EnvironmentStep ==
    ASSUME IInv, NEW t \in Token, Revoke(t) \/ EditVariable(t) PROVE IInv'
<1>t. TypeOK /\ TokenFitsWorkspace /\ BootFits /\ RefusedAreRevoked
  BY DEF IInv
<1>1. budget' \in [EventKind -> Nat]
  BY <1>t, SpendType DEF Revoke, EditVariable, EventKind
<1>2. TypeOK'
  BY <1>1, <1>t DEF TypeOK, Revoke, EditVariable
<1>3. TokenFitsWorkspace' /\ RefusedAreRevoked' /\ BootFits'
  BY <1>t DEF TokenFitsWorkspace, RefusedAreRevoked, BootFits, OnFile, Revoke, EditVariable
<1>4. RequestsFit'
  BY RequestsFrame DEF Revoke, EditVariable, OnFile
<1>5. QED
  BY <1>2, <1>3, <1>4 DEF IInv

LEMMA StutterStep == ASSUME IInv, UNCHANGED vars PROVE IInv'
<1>1. TypeOK' /\ TokenFitsWorkspace' /\ RefusedAreRevoked' /\ BootFits'
  BY DEF IInv, vars, TypeOK, TokenFitsWorkspace, RefusedAreRevoked, BootFits, OnFile
<1>2. RequestsFit'
  BY RequestsFrame DEF vars, OnFile
<1>3. QED
  BY <1>1, <1>2 DEF IInv

-----------------------------------------------------------------------------
(* The invariant is inductive *)

LEMMA NextIInv == IInv /\ [Next]_vars => IInv'
<1> SUFFICES ASSUME IInv, [Next]_vars PROVE IInv'
  OBVIOUS
<1>1. CASE BootStep
  BY <1>1, BootKeeps
<1>2. ASSUME NEW c \in Call, StartCall(c) \/ CallStep(c) \/ CallFails(c) PROVE IInv'
  BY <1>2, StartCallStep, CallRefusedStep, CallEndsStep, MarkStep DEF CallStep
<1>3. ASSUME NEW a \in Admin, RequestStep(a) \/ StartSetup(a) PROVE IInv'
  BY <1>3, FindWorkspaceStep, StoreTokenStep, SyncRailwayStep, SetupStep,
     SetListConfigStep DEF RequestStep
<1>4. ASSUME NEW a \in Admin, NEW t \in Token, PasteToken(a, t) \/ Callback(a, t)
      PROVE  IInv'
  BY <1>4, PasteOrCallbackStep
<1>5. ASSUME NEW t \in Token, Revoke(t) \/ EditVariable(t) PROVE IInv'
  BY <1>5, EnvironmentStep
<1>6. CASE Crash
  BY <1>6, CrashStep
<1>7. CASE UNCHANGED vars
  BY <1>7, StutterStep
<1>8. QED
  BY <1>1, <1>2, <1>3, <1>4, <1>5, <1>6, <1>7 DEF Next

LEMMA AlwaysIInv == Spec => []IInv
BY InitIInv, NextIInv, PTL DEF Spec

-----------------------------------------------------------------------------
(* Theorems *)

\* Type correctness.
THEOREM TypeCorrect == Spec => []TypeOK
<1>1. IInv => TypeOK
  BY DEF IInv
<1>2. QED
  BY <1>1, AlwaysIInv, PTL

\* Whoever stores a token, and whatever comes between its check and its upsert,
\* it is authorized for the workspace it is stored for, and calls carry it
\* there only.
THEOREM StoredTokensFit == Spec => []TokenFitsWorkspace
<1>1. IInv => TokenFitsWorkspace
  BY DEF IInv
<1>2. QED
  BY <1>1, AlwaysIInv, PTL

\* What MarkedOnlyAfterRefusal says of one step.
RefusalBehindIt ==
    \A w \in Workspace :
        (Connected(w) /\ row'[w].status = "RECONNECT_REQUIRED") =>
            \E c \in Call : call[c].ws = w /\ call[c].token \in revoked

\* An upsert connects; a step that leaves every status alone marks nothing.
LEMMA UpsertMarksNothing ==
    ASSUME TypeOK, NEW v \in Workspace, NEW t, UpsertConnection(v, t)
    PROVE  RefusalBehindIt
BY DEF TypeOK, UpsertConnection, RefusalBehindIt, Connected

LEMMA SameStatusMarksNothing ==
    ASSUME \A w \in Workspace : row'[w].status = row[w].status
    PROVE  RefusalBehindIt
BY DEF RefusalBehindIt, Connected

LEMMA NextRefusal == IInv /\ [Next]_vars => RefusalBehindIt
<1> SUFFICES ASSUME IInv, [Next]_vars PROVE RefusalBehindIt
  OBVIOUS
<1>t. TypeOK /\ BootFits /\ RequestsFit /\ RefusedAreRevoked
  BY DEF IInv
<1>1. CASE UNCHANGED row
  BY <1>1, SameStatusMarksNothing
<1>2. CASE BootStore
  <2>1. boot.ws \in Workspace
    BY <1>t, <1>2, ConnectionAssumption DEF BootStore, BootFits, TypeOK
  <2>2. QED
    BY <1>t, <1>2, <2>1, UpsertMarksNothing DEF BootStore
<1>3. ASSUME NEW a \in Admin, StoreToken(a) PROVE RefusalBehindIt
  <2>1. req[a].ws \in Workspace
    BY <1>t, <1>3 DEF StoreToken, TypeOK, Request, NoCall
  <2>2. QED
    BY <1>t, <1>3, <2>1, UpsertMarksNothing DEF StoreToken
<1>4. ASSUME NEW a \in Admin, SetListConfig(a) PROVE RefusalBehindIt
  <2>1. \A w \in Workspace : row'[w].status = row[w].status
    BY <1>t, <1>4 DEF SetListConfig, TypeOK
  <2>2. QED
    BY <2>1, SameStatusMarksNothing
<1>5. ASSUME NEW c \in Call, MarkReconnectRequired(c) PROVE RefusalBehindIt
  <2>1. call[c].token \in revoked
    BY <1>t, <1>5 DEF MarkReconnectRequired, RefusedAreRevoked
  <2>2. \A w \in Workspace : w # call[c].ws => row'[w] = row[w]
    BY <1>t, <1>5 DEF MarkReconnectRequired, TypeOK
  <2>3. QED
    BY <2>1, <2>2 DEF RefusalBehindIt, Connected
<1>6. QED
  <2>1. CASE BootStep
    BY <2>1, <1>1, <1>2 DEF BootStep, BootStart, BootValidated, BootGivesUp
  <2>2. ASSUME NEW c \in Call, StartCall(c) \/ CallStep(c) \/ CallFails(c)
        PROVE  RefusalBehindIt
    BY <2>2, <1>1, <1>5 DEF CallStep, StartCall, CallAnswered, CallRefused, CallFails
  <2>3. ASSUME NEW a \in Admin, RequestStep(a) \/ StartSetup(a) PROVE RefusalBehindIt
    BY <2>3, <1>1, <1>3, <1>4
       DEF RequestStep, FindWorkspace, SyncRailway, FieldsFound, StartSetup
  <2>4. ASSUME NEW a \in Admin, NEW t \in Token, PasteToken(a, t) \/ Callback(a, t)
        PROVE  RefusalBehindIt
    BY <2>4, <1>1 DEF PasteToken, Callback
  <2>5. ASSUME NEW t \in Token, Revoke(t) \/ EditVariable(t) PROVE RefusalBehindIt
    BY <2>5, <1>1 DEF Revoke, EditVariable
  <2>6. CASE Crash
    BY <2>6, <1>1 DEF Crash
  <2>7. CASE UNCHANGED vars
    BY <2>7, <1>1 DEF vars
  <2>8. QED
    BY <2>1, <2>2, <2>3, <2>4, <2>5, <2>6, <2>7 DEF Next

\* A connection is marked only when ClickUp refused a token in a call for that
\* workspace.
THEOREM NoFalseAlarm == Spec => MarkedOnlyAfterRefusal
<1>1. IInv /\ [Next]_vars => [RefusalBehindIt]_vars
  BY NextRefusal
<1>2. Spec => [][RefusalBehindIt]_vars
  BY <1>1, AlwaysIInv, PTL DEF Spec
<1>3. QED
  BY <1>2 DEF MarkedOnlyAfterRefusal, RefusalBehindIt

=============================================================================
