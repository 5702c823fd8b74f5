-------------------------------- MODULE Catalog --------------------------------
(***************************************************************************)
(* The cleaning business's clients and their sites: the dashboard creates  *)
(* and removes them, CSV imports create them in bulk, and visitors leave   *)
(* feedback at the sites all the while.  What Postgres enforces (unique    *)
(* keys, cascading and restricting foreign keys) is part of the model, as  *)
(* the code relies on it.                                                  *)
(*                                                                         *)
(* Ids are given once: born holds all that were.  Names of sites are       *)
(* compared as the import does it, without case.  Addresses, the names of  *)
(* clients, and statuses are left out.                                     *)
(***************************************************************************)
EXTENDS Naturals, FiniteSets, Sequences, FiniteSetsExt

CONSTANTS
    Client,    \* ids of clients
    Site,      \* ids of sites
    Feedback,  \* ids of submissions
    None,
    ClientId,  \* the codes by which people and imports name clients
    Name,      \* businessName of a site
    Admin,     \* dashboard requests that create sites
    Import,    \* uploads of a CSV file
    Remover,   \* dashboard requests that remove clients
    RowsOf,    \* the rows of each import's file
    MAX_CREATE_ATTEMPTS,
    MaxFailures  \* bound: how often a query fails or the process restarts

\* A row may leave the client's code blank, or be invalid.
CsvRow == [clientId : ClientId \cup {None}, name : Name, valid : BOOLEAN]

ASSUME CatalogAssumption ==
    /\ None \notin Client \cup Site \cup Feedback \cup ClientId \cup Remover
    /\ Client \cap Site = {} /\ Client \cap Feedback = {} /\ Site \cap Feedback = {}
    /\ IsFiniteSet(Site)
    /\ Admin \cap Import = {}
    /\ RowsOf \in [Import -> Seq(CsvRow)]
    /\ MAX_CREATE_ATTEMPTS \in Nat \ {0}
    /\ MaxFailures \in Nat

Creator == Admin \cup Import

VARIABLES
    client,   \* clients: the clientId of each, None where there is no row
    site,     \* sites
    siteOf,   \* feedback_submissions: the site of each
    born,     \* the ids given so far
    add,      \* what each creator, a dashboard request or an import, does
    import,   \* processFile: the row it is at and its counters
    batch,    \* csv_import_batches
    rows,     \* csv_import_rows: the result of each row of each batch
    removal,  \* what each removal of a client does
    raced,    \* auxiliary, see Race
    failures  \* how often something failed so far

vars == <<client, site, siteOf, born, add, import, batch, rows, removal, raced, failures>>

NoSite == [client |-> None, code |-> 0, name |-> None, imported |-> FALSE]
\* tries: attempts that met a taken code.  beaten is not in the code: how many
\* sites others have created for the client since the search for a code began.
NoAdd == [pc |-> "idle", client |-> None, site |-> None, name |-> None, code |-> 0,
          tries |-> 0, beaten |-> 0]
NoImport == [at |-> 0, ok |-> 0, bad |-> 0]
NoBatch == [status |-> "none", ok |-> 0, bad |-> 0]
\* disturbed is not in the code: feedback of the client came or went, or the
\* client did, or the database failed, while the removal was under way.
NoRemoval == [pc |-> "idle", client |-> None, sites |-> {}, items |-> {}, item |-> None,
              disturbed |-> FALSE]

\* What is not a code yet is 0, the code "01" is 1.
SiteRow == {NoSite} \cup
    [client : Client, code : Nat \ {0}, name : Name, imported : BOOLEAN]
Add == [pc : {"idle", "row", "touchClient", "newClient", "findSite", "touchSite", "code",
              "insert", "saved", "error"},
        client : Client \cup ClientId \cup {None}, site : Site \cup {None},
        name : Name \cup {None}, code : Nat, tries : 0 .. MAX_CREATE_ATTEMPTS - 1,
        beaten : Nat]
Counters == [at : Nat, ok : Nat, bad : Nat]
Batch == [status : {"none", "PROCESSING", "COMPLETED"}, ok : Nat, bad : Nat]
Removal == [pc : {"idle", "sites", "next", "read", "delete", "clear", "client", "aborted"},
            client : Client \cup {None}, sites : SUBSET Site, items : SUBSET Feedback,
            item : Feedback \cup {None}, disturbed : BOOLEAN]

TypeOK ==
    /\ client \in [Client -> ClientId \cup {None}]
    /\ site \in [Site -> SiteRow]
    /\ siteOf \in [Feedback -> Site \cup {None}]
    /\ born \in SUBSET (Client \cup Site \cup Feedback)
    /\ add \in [Creator -> Add]
    /\ import \in [Import -> Counters]
    /\ batch \in [Import -> Batch]
    /\ rows \in [Import -> Seq({"SUCCESS", "ERROR"})]
    /\ removal \in [Remover -> Removal]
    /\ raced \in SUBSET (Client \X Name)
    /\ failures \in 0 .. MaxFailures

Init ==
    /\ client = [c \in Client |-> None]
    /\ site = [s \in Site |-> NoSite]
    /\ siteOf = [f \in Feedback |-> None]
    /\ born = {}
    /\ add = [x \in Creator |-> NoAdd]
    /\ import = [i \in Import |-> NoImport]
    /\ batch = [i \in Import |-> NoBatch]
    /\ rows = [i \in Import |-> <<>>]
    /\ removal = [r \in Remover |-> NoRemoval]
    /\ raced = {}
    /\ failures = 0

-----------------------------------------------------------------------------
(* The tables *)

Exists(c) == client[c] # None
SitesOf(c) == {s \in Site : site[s].client = c}
CodesOf(c) == {site[s].code : s \in SitesOf(c)}
Taken(id) == \E c \in Client : client[c] = id
FeedbackAt(S) == {f \in Feedback : siteOf[f] \in S}

\* A site with feedback cannot be deleted, nor can its client.
Restricted(S) == FeedbackAt(S) # {}

Failure ==
    /\ failures < MaxFailures
    /\ failures' = failures + 1

Without(S) == [s \in Site |-> IF s \in S THEN NoSite ELSE site[s]]

\* Removals of client c, but r, are not alone any more.
Disturb(c, r) ==
    [q \in Remover |-> IF q # r /\ removal[q].client = c
                         THEN [removal[q] EXCEPT !.disturbed = TRUE]
                         ELSE removal[q]]

-----------------------------------------------------------------------------
(* Creating a site: SitesService.create and createSiteWithRetry *)

\* The same first free id each time: which one it is does not matter.
FreshSite == CHOOSE s \in Site : s \notin born

\* Mutant: the number of sites, not the largest code, is counted on.
NextSiteCode_Count(c) == Cardinality(SitesOf(c)) + 1

NextSiteCode(c) == Max(CodesOf(c) \cup {0}) + 1

\* The request is answered with an error; an import notes it for its row.
Fails(x) == [add EXCEPT ![x] = [NoAdd EXCEPT !.pc = IF x \in Import THEN "error" ELSE "idle"]]
Goes(x, pc) == add' = [add EXCEPT ![x].pc = pc]

\* The site of an import's row is s.
Resolved(pc, c, s) == [NoAdd EXCEPT !.pc = pc, !.client = c, !.site = s]

\* ClientsService.create; a code that is taken is refused.
CreateClient(id) ==
    /\ ~Taken(id)
    /\ \E c \in Client \ born :
          /\ client' = [client EXCEPT ![c] = id]
          /\ born' = born \cup {c}
    /\ UNCHANGED <<site, siteOf, add, import, batch, rows, removal, raced, failures>>

StartSite(a, c, n) ==
    /\ add[a].pc = "idle"
    /\ Exists(c)
    /\ add' = [add EXCEPT ![a] = [NoAdd EXCEPT !.pc = "code", !.client = c, !.name = n]]
    /\ UNCHANGED <<client, site, siteOf, born, import, batch, rows, removal, raced, failures>>

PickCode(x) ==
    /\ add[x].pc = "code"
    /\ add' = [add EXCEPT ![x].pc = "insert", ![x].code = NextSiteCode(add[x].client)]
    /\ UNCHANGED <<client, site, siteOf, born, import, batch, rows, removal, raced, failures>>

\* x is about to create a site for c.
Competes(x, c) == add[x].client = c /\ add[x].pc \in {"code", "insert"}

\* Auxiliary: another import, too, has found no site of this name.
Race(x) ==
    IF \E y \in Import \ {x} : Competes(y, add[x].client) /\ add[y].name = add[x].name
      THEN raced \cup {<<add[x].client, add[x].name>>}
      ELSE raced

\* Mutant: one attempt too many.
TriesLeft_OneMore(x) == add[x].tries < MAX_CREATE_ATTEMPTS

TriesLeft(x) == add[x].tries + 1 < MAX_CREATE_ATTEMPTS

InsertSite(x) ==
    LET c == add[x].client IN
    /\ add[x].pc = "insert"
    /\ \/ /\ ~Exists(c)
          /\ add' = Fails(x)
          /\ UNCHANGED <<site, born, raced>>
       \/ /\ Exists(c) /\ add[x].code \in CodesOf(c)
          /\ add' = IF TriesLeft(x)
                      THEN [add EXCEPT ![x].pc = "code", ![x].tries = @ + 1]
                      ELSE Fails(x)
          /\ UNCHANGED <<site, born, raced>>
       \/ /\ Exists(c) /\ add[x].code \notin CodesOf(c)
          /\ Site \ born # {}
          /\ born' = born \cup {FreshSite}
          /\ site' = [site EXCEPT ![FreshSite] =
                [client |-> c, code |-> add[x].code, name |-> add[x].name,
                 imported |-> x \in Import]]
          /\ add' = [y \in Creator |->
                CASE y = x /\ x \in Import -> Resolved("saved", c, FreshSite)
                  [] y = x /\ x \in Admin -> NoAdd
                  [] y # x /\ Competes(y, c) -> [add[y] EXCEPT !.beaten = @ + 1]
                  [] OTHER -> add[y]]
          /\ raced' = IF x \in Import THEN Race(x) ELSE raced
    /\ UNCHANGED <<client, siteOf, import, batch, rows, removal, failures>>

-----------------------------------------------------------------------------
(* CSV import: CsvImportService.processFile *)

Row(i) == RowsOf[i][import[i].at]

StartImport(i) ==
    /\ batch[i].status = "none"
    /\ batch' = [batch EXCEPT ![i].status = "PROCESSING"]
    /\ import' = [import EXCEPT ![i].at = 1]
    /\ Goes(i, "row")
    /\ UNCHANGED <<client, site, siteOf, born, rows, removal, raced, failures>>

\* processRow up to its first write: the client is found by its code, or a free
\* code is generated, for which five attempts may not be enough.
BeginRow(i) ==
    LET r == Row(i)
        IsAbout(pc, c) == add' = [add EXCEPT ![i] =
                             [NoAdd EXCEPT !.pc = pc, !.client = c, !.name = r.name]]
    IN
    /\ add[i].pc = "row"
    /\ import[i].at <= Len(RowsOf[i])
    /\ \/ ~r.valid /\ add' = Fails(i)
       \/ /\ r.valid /\ r.clientId # None
          /\ \/ \E c \in Client : client[c] = r.clientId /\ IsAbout("touchClient", c)
             \/ ~Taken(r.clientId) /\ IsAbout("newClient", r.clientId)
       \/ /\ r.valid /\ r.clientId = None
          /\ \/ \E id \in ClientId : ~Taken(id) /\ IsAbout("newClient", id)
             \/ (\E id \in ClientId : Taken(id)) /\ add' = Fails(i)
    /\ UNCHANGED <<client, site, siteOf, born, import, batch, rows, removal, raced, failures>>

\* The client found is updated; by now it may be gone.
TouchClient(i) ==
    /\ add[i].pc = "touchClient"
    /\ IF Exists(add[i].client) THEN Goes(i, "findSite") ELSE add' = Fails(i)
    /\ UNCHANGED <<client, site, siteOf, born, import, batch, rows, removal, raced, failures>>

\* createClient; until then add[i].client is the code.
NewClient(i) ==
    /\ add[i].pc = "newClient"
    /\ \/ /\ Taken(add[i].client)
          /\ add' = Fails(i)
          /\ UNCHANGED <<client, born>>
       \/ /\ ~Taken(add[i].client)
          /\ \E c \in Client \ born :
                /\ client' = [client EXCEPT ![c] = add[i].client]
                /\ born' = born \cup {c}
                /\ add' = [add EXCEPT ![i].pc = "findSite", ![i].client = c]
    /\ UNCHANGED <<site, siteOf, import, batch, rows, removal, raced, failures>>

\* Mutant: sites are not looked for.
Named_None(c, n) == {}

\* The sites an import takes for the one it names.
Named(c, n) == {s \in SitesOf(c) : site[s].name = n}

\* resolveSite: the site it finds may need a new address.
FindSite(i) ==
    LET found == Named(add[i].client, add[i].name) IN
    /\ add[i].pc = "findSite"
    /\ \/ \E s \in found, pc \in {"touchSite", "saved"} :
             add' = [add EXCEPT ![i] = Resolved(pc, add[i].client, s)]
       \/ found = {} /\ Goes(i, "code")
    /\ UNCHANGED <<client, site, siteOf, born, import, batch, rows, removal, raced, failures>>

TouchSite(i) ==
    /\ add[i].pc = "touchSite"
    /\ IF site[add[i].site] # NoSite THEN Goes(i, "saved") ELSE add' = Fails(i)
    /\ UNCHANGED <<client, site, siteOf, born, import, batch, rows, removal, raced, failures>>

\* The row is handled: it counts, and then its result is written, which needs
\* client and site to be there still.
SaveSuccess(i) ==
    /\ add[i].pc = "saved"
    /\ \/ /\ Exists(add[i].client) /\ site[add[i].site] # NoSite
          /\ import' = [import EXCEPT ![i].ok = @ + 1, ![i].at = @ + 1]
          /\ rows' = [rows EXCEPT ![i] = Append(@, "SUCCESS")]
          /\ add' = [add EXCEPT ![i] = [NoAdd EXCEPT !.pc = "row"]]
          /\ UNCHANGED failures
       \/ /\ \/ ~Exists(add[i].client) /\ UNCHANGED failures
             \/ site[add[i].site] = NoSite /\ UNCHANGED failures
             \/ Failure
          /\ import' = [import EXCEPT ![i].ok = @ + 1]
          /\ add' = Fails(i)
          /\ UNCHANGED rows
    /\ UNCHANGED <<client, site, siteOf, born, batch, removal, raced>>

\* When not even the error can be written the import dies.
SaveError(i) ==
    /\ add[i].pc = "error"
    /\ \/ /\ import' = [import EXCEPT ![i].bad = @ + 1, ![i].at = @ + 1]
          /\ rows' = [rows EXCEPT ![i] = Append(@, "ERROR")]
          /\ add' = [add EXCEPT ![i] = [NoAdd EXCEPT !.pc = "row"]]
          /\ UNCHANGED failures
       \/ /\ Failure
          /\ import' = [import EXCEPT ![i] = NoImport]
          /\ add' = [add EXCEPT ![i] = NoAdd]
          /\ UNCHANGED rows
    /\ UNCHANGED <<client, site, siteOf, born, batch, removal, raced>>

\* Mutant: the counters are swapped.
Completed_Swapped(k) == [status |-> "COMPLETED", ok |-> k.bad, bad |-> k.ok]

Completed(k) == [status |-> "COMPLETED", ok |-> k.ok, bad |-> k.bad]

FinishImport(i) ==
    /\ add[i].pc = "row"
    /\ import[i].at > Len(RowsOf[i])
    /\ \/ batch' = [batch EXCEPT ![i] = Completed(import[i])] /\ UNCHANGED failures
       \/ Failure /\ UNCHANGED batch
    /\ import' = [import EXCEPT ![i] = NoImport]
    /\ add' = [add EXCEPT ![i] = NoAdd]
    /\ UNCHANGED <<client, site, siteOf, born, rows, removal, raced>>

-----------------------------------------------------------------------------
(* Removing: ClientsService.remove and SitesService.remove *)

StartRemoval(r, c) ==
    /\ removal[r].pc \in {"idle", "aborted"}
    /\ Exists(c)
    /\ removal' = [removal EXCEPT ![r] = [NoRemoval EXCEPT !.pc = "sites", !.client = c]]
    /\ UNCHANGED <<client, site, siteOf, born, add, import, batch, rows, raced, failures>>

\* Mutant: only the client's first site is cleared.
ToClear_Some(c) == {s \in SitesOf(c) : site[s].code = 1}

ToClear(c) == SitesOf(c)

ListSites(r) ==
    /\ removal[r].pc = "sites"
    /\ removal' = [removal EXCEPT ![r].pc = "next",
                                  ![r].sites = ToClear(removal[r].client)]
    /\ UNCHANGED <<client, site, siteOf, born, add, import, batch, rows, raced, failures>>

\* The feedback of the next site, the next of that feedback, or the sites.
RemovalNext(r) ==
    LET here == removal[r] IN
    /\ here.pc = "next"
    /\ \/ \E f \in here.items :
             removal' = [removal EXCEPT ![r].pc = "read", ![r].item = f,
                                        ![r].items = @ \ {f}]
       \/ /\ here.items = {}
          /\ \E s \in here.sites :
                removal' = [removal EXCEPT ![r].sites = @ \ {s},
                                           ![r].items = FeedbackAt({s})]
       \/ /\ here.items = {} /\ here.sites = {}
          /\ removal' = [removal EXCEPT ![r].pc = "clear"]
    /\ UNCHANGED <<client, site, siteOf, born, add, import, batch, rows, raced, failures>>

Aborts(r) == [removal EXCEPT ![r] =
    [NoRemoval EXCEPT !.pc = "aborted", !.disturbed = removal[r].disturbed]]

\* AdminFeedbackService.remove, which throws when the row is gone; its ticket
\* and media are deleted in between.
ReadItem(r) ==
    /\ removal[r].pc = "read"
    /\ removal' = IF siteOf[removal[r].item] = None
                    THEN Aborts(r)
                    ELSE [removal EXCEPT ![r].pc = "delete"]
    /\ UNCHANGED <<client, site, siteOf, born, add, import, batch, rows, raced, failures>>

DeleteItem(r) ==
    LET f == removal[r].item IN
    /\ removal[r].pc = "delete"
    /\ \/ /\ siteOf[f] = None
          /\ removal' = Aborts(r)
          /\ UNCHANGED siteOf
       \/ /\ siteOf[f] # None
          /\ siteOf' = [siteOf EXCEPT ![f] = None]
          /\ removal' = [Disturb(site[siteOf[f]].client, r) EXCEPT
                            ![r].pc = "next", ![r].item = None]
    /\ UNCHANGED <<client, site, born, add, import, batch, rows, raced, failures>>

\* site.deleteMany: all of the client's sites, or none and an error.
DeleteSites(r) ==
    LET S == SitesOf(removal[r].client) IN
    /\ removal[r].pc = "clear"
    /\ \/ /\ Restricted(S)
          /\ removal' = Aborts(r)
          /\ UNCHANGED site
       \/ /\ ~Restricted(S)
          /\ site' = Without(S)
          /\ removal' = [removal EXCEPT ![r].pc = "client"]
    /\ UNCHANGED <<client, siteOf, born, add, import, batch, rows, raced, failures>>

\* client.delete cascades to the sites created since.
DeleteClient(r) ==
    LET c == removal[r].client
        S == SitesOf(c)
    IN
    /\ removal[r].pc = "client"
    /\ \/ /\ ~Exists(c) \/ Restricted(S)
          /\ removal' = Aborts(r)
          /\ UNCHANGED <<client, site>>
       \/ /\ Exists(c) /\ ~Restricted(S)
          /\ client' = [client EXCEPT ![c] = None]
          /\ site' = Without(S)
          /\ removal' = [Disturb(c, r) EXCEPT ![r] = NoRemoval]
    /\ UNCHANGED <<siteOf, born, add, import, batch, rows, raced, failures>>

RemoveSite(s) ==
    /\ site[s] # NoSite
    /\ ~Restricted({s})
    /\ site' = Without({s})
    /\ UNCHANGED <<client, siteOf, born, add, import, batch, rows, removal, raced, failures>>

-----------------------------------------------------------------------------
(* The environment *)

\* FeedbackService.submit, whose site may have gone since it was looked up.
Submit(f, s) ==
    /\ f \notin born
    /\ site[s] # NoSite
    /\ siteOf' = [siteOf EXCEPT ![f] = s]
    /\ born' = born \cup {f}
    /\ removal' = Disturb(site[s].client, None)
    /\ UNCHANGED <<client, site, add, import, batch, rows, raced, failures>>

\* The dashboard or reconciliation removes one submission.
RemoveFeedback(f) ==
    /\ siteOf[f] # None
    /\ siteOf' = [siteOf EXCEPT ![f] = None]
    /\ removal' = Disturb(site[siteOf[f]].client, None)
    /\ UNCHANGED <<client, site, born, add, import, batch, rows, raced, failures>>

\* A query fails.
CreationFails(x) ==
    /\ add[x].pc \in {"touchClient", "newClient", "findSite", "touchSite", "code", "insert"}
    /\ Failure
    /\ add' = Fails(x)
    /\ UNCHANGED <<client, site, siteOf, born, import, batch, rows, removal, raced>>

RemovalFails(r) ==
    /\ removal[r].pc \notin {"idle", "aborted"}
    /\ Failure
    /\ removal' = [Aborts(r) EXCEPT ![r].disturbed = TRUE]
    /\ UNCHANGED <<client, site, siteOf, born, add, import, batch, rows, raced>>

\* The process restarts.
Crash ==
    /\ Failure
    /\ add' = [x \in Creator |-> NoAdd]
    /\ import' = [i \in Import |-> NoImport]
    /\ removal' = [r \in Remover |-> NoRemoval]
    /\ UNCHANGED <<client, site, siteOf, born, batch, rows, raced>>

ImportStep(i) ==
    BeginRow(i) \/ TouchClient(i) \/ NewClient(i) \/ FindSite(i) \/ TouchSite(i)
    \/ SaveSuccess(i) \/ SaveError(i) \/ FinishImport(i)

RemovalStep(r) ==
    ListSites(r) \/ RemovalNext(r) \/ ReadItem(r) \/ DeleteItem(r) \/ DeleteSites(r)
    \/ DeleteClient(r)

Next ==
    \/ \E id \in ClientId : CreateClient(id)
    \/ \E a \in Admin, c \in Client, n \in Name : StartSite(a, c, n)
    \/ \E x \in Creator : PickCode(x) \/ InsertSite(x) \/ CreationFails(x)
    \/ \E i \in Import : StartImport(i) \/ ImportStep(i)
    \/ \E r \in Remover, c \in Client : StartRemoval(r, c)
    \/ \E r \in Remover : RemovalStep(r) \/ RemovalFails(r)
    \/ \E s \in Site : RemoveSite(s)
    \/ \E f \in Feedback, s \in Site : Submit(f, s)
    \/ \E f \in Feedback : RemoveFeedback(f)
    \/ Crash

Spec == Init /\ [][Next]_vars

-----------------------------------------------------------------------------
(* Properties *)

\* A new site's code is found taken only when another creation came first: no
\* attempt of the five is wasted, however sites come and go.
CollisionsNeedCreations == \A x \in Creator : add[x].tries <= add[x].beaten

\* A client gets two sites of one name from CSV imports only if these looked
\* for the name at the same time: an import that is repeated, after a restart
\* or whatever removals came between, finds what is there.
ImportsReuseSites ==
    \A s, t \in Site :
        /\ s # t
        /\ site[s].imported /\ site[t].imported
        /\ site[s].client = site[t].client
        /\ site[s].name = site[t].name
        => <<site[s].client, site[s].name>> \in raced

\* Something was deleted while imports were under way, or the database failed.
SomethingLost ==
    \/ failures > 0
    \/ \E c \in Client \cap born : ~Exists(c)
    \/ \E s \in Site \cap born : site[s] = NoSite

\* A completed import has a result for each of its rows and counts as errors
\* those whose result is one; a row counts twice only if its client or site
\* was deleted, or the database failed, before its result was written.
CountersFitRows ==
    \A i \in Import : batch[i].status = "COMPLETED" =>
        LET errors == {k \in DOMAIN rows[i] : rows[i][k] = "ERROR"} IN
        /\ Len(rows[i]) = Len(RowsOf[i])
        /\ batch[i].bad = Cardinality(errors)
        /\ batch[i].ok + batch[i].bad >= Len(RowsOf[i])
        /\ batch[i].ok + batch[i].bad > Len(RowsOf[i]) => SomethingLost

\* Removing a client works its way through all its feedback: it stops half-way
\* only if feedback came or went, someone else removed the client, or the
\* database failed meanwhile.
AbortsOnlyIfDisturbed ==
    \A r \in Remover : removal[r].pc = "aborted" => removal[r].disturbed

=============================================================================
