---------------------------- MODULE CompanyMatch ----------------------------
(***************************************************************************)
(* Which Company of ClickUp's list a ticket is linked to.  The Company of  *)
(* a client is looked up once a ticket exists, by the client's id and then *)
(* by its name; a match is kept with the client for good, a miss for five  *)
(* minutes in memory.  The list is read page by page while people edit it, *)
(* rename the client in the dashboard or repeat the setup; none of these   *)
(* makes the code forget a miss.                                           *)
(*                                                                         *)
(* ClickUp is external: it answers a page of the list as it is then, and   *)
(* new Companies come first.  A call that fails ends the delivery attempt  *)
(* (FeedbackDelivery's LinkCompanyFails).                                  *)
(***************************************************************************)
EXTENDS Naturals, FiniteSets, Sequences

CONSTANTS
    TicketClient,           \* clients that have tickets
    ClientName,             \* names of clients and Companies, trimmed, in lower case
    Company,                \* ids of Companies
    NoCompany,              \* the null Company, and no client
    Linker,                 \* tickets that may be looking for their Company at once
    NO_MATCH_CACHE_TTL,     \* the five minutes in ticks
    PAGE_SIZE,              \* Companies in a page, 100 in ClickUp
    MaxEdits,               \* bound: edits of the list, renames and setups
    MaxLinkFailures         \* bound: calls that fail, and restarts

ASSUME CompanyAssumption ==
    /\ ClientName # {}
    /\ IsFiniteSet(Company)
    /\ NoCompany \notin Company \cup TicketClient
    /\ {NO_MATCH_CACHE_TTL, PAGE_SIZE} \subseteq Nat \ {0}
    /\ {MaxEdits, MaxLinkFailures} \subseteq Nat

VARIABLES
    clientIdField,  \* companyClientIdFieldId was found during the last setup
    clientName,     \* clients.clientName
    companies,      \* the Companies list in ClickUp, in its order
    card,           \* the CLIENT ID and the name each Company has
    entity,         \* clients.clickupEntityId
    missFor,        \* noMatchCache: ticks each client's miss is still trusted
    link,           \* each ticket's lookup between two awaits
    edits,          \* what people may still do
    linkFailures,   \* what may still fail
    outdated        \* auxiliary: clients whose miss is about an older list, name or setup

companyVars == <<clientIdField, clientName, companies, card, entity, missFor, link,
                 edits, linkFailures, outdated>>

Card == [code : TicketClient \cup {NoCompany}, name : ClientName]
Seen == [id : Company, code : TicketClient \cup {NoCompany}, name : ClientName]

\* The pages that can hold something: the loop asks for no other but the first.
Page == {p \in 0 .. Cardinality(Company) : p > 0 => p * PAGE_SIZE < Cardinality(Company)}

\* known and name are the Company and the name the client's row had when the
\* delivery began, byId is whether the connection had the CLIENT ID field when the
\* list was asked for; company is the match; edited (auxiliary): the list was
\* edited since.
NoLink == [pc |-> "idle", k |-> NoCompany, known |-> NoCompany,
           name |-> CHOOSE m \in ClientName : TRUE, byId |-> FALSE, page |-> 0,
           seen |-> <<>>, company |-> NoCompany, edited |-> FALSE]

CompanyTypeOK ==
    /\ clientIdField \in BOOLEAN
    /\ clientName \in [TicketClient -> ClientName]
    /\ companies \in Seq(Company)
    /\ \A m, n \in DOMAIN companies : companies[m] = companies[n] => m = n
    /\ card \in [Company -> Card]
    /\ entity \in [TicketClient -> Company \cup {NoCompany}]
    /\ missFor \in [TicketClient -> 0 .. NO_MATCH_CACHE_TTL]
    /\ link \in [Linker -> [pc : {"idle", "resolve", "page", "save", "link"},
                            k : TicketClient \cup {NoCompany},
                            known : Company \cup {NoCompany},
                            name : ClientName,
                            byId : BOOLEAN,
                            page : Page,
                            seen : Seq(Seen),
                            company : Company \cup {NoCompany},
                            edited : BOOLEAN]]
    /\ edits \in 0 .. MaxEdits
    /\ linkFailures \in 0 .. MaxLinkFailures
    /\ outdated \subseteq TicketClient

Listed == {companies[n] : n \in DOMAIN companies}

CompanyInit ==
    /\ clientIdField \in BOOLEAN
    /\ clientName \in [TicketClient -> ClientName]
    /\ \E n \in 0 .. Cardinality(Company) : companies \in [1 .. n -> Company]
    /\ \A m, n \in DOMAIN companies : companies[m] = companies[n] => m = n
    /\ card \in [Company -> Card]
    /\ entity = [k \in TicketClient |-> NoCompany]
    /\ missFor = [k \in TicketClient |-> 0]
    /\ link = [c \in Linker |-> NoLink]
    /\ edits = MaxEdits
    /\ linkFailures = MaxLinkFailures
    /\ outdated = {}

LinkEnds(c) == link' = [link EXCEPT ![c] = NoLink]

LinkMayFail ==
    /\ linkFailures > 0
    /\ linkFailures' = linkFailures - 1

-----------------------------------------------------------------------------
(* createTicket after its task exists *)

\* A delivery of client k's feedback read the client's row and created a ticket.
TicketCreated(c, k) ==
    /\ link[c].pc = "idle"
    /\ link' = [link EXCEPT ![c] = [NoLink EXCEPT !.pc = "resolve", !.k = k,
                                                  !.known = entity[k],
                                                  !.name = clientName[k]]]
    /\ UNCHANGED <<clientIdField, clientName, companies, card, entity, missFor,
                   edits, linkFailures, outdated>>

\* A known match is taken, a trusted miss ends the lookup, and otherwise the
\* list is asked for.
ResolveClientEntity(c) ==
    LET l == link[c] IN
    /\ l.pc = "resolve"
    /\ link' = [link EXCEPT ![c] =
          CASE l.known # NoCompany -> [l EXCEPT !.pc = "link", !.company = l.known]
            [] l.known = NoCompany /\ missFor[l.k] > 0 -> NoLink
            [] l.known = NoCompany /\ missFor[l.k] = 0 ->
                [l EXCEPT !.pc = "page", !.byId = clientIdField]]
    /\ UNCHANGED <<clientIdField, clientName, companies, card, entity, missFor,
                   edits, linkFailures, outdated>>

\* What ClickUp has on a page now, nothing beyond the list's end.
PageOf(page) ==
    LET first == page * PAGE_SIZE
        here  == {n \in DOMAIN companies : first < n /\ n <= first + PAGE_SIZE}
    IN  [n \in 1 .. Cardinality(here) |->
            LET e == companies[first + n] IN
            [id |-> e, code |-> card[e].code, name |-> card[e].name]]

\* Mutants: the loop ends after its first page, or only at an empty one.
IsLastPage_First(page) == TRUE
IsLastPage_Empty(page) == PageOf(page) = <<>>

\* last_page is set, or the page is empty.
IsLastPage(page) == (page + 1) * PAGE_SIZE >= Len(companies)

\* companies.filter: entries, as the same Company may have been read twice.
ByClientId(l, seen) == {n \in DOMAIN seen : l.byId /\ seen[n].code = l.k}
ByName(l, seen) == {n \in DOMAIN seen : seen[n].name = l.name}

\* Mutant: the first of several is taken.
Matches_First(l, seen) ==
    LET all == IF ByClientId(l, seen) # {} THEN ByClientId(l, seen) ELSE ByName(l, seen)
    IN  {n \in all : \A m \in all : n <= m}

\* The name counts only when nobody has the client's id.
Matches(l, seen) ==
    IF ByClientId(l, seen) # {} THEN ByClientId(l, seen) ELSE ByName(l, seen)

\* Auxiliary: l looks in another list, for another name or in another way than it
\* would if it began now.
Overtaken(l) ==
    l.edited \/ l.name # clientName[l.k] \/ l.byId # clientIdField

\* A page arrives.  After the last one, a single match is saved; none or several
\* are a miss from now on.
ReadPage(c) ==
    LET l    == link[c]
        seen == l.seen \o PageOf(l.page)
    IN
    /\ l.pc = "page"
    /\ \/ /\ ~IsLastPage(l.page)
          /\ link' = [link EXCEPT ![c].page = l.page + 1, ![c].seen = seen]
          /\ UNCHANGED <<missFor, outdated>>
       \/ /\ IsLastPage(l.page)
          /\ \E n \in Matches(l, seen) :
                /\ Matches(l, seen) = {n}
                /\ link' = [link EXCEPT ![c].pc = "save", ![c].company = seen[n].id,
                                        ![c].seen = <<>>]
          /\ UNCHANGED <<missFor, outdated>>
       \/ /\ IsLastPage(l.page)
          /\ Cardinality(Matches(l, seen)) # 1
          /\ missFor' = [missFor EXCEPT ![l.k] = NO_MATCH_CACHE_TTL]
          /\ outdated' = IF Overtaken(l) THEN outdated \cup {l.k} ELSE outdated \ {l.k}
          /\ LinkEnds(c)
    /\ UNCHANGED <<clientIdField, clientName, companies, card, entity, edits,
                   linkFailures>>

\* cacheMatch
CacheMatch(c) ==
    /\ link[c].pc = "save"
    /\ entity' = [entity EXCEPT ![link[c].k] = link[c].company]
    /\ link' = [link EXCEPT ![c].pc = "link"]
    /\ UNCHANGED <<clientIdField, clientName, companies, card, missFor, edits,
                   linkFailures, outdated>>

\* setCustomFieldValue; a failure, as with a Company that is no more, is only
\* logged.
SetCompany(c) ==
    /\ link[c].pc = "link"
    /\ LinkEnds(c)
    /\ UNCHANGED <<clientIdField, clientName, companies, card, entity, missFor,
                   edits, linkFailures, outdated>>

\* A page cannot be read or the match not saved: createTicket throws.
LinkFails(c) ==
    /\ link[c].pc \in {"page", "save"}
    /\ LinkMayFail
    /\ LinkEnds(c)
    /\ UNCHANGED <<clientIdField, clientName, companies, card, entity, missFor,
                   edits, outdated>>

-----------------------------------------------------------------------------
(* The environment *)

\* Mutant: a miss does not expire.
AgeOfMiss_None(k) == missFor[k]

AgeOfMiss(k) == IF missFor[k] > 0 THEN missFor[k] - 1 ELSE 0

\* Time passes.
MissesAge ==
    /\ \E k \in TicketClient : missFor[k] > 0
    /\ missFor' = [k \in TicketClient |-> AgeOfMiss(k)]
    /\ UNCHANGED <<clientIdField, clientName, companies, card, entity, link, edits,
                   linkFailures, outdated>>

PeopleMayEdit ==
    /\ edits > 0
    /\ edits' = edits - 1

\* People add, remove, rename and relabel Companies in ClickUp.
EditCompanies ==
    /\ PeopleMayEdit
    /\ \E e \in Company :
          \/ /\ e \notin Listed
             /\ companies' = <<e>> \o companies
             /\ UNCHANGED card
          \/ /\ \E i \in DOMAIN companies :
                   /\ companies[i] = e
                   /\ companies' = SubSeq(companies, 1, i - 1)
                                      \o SubSeq(companies, i + 1, Len(companies))
             /\ UNCHANGED card
          \/ /\ e \in Listed
             /\ \E new \in Card \ {card[e]} : card' = [card EXCEPT ![e] = new]
             /\ UNCHANGED companies
    /\ link' = [c \in Linker |-> [link[c] EXCEPT !.edited = @ \/ link[c].pc \in {"page", "save"}]]
    /\ outdated' = TicketClient
    /\ UNCHANGED <<clientIdField, clientName, entity, missFor, linkFailures>>

\* ClientsService.update renames a client.  Its match and its miss stay as they
\* are, and a lookup goes on with the name its delivery read.
RenameClient(k) ==
    /\ PeopleMayEdit
    /\ \E name \in ClientName \ {clientName[k]} :
          clientName' = [clientName EXCEPT ![k] = name]
    /\ outdated' = outdated \cup {k}
    /\ UNCHANGED <<clientIdField, companies, card, entity, missFor, link, linkFailures>>

\* The setup is repeated after somebody added the CLIENT ID field to the Companies
\* list or removed it.
Setup ==
    /\ PeopleMayEdit
    /\ clientIdField' = ~clientIdField
    /\ outdated' = TicketClient
    /\ UNCHANGED <<clientName, companies, card, entity, missFor, link, linkFailures>>

\* The process restarts with an empty cache.
RestartOfLinks ==
    /\ LinkMayFail
    /\ link' = [c \in Linker |-> NoLink]
    /\ missFor' = [k \in TicketClient |-> 0]
    /\ UNCHANGED <<clientIdField, clientName, companies, card, entity, edits, outdated>>

CompanyNext ==
    \/ \E c \in Linker :
          \/ \E k \in TicketClient : TicketCreated(c, k)
          \/ ResolveClientEntity(c) \/ ReadPage(c) \/ CacheMatch(c) \/ SetCompany(c)
          \/ LinkFails(c)
    \/ \E k \in TicketClient : RenameClient(k)
    \/ MissesAge \/ EditCompanies \/ Setup \/ RestartOfLinks

CompanySpec == CompanyInit /\ [][CompanyNext]_companyVars

-----------------------------------------------------------------------------
(* Safety *)

\* The Companies k may be linked to under a name, with or without the CLIENT ID
\* field, as ClickUp's list is now: those with its id, and only if there are none
\* those with the name.
Fitting(k, name, byId) ==
    LET own == {e \in Listed : byId /\ card[e].code = k}
    IN  IF own # {} THEN own ELSE {e \in Listed : card[e].name = name}

FittingNow(k) == Fitting(k, clientName[k], clientIdField)

\* Nobody guesses: read over several pages, by two strategies, a match is the one
\* Company that fits the client as its delivery read it, unless the list was
\* edited since.
MatchIsTheOnlyOne ==
    \A c \in Linker :
        LET l == link[c] IN
        l.pc = "save" /\ ~l.edited => Fitting(l.k, l.name, l.byId) = {l.company}

\* A trusted miss is right as long as nobody edited the list, renamed the client
\* or repeated the setup since its lookup began: what a client waits for is only
\* ever the expiry of a miss that was right once.
MissWasRight ==
    \A k \in TicketClient :
        missFor[k] > 0 /\ k \notin outdated => Cardinality(FittingNow(k)) # 1

-----------------------------------------------------------------------------
(* Liveness *)

\* A Company that is added to the list, or made the only one that fits by an
\* edit, a rename or a setup, is found without anybody's doing once it stays so:
\* misses expire, and the next ticket's lookup saves the match.
LastingMatchIsFound ==
    \A k \in TicketClient :
        <>[](Cardinality(FittingNow(k)) = 1) => <>(entity[k] # NoCompany)

=============================================================================
