------------------------- MODULE CompanyMatch_proofs -------------------------
(***************************************************************************)
(* Proofs about CompanyMatch, for any clients and names, any finite number *)
(* of Companies in any order, pages of any size, any number of lookups     *)
(* that overlap, edits, renames, setups and failures.                      *)
(***************************************************************************)
EXTENDS CompanyMatch, FiniteSetTheorems, SequenceTheorems, TLAPS

Lookup == [pc : {"idle", "resolve", "page", "save", "link"},
           k : TicketClient \cup {NoCompany},
           known : Company \cup {NoCompany},
           name : ClientName,
           byId : BOOLEAN,
           page : Page,
           seen : Seq(Seen),
           company : Company \cup {NoCompany},
           edited : BOOLEAN]

\* The Companies that fit the client as a lookup knows it.
FittingOf(l) == Fitting(l.k, l.name, l.byId)

\* What MatchIsTheOnlyOne says of one lookup.
MatchHolds(l) == l.pc = "save" /\ ~l.edited => FittingOf(l) = {l.company}

\* A lookup under way is some client's, it has read nothing before it asks for
\* the first page, and what it saves is a Company.
LookupFits(l) ==
    /\ l.pc # "idle" => l.k \in TicketClient
    /\ l.pc = "resolve" => l.seen = <<>> /\ l.page = 0
    /\ l.pc = "save" => l.company \in Company

LookupsFit == \A c \in Linker : LookupFits(link[c])

\* The entry a page shows of the n-th Company.
Entry(n) == [id |-> companies[n], code |-> card[companies[n]].code,
             name |-> card[companies[n]].name]

\* Unless the list was edited meanwhile, the pages read so far are the list's
\* beginning, each Company once and as it is.
ReadsTheList(l) ==
    l.pc = "page" /\ ~l.edited =>
        /\ Len(l.seen) = l.page * PAGE_SIZE
        /\ Len(l.seen) <= Len(companies)
        /\ \A n \in 1 .. Len(l.seen) : l.seen[n] = Entry(n)

PagesAreTheList == \A c \in Linker : ReadsTheList(link[c])

IInv ==
    /\ CompanyTypeOK
    /\ LookupsFit
    /\ PagesAreTheList
    /\ MatchIsTheOnlyOne
    /\ MissWasRight

-----------------------------------------------------------------------------
(* Pages *)

LEMMA ProductGrows ==
    ASSUME NEW a \in Nat, NEW b \in Nat \ {0}
    PROVE  a * b \in Nat /\ (a + 1) * b = a * b + b /\ a * b >= a
OBVIOUS

\* No Company is listed twice, so the list is no longer than there are Companies.
LEMMA ListIsShort ==
    ASSUME CompanyTypeOK
    PROVE  Len(companies) \in Nat /\ Len(companies) <= Cardinality(Company)
<1>1. /\ Len(companies) \in Nat
      /\ companies \in [1 .. Len(companies) -> Company]
      /\ DOMAIN companies = 1 .. Len(companies)
  BY LenProperties DEF CompanyTypeOK
<1>2. companies \in Injection(1 .. Len(companies), Company)
  BY <1>1 DEF CompanyTypeOK, Injection, IsInjective
<1>3. Cardinality(1 .. Len(companies)) <= Cardinality(Company)
  BY <1>2, FS_Injection, CompanyAssumption
<1>4. Cardinality(1 .. Len(companies)) = Len(companies)
  BY <1>1, FS_Interval
<1>5. QED
  BY <1>1, <1>3, <1>4

\* A page is a stretch of the list: a full one unless it is the last.
LEMMA PageIsStretch ==
    ASSUME CompanyTypeOK, NEW page \in Nat
    PROVE  \E size \in 0 .. PAGE_SIZE :
              /\ PageOf(page) = [n \in 1 .. size |-> Entry(page * PAGE_SIZE + n)]
              /\ \A n \in 1 .. size : page * PAGE_SIZE + n \in DOMAIN companies
              /\ ~IsLastPage(page) => size = PAGE_SIZE
              /\ IsLastPage(page) /\ page * PAGE_SIZE <= Len(companies) =>
                    page * PAGE_SIZE + size = Len(companies)
<1> DEFINE first == page * PAGE_SIZE
           len   == Len(companies)
           here  == {n \in DOMAIN companies : first < n /\ n <= first + PAGE_SIZE}
           last  == IF len <= first + PAGE_SIZE THEN len ELSE first + PAGE_SIZE
<1>1. len \in Nat /\ DOMAIN companies = 1 .. len
  BY LenProperties DEF CompanyTypeOK
<1>2. PAGE_SIZE \in Nat \ {0}
  BY CompanyAssumption
<1>3. first \in Nat /\ (page + 1) * PAGE_SIZE = first + PAGE_SIZE
  BY <1>2, ProductGrows
<1> HIDE DEF first, len
<1>4. here = (first + 1) .. last
  BY <1>1, <1>2, <1>3
<1>5. last \in Int /\ Cardinality(here) = IF first + 1 > last THEN 0 ELSE last - first
  <2>1. first + 1 \in Int /\ last \in Int
    BY <1>1, <1>2, <1>3
  <2>2. Cardinality((first + 1) .. last) =
           IF first + 1 > last THEN 0 ELSE last - (first + 1) + 1
    BY <2>1, FS_Interval, Zenon
  <2> HIDE DEF here, last
  <2>3. QED
    BY <2>1, <2>2, <1>3, <1>4
<1> DEFINE size == Cardinality(here)
<1>6. size \in 0 .. PAGE_SIZE
  BY <1>1, <1>2, <1>3, <1>5
<1>7. PageOf(page) = [n \in 1 .. size |-> Entry(first + n)]
  BY DEF PageOf, Entry, first
<1>8. \A n \in 1 .. size : first + n \in DOMAIN companies
  BY <1>1, <1>2, <1>3, <1>5
<1>9. IsLastPage(page) <=> first + PAGE_SIZE >= len
  BY <1>3 DEF IsLastPage, len
<1>10. /\ ~IsLastPage(page) => size = PAGE_SIZE
       /\ IsLastPage(page) /\ first <= len => first + size = len
  BY <1>1, <1>2, <1>3, <1>5, <1>9
<1> HIDE DEF size
<1>11. QED
  BY <1>6, <1>7, <1>8, <1>10 DEF first, len

LEMMA PageType ==
    ASSUME CompanyTypeOK, NEW page \in Nat
    PROVE  PageOf(page) \in Seq(Seen)
<1>1. PICK size \in 0 .. PAGE_SIZE :
          /\ PageOf(page) = [n \in 1 .. size |-> Entry(page * PAGE_SIZE + n)]
          /\ \A n \in 1 .. size : page * PAGE_SIZE + n \in DOMAIN companies
  BY PageIsStretch
<1>2. \A n \in DOMAIN companies : companies[n] \in Company
  BY LenProperties DEF CompanyTypeOK
<1>3. \A n \in 1 .. size : Entry(page * PAGE_SIZE + n) \in Seen
  BY <1>1, <1>2 DEF CompanyTypeOK, Entry, Card, Seen
<1>4. size \in Nat
  BY CompanyAssumption
<1>5. PageOf(page) \in [1 .. size -> Seen]
  BY <1>1, <1>3
<1>6. QED
  BY <1>4, <1>5, SeqDef

\* With a page that is a stretch of the list, what was read is one longer.
LEMMA ReadOn ==
    ASSUME CompanyTypeOK, NEW page \in Nat, NEW seen \in Seq(Seen),
           Len(seen) = page * PAGE_SIZE, Len(seen) <= Len(companies),
           \A n \in 1 .. Len(seen) : seen[n] = Entry(n)
    PROVE  LET now == seen \o PageOf(page) IN
           /\ Len(now) <= Len(companies)
           /\ \A n \in 1 .. Len(now) : now[n] = Entry(n)
           /\ ~IsLastPage(page) => Len(now) = (page + 1) * PAGE_SIZE
           /\ IsLastPage(page) => Len(now) = Len(companies)
<1> DEFINE now == seen \o PageOf(page)
<1>1. PICK size \in 0 .. PAGE_SIZE :
          /\ PageOf(page) = [n \in 1 .. size |-> Entry(page * PAGE_SIZE + n)]
          /\ \A n \in 1 .. size : page * PAGE_SIZE + n \in DOMAIN companies
          /\ ~IsLastPage(page) => size = PAGE_SIZE
          /\ IsLastPage(page) /\ page * PAGE_SIZE <= Len(companies) =>
                page * PAGE_SIZE + size = Len(companies)
  BY PageIsStretch
<1>2. PAGE_SIZE \in Nat \ {0} /\ size \in Nat
  BY CompanyAssumption
<1>3. Len(seen) \in Nat /\ Len(companies) \in Nat /\ DOMAIN companies = 1 .. Len(companies)
  BY LenProperties DEF CompanyTypeOK
<1>4. Len(PageOf(page)) = size /\ \A n \in 1 .. size : PageOf(page)[n] = Entry(Len(seen) + n)
  BY <1>1, <1>2
<1>5. /\ Len(now) = Len(seen) + size
      /\ \A n \in 1 .. Len(seen) + size :
            now[n] = IF n <= Len(seen) THEN seen[n] ELSE PageOf(page)[n - Len(seen)]
  BY <1>4, PageType, ConcatProperties, Zenon
<1> HIDE DEF now
<1>6. Len(now) <= Len(companies)
  <2>1. CASE size = 0
    BY <2>1, <1>3, <1>5
  <2>2. CASE size > 0
    <3>1. size \in 1 .. size
      BY <2>2, <1>2
    <3>2. Len(seen) + size \in DOMAIN companies
      BY <3>1, <1>1
    <3>3. QED
      BY <3>2, <1>3, <1>5
  <2>3. QED
    BY <2>1, <2>2, <1>2
<1>7. ASSUME NEW n \in 1 .. Len(now)
      PROVE  now[n] = Entry(n)
  <2>1. CASE n <= Len(seen)
    BY <2>1, <1>2, <1>3, <1>5
  <2>2. CASE n > Len(seen)
    <3>1. n - Len(seen) \in 1 .. size /\ Len(seen) + (n - Len(seen)) = n
      BY <2>2, <1>2, <1>3, <1>5
    <3>2. PageOf(page)[n - Len(seen)] = Entry(n)
      BY <3>1, <1>4
    <3>3. QED
      BY <3>2, <2>2, <1>2, <1>3, <1>5
  <2>3. QED
    BY <2>1, <2>2, <1>2, <1>3, <1>5
<1>8. (page + 1) * PAGE_SIZE = Len(seen) + PAGE_SIZE
  BY <1>2, ProductGrows
<1>9. QED
  BY <1>1, <1>5, <1>6, <1>7, <1>8 DEF now

\* In the whole list, the entries that match are those of the Companies that fit.
LEMMA MatchesAreFitting ==
    ASSUME CompanyTypeOK, NEW l \in Lookup, NEW seen \in Seq(Seen),
           Len(seen) = Len(companies),
           \A n \in 1 .. Len(seen) : seen[n] = Entry(n)
    PROVE  /\ Matches(l, seen) \subseteq DOMAIN companies
           /\ FittingOf(l) = {companies[n] : n \in Matches(l, seen)}
<1>1. DOMAIN seen = DOMAIN companies /\ DOMAIN companies = 1 .. Len(seen)
  BY LenProperties DEF CompanyTypeOK
<1>2. \A n \in DOMAIN companies : /\ seen[n].code = card[companies[n]].code
                                  /\ seen[n].name = card[companies[n]].name
  BY <1>1 DEF Entry
<1> DEFINE own   == {e \in Listed : l.byId /\ card[e].code = l.k}
           named == {e \in Listed : card[e].name = l.name}
<1>3. own = {companies[n] : n \in ByClientId(l, seen)}
  BY <1>1, <1>2 DEF Listed, ByClientId
<1>4. named = {companies[n] : n \in ByName(l, seen)}
  BY <1>1, <1>2 DEF Listed, ByName
<1>5. own # {} <=> ByClientId(l, seen) # {}
  BY <1>3
<1>6. FittingOf(l) = IF own # {} THEN own ELSE named
  BY DEF FittingOf, Fitting
<1>7. ByClientId(l, seen) \subseteq DOMAIN companies /\ ByName(l, seen) \subseteq DOMAIN companies
  BY <1>1 DEF ByClientId, ByName
<1> HIDE DEF own, named
<1>8. QED
  BY <1>3, <1>4, <1>5, <1>6, <1>7 DEF Matches

\* One entry matches if and only if one Company fits.
LEMMA OneMatchOneFits ==
    ASSUME CompanyTypeOK, NEW l \in Lookup, NEW seen \in Seq(Seen),
           Len(seen) = Len(companies),
           \A n \in 1 .. Len(seen) : seen[n] = Entry(n)
    PROVE  /\ \A n : Matches(l, seen) = {n} => FittingOf(l) = {seen[n].id}
           /\ Cardinality(Matches(l, seen)) # 1 => Cardinality(FittingOf(l)) # 1
<1>1. /\ Matches(l, seen) \subseteq DOMAIN companies
      /\ FittingOf(l) = {companies[n] : n \in Matches(l, seen)}
  BY MatchesAreFitting
<1>2. DOMAIN companies = 1 .. Len(seen) /\ Len(seen) \in Nat
  BY LenProperties DEF CompanyTypeOK
<1>3. ASSUME NEW n \in DOMAIN companies
      PROVE  seen[n].id = companies[n]
  <2>1. seen[n] = Entry(n)
    BY <1>2
  <2>2. QED
    BY <2>1 DEF Entry
<1>4. ASSUME NEW n, Matches(l, seen) = {n}
      PROVE  FittingOf(l) = {seen[n].id}
  BY <1>1, <1>3, <1>4
<1>5. ASSUME Cardinality(FittingOf(l)) = 1
      PROVE  Cardinality(Matches(l, seen)) = 1
  <2>1. Listed \subseteq Company
    BY LenProperties DEF CompanyTypeOK, Listed
  <2>2. IsFiniteSet(FittingOf(l))
    BY <2>1, CompanyAssumption, FS_Subset DEF FittingOf, Fitting
  <2>3. PICK e : FittingOf(l) = {e}
    BY <2>2, <1>5, FS_Singleton
  <2>4. PICK n \in Matches(l, seen) : companies[n] = e
    BY <2>3, <1>1
  <2>5. ASSUME NEW m \in Matches(l, seen)
        PROVE  m = n
    <3>1. companies[m] = e
      BY <2>3, <1>1
    <3>2. QED
      BY <3>1, <2>4, <1>1 DEF CompanyTypeOK
  <2>6. Matches(l, seen) = {n}
    BY <2>4, <2>5
  <2>7. QED
    BY <2>6, FS_Singleton
<1>6. QED
  BY <1>4, <1>5

-----------------------------------------------------------------------------
(* Steps *)

LEMMA NoLinkIsLookup == NoLink \in Lookup /\ NoLink.pc = "idle"
<1>1. 0 \in Page
  BY FS_CardinalityType, CompanyAssumption DEF Page
<1>2. <<>> \in Seq(Seen)
  BY EmptySeq
<1>3. QED
  BY <1>1, <1>2, CompanyAssumption DEF NoLink, Lookup

LEMMA InitIInv == CompanyInit => IInv
<1> SUFFICES ASSUME CompanyInit PROVE IInv
  OBVIOUS
<1>1. PICK n \in 0 .. Cardinality(Company) : companies \in [1 .. n -> Company]
  BY DEF CompanyInit
<1>2. companies \in Seq(Company)
  BY <1>1, FS_CardinalityType, CompanyAssumption, SeqDef
<1>3. CompanyTypeOK
  BY <1>2, NoLinkIsLookup, CompanyAssumption DEF CompanyInit, CompanyTypeOK, Lookup
<1>4. LookupsFit /\ PagesAreTheList /\ MatchIsTheOnlyOne
  BY NoLinkIsLookup DEF CompanyInit, LookupsFit, LookupFits, PagesAreTheList,
                        ReadsTheList, MatchIsTheOnlyOne
<1>5. MissWasRight
  BY DEF CompanyInit, MissWasRight
<1>6. QED
  BY <1>3, <1>4, <1>5 DEF IInv

\* One lookup moves on while the list is as it was.
LEMMA OneLookupMoves ==
    ASSUME IInv, UNCHANGED <<companies, card>>,
           NEW c \in Linker, NEW l \in Lookup, link' = [link EXCEPT ![c] = l],
           LookupFits(l), ReadsTheList(l), MatchHolds(l)
    PROVE  /\ link' \in [Linker -> Lookup]
           /\ LookupsFit'
           /\ PagesAreTheList'
           /\ MatchIsTheOnlyOne'
<1>1. \A k, name, byId : Fitting(k, name, byId)' = Fitting(k, name, byId)
  BY DEF Fitting, Listed
<1>2. \A n : Entry(n)' = Entry(n)
  BY DEF Entry
<1>3. link \in [Linker -> Lookup]
  BY DEF IInv, CompanyTypeOK, Lookup
<1>4. link' \in [Linker -> Lookup] /\ \A x \in Linker : link'[x] = IF x = c THEN l ELSE link[x]
  BY <1>3
<1>5. LookupsFit'
  BY <1>4 DEF IInv, LookupsFit, LookupFits
<1>6. PagesAreTheList'
  BY <1>2, <1>4 DEF IInv, PagesAreTheList, ReadsTheList
<1>7. MatchIsTheOnlyOne'
  BY <1>1, <1>4 DEF IInv, MatchIsTheOnlyOne, MatchHolds, FittingOf
<1>8. QED
  BY <1>4, <1>5, <1>6, <1>7

\* ... and so it is with the misses.
LEMMA MissesStay ==
    ASSUME IInv, UNCHANGED <<clientIdField, clientName, companies, card, missFor, outdated>>
    PROVE  MissWasRight'
<1>1. \A k, name, byId : Fitting(k, name, byId)' = Fitting(k, name, byId)
  BY DEF Fitting, Listed
<1>2. QED
  BY <1>1 DEF IInv, MissWasRight, FittingNow

LEMMA TicketCreatedIInv ==
    ASSUME IInv, NEW c \in Linker, NEW k \in TicketClient, TicketCreated(c, k)
    PROVE  IInv'
<1> DEFINE l == [NoLink EXCEPT !.pc = "resolve", !.k = k, !.known = entity[k],
                             !.name = clientName[k]]
<1>1. l \in Lookup /\ LookupFits(l) /\ ReadsTheList(l) /\ MatchHolds(l)
  BY NoLinkIsLookup
     DEF IInv, CompanyTypeOK, Lookup, NoLink, LookupFits, ReadsTheList, MatchHolds
<1>2. link' = [link EXCEPT ![c] = l]
  BY DEF TicketCreated
<1> HIDE DEF l
<1>3. /\ link' \in [Linker -> Lookup]
      /\ LookupsFit' /\ PagesAreTheList' /\ MatchIsTheOnlyOne'
  BY <1>1, <1>2, OneLookupMoves DEF TicketCreated
<1>4. MissWasRight'
  BY MissesStay DEF TicketCreated
<1>5. CompanyTypeOK'
  BY <1>3 DEF IInv, CompanyTypeOK, Lookup, TicketCreated
<1>6. QED
  BY <1>3, <1>4, <1>5 DEF IInv

LEMMA ResolveIInv ==
    ASSUME IInv, NEW c \in Linker, ResolveClientEntity(c)
    PROVE  IInv'
<1>1. link[c] \in Lookup /\ LookupFits(link[c]) /\ link[c].pc = "resolve"
  BY DEF IInv, CompanyTypeOK, Lookup, LookupsFit, ResolveClientEntity
<1>2. missFor[link[c].k] \in Nat
  BY <1>1, CompanyAssumption DEF IInv, CompanyTypeOK, LookupFits
<1>3. PICK l : /\ link' = [link EXCEPT ![c] = l]
               /\ \/ l = [link[c] EXCEPT !.pc = "link", !.company = link[c].known]
                  \/ l = NoLink
                  \/ l = [link[c] EXCEPT !.pc = "page", !.byId = clientIdField]
  <2>1. CASE link[c].known # NoCompany
    BY <2>1 DEF ResolveClientEntity
  <2>2. CASE link[c].known = NoCompany /\ missFor[link[c].k] > 0
    <3>1. missFor[link[c].k] # 0
      BY <2>2, <1>2
    <3>2. link' = [link EXCEPT ![c] = NoLink]
      BY <2>2, <3>1 DEF ResolveClientEntity
    <3>3. QED
      BY <3>2
  <2>3. CASE link[c].known = NoCompany /\ missFor[link[c].k] = 0
    <3>1. ~(missFor[link[c].k] > 0)
      BY <2>3
    <3>2. link' = [link EXCEPT ![c] = [link[c] EXCEPT !.pc = "page", !.byId = clientIdField]]
      BY <2>3, <3>1 DEF ResolveClientEntity
    <3>3. QED
      BY <3>2
  <2>4. QED
    BY <2>1, <2>2, <2>3, <1>2
<1>4. l \in Lookup /\ LookupFits(l) /\ MatchHolds(l)
  BY <1>1, <1>3, NoLinkIsLookup DEF IInv, CompanyTypeOK, Lookup, LookupFits, MatchHolds
<1>5. ReadsTheList(l)
  <2>1. CASE l = [link[c] EXCEPT !.pc = "page", !.byId = clientIdField]
    <3>1. l.seen = <<>> /\ l.page = 0
      BY <2>1, <1>1 DEF Lookup, LookupFits
    <3>2. Len(l.seen) = 0 /\ 0 * PAGE_SIZE = 0
      BY <3>1, CompanyAssumption
    <3>3. Len(companies) \in Nat
      BY LenProperties DEF IInv, CompanyTypeOK
    <3>4. QED
      BY <3>1, <3>2, <3>3 DEF ReadsTheList
  <2>2. CASE l.pc # "page"
    BY <2>2 DEF ReadsTheList
  <2>3. QED
    BY <2>1, <2>2, <1>1, <1>3, NoLinkIsLookup DEF Lookup
<1>6. /\ link' \in [Linker -> Lookup]
      /\ LookupsFit' /\ PagesAreTheList' /\ MatchIsTheOnlyOne'
  BY <1>3, <1>4, <1>5, OneLookupMoves DEF ResolveClientEntity
<1>7. MissWasRight'
  BY MissesStay DEF ResolveClientEntity
<1>8. CompanyTypeOK'
  BY <1>6 DEF IInv, CompanyTypeOK, Lookup, ResolveClientEntity
<1>9. QED
  BY <1>6, <1>7, <1>8 DEF IInv

\* A lookup that ends leaves everything else as it is.
LEMMA LinkEndsIInv ==
    ASSUME IInv, NEW c \in Linker, LinkEnds(c),
           UNCHANGED <<clientIdField, clientName, companies, card, entity, missFor,
                       edits, outdated>>,
           linkFailures' \in 0 .. MaxLinkFailures
    PROVE  IInv'
<1>1. LookupFits(NoLink) /\ ReadsTheList(NoLink) /\ MatchHolds(NoLink)
  BY NoLinkIsLookup DEF LookupFits, ReadsTheList, MatchHolds
<1>2. /\ link' \in [Linker -> Lookup]
      /\ LookupsFit' /\ PagesAreTheList' /\ MatchIsTheOnlyOne'
  BY <1>1, NoLinkIsLookup, OneLookupMoves DEF LinkEnds
<1>3. MissWasRight'
  BY MissesStay
<1>4. CompanyTypeOK'
  BY <1>2 DEF IInv, CompanyTypeOK, Lookup
<1>5. QED
  BY <1>2, <1>3, <1>4 DEF IInv

LEMMA CacheMatchIInv ==
    ASSUME IInv, NEW c \in Linker, CacheMatch(c)
    PROVE  IInv'
<1> DEFINE l == [link[c] EXCEPT !.pc = "link"]
<1>1. link[c] \in Lookup /\ LookupFits(link[c]) /\ link[c].pc = "save"
  BY DEF IInv, CompanyTypeOK, Lookup, LookupsFit, CacheMatch
<1>2. l \in Lookup /\ LookupFits(l) /\ ReadsTheList(l) /\ MatchHolds(l)
  BY <1>1 DEF Lookup, LookupFits, ReadsTheList, MatchHolds
<1>3. link' = [link EXCEPT ![c] = l]
  BY <1>1 DEF CacheMatch
<1> HIDE DEF l
<1>4. /\ link' \in [Linker -> Lookup]
      /\ LookupsFit' /\ PagesAreTheList' /\ MatchIsTheOnlyOne'
  BY <1>2, <1>3, OneLookupMoves DEF CacheMatch
<1>5. MissWasRight'
  BY MissesStay DEF CacheMatch
<1>6. entity' \in [TicketClient -> Company \cup {NoCompany}]
  BY <1>1 DEF IInv, CompanyTypeOK, LookupFits, CacheMatch
<1>7. CompanyTypeOK'
  BY <1>4, <1>6 DEF IInv, CompanyTypeOK, Lookup, CacheMatch
<1>8. QED
  BY <1>4, <1>5, <1>7 DEF IInv

LEMMA ReadPageIInv ==
    ASSUME IInv, NEW c \in Linker, ReadPage(c)
    PROVE  IInv'
<1> DEFINE page == link[c].page
           seen == link[c].seen
           now  == seen \o PageOf(page)
           k    == link[c].k
<1>1. /\ link[c] \in Lookup /\ link[c].pc = "page"
      /\ k \in TicketClient /\ ReadsTheList(link[c])
  BY DEF IInv, CompanyTypeOK, Lookup, LookupsFit, LookupFits, PagesAreTheList, ReadPage
<1>2. page \in Page /\ page \in Nat /\ seen \in Seq(Seen) /\ link[c].edited \in BOOLEAN
  BY <1>1, FS_CardinalityType, CompanyAssumption DEF Lookup, Page
<1>3. now \in Seq(Seen) /\ CompanyTypeOK
  BY <1>2, PageType, ConcatProperties DEF IInv
<1>4. ASSUME ~link[c].edited
      PROVE  /\ Len(now) <= Len(companies)
             /\ \A n \in 1 .. Len(now) : now[n] = Entry(n)
             /\ ~IsLastPage(page) => Len(now) = (page + 1) * PAGE_SIZE
             /\ IsLastPage(page) => Len(now) = Len(companies)
  <2>1. /\ Len(seen) = page * PAGE_SIZE /\ Len(seen) <= Len(companies)
        /\ \A n \in 1 .. Len(seen) : seen[n] = Entry(n)
    BY <1>1, <1>4 DEF ReadsTheList
  <2>2. QED
    BY <2>1, <1>2, <1>3, ReadOn
<1>5. ASSUME ~link[c].edited, IsLastPage(page)
      PROVE  /\ \A n : Matches(link[c], now) = {n} => FittingOf(link[c]) = {now[n].id}
             /\ Cardinality(Matches(link[c], now)) # 1 => Cardinality(FittingOf(link[c])) # 1
  <2>1. Len(now) = Len(companies) /\ \A n \in 1 .. Len(now) : now[n] = Entry(n)
    BY <1>4, <1>5
  <2> HIDE DEF now
  <2>2. QED
    BY <2>1, <1>1, <1>3, OneMatchOneFits
<1>6. UNCHANGED <<clientIdField, clientName, companies, card, entity, edits, linkFailures>>
  BY DEF ReadPage
<1>7. CASE /\ ~IsLastPage(page)
           /\ link' = [link EXCEPT ![c].page = page + 1, ![c].seen = now]
           /\ UNCHANGED <<missFor, outdated>>
  <2> DEFINE l == [link[c] EXCEPT !.page = page + 1, !.seen = now]
  <2>1. page + 1 \in Page
    <3>1. Len(companies) \in Nat /\ Len(companies) <= Cardinality(Company)
      BY <1>3, ListIsShort
    <3>2. (page + 1) * PAGE_SIZE < Len(companies)
      BY <1>7, <1>2, <3>1, CompanyAssumption DEF IsLastPage
    <3>3. (page + 1) * PAGE_SIZE \in Nat /\ (page + 1) * PAGE_SIZE >= page + 1
      <4>1. page + 1 \in Nat /\ PAGE_SIZE \in Nat \ {0}
        BY <1>2, CompanyAssumption
      <4>2. QED
        BY <4>1, ProductGrows, Zenon
    <3>4. Cardinality(Company) \in Nat
      BY FS_CardinalityType, CompanyAssumption
    <3>5. QED
      BY <3>1, <3>2, <3>3, <3>4, <1>2 DEF Page
  <2>2. l \in Lookup /\ l.pc = "page" /\ l.k = k /\ l.page = page + 1 /\ l.seen = now
        /\ l.edited = link[c].edited
    BY <2>1, <1>1, <1>3 DEF Lookup
  <2>3. link' = [link EXCEPT ![c] = l]
    BY <1>7, <1>1 DEF IInv, CompanyTypeOK
  <2> HIDE DEF l
  <2>4. LookupFits(l) /\ MatchHolds(l)
    BY <2>2, <1>1 DEF LookupFits, MatchHolds
  <2>5. ReadsTheList(l)
    BY <2>2, <1>4, <1>7 DEF ReadsTheList
  <2>6. /\ link' \in [Linker -> Lookup]
        /\ LookupsFit' /\ PagesAreTheList' /\ MatchIsTheOnlyOne'
    BY <2>2, <2>3, <2>4, <2>5, <1>6, OneLookupMoves
  <2>7. MissWasRight'
    BY <1>6, <1>7, MissesStay
  <2>8. CompanyTypeOK'
    BY <2>6, <1>6, <1>7 DEF IInv, CompanyTypeOK, Lookup
  <2>9. QED
    BY <2>6, <2>7, <2>8 DEF IInv
<1>8. CASE /\ IsLastPage(page)
           /\ \E n \in Matches(link[c], now) :
                 /\ Matches(link[c], now) = {n}
                 /\ link' = [link EXCEPT ![c].pc = "save", ![c].company = now[n].id,
                                         ![c].seen = <<>>]
           /\ UNCHANGED <<missFor, outdated>>
  <2>1. PICK n \in Matches(link[c], now) :
           /\ Matches(link[c], now) = {n}
           /\ link' = [link EXCEPT ![c].pc = "save", ![c].company = now[n].id,
                                   ![c].seen = <<>>]
    BY <1>8
  <2>2. n \in DOMAIN now
    BY <2>1 DEF Matches, ByClientId, ByName
  <2>3. now[n].id \in Company
    <3>1. now[n] \in Seen
      BY <2>2, <1>3, LenProperties, Zenon
    <3>2. QED
      BY <3>1 DEF Seen
  <2> DEFINE l == [link[c] EXCEPT !.pc = "save", !.company = now[n].id, !.seen = <<>>]
  <2>4. <<>> \in Seq(Seen)
    BY EmptySeq
  <2>5. l \in Lookup /\ l.pc = "save" /\ l.k = k /\ l.company = now[n].id
        /\ l.name = link[c].name /\ l.byId = link[c].byId /\ l.edited = link[c].edited
    BY <2>3, <2>4, <1>1 DEF Lookup
  <2>6. link' = [link EXCEPT ![c] = l]
    BY <2>1, <1>1 DEF IInv, CompanyTypeOK
  <2> HIDE DEF l
  <2>7. LookupFits(l) /\ ReadsTheList(l)
    BY <2>3, <2>5, <1>1 DEF LookupFits, ReadsTheList
  <2>8. MatchHolds(l)
    BY <2>1, <2>5, <1>5, <1>8 DEF MatchHolds, FittingOf
  <2>9. /\ link' \in [Linker -> Lookup]
        /\ LookupsFit' /\ PagesAreTheList' /\ MatchIsTheOnlyOne'
    BY <2>5, <2>6, <2>7, <2>8, <1>6, OneLookupMoves
  <2>10. MissWasRight'
    BY <1>6, <1>8, MissesStay
  <2>11. CompanyTypeOK'
    BY <2>9, <1>6, <1>8 DEF IInv, CompanyTypeOK, Lookup
  <2>12. QED
    BY <2>9, <2>10, <2>11 DEF IInv
<1>9. CASE /\ IsLastPage(page)
           /\ Cardinality(Matches(link[c], now)) # 1
           /\ missFor' = [missFor EXCEPT ![k] = NO_MATCH_CACHE_TTL]
           /\ outdated' = IF Overtaken(link[c]) THEN outdated \cup {k} ELSE outdated \ {k}
           /\ LinkEnds(c)
  <2>1. LookupFits(NoLink) /\ ReadsTheList(NoLink) /\ MatchHolds(NoLink)
    BY NoLinkIsLookup DEF LookupFits, ReadsTheList, MatchHolds
  <2>2. /\ link' \in [Linker -> Lookup]
        /\ LookupsFit' /\ PagesAreTheList' /\ MatchIsTheOnlyOne'
    BY <2>1, <1>6, <1>9, NoLinkIsLookup, OneLookupMoves DEF LinkEnds
  <2>3. \A x : FittingNow(x)' = FittingNow(x)
    BY <1>6 DEF FittingNow, Fitting, Listed
  <2>4. ASSUME NEW x \in TicketClient, missFor'[x] > 0, x \notin outdated'
        PROVE  Cardinality(FittingNow(x)) # 1
    <3>1. CASE x = k
      <4>1. ~Overtaken(link[c])
        BY <2>4, <3>1, <1>9
      <4>2. ~link[c].edited /\ FittingNow(k) = FittingOf(link[c])
        BY <4>1 DEF Overtaken, FittingNow, FittingOf
      <4>3. QED
        BY <4>2, <3>1, <1>5, <1>9
    <3>2. CASE x # k
      <4>1. missFor[x] > 0 /\ x \notin outdated
        BY <2>4, <3>2, <1>9 DEF IInv, CompanyTypeOK
      <4>2. QED
        BY <4>1 DEF IInv, MissWasRight
    <3>3. QED
      BY <3>1, <3>2
  <2>5. MissWasRight'
    BY <2>3, <2>4 DEF MissWasRight
  <2>6. missFor' \in [TicketClient -> 0 .. NO_MATCH_CACHE_TTL]
    <3>1. NO_MATCH_CACHE_TTL \in 0 .. NO_MATCH_CACHE_TTL
      BY CompanyAssumption
    <3>2. QED
      BY <3>1, <1>9 DEF IInv, CompanyTypeOK
  <2>7. outdated' \subseteq TicketClient
    BY <1>1, <1>9 DEF IInv, CompanyTypeOK
  <2>8. CompanyTypeOK'
    BY <2>2, <2>6, <2>7, <1>6 DEF IInv, CompanyTypeOK, Lookup
  <2>9. QED
    BY <2>2, <2>5, <2>8 DEF IInv
<1>10. QED
  BY <1>7, <1>8, <1>9 DEF ReadPage

\* Lookups under way look in the list as it was, with the name they know.
LEMMA LookupsGoOn ==
    ASSUME IInv, UNCHANGED <<companies, card, link>>
    PROVE  LookupsFit' /\ PagesAreTheList' /\ MatchIsTheOnlyOne'
<1>1. \A k, name, byId : Fitting(k, name, byId)' = Fitting(k, name, byId)
  BY DEF Fitting, Listed
<1>2. \A n : Entry(n)' = Entry(n)
  BY DEF Entry
<1>3. QED
  BY <1>1, <1>2 DEF IInv, LookupsFit, LookupFits, PagesAreTheList, ReadsTheList,
                    MatchIsTheOnlyOne

LEMMA MissesAgeIInv == ASSUME IInv, MissesAge PROVE IInv'
<1>1. UNCHANGED <<clientIdField, clientName, companies, card, entity, link, edits,
                linkFailures, outdated>>
  BY DEF MissesAge
<1>2. \A k : FittingNow(k)' = FittingNow(k)
  BY <1>1 DEF FittingNow, Fitting, Listed
<1>3. \A k \in TicketClient : /\ missFor'[k] \in 0 .. NO_MATCH_CACHE_TTL
                              /\ missFor'[k] > 0 => missFor[k] > 0
  BY CompanyAssumption DEF IInv, CompanyTypeOK, MissesAge, AgeOfMiss
<1>4. CompanyTypeOK'
  BY <1>1, <1>3 DEF IInv, CompanyTypeOK, MissesAge
<1>5. MissWasRight'
  BY <1>1, <1>2, <1>3 DEF IInv, MissWasRight
<1>6. QED
  BY <1>1, <1>4, <1>5, LookupsGoOn DEF IInv

LEMMA RestOfList ==
    ASSUME NEW s \in Seq(Company), NEW i \in 1 .. Len(s)
    PROVE  LET after == SubSeq(s, i + 1, Len(s)) IN
           /\ after \in Seq(Company)
           /\ Len(after) = Len(s) - i
           /\ \A n \in 1 .. Len(s) - i : after[n] = s[i + n]
<1> DEFINE m == i + 1
           after == SubSeq(s, m, Len(s))
<1>1. Len(s) \in Nat /\ m \in Int /\ \A n \in m .. Len(s) : s[n] \in Company
  BY LenProperties
<1> HIDE DEF m
<1>2. /\ after \in Seq(Company)
      /\ Len(after) = IF m <= Len(s) THEN Len(s) - m + 1 ELSE 0
      /\ \A n \in 1 .. Len(s) - m + 1 : after[n] = s[m + n - 1]
  BY <1>1, SubSeqProperties
<1> HIDE DEF after
<1>3. QED
  BY <1>1, <1>2 DEF m, after

\* A list with one Company more, or one less, lists none twice.
LEMMA EditedListType ==
    ASSUME CompanyTypeOK, EditCompanies
    PROVE  /\ companies' \in Seq(Company)
           /\ \A m, n \in DOMAIN companies' : companies'[m] = companies'[n] => m = n
<1>1. /\ Len(companies) \in Nat /\ DOMAIN companies = 1 .. Len(companies)
      /\ \A n \in 1 .. Len(companies) : companies[n] \in Company
  BY LenProperties DEF CompanyTypeOK
<1>2. PICK e \in Company :
         \/ e \notin Listed /\ companies' = <<e>> \o companies
         \/ \E i \in DOMAIN companies :
               companies' = SubSeq(companies, 1, i - 1)
                               \o SubSeq(companies, i + 1, Len(companies))
         \/ UNCHANGED companies
  BY DEF EditCompanies
<1>3. CASE e \notin Listed /\ companies' = <<e>> \o companies
  <2>1. <<e>> \in Seq(Company) /\ Len(<<e>>) = 1 /\ <<e>>[1] = e
    OBVIOUS
  <2>2. /\ companies' \in Seq(Company)
        /\ Len(companies') = 1 + Len(companies)
        /\ \A i \in 1 .. 1 + Len(companies) :
              companies'[i] = IF i <= 1 THEN <<e>>[i] ELSE companies[i - 1]
    BY <2>1, <1>3, ConcatProperties DEF CompanyTypeOK
  <2>3. DOMAIN companies' = 1 .. 1 + Len(companies)
    BY <2>2, LenProperties
  <2>4. ASSUME NEW i \in 1 .. 1 + Len(companies)
        PROVE  \/ i = 1 /\ companies'[i] = e
               \/ i - 1 \in DOMAIN companies /\ companies'[i] = companies[i - 1]
    <3>1. CASE i = 1
      BY <3>1, <2>1, <2>2
    <3>2. CASE i > 1
      BY <3>2, <2>2, <1>1
    <3>3. QED
      BY <3>1, <3>2, <1>1
  <2>5. \A i \in DOMAIN companies : companies[i] # e
    BY <1>3 DEF Listed
  <2>6. ASSUME NEW m \in DOMAIN companies', NEW n \in DOMAIN companies',
               companies'[m] = companies'[n]
        PROVE  m = n
    <3>1. m \in 1 .. 1 + Len(companies) /\ n \in 1 .. 1 + Len(companies)
      BY <2>3
    <3>2. CASE m = 1 \/ n = 1
      BY <3>1, <3>2, <2>4, <2>5, <2>6
    <3>3. CASE m # 1 /\ n # 1
      <4>1. /\ m - 1 \in DOMAIN companies /\ n - 1 \in DOMAIN companies
            /\ companies[m - 1] = companies[n - 1]
        BY <3>1, <3>3, <2>4, <2>6
      <4>2. m - 1 = n - 1
        BY <4>1 DEF CompanyTypeOK
      <4>3. QED
        BY <4>2, <3>1, <1>1
    <3>4. QED
      BY <3>2, <3>3
  <2>7. QED
    BY <2>2, <2>6
<1>4. CASE \E i \in DOMAIN companies :
              companies' = SubSeq(companies, 1, i - 1)
                              \o SubSeq(companies, i + 1, Len(companies))
  <2>1. PICK i \in 1 .. Len(companies) :
              companies' = SubSeq(companies, 1, i - 1)
                              \o SubSeq(companies, i + 1, Len(companies))
    BY <1>1, <1>4
  <2> DEFINE before == SubSeq(companies, 1, i - 1)
             after  == SubSeq(companies, i + 1, Len(companies))
  <2>2. /\ before \in Seq(Company) /\ Len(before) = i - 1
        /\ \A n \in 1 .. i - 1 : before[n] = companies[n]
    BY <1>1
  <2>3. /\ after \in Seq(Company) /\ Len(after) = Len(companies) - i
        /\ \A n \in 1 .. Len(companies) - i : after[n] = companies[i + n]
    BY <1>1, RestOfList DEF CompanyTypeOK
  <2> HIDE DEF before, after
  <2>4. companies' = before \o after
    BY <2>1 DEF before, after
  <2>5. /\ companies' \in Seq(Company)
        /\ Len(companies') = Len(companies) - 1
        /\ \A n \in 1 .. Len(companies) - 1 :
              companies'[n] = IF n <= i - 1 THEN before[n] ELSE after[n - (i - 1)]
    <3>1. /\ before \o after \in Seq(Company)
          /\ Len(before \o after) = Len(before) + Len(after)
          /\ \A n \in 1 .. Len(before) + Len(after) :
                (before \o after)[n] = IF n <= Len(before) THEN before[n]
                                                           ELSE after[n - Len(before)]
      BY <2>2, <2>3, ConcatProperties
    <3>2. Len(before) + Len(after) = Len(companies) - 1
      BY <2>2, <2>3, <1>1
    <3>3. QED
      BY <3>1, <3>2, <2>2, <2>4
  <2>6. DOMAIN companies' = 1 .. Len(companies) - 1
    BY <2>5, LenProperties
  <2>7. ASSUME NEW n \in 1 .. Len(companies) - 1
        PROVE  companies'[n] = companies[IF n < i THEN n ELSE n + 1]
    <3>1. CASE n < i
      BY <3>1, <2>2, <2>5, <1>1
    <3>2. CASE n >= i
      <4>1. n - (i - 1) \in 1 .. Len(companies) - i /\ i + (n - (i - 1)) = n + 1
        BY <3>2, <1>1
      <4>2. companies'[n] = after[n - (i - 1)]
        BY <3>2, <2>5, <1>1
      <4>3. QED
        BY <4>1, <4>2, <3>2, <2>3, <1>1
    <3>3. QED
      BY <3>1, <3>2, <1>1
  <2>8. ASSUME NEW m \in DOMAIN companies', NEW n \in DOMAIN companies',
               companies'[m] = companies'[n]
        PROVE  m = n
    <3> DEFINE at(x) == IF x < i THEN x ELSE x + 1
    <3>1. m \in 1 .. Len(companies) - 1 /\ n \in 1 .. Len(companies) - 1
      BY <2>6, <2>8
    <3>2. at(m) \in DOMAIN companies /\ at(n) \in DOMAIN companies
      BY <3>1, <1>1
    <3>3. companies[at(m)] = companies[at(n)]
      BY <3>1, <2>7, <2>8
    <3>4. at(m) = at(n)
      BY <3>2, <3>3 DEF CompanyTypeOK
    <3>5. QED
      BY <3>4, <3>1, <1>1
  <2>9. QED
    BY <2>5, <2>8
<1>5. QED
  BY <1>2, <1>3, <1>4 DEF CompanyTypeOK

LEMMA EditsShrink ==
    ASSUME IInv, PeopleMayEdit
    PROVE  edits' \in 0 .. MaxEdits
BY CompanyAssumption DEF IInv, CompanyTypeOK, PeopleMayEdit

LEMMA EditCompaniesIInv == ASSUME IInv, EditCompanies PROVE IInv'
<1>1. /\ link' = [c \in Linker |->
                    [link[c] EXCEPT !.edited = @ \/ link[c].pc \in {"page", "save"}]]
      /\ outdated' = TicketClient
      /\ PeopleMayEdit
      /\ UNCHANGED <<clientIdField, clientName, entity, missFor, linkFailures>>
  BY DEF EditCompanies
<1>2. link \in [Linker -> Lookup]
  BY DEF IInv, CompanyTypeOK, Lookup
<1>3. \A c \in Linker :
         /\ link'[c] \in Lookup
         /\ link'[c].pc = link[c].pc /\ link'[c].k = link[c].k
         /\ link'[c].seen = link[c].seen /\ link'[c].page = link[c].page
         /\ link'[c].company = link[c].company
         /\ link[c].pc \in {"page", "save"} => link'[c].edited
  BY <1>1, <1>2 DEF Lookup
<1>4. link' \in [Linker -> Lookup]
  BY <1>1, <1>3
<1>5. LookupsFit'
  BY <1>3 DEF IInv, LookupsFit, LookupFits
<1>6. PagesAreTheList' /\ MatchIsTheOnlyOne'
  BY <1>3 DEF PagesAreTheList, ReadsTheList, MatchIsTheOnlyOne
<1>7. MissWasRight'
  BY <1>1 DEF MissWasRight
<1>8. card' \in [Company -> Card]
  BY DEF EditCompanies, IInv, CompanyTypeOK
<1>9. edits' \in 0 .. MaxEdits
  BY <1>1, EditsShrink
<1>10. CompanyTypeOK'
  BY <1>1, <1>4, <1>8, <1>9, EditedListType DEF IInv, CompanyTypeOK, Lookup
<1>11. QED
  BY <1>5, <1>6, <1>7, <1>10 DEF IInv

\* Only the misses of the renamed client are about another name.
LEMMA RenameClientIInv ==
    ASSUME IInv, NEW k \in TicketClient, RenameClient(k)
    PROVE  IInv'
<1>1. /\ outdated' = outdated \cup {k}
      /\ PeopleMayEdit
      /\ UNCHANGED <<clientIdField, companies, card, entity, missFor, link, linkFailures>>
  BY DEF RenameClient
<1>2. /\ clientName' \in [TicketClient -> ClientName]
      /\ \A x \in TicketClient \ {k} : clientName'[x] = clientName[x]
  BY DEF RenameClient, IInv, CompanyTypeOK
<1>3. ASSUME NEW x \in TicketClient, x # k
      PROVE  FittingNow(x)' = FittingNow(x)
  <2>1. clientName'[x] = clientName[x] /\ clientIdField' = clientIdField
    BY <1>1, <1>2, <1>3
  <2>2. \A name, byId : Fitting(x, name, byId)' = Fitting(x, name, byId)
    BY <1>1 DEF Fitting, Listed
  <2>3. QED
    BY <2>1, <2>2 DEF FittingNow
<1>4. MissWasRight'
  BY <1>1, <1>3 DEF IInv, MissWasRight
<1>5. CompanyTypeOK'
  BY <1>1, <1>2, EditsShrink DEF IInv, CompanyTypeOK
<1>6. QED
  BY <1>1, <1>4, <1>5, LookupsGoOn DEF IInv

LEMMA SetupIInv == ASSUME IInv, Setup PROVE IInv'
<1>1. /\ outdated' = TicketClient
      /\ clientIdField' \in BOOLEAN
      /\ PeopleMayEdit
      /\ UNCHANGED <<clientName, companies, card, entity, missFor, link, linkFailures>>
  BY DEF Setup
<1>2. MissWasRight'
  BY <1>1 DEF MissWasRight
<1>3. CompanyTypeOK'
  BY <1>1, EditsShrink DEF IInv, CompanyTypeOK
<1>4. QED
  BY <1>1, <1>2, <1>3, LookupsGoOn DEF IInv

LEMMA FailuresShrink ==
    ASSUME IInv, LinkMayFail
    PROVE  linkFailures' \in 0 .. MaxLinkFailures
BY CompanyAssumption DEF IInv, CompanyTypeOK, LinkMayFail

LEMMA RestartIInv == ASSUME IInv, RestartOfLinks PROVE IInv'
<1>1. \A c \in Linker : link'[c] = NoLink
  BY DEF RestartOfLinks
<1>2. LookupsFit' /\ PagesAreTheList' /\ MatchIsTheOnlyOne'
  BY <1>1, NoLinkIsLookup
     DEF LookupsFit, LookupFits, PagesAreTheList, ReadsTheList, MatchIsTheOnlyOne
<1>3. MissWasRight'
  BY DEF MissWasRight, RestartOfLinks
<1>4. link' \in [Linker -> Lookup]
  BY NoLinkIsLookup DEF RestartOfLinks
<1>5. missFor' \in [TicketClient -> 0 .. NO_MATCH_CACHE_TTL]
  BY CompanyAssumption DEF RestartOfLinks
<1>6. CompanyTypeOK'
  BY <1>4, <1>5, FailuresShrink DEF IInv, CompanyTypeOK, Lookup, RestartOfLinks
<1>7. QED
  BY <1>2, <1>3, <1>6 DEF IInv

LEMMA NextIInv == ASSUME IInv, CompanyNext PROVE IInv'
<1>1. ASSUME NEW c \in Linker, NEW k \in TicketClient, TicketCreated(c, k) PROVE IInv'
  BY <1>1, TicketCreatedIInv
<1>2. ASSUME NEW c \in Linker, ResolveClientEntity(c) PROVE IInv'
  BY <1>2, ResolveIInv
<1>3. ASSUME NEW c \in Linker, ReadPage(c) PROVE IInv'
  BY <1>3, ReadPageIInv
<1>4. ASSUME NEW c \in Linker, CacheMatch(c) PROVE IInv'
  BY <1>4, CacheMatchIInv
<1>5. ASSUME NEW c \in Linker, SetCompany(c) PROVE IInv'
  <2>1. linkFailures' \in 0 .. MaxLinkFailures
    BY <1>5 DEF SetCompany, IInv, CompanyTypeOK
  <2>2. QED
    BY <2>1, <1>5, LinkEndsIInv DEF SetCompany
<1>6. ASSUME NEW c \in Linker, LinkFails(c) PROVE IInv'
  BY <1>6, FailuresShrink, LinkEndsIInv DEF LinkFails
<1>7. CASE MissesAge
  BY <1>7, MissesAgeIInv
<1>8. CASE EditCompanies
  BY <1>8, EditCompaniesIInv
<1>9. CASE RestartOfLinks
  BY <1>9, RestartIInv
<1>10. ASSUME NEW k \in TicketClient, RenameClient(k) PROVE IInv'
  BY <1>10, RenameClientIInv
<1>11. CASE Setup
  BY <1>11, SetupIInv
<1>12. QED
  BY <1>1, <1>2, <1>3, <1>4, <1>5, <1>6, <1>7, <1>8, <1>9, <1>10, <1>11
     DEF CompanyNext

LEMMA StutterIInv == ASSUME IInv, UNCHANGED companyVars PROVE IInv'
<1>1. CompanyTypeOK'
  BY DEF IInv, CompanyTypeOK, companyVars
<1>2. LookupsFit' /\ PagesAreTheList' /\ MatchIsTheOnlyOne'
  BY LookupsGoOn DEF companyVars
<1>3. MissWasRight'
  BY MissesStay DEF companyVars
<1>4. QED
  BY <1>1, <1>2, <1>3 DEF IInv

LEMMA AlwaysIInv == CompanySpec => []IInv
<1>1. IInv /\ [CompanyNext]_companyVars => IInv'
  BY NextIInv, StutterIInv
<1>2. QED
  BY <1>1, InitIInv, PTL DEF CompanySpec

-----------------------------------------------------------------------------
(* Theorems *)

\* The variables keep their types: above all the list never holds a Company
\* twice, and the loop asks for no page that no list of Companies could have.
THEOREM TypesOfCompanies == CompanySpec => []CompanyTypeOK
BY AlwaysIInv, PTL DEF IInv

\* resolveClientEntityId saves a match only if it is the one Company of the
\* whole list that fits the client as its delivery read it, however many pages
\* the list was read from and however many lookups overlap, unless the list was
\* edited meanwhile.
THEOREM OnlyTheOneFittingIsSaved == CompanySpec => []MatchIsTheOnlyOne
BY AlwaysIInv, PTL DEF IInv

\* noMatchCache denies a client no Company that fitted it when its miss was read:
\* a trusted miss, though it was found under a name and a setup read awaits
\* before, is right as long as the list is not edited, the client not renamed and
\* the setup not repeated.
THEOREM MissesWereRight == CompanySpec => []MissWasRight
BY AlwaysIInv, PTL DEF IInv

=============================================================================
