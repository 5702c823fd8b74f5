---------------------------- MODULE Catalog_proofs ----------------------------
(***************************************************************************)
(* Proofs about Catalog, for any clients, any finite number of sites, any  *)
(* feedback, any number of dashboard requests, imports (of files of any    *)
(* rows) and removals at once, any number of attempts and of failures.     *)
(***************************************************************************)
EXTENDS Catalog, FiniteSetTheorems, SequenceTheorems, TLAPS

\* What is on file was given its id, and feedback has the site it was left at.
BornFit ==
    /\ \A c \in Client : Exists(c) => c \in born
    /\ \A s \in Site : site[s] # NoSite => s \in born
    /\ \A f \in Feedback : siteOf[f] # None => f \in born /\ site[siteOf[f]] # NoSite

\* A creation knows what its next step needs: a client that was there, the site
\* it found, a name, and a code that is one.
CreationFits(x, a) ==
    /\ a.pc \in {"touchClient", "findSite", "touchSite", "code", "insert", "saved"} =>
          a.client \in Client \cap born
    /\ a.pc = "newClient" => a.client \in ClientId
    /\ a.pc \in {"touchSite", "saved"} => a.site \in Site \cap born
    /\ a.pc \in {"touchClient", "newClient", "findSite", "code", "insert"} => a.name \in Name
    /\ a.pc = "insert" => a.code # 0
    /\ x \in Admin => a.pc \in {"idle", "code", "insert"}

\* The code that was picked is larger than all there are, unless others were
\* created since.
CodeFits(a) ==
    a.pc = "insert" =>
        \A s \in Site : site[s].client = a.client /\ site[s].code >= a.code =>
            a.tries < a.beaten

\* Since its search found none, an import's site was created by another import
\* only with both of them on record.
LookupHolds(x, a) ==
    x \in Import /\ a.pc \in {"code", "insert"} =>
        \A s \in Site :
            site[s].client = a.client /\ site[s].imported /\ site[s].name = a.name =>
                <<a.client, a.name>> \in raced

CreationsFit ==
    \A x \in Creator : /\ CreationFits(x, add[x])
                       /\ CodeFits(add[x])
                       /\ LookupHolds(x, add[x])

Errors(results) == {k \in DOMAIN results : results[k] = "ERROR"}

\* The counters of an import under way, whose step is pc, are those of the rows
\* that have their result; a row whose result failed is counted ahead of it.
ImportFits(i, pc) ==
    LET k == import[i] IN
    /\ batch[i].status = "none" => pc = "idle" /\ rows[i] = <<>> /\ k = NoImport
    /\ batch[i].status = "COMPLETED" => pc = "idle"
    /\ pc # "idle" =>
          /\ k.at = Len(rows[i]) + 1
          /\ k.at <= Len(RowsOf[i]) + 1
          /\ pc # "row" => k.at <= Len(RowsOf[i])
          /\ k.bad = Cardinality(Errors(rows[i]))
          /\ k.ok + k.bad >= Len(rows[i])
          /\ k.ok + k.bad > Len(rows[i]) => SomethingLost

ImportsFit == \A i \in Import : ImportFits(i, add[i].pc)

\* Feedback at a site of client c.
IsAt(f, c) == siteOf[f] # None /\ site[siteOf[f]].client = c

\* Unless it was disturbed, a removal has all that is left of the client's
\* feedback before it, and what it has before it is there.
RemovalFits(m) ==
    /\ m.pc = "aborted" => m.disturbed
    /\ m.pc \notin {"idle", "aborted"} => m.client \in Client
    /\ m.pc \in {"read", "delete"} => m.item \in Feedback
    /\ m.pc \notin {"idle", "aborted"} /\ ~m.disturbed =>
          /\ Exists(m.client)
          /\ \A s \in m.sites : s \in born /\ (site[s] = NoSite \/ site[s].client = m.client)
          /\ \A f \in m.items : IsAt(f, m.client)
          /\ m.pc \in {"read", "delete"} => IsAt(m.item, m.client) /\ m.item \notin m.items
          /\ m.pc # "sites" => \A f \in Feedback : IsAt(f, m.client) =>
                \/ f \in m.items
                \/ siteOf[f] \in m.sites
                \/ m.pc \in {"read", "delete"} /\ f = m.item
          /\ m.pc \in {"clear", "client"} => m.items = {} /\ m.sites = {}

RemovalsFit == \A r \in Remover : RemovalFits(removal[r])

IInv ==
    /\ TypeOK
    /\ BornFit
    /\ CreationsFit
    /\ CollisionsNeedCreations
    /\ ImportsReuseSites
    /\ ImportsFit
    /\ CountersFitRows
    /\ RemovalsFit

-----------------------------------------------------------------------------
(* Induction, over sets of numbers *)

LEMMA LeastOf ==
    ASSUME NEW S \in SUBSET Nat, S # {}
    PROVE  \E x \in S : \A y \in S : x <= y
<1> DEFINE R == {ss \in Nat \X Nat : ss[1] < ss[2]}
<1>1. IsWellFoundedOn(R, Nat)
  BY NatLessThanWellFounded DEF OpToRel
<1> HIDE DEF R
<1>2. PICK x \in S : \A y \in S : <<y, x>> \notin R
  BY <1>1, WFMin
<1>3. \A y \in S : ~(y < x)
  BY <1>2 DEF R
<1>4. QED
  BY <1>3

LEMMA SetInduction ==
    ASSUME NEW S, 0 \in S, \A n \in Nat : n \in S => n + 1 \in S
    PROVE  \A n \in Nat : n \in S
<1> DEFINE T == Nat \ S
<1> SUFFICES ASSUME T # {} PROVE FALSE
  OBVIOUS
<1>1. T \in SUBSET Nat
  OBVIOUS
<1> HIDE DEF T
<1>2. PICK x \in T : \A y \in T : x <= y
  BY <1>1, LeastOf
<1>3. x \in Nat /\ x # 0
  BY <1>2 DEF T
<1>4. x - 1 \in Nat /\ ~(x <= x - 1) /\ x - 1 + 1 = x
  BY <1>3
<1>5. x - 1 \in S
  BY <1>2, <1>4 DEF T
<1>6. x \in S
  BY <1>4, <1>5
<1>7. QED
  BY <1>6 DEF T

-----------------------------------------------------------------------------
(* Codes *)

\* A finite set of numbers has a bound.
LEMMA FiniteIsBounded ==
    ASSUME NEW S \in SUBSET Nat, IsFiniteSet(S)
    PROVE  \E m \in Nat : \A x \in S : x <= m
<1>1. Cardinality(S) \in Nat /\ ExistsBijection(1 .. Cardinality(S), S)
  BY FS_CardinalityType
<1>2. PICK f : f \in Bijection(1 .. Cardinality(S), S)
  BY <1>1 DEF ExistsBijection
<1>3. /\ f \in [1 .. Cardinality(S) -> S]
      /\ \A x \in S : \E k \in 1 .. Cardinality(S) : f[k] = x
  BY <1>2 DEF Bijection, Surjection
<1> DEFINE T == {n \in Nat : n <= Cardinality(S) =>
                                \E m \in Nat : \A k \in 1 .. n : f[k] <= m}
<1>4. 0 \in T
  OBVIOUS
<1>5. ASSUME NEW n \in Nat, n \in T
      PROVE  n + 1 \in T
  <2> SUFFICES ASSUME n + 1 <= Cardinality(S)
               PROVE  \E m \in Nat : \A k \in 1 .. n + 1 : f[k] <= m
    OBVIOUS
  <2>1. PICK m \in Nat : \A k \in 1 .. n : f[k] <= m
    BY <1>1, <1>5
  <2> DEFINE K == 1 .. Cardinality(S)
  <2>2. \A k \in 1 .. n + 1 : k \in K
    BY <1>1
  <2> HIDE DEF K
  <2>3. f \in [K -> S]
    BY <1>3 DEF K
  <2>4. \A k \in 1 .. n + 1 : f[k] \in Nat
    BY <2>2, <2>3
  <2>5. f[n + 1] \in Nat
    BY <2>4
  <2>6. PICK most \in Nat : m <= most /\ f[n + 1] <= most
    BY <2>5
  <2>7. \A k \in 1 .. n + 1 : k \in 1 .. n \/ k = n + 1
    OBVIOUS
  <2>8. \A k \in 1 .. n + 1 : f[k] <= most
    BY <2>1, <2>6, <2>7, <2>4
  <2>9. QED
    BY <2>8
<1> HIDE DEF T
<1>6. Cardinality(S) \in T
  BY <1>1, <1>4, <1>5, SetInduction
<1>7. PICK m \in Nat : \A k \in 1 .. Cardinality(S) : f[k] <= m
  BY <1>1, <1>6 DEF T
<1>8. QED
  BY <1>3, <1>7

LEMMA MaxOfSome ==
    ASSUME NEW S \in SUBSET Nat, IsFiniteSet(S), S # {}
    PROVE  Max(S) \in S /\ \A x \in S : Max(S) >= x
<1> DEFINE B == {m \in Nat : \A x \in S : x <= m}
<1>1. B \in SUBSET Nat /\ B # {}
  BY FiniteIsBounded
<1> HIDE DEF B
<1>2. PICK m \in B : \A k \in B : m <= k
  BY <1>1, LeastOf
<1>3. m \in Nat /\ \A x \in S : x <= m
  BY <1>2 DEF B
<1>4. m \in S
  <2> SUFFICES ASSUME m \notin S PROVE FALSE
    OBVIOUS
  <2>1. \A x \in S : x < m
    BY <1>3
  <2>2. m # 0
    <3>1. PICK x \in S : TRUE
      OBVIOUS
    <3>2. x \in Nat /\ x < m
      BY <2>1, <3>1
    <3>3. QED
      BY <3>2
  <2>3. m - 1 \in Nat /\ \A x \in S : x <= m - 1
    BY <1>3, <2>1, <2>2
  <2>4. m - 1 \in B
    BY <2>3 DEF B
  <2>5. m <= m - 1
    BY <1>2, <2>4
  <2>6. QED
    BY <1>3, <2>5
<1>5. \E x \in S : \A y \in S : x >= y
  BY <1>3, <1>4
<1>6. QED
  BY <1>5 DEF Max

LEMMA SiteFacts ==
    ASSUME TypeOK, NEW s \in Site
    PROVE  /\ site[s] \in SiteRow
           /\ site[s].client \in Client \cup {None}
           /\ site[s].code \in Nat
           /\ site[s] = NoSite => site[s].client = None /\ ~site[s].imported
           /\ site[s] # NoSite => site[s].client \in Client /\ site[s].code # 0
BY CatalogAssumption DEF TypeOK, SiteRow, NoSite

LEMMA CodesAreFew ==
    ASSUME TypeOK, NEW c
    PROVE  CodesOf(c) \in SUBSET Nat /\ IsFiniteSet(CodesOf(c))
<1>1. CodesOf(c) \in SUBSET Nat
  BY SiteFacts DEF CodesOf, SitesOf
<1>2. IsFiniteSet(SitesOf(c))
  BY FS_Subset, CatalogAssumption DEF SitesOf
<1>3. [s \in SitesOf(c) |-> site[s].code] \in Surjection(SitesOf(c), CodesOf(c))
  BY DEF CodesOf, Surjection
<1>4. IsFiniteSet(CodesOf(c))
  BY <1>2, <1>3, FS_Surjection
<1>5. QED
  BY <1>1, <1>4

\* The code that is picked is larger than all that are there.
LEMMA NextSiteCodeIsNew ==
    ASSUME TypeOK, NEW c
    PROVE  /\ NextSiteCode(c) \in Nat \ {0}
           /\ \A s \in SitesOf(c) : site[s].code < NextSiteCode(c)
<1> DEFINE S == CodesOf(c) \cup {0}
<1>1. S \in SUBSET Nat /\ IsFiniteSet(S) /\ S # {} /\ CodesOf(c) \subseteq S
  BY CodesAreFew, FS_AddElement
<1>2. \A s \in SitesOf(c) : site[s].code \in S
  BY DEF CodesOf
<1>3. NextSiteCode(c) = Max(S) + 1
  BY DEF NextSiteCode
<1> HIDE DEF S
<1>4. Max(S) \in S /\ \A x \in S : Max(S) >= x
  BY <1>1, MaxOfSome
<1>5. QED
  BY <1>1, <1>2, <1>3, <1>4

-----------------------------------------------------------------------------
(* What stays as it is *)

\* No row comes back, and no site changes but to go.
Gone ==
    /\ born \subseteq born'
    /\ \A c \in Client \cap born : ~Exists(c) => ~Exists(c)'
    /\ \A s \in Site \cap born : site'[s] \in {site[s], NoSite}

LEMMA SameTables ==
    UNCHANGED <<client, site, born>> => Gone
BY DEF Gone, Exists

LEMMA LossLasts ==
    ASSUME TypeOK, failures' \in Nat, failures' >= failures, Gone, SomethingLost
    PROVE  SomethingLost'
<1>1. failures \in Nat
  BY CatalogAssumption DEF TypeOK
<1>2. CASE failures > 0
  BY <1>1, <1>2 DEF SomethingLost
<1>3. CASE \E c \in Client \cap born : ~Exists(c)
  BY <1>3 DEF SomethingLost, Gone
<1>4. CASE \E s \in Site \cap born : site[s] = NoSite
  BY <1>4 DEF SomethingLost, Gone
<1>5. QED
  BY <1>2, <1>3, <1>4 DEF SomethingLost

\* A creation that does nothing is not disturbed by what others do.
LEMMA CreationStays ==
    ASSUME NEW x \in Creator, NEW a, CreationFits(x, a), born \subseteq born'
    PROVE  CreationFits(x, a)'
BY DEF CreationFits

LEMMA CodeStays ==
    ASSUME TypeOK, BornFit, NEW x \in Creator, NEW a, CreationFits(x, a), CodeFits(a),
           \A s \in Site : site'[s] \in {site[s], NoSite}
    PROVE  CodeFits(a)'
BY CatalogAssumption DEF CodeFits, CreationFits, NoSite

LEMMA LookupStays ==
    ASSUME TypeOK, BornFit, NEW x \in Creator, NEW a, CreationFits(x, a), LookupHolds(x, a),
           \A s \in Site : site'[s] \in {site[s], NoSite},
           raced \subseteq raced'
    PROVE  LookupHolds(x, a)'
<1> SUFFICES ASSUME x \in Import, a.pc \in {"code", "insert"}, NEW s \in Site,
                    site'[s].client = a.client, site'[s].imported,
                    site'[s].name = a.name
             PROVE  <<a.client, a.name>> \in raced'
  BY DEF LookupHolds
<1>1. a.client # None
  BY CatalogAssumption DEF CreationFits
<1>2. site'[s] # NoSite
  BY <1>1 DEF NoSite
<1>3. site'[s] = site[s]
  BY <1>2
<1>4. QED
  BY <1>3 DEF LookupHolds

LEMMA ImportStays ==
    ASSUME NEW i \in Import, NEW pc, ImportFits(i, pc),
           UNCHANGED <<import, batch, rows>>,
           SomethingLost => SomethingLost'
    PROVE  ImportFits(i, pc)'
BY DEF ImportFits, Errors

LEMMA RemovalStays ==
    ASSUME NEW m, RemovalFits(m), UNCHANGED <<client, site, siteOf, born>>
    PROVE  RemovalFits(m)'
BY DEF RemovalFits, Exists, IsAt

LEMMA CountersStay ==
    ASSUME TypeOK, CountersFitRows, UNCHANGED <<batch, rows>>,
           SomethingLost => SomethingLost'
    PROVE  CountersFitRows'
BY DEF CountersFitRows

LEMMA FailuresGrow ==
    ASSUME TypeOK, Failure \/ UNCHANGED failures
    PROVE  failures' \in 0 .. MaxFailures /\ failures' \in Nat /\ failures' >= failures
BY CatalogAssumption DEF TypeOK, Failure

\* Only x's creation is another, q; no site appears.
LEMMA OneOfTheCreations ==
    ASSUME TypeOK, BornFit, CreationsFit, CollisionsNeedCreations,
           NEW x \in Creator, NEW q \in Add,
           CreationFits(x, q)', CodeFits(q)', LookupHolds(x, q)', q.tries <= q.beaten,
           add' = [add EXCEPT ![x] = q],
           born \subseteq born', raced \subseteq raced',
           \A s \in Site : site'[s] \in {site[s], NoSite}
    PROVE  CreationsFit' /\ CollisionsNeedCreations'
<1>1. \A y \in Creator : add'[y] = IF y = x THEN q ELSE add[y]
  BY DEF TypeOK
<1>2. CollisionsNeedCreations'
  BY <1>1 DEF CollisionsNeedCreations
<1>3. ASSUME NEW y \in Creator
      PROVE  CreationFits(y, add[y])' /\ CodeFits(add[y])' /\ LookupHolds(y, add[y])'
  <2>1. CASE y = x
    <3>1. add'[y] = q
      BY <1>1, <2>1
    <3>2. QED
      BY <2>1, <3>1
  <2>2. CASE y # x
    <3>1. PICK a : a = add[y]
      OBVIOUS
    <3>2. CreationFits(y, a) /\ CodeFits(a) /\ LookupHolds(y, a)
      BY <3>1 DEF CreationsFit
    <3>3. CreationFits(y, a)' /\ CodeFits(a)' /\ LookupHolds(y, a)'
      BY <3>2, CreationStays, CodeStays, LookupStays
    <3>4. add'[y] = a
      BY <1>1, <2>2, <3>1
    <3>5. QED
      BY <3>3, <3>4
  <2>3. QED
    BY <2>1, <2>2
<1>4. QED
  BY <1>2, <1>3 DEF CreationsFit

\* A creation's step that leaves the tables alone.
LEMMA OneCreation ==
    ASSUME IInv, NEW x \in Creator, NEW q \in Add,
           CreationFits(x, q), CodeFits(q), LookupHolds(x, q), q.tries <= q.beaten,
           x \in Import => ImportFits(x, q.pc),
           add' = [add EXCEPT ![x] = q],
           Failure \/ UNCHANGED failures,
           UNCHANGED <<client, site, siteOf, born, import, batch, rows, removal, raced>>
    PROVE  IInv'
<1>1. failures' \in 0 .. MaxFailures /\ failures' \in Nat /\ failures' >= failures
  BY FailuresGrow DEF IInv
<1>2. SomethingLost => SomethingLost'
  BY <1>1, SameTables, LossLasts DEF IInv
<1>3. TypeOK'
  BY <1>1 DEF IInv, TypeOK
<1>4. BornFit'
  BY DEF IInv, BornFit, Exists
<1>5. CreationsFit' /\ CollisionsNeedCreations'
  <2>1. CreationFits(x, q)' /\ CodeFits(q)' /\ LookupHolds(x, q)'
    BY DEF CreationFits, CodeFits, LookupHolds
  <2>2. QED
    BY <2>1, OneOfTheCreations DEF IInv
<1>6. ImportsReuseSites'
  BY DEF IInv, ImportsReuseSites
<1>7. ImportsFit'
  <2> SUFFICES ASSUME NEW i \in Import
               PROVE  ImportFits(i, add[i].pc)'
    BY DEF ImportsFit
  <2>1. PICK pc : pc = add'[i].pc
    OBVIOUS
  <2>2. ImportFits(i, pc)
    BY <2>1 DEF IInv, ImportsFit, TypeOK, Creator
  <2>3. ImportFits(i, pc)'
    BY <1>2, <2>2, ImportStays
  <2>4. QED
    BY <2>1, <2>3
<1>8. CountersFitRows'
  BY <1>2, CountersStay DEF IInv
<1>9. RemovalsFit'
  BY RemovalStays DEF IInv, RemovalsFit
<1>10. QED
  BY <1>3, <1>4, <1>5, <1>6, <1>7, <1>8, <1>9 DEF IInv

-----------------------------------------------------------------------------
(* Creations *)

\* What an import's counters are about does not depend on where in its row it is.
LEMMA SameRow ==
    ASSUME NEW i \in Import, NEW p, NEW pc, ImportFits(i, p), p # "idle",
           p = "row" => import[i].at <= Len(RowsOf[i]), pc # "idle"
    PROVE  ImportFits(i, pc)
BY DEF ImportFits

\* Imports are the only creators that are at a row.
LEMMA InARow ==
    ASSUME IInv, NEW x \in Creator, add[x].pc \notin {"idle", "row"}, x \in Import,
           NEW pc, pc # "idle"
    PROVE  ImportFits(x, pc)
BY SameRow DEF IInv, ImportsFit

LEMMA FailingKeeps ==
    ASSUME IInv, NEW x \in Creator, x \in Import => ImportFits(x, "error"),
           add' = Fails(x),
           Failure \/ UNCHANGED failures,
           UNCHANGED <<client, site, siteOf, born, import, batch, rows, removal, raced>>
    PROVE  IInv'
<1>1. PICK q : q = [NoAdd EXCEPT !.pc = IF x \in Import THEN "error" ELSE "idle"]
  OBVIOUS
<1>2. /\ q \in Add /\ q.pc = IF x \in Import THEN "error" ELSE "idle"
      /\ q.tries = 0 /\ q.beaten = 0
  BY <1>1, CatalogAssumption DEF NoAdd, Add
<1>3. CreationFits(x, q) /\ CodeFits(q) /\ LookupHolds(x, q)
  BY <1>2, CatalogAssumption DEF CreationFits, CodeFits, LookupHolds
<1>4. add' = [add EXCEPT ![x] = q]
  BY <1>1 DEF Fails
<1>5. x \in Import => ImportFits(x, q.pc)
  BY <1>2
<1>6. q.tries <= q.beaten
  BY <1>2
<1>7. QED
  BY <1>2, <1>3, <1>4, <1>5, <1>6, OneCreation

LEMMA StartSiteKeeps ==
    ASSUME IInv, NEW a \in Admin, NEW c \in Client, NEW n \in Name, StartSite(a, c, n)
    PROVE  IInv'
<1>1. PICK q : q = [NoAdd EXCEPT !.pc = "code", !.client = c, !.name = n]
  OBVIOUS
<1>2. q = [pc |-> "code", client |-> c, site |-> None, name |-> n, code |-> 0,
           tries |-> 0, beaten |-> 0]
  BY <1>1 DEF NoAdd
<1>3. /\ q \in Add /\ q.pc = "code" /\ q.client = c /\ q.name = n
      /\ q.tries = 0 /\ q.beaten = 0
  BY <1>2, CatalogAssumption DEF Add
<1>4. a \in Creator /\ a \notin Import
  BY CatalogAssumption DEF Creator
<1>5. c \in born
  BY DEF IInv, BornFit, StartSite
<1>6. CreationFits(a, q) /\ CodeFits(q) /\ LookupHolds(a, q)
  BY <1>3, <1>4, <1>5 DEF CreationFits, CodeFits, LookupHolds
<1>7. add' = [add EXCEPT ![a] = q]
  BY <1>1 DEF StartSite
<1>8. a \in Import => ImportFits(a, q.pc)
  BY <1>4
<1>9. q.tries <= q.beaten
  BY <1>3
<1>10. UNCHANGED <<client, site, siteOf, born, import, batch, rows, removal, raced, failures>>
  BY DEF StartSite
<1>11. QED
  BY <1>3, <1>4, <1>6, <1>7, <1>8, <1>9, <1>10, OneCreation

LEMMA AddFacts ==
    ASSUME TypeOK, NEW x \in Creator
    PROVE  /\ add[x] \in Add
           /\ add[x].pc \in {"idle", "row", "touchClient", "newClient", "findSite",
                             "touchSite", "code", "insert", "saved", "error"}
           /\ add[x].client \in Client \cup ClientId \cup {None}
           /\ add[x].site \in Site \cup {None}
           /\ add[x].name \in Name \cup {None}
           /\ add[x].code \in Nat
           /\ add[x].tries \in Nat /\ add[x].tries < MAX_CREATE_ATTEMPTS
           /\ add[x].beaten \in Nat
BY CatalogAssumption DEF TypeOK, Add

LEMMA PickCodeKeeps ==
    ASSUME IInv, NEW x \in Creator, PickCode(x)
    PROVE  IInv'
<1>1. PICK q : q = [add[x] EXCEPT !.pc = "insert", !.code = NextSiteCode(add[x].client)]
  OBVIOUS
<1>2. TypeOK
  BY DEF IInv
<1> DEFINE next == NextSiteCode(add[x].client)
<1>3. next \in Nat \ {0} /\ \A s \in SitesOf(add[x].client) : site[s].code < next
  BY <1>2, NextSiteCodeIsNew
<1>4. /\ q \in Add /\ q.pc = "insert" /\ q.code = next
      /\ q.client = add[x].client /\ q.name = add[x].name
      /\ q.tries = add[x].tries /\ q.beaten = add[x].beaten
  BY <1>1, <1>2, <1>3, AddFacts DEF Add
<1>5. add' = [add EXCEPT ![x] = q]
  BY <1>1 DEF PickCode
<1> HIDE DEF next
<1>6. add[x].pc = "code" /\ CreationFits(x, add[x]) /\ LookupHolds(x, add[x])
  BY DEF IInv, CreationsFit, PickCode
<1>7. CreationFits(x, q)
  BY <1>3, <1>4, <1>6 DEF CreationFits
<1>8. CodeFits(q)
  <2> SUFFICES ASSUME NEW s \in Site, site[s].client = q.client, site[s].code >= q.code
               PROVE  FALSE
    BY DEF CodeFits
  <2>1. site[s].code < next
    BY <1>3, <1>4 DEF SitesOf
  <2>2. site[s].code \in Nat
    BY <1>2, SiteFacts
  <2>3. QED
    BY <1>3, <1>4, <2>1, <2>2
<1>9. LookupHolds(x, q)
  BY <1>4, <1>6 DEF LookupHolds
<1>10. q.tries <= q.beaten
  BY <1>4 DEF IInv, CollisionsNeedCreations
<1>11. x \in Import => ImportFits(x, q.pc)
  BY <1>4, <1>6, InARow
<1>12. QED
  BY <1>4, <1>5, <1>7, <1>8, <1>9, <1>10, <1>11, OneCreation DEF PickCode

\* A creation goes on, with what it knew.
LEMMA GoingKeeps ==
    ASSUME IInv, NEW x \in Creator, NEW pc \in {"findSite", "code", "saved"}, Goes(x, pc),
           CreationFits(x, [add[x] EXCEPT !.pc = pc]),
           LookupHolds(x, [add[x] EXCEPT !.pc = pc]),
           x \in Import => ImportFits(x, pc),
           UNCHANGED <<client, site, siteOf, born, import, batch, rows, removal, raced,
                       failures>>
    PROVE  IInv'
<1>1. PICK q : q = [add[x] EXCEPT !.pc = pc]
  OBVIOUS
<1>2. /\ q \in Add /\ q.pc = pc
      /\ q.tries = add[x].tries /\ q.beaten = add[x].beaten
  BY <1>1 DEF IInv, TypeOK, Add
<1>3. CreationFits(x, q) /\ CodeFits(q) /\ LookupHolds(x, q)
  BY <1>1, <1>2 DEF CodeFits
<1>4. add' = [add EXCEPT ![x] = q]
  BY <1>1 DEF Goes
<1>5. q.tries <= q.beaten
  BY <1>2 DEF IInv, CollisionsNeedCreations
<1>6. x \in Import => ImportFits(x, q.pc)
  BY <1>2
<1>7. QED
  BY <1>2, <1>3, <1>4, <1>5, <1>6, OneCreation

LEMMA TouchClientKeeps ==
    ASSUME IInv, NEW i \in Import, TouchClient(i)
    PROVE  IInv'
<1>1. i \in Creator /\ i \notin Admin
  BY CatalogAssumption DEF Creator
<1>2. add[i].pc = "touchClient" /\ CreationFits(i, add[i])
  BY <1>1 DEF IInv, CreationsFit, TouchClient
<1>3. ImportFits(i, "findSite") /\ ImportFits(i, "error")
  BY <1>1, <1>2, InARow
<1>4. CASE Goes(i, "findSite")
  <2>1. PICK q : q = [add[i] EXCEPT !.pc = "findSite"]
    OBVIOUS
  <2>2. q.pc = "findSite" /\ q.client = add[i].client /\ q.name = add[i].name
    BY <1>1, <2>1 DEF IInv, TypeOK, Add
  <2>3. CreationFits(i, q) /\ LookupHolds(i, q)
    BY <1>1, <1>2, <2>2 DEF CreationFits, LookupHolds
  <2>4. QED
    BY <1>1, <1>3, <1>4, <2>1, <2>3, GoingKeeps DEF TouchClient
<1>5. CASE add' = Fails(i)
  BY <1>1, <1>3, <1>5, FailingKeeps DEF TouchClient
<1>6. QED
  BY <1>4, <1>5 DEF TouchClient

LEMMA TouchSiteKeeps ==
    ASSUME IInv, NEW i \in Import, TouchSite(i)
    PROVE  IInv'
<1>1. i \in Creator /\ i \notin Admin
  BY CatalogAssumption DEF Creator
<1>2. add[i].pc = "touchSite" /\ CreationFits(i, add[i])
  BY <1>1 DEF IInv, CreationsFit, TouchSite
<1>3. ImportFits(i, "saved") /\ ImportFits(i, "error")
  BY <1>1, <1>2, InARow
<1>4. CASE Goes(i, "saved")
  <2>1. PICK q : q = [add[i] EXCEPT !.pc = "saved"]
    OBVIOUS
  <2>2. q.pc = "saved" /\ q.client = add[i].client /\ q.site = add[i].site
    BY <1>1, <2>1 DEF IInv, TypeOK, Add
  <2>3. CreationFits(i, q) /\ LookupHolds(i, q)
    BY <1>1, <1>2, <2>2 DEF CreationFits, LookupHolds
  <2>4. QED
    BY <1>1, <1>3, <1>4, <2>1, <2>3, GoingKeeps DEF TouchSite
<1>5. CASE add' = Fails(i)
  BY <1>1, <1>3, <1>5, FailingKeeps DEF TouchSite
<1>6. QED
  BY <1>4, <1>5 DEF TouchSite

\* The import has found its row's site.
LEMMA ResolvedFits ==
    ASSUME NEW x \in Import, NEW pc \in {"touchSite", "saved"},
           NEW c \in Client, NEW s \in Site
    PROVE  LET q == Resolved(pc, c, s) IN
           /\ q \in Add /\ q.pc = pc /\ q.client = c /\ q.site = s
           /\ q.tries = 0 /\ q.beaten = 0
<1>1. PICK q : q = [NoAdd EXCEPT !.pc = pc, !.client = c, !.site = s]
  OBVIOUS
<1>2. q = [pc |-> pc, client |-> c, site |-> s, name |-> None, code |-> 0,
           tries |-> 0, beaten |-> 0]
  BY <1>1 DEF NoAdd
<1>3. /\ q \in Add /\ q.pc = pc /\ q.client = c /\ q.site = s
      /\ q.tries = 0 /\ q.beaten = 0
  BY <1>2, CatalogAssumption DEF Add
<1>4. QED
  BY <1>1, <1>3 DEF Resolved

LEMMA FindSiteKeeps ==
    ASSUME IInv, NEW i \in Import, FindSite(i)
    PROVE  IInv'
<1>1. i \in Creator /\ i \notin Admin
  BY CatalogAssumption DEF Creator
<1>2. add[i].pc = "findSite" /\ CreationFits(i, add[i])
  BY <1>1 DEF IInv, CreationsFit, FindSite
<1>3. add[i].client \in Client \cap born /\ add[i].name \in Name
  BY <1>2 DEF CreationFits
<1>4. \A pc \in {"touchSite", "saved", "code"} : ImportFits(i, pc)
  BY <1>1, <1>2, InARow
<1> DEFINE found == Named(add[i].client, add[i].name)
<1>5. ASSUME NEW s \in found, NEW pc \in {"touchSite", "saved"},
             add' = [add EXCEPT ![i] = Resolved(pc, add[i].client, s)]
      PROVE  IInv'
  <2>1. PICK q : q = Resolved(pc, add[i].client, s)
    OBVIOUS
  <2>2. s \in Site /\ site[s].client = add[i].client
    BY DEF Named, SitesOf
  <2>3. s \in born
    BY <1>3, <2>2, CatalogAssumption DEF IInv, BornFit, NoSite
  <2>4. /\ q \in Add /\ q.pc = pc /\ q.client = add[i].client /\ q.site = s
        /\ q.tries = 0 /\ q.beaten = 0
    BY <1>3, <2>1, <2>2, ResolvedFits
  <2>5. CreationFits(i, q) /\ CodeFits(q) /\ LookupHolds(i, q)
    BY <1>1, <1>3, <2>2, <2>3, <2>4 DEF CreationFits, CodeFits, LookupHolds
  <2>6. ImportFits(i, q.pc) /\ q.tries <= q.beaten
    BY <1>4, <2>4
  <2>7. QED
    BY <1>1, <1>5, <2>1, <2>4, <2>5, <2>6, OneCreation DEF FindSite
<1>6. CASE found = {} /\ Goes(i, "code")
  <2>1. PICK q : q = [add[i] EXCEPT !.pc = "code"]
    OBVIOUS
  <2>2. q.pc = "code" /\ q.client = add[i].client /\ q.name = add[i].name
    BY <1>1, <2>1 DEF IInv, TypeOK, Add
  <2>3. CreationFits(i, q)
    BY <1>1, <1>2, <2>2 DEF CreationFits
  <2>4. LookupHolds(i, q)
    BY <1>6, <2>2 DEF LookupHolds, Named, SitesOf
  <2>5. QED
    BY <1>1, <1>4, <1>6, <2>1, <2>3, <2>4, GoingKeeps DEF FindSite
<1>7. QED
  BY <1>5, <1>6 DEF FindSite

\* Rows of an import under way.
LEMMA RowFacts ==
    ASSUME IInv, NEW i \in Import, add[i].pc = "row", import[i].at <= Len(RowsOf[i])
    PROVE  /\ Row(i) \in CsvRow
           /\ \A pc : pc # "idle" => ImportFits(i, pc)
<1>1. i \in Creator
  BY DEF Creator
<1>2. ImportFits(i, "row")
  BY DEF IInv, ImportsFit
<1>3. import[i].at = Len(rows[i]) + 1
  BY <1>2 DEF ImportFits
<1>4. Len(rows[i]) \in Nat /\ Len(RowsOf[i]) \in Nat /\ RowsOf[i] \in Seq(CsvRow)
  BY CatalogAssumption, LenProperties DEF IInv, TypeOK
<1>5. Row(i) \in CsvRow
  BY <1>3, <1>4, ElementOfSeq DEF Row
<1>6. QED
  BY <1>2, <1>5, SameRow

LEMMA BeginRowKeeps ==
    ASSUME IInv, NEW i \in Import, BeginRow(i)
    PROVE  IInv'
<1> DEFINE r == Row(i)
<1>1. i \in Creator /\ i \notin Admin
  BY CatalogAssumption DEF Creator
<1>2. r \in CsvRow /\ \A pc : pc # "idle" => ImportFits(i, pc)
  BY RowFacts DEF BeginRow
<1>3. ASSUME NEW pc \in {"touchClient", "newClient"}, NEW c \in Client \cup ClientId,
             pc = "touchClient" => c \in Client /\ Exists(c),
             pc = "newClient" => c \in ClientId,
             add' = [add EXCEPT ![i] = [NoAdd EXCEPT !.pc = pc, !.client = c,
                                                     !.name = r.name]]
      PROVE  IInv'
  <2>1. PICK q : q = [NoAdd EXCEPT !.pc = pc, !.client = c, !.name = r.name]
    OBVIOUS
  <2>2. q = [pc |-> pc, client |-> c, site |-> None, name |-> r.name, code |-> 0,
             tries |-> 0, beaten |-> 0]
    BY <2>1 DEF NoAdd
  <2>3. r.name \in Name
    BY <1>2 DEF CsvRow
  <2> HIDE DEF r
  <2>4. /\ q \in Add /\ q.pc = pc /\ q.client = c /\ q.name = r.name
        /\ q.tries = 0 /\ q.beaten = 0
    BY <2>2, <2>3, CatalogAssumption DEF Add
  <2>5. pc = "touchClient" => c \in Client \cap born
    BY <1>3 DEF IInv, BornFit
  <2>6. CreationFits(i, q) /\ CodeFits(q) /\ LookupHolds(i, q)
    BY <1>1, <1>3, <2>3, <2>4, <2>5 DEF CreationFits, CodeFits, LookupHolds
  <2>7. ImportFits(i, q.pc) /\ q.tries <= q.beaten
    BY <1>2, <2>4
  <2>8. add' = [add EXCEPT ![i] = q]
    BY <1>3, <2>1
  <2>9. QED
    BY <1>1, <2>4, <2>6, <2>7, <2>8, OneCreation DEF BeginRow
<1>4. CASE add' = Fails(i)
  <2>1. ImportFits(i, "error")
    BY <1>2
  <2>2. UNCHANGED <<client, site, siteOf, born, import, batch, rows, removal, raced, failures>>
    BY DEF BeginRow
  <2>3. QED
    BY <1>1, <1>4, <2>1, <2>2, FailingKeeps
<1>5. CASE \E c \in Client : /\ client[c] = r.clientId /\ r.clientId # None
                             /\ add' = [add EXCEPT ![i] =
                                   [NoAdd EXCEPT !.pc = "touchClient", !.client = c,
                                                 !.name = r.name]]
  BY <1>3, <1>5 DEF Exists
<1>6. CASE \E id \in ClientId : add' = [add EXCEPT ![i] =
                                   [NoAdd EXCEPT !.pc = "newClient", !.client = id,
                                                 !.name = r.name]]
  BY <1>3, <1>6
<1>7. r.clientId \in ClientId \cup {None}
  BY <1>2 DEF CsvRow
<1>8. QED
  BY <1>4, <1>5, <1>6, <1>7 DEF BeginRow

LEMMA CreationFailsKeeps ==
    ASSUME IInv, NEW x \in Creator, CreationFails(x)
    PROVE  IInv'
<1>1. x \in Import => ImportFits(x, "error")
  BY InARow DEF CreationFails
<1>2. QED
  BY <1>1, FailingKeeps DEF CreationFails

-----------------------------------------------------------------------------
(* New sites and clients *)

\* Sites that change were not there, or go without feedback.
BareSitesChange ==
    \A s \in Site : site'[s] # site[s] =>
        \/ site[s] = NoSite /\ s \notin born
        \/ site'[s] = NoSite /\ \A f \in Feedback : siteOf[f] # s

LEMMA FeedbackStays ==
    ASSUME TypeOK, BornFit, UNCHANGED siteOf, BareSitesChange,
           NEW f \in Feedback, siteOf[f] # None
    PROVE  /\ siteOf[f] \in Site /\ site[siteOf[f]] # NoSite
           /\ site'[siteOf[f]] = site[siteOf[f]]
<1>1. siteOf[f] \in Site
  BY DEF TypeOK
<1>2. site[siteOf[f]] # NoSite
  BY DEF BornFit
<1>3. QED
  BY <1>1, <1>2 DEF BareSitesChange

LEMMA IsAtStays ==
    ASSUME TypeOK, BornFit, UNCHANGED siteOf, BareSitesChange, NEW f \in Feedback, NEW c
    PROVE  IsAt(f, c)' <=> IsAt(f, c)
BY FeedbackStays DEF IsAt

LEMMA RemovalGoesOn ==
    ASSUME TypeOK, BornFit, NEW m, RemovalFits(m), m.items \in SUBSET Feedback,
           m.sites \in SUBSET Site,
           UNCHANGED siteOf, born \subseteq born', BareSitesChange,
           m.client \in Client /\ Exists(m.client) => Exists(m.client)'
    PROVE  RemovalFits(m)'
<1>1. \A f \in Feedback, c \in Client : IsAt(f, c)' <=> IsAt(f, c)
  BY IsAtStays
<1>2. \A s \in Site \cap born : site'[s] \in {site[s], NoSite}
  BY DEF BareSitesChange
<1>3. QED
  BY <1>1, <1>2 DEF RemovalFits

\* What y's creation, q, has become when x has inserted site n for c.
AfterInsert(x, c, n, y, q) ==
    /\ q \in Add
    /\ y = x => /\ q.pc \in {"saved", "idle"} /\ q.tries = 0 /\ q.beaten = 0
                /\ q.pc = "saved" => x \in Import /\ q.client = c /\ q.site = n
                /\ x \in Import => q.pc = "saved"
    /\ y # x => /\ q.pc = add[y].pc /\ q.client = add[y].client
                /\ q.site = add[y].site /\ q.name = add[y].name
                /\ q.code = add[y].code /\ q.tries = add[y].tries
                /\ q.beaten = IF Competes(y, c) THEN add[y].beaten + 1 ELSE add[y].beaten

LEMMA InsertedSiteKeeps ==
    ASSUME IInv, NEW x \in Creator, InsertSite(x), Exists(add[x].client),
           add[x].code \notin CodesOf(add[x].client)
    PROVE  IInv'
<1> DEFINE c == add[x].client
           n == FreshSite
           new == [client |-> c, code |-> add[x].code, name |-> add[x].name,
                   imported |-> x \in Import]
<1>1. /\ add[x].pc = "insert" /\ Site \ born # {}
      /\ born' = born \cup {n}
      /\ site' = [site EXCEPT ![n] = new]
      /\ add' = [y \in Creator |->
                CASE y = x /\ x \in Import -> Resolved("saved", c, n)
                  [] y = x /\ x \in Admin -> NoAdd
                  [] y # x /\ Competes(y, c) -> [add[y] EXCEPT !.beaten = @ + 1]
                  [] OTHER -> add[y]]
      /\ raced' = IF x \in Import THEN Race(x) ELSE raced
      /\ UNCHANGED <<client, siteOf, import, batch, rows, removal, failures>>
  BY DEF InsertSite
<1>2. n \in Site /\ n \notin born
  BY <1>1 DEF FreshSite
<1>3. CreationFits(x, add[x]) /\ LookupHolds(x, add[x])
  BY DEF IInv, CreationsFit
<1>4. TypeOK
  BY DEF IInv
<1>5. c \in Client /\ add[x].name \in Name /\ add[x].code \in Nat \ {0}
  BY <1>1, <1>3, <1>4, AddFacts DEF CreationFits
<1> HIDE DEF n
<1>6. /\ new \in SiteRow /\ new # NoSite /\ new.client = c
      /\ new.name = add[x].name /\ new.imported = (x \in Import)
  BY <1>5, CatalogAssumption DEF SiteRow, NoSite
<1> HIDE DEF new
<1>7. \A s \in Site : site'[s] = IF s = n THEN new ELSE site[s]
  BY <1>1, <1>4 DEF TypeOK
<1>8. site[n] = NoSite
  BY <1>2 DEF IInv, BornFit
<1>9. x \in Import <=> x \notin Admin
  BY CatalogAssumption DEF Creator
<1>10. \A y \in Creator : add'[y] =
          CASE y = x /\ x \in Import -> Resolved("saved", c, n)
            [] y = x /\ x \in Admin -> NoAdd
            [] y # x /\ Competes(y, c) -> [add[y] EXCEPT !.beaten = @ + 1]
            [] OTHER -> add[y]
  BY <1>1
<1>11. \A y \in Creator : \E q : q = add'[y] /\ AfterInsert(x, c, n, y, q)
  <2> SUFFICES ASSUME NEW y \in Creator
               PROVE  \E q : q = add'[y] /\ AfterInsert(x, c, n, y, q)
    OBVIOUS
  <2>1. CASE y = x /\ x \in Import
    <3>1. add'[y] = Resolved("saved", c, n)
      BY <1>9, <1>10, <2>1
    <3>2. PICK q : q = Resolved("saved", c, n)
      OBVIOUS
    <3>3. /\ q \in Add /\ q.pc = "saved" /\ q.client = c /\ q.site = n
          /\ q.tries = 0 /\ q.beaten = 0
      BY <1>2, <1>5, <2>1, <3>2, ResolvedFits
    <3>4. QED
      BY <2>1, <3>1, <3>2, <3>3 DEF AfterInsert
  <2>2. CASE y = x /\ x \in Admin
    <3>1. add'[y] = NoAdd
      BY <1>10, <1>9, <2>2
    <3>2. NoAdd \in Add /\ NoAdd.pc = "idle" /\ NoAdd.tries = 0 /\ NoAdd.beaten = 0
      BY CatalogAssumption DEF NoAdd, Add
    <3>3. QED
      BY <1>9, <2>2, <3>1, <3>2 DEF AfterInsert
  <2>3. CASE y # x /\ Competes(y, c)
    <3>1. add'[y] = [add[y] EXCEPT !.beaten = @ + 1]
      BY <1>10, <2>3
    <3>2. PICK q : q = [add[y] EXCEPT !.beaten = @ + 1]
      OBVIOUS
    <3>3. /\ q \in Add
          /\ q.pc = add[y].pc /\ q.client = add[y].client
          /\ q.site = add[y].site /\ q.name = add[y].name
          /\ q.code = add[y].code /\ q.tries = add[y].tries
          /\ q.beaten = add[y].beaten + 1
      BY <1>4, <3>2, AddFacts DEF Add
    <3>4. QED
      BY <2>3, <3>1, <3>2, <3>3 DEF AfterInsert
  <2>4. CASE y # x /\ ~Competes(y, c)
    <3>1. add'[y] = add[y]
      BY <1>10, <2>4
    <3>2. QED
      BY <1>4, <2>4, <3>1, AddFacts DEF AfterInsert
  <2>5. QED
    BY <1>9, <2>1, <2>2, <2>3, <2>4
<1>12. CollisionsNeedCreations'
  <2> SUFFICES ASSUME NEW y \in Creator PROVE add'[y].tries <= add'[y].beaten
    BY DEF CollisionsNeedCreations
  <2>1. add[y].tries <= add[y].beaten /\ add[y].tries \in Nat /\ add[y].beaten \in Nat
    BY <1>4, AddFacts, ZenonT(20) DEF IInv, CollisionsNeedCreations
  <2>2. QED
    BY <1>11, <2>1 DEF AfterInsert
<1>13. raced \subseteq raced'
  BY <1>1 DEF Race
<1>14. TypeOK'
  <2>1. raced' \in SUBSET (Client \X Name)
    BY <1>1, <1>4, <1>5 DEF TypeOK, Race
  <2>2. site' \in [Site -> SiteRow]
    BY <1>1, <1>4, <1>6 DEF TypeOK
  <2>3. add' \in [Creator -> Add]
    BY <1>1, <1>11 DEF AfterInsert
  <2>4. QED
    BY <1>1, <1>2, <1>4, <2>1, <2>2, <2>3 DEF TypeOK
<1>15. BornFit'
  <2>1. \A s \in Site : site'[s] # NoSite => s \in born'
    BY <1>1, <1>7 DEF IInv, BornFit
  <2>2. \A f \in Feedback : siteOf'[f] # None => f \in born' /\ site'[siteOf'[f]] # NoSite
    BY <1>1, <1>4, <1>6, <1>7 DEF IInv, BornFit, TypeOK
  <2>3. \A d \in Client : Exists(d)' => d \in born'
    BY <1>1 DEF IInv, BornFit, Exists
  <2>4. QED
    BY <2>1, <2>2, <2>3 DEF BornFit
<1>16. ASSUME NEW y \in Creator
       PROVE  CreationFits(y, add[y])' /\ CodeFits(add[y])' /\ LookupHolds(y, add[y])'
  <2>1. PICK q : q = add'[y] /\ AfterInsert(x, c, n, y, q)
    BY <1>11
  <2>2. CASE y = x
    <3>1. c \in born
      BY <1>5 DEF IInv, BornFit
    <3>2. CreationFits(y, q)' /\ CodeFits(q)' /\ LookupHolds(y, q)'
      BY <1>1, <1>2, <1>5, <1>9, <2>1, <2>2, <3>1
      DEF CreationFits, CodeFits, LookupHolds, AfterInsert
    <3>3. QED
      BY <2>1, <3>2
  <2>3. CASE y # x
    <3>1. /\ CreationFits(y, add[y]) /\ CodeFits(add[y]) /\ LookupHolds(y, add[y])
          /\ add[y].tries <= add[y].beaten
          /\ add[y].tries \in Nat /\ add[y].beaten \in Nat
      BY <1>4, AddFacts DEF IInv, CreationsFit, CollisionsNeedCreations
    <3>2. CreationFits(y, q)'
      BY <1>1, <2>1, <2>3, <3>1 DEF CreationFits, AfterInsert
    <3>3. CodeFits(q)'
      BY <1>6, <1>7, <2>1, <2>3, <3>1 DEF CodeFits, Competes, AfterInsert
    <3>4. LookupHolds(y, q)'
      <4> SUFFICES ASSUME y \in Import, q.pc \in {"code", "insert"}, NEW s \in Site,
                          site'[s].client = q.client, site'[s].imported,
                          site'[s].name = q.name
                   PROVE  <<q.client, q.name>> \in raced'
        BY DEF LookupHolds
      <4>1. CASE s # n
        BY <1>7, <1>13, <2>1, <2>3, <3>1, <4>1 DEF LookupHolds, AfterInsert
      <4>2. CASE s = n
        <5>1. x \in Import /\ q.client = c /\ q.name = add[x].name
          BY <1>6, <1>7, <4>2
        <5>2. Competes(y, c) /\ add[y].name = add[x].name /\ y \in Import \ {x}
          BY <2>1, <2>3, <5>1 DEF Competes, AfterInsert
        <5>3. QED
          BY <1>1, <5>1, <5>2 DEF Race
      <4>3. QED
        BY <4>1, <4>2
    <3>5. QED
      BY <2>1, <3>2, <3>3, <3>4
  <2>4. QED
    BY <2>2, <2>3
<1>17. ImportsReuseSites'
  <2> SUFFICES ASSUME NEW s \in Site, NEW t \in Site, s # t,
                      site'[s].imported, site'[t].imported,
                      site'[s].client = site'[t].client, site'[s].name = site'[t].name
               PROVE  <<site'[s].client, site'[s].name>> \in raced'
    BY DEF ImportsReuseSites
  <2>1. CASE s # n /\ t # n
    BY <1>7, <1>13, <2>1 DEF IInv, ImportsReuseSites
  <2>2. ASSUME NEW u \in Site, u # n, site[u].imported, site[u].client = c,
               site[u].name = add[x].name, x \in Import
        PROVE  <<c, add[x].name>> \in raced'
    BY <1>1, <1>3, <1>13, <2>2 DEF LookupHolds
  <2>3. CASE s = n
    BY <1>6, <1>7, <2>2, <2>3
  <2>4. CASE t = n
    BY <1>6, <1>7, <2>2, <2>4
  <2>5. QED
    BY <2>1, <2>3, <2>4
<1>18. SomethingLost => SomethingLost'
  <2>1. Gone
    BY <1>1, <1>2, <1>7 DEF Gone, Exists
  <2>2. failures' \in Nat /\ failures' >= failures
    BY <1>1, <1>4, FailuresGrow
  <2>3. QED
    BY <1>4, <2>1, <2>2, LossLasts
<1>19. ImportsFit'
  <2> SUFFICES ASSUME NEW i \in Import PROVE ImportFits(i, add[i].pc)'
    BY DEF ImportsFit
  <2>1. PICK pc : pc = add'[i].pc
    OBVIOUS
  <2>2. i \in Creator
    BY DEF Creator
  <2>3. CASE i = x
    <3>1. pc = "saved"
      BY <1>11, <2>1, <2>2, <2>3 DEF AfterInsert
    <3>2. ImportFits(i, pc)
      BY <1>1, <2>3, <3>1, InARow
    <3>3. QED
      BY <1>1, <1>18, <2>1, <3>2, ImportStays
  <2>4. CASE i # x
    <3>1. pc = add[i].pc
      BY <1>11, <2>1, <2>2, <2>4 DEF AfterInsert
    <3>2. ImportFits(i, pc)
      BY <3>1 DEF IInv, ImportsFit
    <3>3. QED
      BY <1>1, <1>18, <2>1, <3>2, ImportStays
  <2>5. QED
    BY <2>3, <2>4
<1>20. CountersFitRows'
  BY <1>1, <1>4, <1>18, CountersStay DEF IInv
<1>21. RemovalsFit'
  <2>1. BareSitesChange
    BY <1>2, <1>7, <1>8 DEF BareSitesChange
  <2>2. \A d \in Client : Exists(d) => Exists(d)'
    BY <1>1 DEF Exists
  <2>3. ASSUME NEW r \in Remover
        PROVE  RemovalFits(removal[r])'
    <3>1. PICK m : m = removal[r]
      OBVIOUS
    <3>2. RemovalFits(m) /\ m.items \in SUBSET Feedback /\ m.sites \in SUBSET Site
      BY <3>1 DEF IInv, RemovalsFit, TypeOK, Removal
    <3>3. RemovalFits(m)'
      BY <1>1, <2>1, <2>2, <3>2, RemovalGoesOn DEF IInv, Exists
    <3>4. QED
      BY <1>1, <3>1, <3>3
  <2>4. QED
    BY <2>3 DEF RemovalsFit
<1>22. CreationsFit'
  BY <1>16 DEF CreationsFit
<1>23. QED
  BY <1>12, <1>14, <1>15, <1>17, <1>19, <1>20, <1>21, <1>22 DEF IInv

LEMMA InsertSiteKeeps ==
    ASSUME IInv, NEW x \in Creator, InsertSite(x)
    PROVE  IInv'
<1> DEFINE c == add[x].client
<1>1. add[x].pc = "insert"
  BY DEF InsertSite
<1>2. /\ CreationFits(x, add[x]) /\ CodeFits(add[x]) /\ LookupHolds(x, add[x])
      /\ add[x].tries <= add[x].beaten
      /\ TypeOK
  BY DEF IInv, CreationsFit, CollisionsNeedCreations
<1>3. \A pc : x \in Import /\ pc # "idle" => ImportFits(x, pc)
  BY <1>1, InARow
<1>4. CASE /\ add' = Fails(x)
           /\ UNCHANGED <<client, site, siteOf, born, import, batch, rows, removal, raced,
                          failures>>
  <2>1. x \in Import => ImportFits(x, "error")
    BY <1>3
  <2>2. QED
    BY <1>4, <2>1, FailingKeeps
<1>5. CASE /\ Exists(c) /\ add[x].code \in CodesOf(c) /\ TriesLeft(x)
           /\ add' = [add EXCEPT ![x].pc = "code", ![x].tries = @ + 1]
           /\ UNCHANGED <<client, site, siteOf, born, import, batch, rows, removal, raced,
                          failures>>
  <2>1. PICK q : q = [add[x] EXCEPT !.pc = "code", !.tries = @ + 1]
    OBVIOUS
  <2>2. add[x].tries + 1 \in 0 .. MAX_CREATE_ATTEMPTS - 1
    BY <1>2, <1>5, CatalogAssumption, AddFacts DEF TriesLeft
  <2>3. /\ q \in Add /\ q.pc = "code" /\ q.client = add[x].client /\ q.name = add[x].name
        /\ q.tries = add[x].tries + 1 /\ q.beaten = add[x].beaten
    BY <1>2, <2>1, <2>2, AddFacts DEF Add
  <2>4. PICK s \in Site : site[s].client = add[x].client /\ site[s].code = add[x].code
    BY <1>5 DEF CodesOf, SitesOf
  <2>5. site[s].code >= add[x].code
    BY <1>2, <2>4, AddFacts
  <2>6. add[x].tries < add[x].beaten
    BY <1>1, <1>2, <2>4, <2>5 DEF CodeFits
  <2>7. q.tries <= q.beaten
    BY <1>2, <2>3, <2>6, AddFacts
  <2>8. CreationFits(x, q) /\ CodeFits(q) /\ LookupHolds(x, q)
    BY <1>1, <1>2, <2>3 DEF CreationFits, CodeFits, LookupHolds
  <2>9. x \in Import => ImportFits(x, q.pc)
    BY <1>3, <2>3
  <2>10. add' = [add EXCEPT ![x] = q]
    BY <1>5, <2>1
  <2>11. QED
    BY <1>5, <2>3, <2>7, <2>8, <2>9, <2>10, OneCreation
<1>6. CASE Exists(c) /\ add[x].code \notin CodesOf(c)
  BY <1>6, InsertedSiteKeeps
<1>7. QED
  BY <1>4, <1>5, <1>6 DEF InsertSite

LEMMA CreationsStay ==
    ASSUME TypeOK, BornFit, CreationsFit, CollisionsNeedCreations, UNCHANGED add,
           born \subseteq born', raced \subseteq raced',
           \A s \in Site : site'[s] \in {site[s], NoSite}
    PROVE  CreationsFit' /\ CollisionsNeedCreations'
<1>1. CollisionsNeedCreations'
  BY DEF CollisionsNeedCreations
<1>2. ASSUME NEW y \in Creator
      PROVE  CreationFits(y, add[y])' /\ CodeFits(add[y])' /\ LookupHolds(y, add[y])'
  <2>1. PICK a : a = add[y]
    OBVIOUS
  <2>2. CreationFits(y, a) /\ CodeFits(a) /\ LookupHolds(y, a)
    BY <2>1 DEF CreationsFit
  <2>3. CreationFits(y, a)' /\ CodeFits(a)' /\ LookupHolds(y, a)'
    BY <2>2, CreationStays, CodeStays, LookupStays
  <2>4. QED
    BY <2>1, <2>3
<1>3. QED
  BY <1>1, <1>2 DEF CreationsFit

LEMMA ImportsStay ==
    ASSUME ImportsFit, UNCHANGED <<add, import, batch, rows>>,
           SomethingLost => SomethingLost'
    PROVE  ImportsFit'
<1> SUFFICES ASSUME NEW i \in Import PROVE ImportFits(i, add[i].pc)'
  BY DEF ImportsFit
<1>1. PICK pc : pc = add[i].pc
  OBVIOUS
<1>2. ImportFits(i, pc)
  BY <1>1 DEF ImportsFit
<1>3. ImportFits(i, pc)'
  BY <1>2, ImportStays
<1>4. QED
  BY <1>1, <1>3

LEMMA RemovalsGoOn ==
    ASSUME TypeOK, BornFit, RemovalsFit, UNCHANGED <<siteOf, removal>>,
           born \subseteq born', BareSitesChange,
           \A c : Exists(c) => Exists(c)'
    PROVE  RemovalsFit'
<1> SUFFICES ASSUME NEW r \in Remover PROVE RemovalFits(removal[r])'
  BY DEF RemovalsFit
<1>1. PICK m : m = removal[r]
  OBVIOUS
<1>2. RemovalFits(m) /\ m.items \in SUBSET Feedback /\ m.sites \in SUBSET Site
  BY <1>1 DEF RemovalsFit, TypeOK, Removal
<1>3. RemovalFits(m)'
  BY <1>2, RemovalGoesOn
<1>4. QED
  BY <1>1, <1>3

\* A client is born; nothing but its creation is another.
LEMMA ClientIsBorn ==
    ASSUME IInv, NEW c \in Client, c \notin born, NEW id \in ClientId,
           client' = [client EXCEPT ![c] = id], born' = born \cup {c},
           UNCHANGED <<site, siteOf, import, batch, rows, removal, raced, failures>>
    PROVE  /\ client' \in [Client -> ClientId \cup {None}]
           /\ BornFit' /\ ImportsReuseSites' /\ CountersFitRows' /\ RemovalsFit'
           /\ SomethingLost => SomethingLost'
<1>1. TypeOK
  BY DEF IInv
<1>2. client' \in [Client -> ClientId \cup {None}]
  BY <1>1 DEF TypeOK
<1>3. \A d \in Client : client'[d] = IF d = c THEN id ELSE client[d]
  BY <1>1 DEF TypeOK
<1>4. BornFit'
  BY <1>3 DEF IInv, BornFit, Exists
<1>5. ImportsReuseSites'
  BY DEF IInv, ImportsReuseSites
<1>6. Gone
  BY <1>3 DEF Gone, Exists
<1>7. SomethingLost => SomethingLost'
  <2>1. failures' \in Nat /\ failures' >= failures
    BY <1>1, FailuresGrow
  <2>2. QED
    BY <1>1, <1>6, <2>1, LossLasts
<1>8. CountersFitRows'
  BY <1>1, <1>7, CountersStay DEF IInv
<1>9. RemovalsFit'
  <2>1. \A d : Exists(d) => Exists(d)'
    BY <1>3, CatalogAssumption DEF Exists
  <2>2. BareSitesChange
    BY DEF BareSitesChange
  <2>3. QED
    BY <2>1, <2>2, RemovalsGoOn DEF IInv
<1>10. QED
  BY <1>2, <1>4, <1>5, <1>7, <1>8, <1>9

LEMMA CreateClientKeeps ==
    ASSUME IInv, NEW id \in ClientId, CreateClient(id)
    PROVE  IInv'
<1>1. PICK c \in Client \ born :
         client' = [client EXCEPT ![c] = id] /\ born' = born \cup {c}
  BY DEF CreateClient
<1>2. UNCHANGED <<site, siteOf, add, import, batch, rows, removal, raced, failures>>
  BY DEF CreateClient
<1>3. /\ client' \in [Client -> ClientId \cup {None}]
      /\ BornFit' /\ ImportsReuseSites' /\ CountersFitRows' /\ RemovalsFit'
      /\ SomethingLost => SomethingLost'
  BY <1>1, <1>2, ClientIsBorn
<1>4. TypeOK'
  BY <1>1, <1>2, <1>3 DEF IInv, TypeOK
<1>5. CreationsFit' /\ CollisionsNeedCreations'
  BY <1>1, <1>2, CreationsStay DEF IInv
<1>6. ImportsFit'
  BY <1>2, <1>3, ImportsStay DEF IInv
<1>7. QED
  BY <1>3, <1>4, <1>5, <1>6 DEF IInv

LEMMA NewClientKeeps ==
    ASSUME IInv, NEW i \in Import, NewClient(i)
    PROVE  IInv'
<1>1. i \in Creator /\ i \notin Admin
  BY CatalogAssumption DEF Creator
<1>2. add[i].pc = "newClient" /\ CreationFits(i, add[i])
  BY <1>1 DEF IInv, CreationsFit, NewClient
<1>3. ImportFits(i, "findSite") /\ ImportFits(i, "error")
  BY <1>1, <1>2, InARow
<1>4. CASE add' = Fails(i) /\ UNCHANGED <<client, born>>
  <2>1. UNCHANGED <<client, site, siteOf, born, import, batch, rows, removal, raced, failures>>
    BY <1>4 DEF NewClient
  <2>2. QED
    BY <1>1, <1>3, <1>4, <2>1, FailingKeeps
<1>5. ASSUME NEW c \in Client \ born,
             client' = [client EXCEPT ![c] = add[i].client],
             born' = born \cup {c},
             add' = [add EXCEPT ![i].pc = "findSite", ![i].client = c]
      PROVE  IInv'
  <2>1. add[i].client \in ClientId /\ add[i].name \in Name
    BY <1>2 DEF CreationFits
  <2>2. UNCHANGED <<site, siteOf, import, batch, rows, removal, raced, failures>>
    BY DEF NewClient
  <2>3. /\ client' \in [Client -> ClientId \cup {None}]
        /\ BornFit' /\ ImportsReuseSites' /\ CountersFitRows' /\ RemovalsFit'
        /\ SomethingLost => SomethingLost'
    BY <1>5, <2>1, <2>2, ClientIsBorn
  <2>4. PICK q : q = [add[i] EXCEPT !.pc = "findSite", !.client = c]
    OBVIOUS
  <2>5. /\ q \in Add /\ q.pc = "findSite" /\ q.client = c /\ q.name = add[i].name
        /\ q.tries = add[i].tries /\ q.beaten = add[i].beaten
    BY <1>1, <2>4, AddFacts DEF IInv, Add
  <2>6. add' = [add EXCEPT ![i] = q]
    BY <1>5, <2>4
  <2>7. CreationFits(i, q)' /\ CodeFits(q)' /\ LookupHolds(i, q)'
    BY <1>1, <1>5, <2>1, <2>5 DEF CreationFits, CodeFits, LookupHolds
  <2>8. q.tries <= q.beaten
    BY <1>1, <2>5 DEF IInv, CollisionsNeedCreations
  <2>9. CreationsFit' /\ CollisionsNeedCreations'
    BY <1>1, <1>5, <2>2, <2>5, <2>6, <2>7, <2>8, OneOfTheCreations DEF IInv
  <2>10. TypeOK'
    <3>1. add' \in [Creator -> Add]
      BY <2>5, <2>6 DEF IInv, TypeOK
    <3>2. born' \in SUBSET (Client \cup Site \cup Feedback)
      BY <1>5 DEF IInv, TypeOK
    <3>3. QED
      BY <2>2, <2>3, <3>1, <3>2 DEF IInv, TypeOK
  <2>11. ImportsFit'
    <3> SUFFICES ASSUME NEW j \in Import PROVE ImportFits(j, add[j].pc)'
      BY DEF ImportsFit
    <3>1. PICK pc : pc = add'[j].pc
      OBVIOUS
    <3>2. add'[j].pc = IF j = i THEN "findSite" ELSE add[j].pc
      BY <2>5, <2>6 DEF IInv, TypeOK, Creator
    <3>3. ImportFits(j, pc)
      BY <1>3, <3>1, <3>2 DEF IInv, ImportsFit
    <3>4. QED
      BY <2>2, <2>3, <3>1, <3>3, ImportStays
  <2>12. QED
    BY <2>3, <2>9, <2>10, <2>11 DEF IInv
<1>6. QED
  BY <1>4, <1>5 DEF NewClient

-----------------------------------------------------------------------------
(* The counters and results of imports *)

\* What CountersFitRows says of a completed import.
CountsFit(i) ==
    /\ Len(rows[i]) = Len(RowsOf[i])
    /\ batch[i].bad = Cardinality(Errors(rows[i]))
    /\ batch[i].ok + batch[i].bad >= Len(RowsOf[i])
    /\ batch[i].ok + batch[i].bad > Len(RowsOf[i]) => SomethingLost

LEMMA CountersAre ==
    CountersFitRows <=> \A i \in Import : batch[i].status = "COMPLETED" => CountsFit(i)
BY DEF CountersFitRows, CountsFit, Errors

\* No import but i's goes on, and no table but those of imports changes.
LEMMA OneImport ==
    ASSUME IInv, NEW i \in Import, NEW q \in Add,
           q.pc \in {"row", "error", "idle"}, q.tries <= q.beaten,
           NEW k \in Counters, NEW b \in Batch, NEW results \in Seq({"SUCCESS", "ERROR"}),
           add' = [add EXCEPT ![i] = q],
           import' = [import EXCEPT ![i] = k],
           batch' = [batch EXCEPT ![i] = b],
           rows' = [rows EXCEPT ![i] = results],
           Failure \/ UNCHANGED failures,
           UNCHANGED <<client, site, siteOf, born, removal, raced>>,
           (SomethingLost => SomethingLost') =>
               /\ ImportFits(i, q.pc)'
               /\ b.status = "COMPLETED" => CountsFit(i)'
    PROVE  IInv'
<1>1. TypeOK
  BY DEF IInv
<1>2. i \in Creator /\ i \notin Admin
  BY CatalogAssumption DEF Creator
<1>3. failures' \in 0 .. MaxFailures /\ failures' \in Nat /\ failures' >= failures
  BY <1>1, FailuresGrow
<1>4. SomethingLost => SomethingLost'
  BY <1>1, <1>3, SameTables, LossLasts
<1>5. /\ \A j \in Import : add'[j] = IF j = i THEN q ELSE add[j]
      /\ \A j \in Import : import'[j] = IF j = i THEN k ELSE import[j]
      /\ \A j \in Import : batch'[j] = IF j = i THEN b ELSE batch[j]
      /\ \A j \in Import : rows'[j] = IF j = i THEN results ELSE rows[j]
  BY <1>1 DEF TypeOK, Creator
<1>6. TypeOK'
  <2>1. add' \in [Creator -> Add] /\ import' \in [Import -> Counters]
    BY <1>1 DEF TypeOK
  <2>2. batch' \in [Import -> Batch] /\ rows' \in [Import -> Seq({"SUCCESS", "ERROR"})]
    BY <1>1 DEF TypeOK
  <2>3. QED
    BY <1>1, <1>3, <2>1, <2>2 DEF TypeOK
<1>7. BornFit' /\ ImportsReuseSites'
  BY DEF IInv, BornFit, ImportsReuseSites, Exists
<1>8. CreationsFit' /\ CollisionsNeedCreations'
  <2>1. CreationFits(i, q)' /\ CodeFits(q)' /\ LookupHolds(i, q)'
    BY <1>2 DEF CreationFits, CodeFits, LookupHolds
  <2>2. QED
    BY <1>2, <2>1, OneOfTheCreations DEF IInv
<1>9. ImportsFit'
  <2> SUFFICES ASSUME NEW j \in Import PROVE ImportFits(j, add[j].pc)'
    BY DEF ImportsFit
  <2>1. CASE j = i
    BY <1>4, <1>5, <2>1
  <2>2. CASE j # i
    <3>1. PICK pc : pc = add'[j].pc
      OBVIOUS
    <3>2. ImportFits(j, pc)
      BY <1>5, <2>2, <3>1 DEF IInv, ImportsFit
    <3>3. ImportFits(j, pc)'
      BY <1>4, <1>5, <2>2, <3>2 DEF ImportFits, Errors
    <3>4. QED
      BY <3>1, <3>3
  <2>3. QED
    BY <2>1, <2>2
<1>10. CountersFitRows'
  <2>1. ASSUME NEW j \in Import, batch'[j].status = "COMPLETED"
        PROVE  CountsFit(j)'
    <3>1. CASE j = i
      BY <1>4, <1>5, <2>1, <3>1
    <3>2. CASE j # i
      <4>1. CountsFit(j)
        BY <1>5, <2>1, <3>2, CountersAre DEF IInv
      <4>2. QED
        BY <1>4, <1>5, <3>2, <4>1 DEF CountsFit, Errors
    <3>3. QED
      BY <3>1, <3>2
  <2>2. QED
    BY <2>1 DEF CountersFitRows, CountsFit, Errors
<1>11. RemovalsFit'
  BY RemovalStays DEF IInv, RemovalsFit
<1>12. QED
  BY <1>6, <1>7, <1>8, <1>9, <1>10, <1>11 DEF IInv

LEMMA StepRecords ==
    /\ \A pc \in {"row", "error"} : /\ [NoAdd EXCEPT !.pc = pc] \in Add
                                    /\ [NoAdd EXCEPT !.pc = pc].pc = pc
                                    /\ [NoAdd EXCEPT !.pc = pc].tries = 0
                                    /\ [NoAdd EXCEPT !.pc = pc].beaten = 0
    /\ NoAdd \in Add /\ NoAdd.pc = "idle" /\ NoAdd.tries = 0 /\ NoAdd.beaten = 0
    /\ NoImport \in Counters /\ NoBatch \in Batch
BY CatalogAssumption DEF NoAdd, Add, NoImport, Counters, NoBatch, Batch

LEMMA ErrorsFacts ==
    ASSUME NEW results \in Seq({"SUCCESS", "ERROR"})
    PROVE  /\ Len(results) \in Nat
           /\ IsFiniteSet(Errors(results)) /\ Cardinality(Errors(results)) \in Nat
           /\ Len(results) + 1 \notin Errors(results)
           /\ \A r \in {"SUCCESS", "ERROR"} :
                 /\ Append(results, r) \in Seq({"SUCCESS", "ERROR"})
                 /\ Len(Append(results, r)) = Len(results) + 1
                 /\ Errors(Append(results, r)) =
                       IF r = "ERROR" THEN Errors(results) \cup {Len(results) + 1}
                       ELSE Errors(results)
<1>1. Len(results) \in Nat /\ DOMAIN results = 1 .. Len(results)
  OBVIOUS
<1>2. Errors(results) \in SUBSET (1 .. Len(results))
  BY <1>1 DEF Errors
<1>3. IsFiniteSet(1 .. Len(results))
  BY <1>1, FS_Interval
<1>4. IsFiniteSet(Errors(results)) /\ Cardinality(Errors(results)) \in Nat
  BY <1>2, <1>3, FS_Subset, FS_CardinalityType
<1>5. Len(results) + 1 \notin Errors(results)
  BY <1>1, <1>2
<1>6. ASSUME NEW r \in {"SUCCESS", "ERROR"}
      PROVE  /\ Append(results, r) \in Seq({"SUCCESS", "ERROR"})
             /\ Len(Append(results, r)) = Len(results) + 1
             /\ Errors(Append(results, r)) =
                   IF r = "ERROR" THEN Errors(results) \cup {Len(results) + 1}
                   ELSE Errors(results)
  <2>1. PICK longer : longer = Append(results, r)
    OBVIOUS
  <2>2. /\ longer \in Seq({"SUCCESS", "ERROR"})
        /\ Len(longer) = Len(results) + 1
        /\ DOMAIN longer = 1 .. Len(results) + 1
        /\ \A n \in 1 .. Len(results) : longer[n] = results[n]
        /\ longer[Len(results) + 1] = r
    BY <2>1, AppendProperties
  <2>3. 1 .. Len(results) + 1 = 1 .. Len(results) \cup {Len(results) + 1}
    BY <1>1
  <2>4. Errors(longer) = IF r = "ERROR" THEN Errors(results) \cup {Len(results) + 1}
                         ELSE Errors(results)
    BY <1>1, <2>2, <2>3 DEF Errors
  <2>5. QED
    BY <2>1, <2>2, <2>4
<1>7. QED
  BY <1>1, <1>4, <1>5, <1>6

LEMMA ImportFacts ==
    ASSUME IInv, NEW i \in Import
    PROVE  /\ i \in Creator /\ i \notin Admin
           /\ import[i] \in Counters
           /\ import[i].at \in Nat /\ import[i].ok \in Nat /\ import[i].bad \in Nat
           /\ batch[i] \in Batch
           /\ rows[i] \in Seq({"SUCCESS", "ERROR"}) /\ Len(rows[i]) \in Nat
           /\ Cardinality(Errors(rows[i])) \in Nat
           /\ Len(RowsOf[i]) \in Nat
           /\ ImportFits(i, add[i].pc)
<1>1. i \in Creator /\ i \notin Admin
  BY CatalogAssumption DEF Creator
<1>2. /\ import[i] \in Counters /\ batch[i] \in Batch
      /\ rows[i] \in Seq({"SUCCESS", "ERROR"})
  BY DEF IInv, TypeOK
<1>3. import[i].at \in Nat /\ import[i].ok \in Nat /\ import[i].bad \in Nat
  BY <1>2 DEF Counters
<1>4. Len(rows[i]) \in Nat /\ Cardinality(Errors(rows[i])) \in Nat
  BY <1>2, ErrorsFacts
<1>5. Len(RowsOf[i]) \in Nat
  BY CatalogAssumption
<1>6. QED
  BY <1>1, <1>2, <1>3, <1>4, <1>5 DEF IInv, ImportsFit

LEMMA SameEntry ==
    ASSUME NEW f, NEW S, NEW T, f \in [S -> T], NEW x \in S
    PROVE  f = [f EXCEPT ![x] = f[x]]
OBVIOUS

LEMMA StartImportKeeps ==
    ASSUME IInv, NEW i \in Import, StartImport(i)
    PROVE  IInv'
<1>1. PICK q : q = [add[i] EXCEPT !.pc = "row"]
  OBVIOUS
<1>2. /\ q \in Add /\ q.pc = "row"
      /\ q.tries = add[i].tries /\ q.beaten = add[i].beaten
  BY <1>1 DEF IInv, TypeOK, Creator, Add
<1>3. q.tries <= q.beaten
  BY <1>2 DEF IInv, CollisionsNeedCreations, Creator
<1>4. PICK k : k = [import[i] EXCEPT !.at = 1]
  OBVIOUS
<1>5. PICK b : b = [batch[i] EXCEPT !.status = "PROCESSING"]
  OBVIOUS
<1>6. /\ ImportFits(i, add[i].pc) /\ batch[i].status = "none" /\ Len(RowsOf[i]) \in Nat
      /\ import[i] \in Counters /\ batch[i] \in Batch
  BY ImportFacts DEF StartImport
<1>7. rows[i] = <<>> /\ import[i] = NoImport
  BY <1>6 DEF ImportFits
<1>8. k \in Counters /\ k.at = 1 /\ k.ok = 0 /\ k.bad = 0
  BY <1>4, <1>6, <1>7 DEF Counters, NoImport
<1>9. b \in Batch /\ b.status = "PROCESSING"
  BY <1>5, <1>6 DEF Batch
<1>10. /\ add' = [add EXCEPT ![i] = q]
       /\ import' = [import EXCEPT ![i] = k]
       /\ batch' = [batch EXCEPT ![i] = b]
       /\ UNCHANGED <<client, site, siteOf, born, rows, removal, raced, failures>>
  BY <1>1, <1>4, <1>5 DEF StartImport, Goes
<1>11. rows[i] \in Seq({"SUCCESS", "ERROR"}) /\ rows' = [rows EXCEPT ![i] = rows[i]]
  BY <1>10, SameEntry DEF IInv, TypeOK
<1>12. import'[i] = k /\ batch'[i] = b /\ rows'[i] = <<>>
  BY <1>7, <1>10 DEF IInv, TypeOK
<1>13. Cardinality(Errors(<<>>)) = 0 /\ Len(<<>>) = 0
  <2>1. Errors(<<>>) = {}
    BY DEF Errors
  <2>2. QED
    BY <2>1, FS_EmptySet
<1>14. ImportFits(i, q.pc)'
  BY <1>2, <1>6, <1>8, <1>9, <1>12, <1>13 DEF ImportFits
<1>15. QED
  BY <1>2, <1>3, <1>8, <1>9, <1>10, <1>11, <1>14, OneImport

LEMMA SaveSuccessKeeps ==
    ASSUME IInv, NEW i \in Import, SaveSuccess(i)
    PROVE  IInv'
<1>1. add[i].pc = "saved"
  BY DEF SaveSuccess
<1>2. /\ i \in Creator /\ i \notin Admin
      /\ import[i] \in Counters /\ batch[i] \in Batch
      /\ import[i].at \in Nat /\ import[i].ok \in Nat /\ import[i].bad \in Nat
      /\ rows[i] \in Seq({"SUCCESS", "ERROR"}) /\ Len(rows[i]) \in Nat
      /\ Cardinality(Errors(rows[i])) \in Nat /\ Len(RowsOf[i]) \in Nat
      /\ ImportFits(i, add[i].pc)
  BY ImportFacts
<1>3. /\ import[i].at = Len(rows[i]) + 1
      /\ import[i].at <= Len(RowsOf[i])
      /\ import[i].bad = Cardinality(Errors(rows[i]))
      /\ import[i].ok + import[i].bad >= Len(rows[i])
      /\ import[i].ok + import[i].bad > Len(rows[i]) => SomethingLost
      /\ batch[i].status # "none" /\ batch[i].status # "COMPLETED"
  BY <1>1, <1>2 DEF ImportFits
<1>4. PICK b : b = batch[i]
  OBVIOUS
<1>5. b \in Batch /\ b.status # "COMPLETED" /\ batch' = [batch EXCEPT ![i] = b]
  BY <1>2, <1>3, <1>4, SameEntry DEF IInv, TypeOK, SaveSuccess
<1>6. UNCHANGED <<client, site, siteOf, born, batch, removal, raced>>
  BY DEF SaveSuccess
<1>7. UNCHANGED <<client, site, siteOf, born, removal, raced>>
  BY DEF SaveSuccess
<1>8. Failure \/ UNCHANGED failures
  BY DEF SaveSuccess
<1>9. CASE /\ import' = [import EXCEPT ![i].ok = @ + 1, ![i].at = @ + 1]
           /\ rows' = [rows EXCEPT ![i] = Append(@, "SUCCESS")]
           /\ add' = [add EXCEPT ![i] = [NoAdd EXCEPT !.pc = "row"]]
           /\ UNCHANGED failures
  <2>1. PICK q : q = [NoAdd EXCEPT !.pc = "row"]
    OBVIOUS
  <2>2. q \in Add /\ q.pc = "row" /\ q.tries = 0 /\ q.beaten = 0
    BY <2>1, StepRecords
  <2>3. PICK k : k = [import[i] EXCEPT !.ok = @ + 1, !.at = @ + 1]
    OBVIOUS
  <2>4. /\ k \in Counters /\ k.ok = import[i].ok + 1 /\ k.at = import[i].at + 1
        /\ k.bad = import[i].bad
    <3>1. PICK counted : counted = [import[i] EXCEPT !.ok = @ + 1]
      OBVIOUS
    <3>2. /\ counted \in Counters /\ counted.ok = import[i].ok + 1
          /\ counted.at = import[i].at /\ counted.bad = import[i].bad
      BY <1>2, <3>1 DEF Counters
    <3>3. k = [counted EXCEPT !.at = @ + 1]
      BY <2>3, <3>1
    <3>4. QED
      BY <1>2, <3>2, <3>3 DEF Counters
  <2>5. PICK results : results = Append(rows[i], "SUCCESS")
    OBVIOUS
  <2>6. /\ results \in Seq({"SUCCESS", "ERROR"})
        /\ Len(results) = Len(rows[i]) + 1
        /\ Errors(results) = Errors(rows[i])
    BY <1>2, <2>5, ErrorsFacts
  <2>7. /\ add' = [add EXCEPT ![i] = q]
        /\ import' = [import EXCEPT ![i] = k]
        /\ rows' = [rows EXCEPT ![i] = results]
    BY <1>9, <2>1, <2>3, <2>5
  <2>8. import'[i] = k /\ batch'[i] = batch[i] /\ rows'[i] = results
    BY <1>6, <2>7 DEF IInv, TypeOK
  <2>9. (SomethingLost => SomethingLost') => ImportFits(i, q.pc)'
    <3>1. /\ k.at = Len(results) + 1
          /\ k.at <= Len(RowsOf[i]) + 1
          /\ k.bad = Cardinality(Errors(results))
          /\ k.ok + k.bad >= Len(results)
          /\ k.ok + k.bad > Len(results) => SomethingLost
      <4>1. k.ok + k.bad = import[i].ok + import[i].bad + 1
        BY <1>2, <2>4
      <4>2. k.ok + k.bad > Len(results) => import[i].ok + import[i].bad > Len(rows[i])
        BY <1>2, <2>6, <4>1
      <4>3. QED
        BY <1>2, <1>3, <2>4, <2>6, <4>1, <4>2
    <3>2. QED
      BY <1>3, <1>4, <2>2, <2>8, <3>1 DEF ImportFits
  <2>10. q.tries <= q.beaten
    BY <2>2
  <2>11. QED
    BY <1>5, <1>7, <1>8, <2>2, <2>4, <2>6, <2>7, <2>9, <2>10, OneImport
<1>10. CASE /\ \/ ~Exists(add[i].client) /\ UNCHANGED failures
               \/ site[add[i].site] = NoSite /\ UNCHANGED failures
               \/ Failure
            /\ import' = [import EXCEPT ![i].ok = @ + 1]
            /\ add' = Fails(i)
            /\ UNCHANGED rows
  <2>1. PICK q : q = [NoAdd EXCEPT !.pc = "error"]
    OBVIOUS
  <2>2. q \in Add /\ q.pc = "error" /\ q.tries = 0 /\ q.beaten = 0
    BY <2>1, StepRecords
  <2>3. PICK k : k = [import[i] EXCEPT !.ok = @ + 1]
    OBVIOUS
  <2>4. /\ k \in Counters /\ k.ok = import[i].ok + 1 /\ k.at = import[i].at
        /\ k.bad = import[i].bad
    BY <1>2, <2>3 DEF Counters
  <2>5. rows' = [rows EXCEPT ![i] = rows[i]]
    BY <1>10, SameEntry DEF IInv, TypeOK
  <2>6. /\ add' = [add EXCEPT ![i] = q]
        /\ import' = [import EXCEPT ![i] = k]
    BY <1>10, <2>1, <2>3 DEF Fails
  <2>7. import'[i] = k /\ batch'[i] = batch[i] /\ rows'[i] = rows[i]
    BY <1>6, <1>10, <2>6 DEF IInv, TypeOK
  <2>8. add[i].client \in Client \cap born /\ add[i].site \in Site \cap born
    BY <1>1, <1>2 DEF IInv, CreationsFit, CreationFits
  <2>9. SomethingLost'
    <3>1. failures \in Nat
      BY CatalogAssumption DEF IInv, TypeOK
    <3>2. CASE Failure
      BY <3>1, <3>2 DEF Failure, SomethingLost
    <3>3. CASE ~Exists(add[i].client)
      BY <1>6, <2>8, <3>3 DEF SomethingLost, Exists
    <3>4. CASE site[add[i].site] = NoSite
      BY <1>6, <2>8, <3>4 DEF SomethingLost
    <3>5. QED
      BY <1>10, <3>2, <3>3, <3>4
  <2>10. ImportFits(i, q.pc)'
    BY <1>2, <1>3, <2>2, <2>4, <2>7, <2>9 DEF ImportFits
  <2>11. q.tries <= q.beaten
    BY <2>2
  <2>12. QED
    BY <1>2, <1>5, <1>7, <1>8, <2>2, <2>4, <2>5, <2>6, <2>10, <2>11, OneImport
<1>11. QED
  BY <1>9, <1>10 DEF SaveSuccess

LEMMA SaveErrorKeeps ==
    ASSUME IInv, NEW i \in Import, SaveError(i)
    PROVE  IInv'
<1>1. add[i].pc = "error"
  BY DEF SaveError
<1>2. /\ i \in Creator /\ i \notin Admin
      /\ import[i] \in Counters /\ batch[i] \in Batch
      /\ import[i].at \in Nat /\ import[i].ok \in Nat /\ import[i].bad \in Nat
      /\ rows[i] \in Seq({"SUCCESS", "ERROR"}) /\ Len(rows[i]) \in Nat
      /\ Cardinality(Errors(rows[i])) \in Nat /\ Len(RowsOf[i]) \in Nat
      /\ ImportFits(i, add[i].pc)
  BY ImportFacts
<1>3. /\ import[i].at = Len(rows[i]) + 1
      /\ import[i].at <= Len(RowsOf[i])
      /\ import[i].bad = Cardinality(Errors(rows[i]))
      /\ import[i].ok + import[i].bad >= Len(rows[i])
      /\ import[i].ok + import[i].bad > Len(rows[i]) => SomethingLost
      /\ batch[i].status # "none" /\ batch[i].status # "COMPLETED"
  BY <1>1, <1>2 DEF ImportFits
<1>4. PICK b : b = batch[i]
  OBVIOUS
<1>5. b \in Batch /\ b.status # "COMPLETED" /\ batch' = [batch EXCEPT ![i] = b]
  BY <1>2, <1>3, <1>4, SameEntry DEF IInv, TypeOK, SaveError
<1>6. UNCHANGED <<client, site, siteOf, born, batch, removal, raced>>
  BY DEF SaveError
<1>7. UNCHANGED <<client, site, siteOf, born, removal, raced>>
  BY DEF SaveError
<1>8. Failure \/ UNCHANGED failures
  BY DEF SaveError
<1>9. CASE /\ import' = [import EXCEPT ![i].bad = @ + 1, ![i].at = @ + 1]
           /\ rows' = [rows EXCEPT ![i] = Append(@, "ERROR")]
           /\ add' = [add EXCEPT ![i] = [NoAdd EXCEPT !.pc = "row"]]
           /\ UNCHANGED failures
  <2>1. PICK q : q = [NoAdd EXCEPT !.pc = "row"]
    OBVIOUS
  <2>2. q \in Add /\ q.pc = "row" /\ q.tries = 0 /\ q.beaten = 0
    BY <2>1, StepRecords
  <2>3. PICK k : k = [import[i] EXCEPT !.bad = @ + 1, !.at = @ + 1]
    OBVIOUS
  <2>4. /\ k \in Counters /\ k.bad = import[i].bad + 1 /\ k.at = import[i].at + 1
        /\ k.ok = import[i].ok
    <3>1. PICK counted : counted = [import[i] EXCEPT !.bad = @ + 1]
      OBVIOUS
    <3>2. /\ counted \in Counters /\ counted.bad = import[i].bad + 1
          /\ counted.at = import[i].at /\ counted.ok = import[i].ok
      BY <1>2, <3>1 DEF Counters
    <3>3. k = [counted EXCEPT !.at = @ + 1]
      BY <2>3, <3>1
    <3>4. QED
      BY <1>2, <3>2, <3>3 DEF Counters
  <2>5. PICK results : results = Append(rows[i], "ERROR")
    OBVIOUS
  <2>6. /\ results \in Seq({"SUCCESS", "ERROR"})
        /\ Len(results) = Len(rows[i]) + 1
        /\ Errors(results) = Errors(rows[i]) \cup {Len(rows[i]) + 1}
        /\ IsFiniteSet(Errors(rows[i]))
        /\ Len(rows[i]) + 1 \notin Errors(rows[i])
    BY <1>2, <2>5, ErrorsFacts
  <2>7. Cardinality(Errors(results)) = Cardinality(Errors(rows[i])) + 1
    BY <2>6, FS_AddElement
  <2>8. /\ add' = [add EXCEPT ![i] = q]
        /\ import' = [import EXCEPT ![i] = k]
        /\ rows' = [rows EXCEPT ![i] = results]
    BY <1>9, <2>1, <2>3, <2>5
  <2>9. import'[i] = k /\ batch'[i] = batch[i] /\ rows'[i] = results
    BY <1>6, <2>8 DEF IInv, TypeOK
  <2>10. (SomethingLost => SomethingLost') => ImportFits(i, q.pc)'
    <3>1. /\ k.at = Len(results) + 1
          /\ k.at <= Len(RowsOf[i]) + 1
          /\ k.bad = Cardinality(Errors(results))
          /\ k.ok + k.bad >= Len(results)
          /\ k.ok + k.bad > Len(results) => SomethingLost
      <4>1. k.ok + k.bad = import[i].ok + import[i].bad + 1
        BY <1>2, <2>4
      <4>2. k.ok + k.bad > Len(results) => import[i].ok + import[i].bad > Len(rows[i])
        BY <1>2, <2>6, <4>1
      <4>3. QED
        BY <1>2, <1>3, <2>4, <2>6, <2>7, <4>1, <4>2
    <3>2. QED
      BY <1>3, <1>4, <2>2, <2>9, <3>1 DEF ImportFits
  <2>11. q.tries <= q.beaten
    BY <2>2
  <2>12. QED
    BY <1>5, <1>7, <1>8, <2>2, <2>4, <2>6, <2>8, <2>10, <2>11, OneImport
<1>10. CASE /\ Failure
            /\ import' = [import EXCEPT ![i] = NoImport]
            /\ add' = [add EXCEPT ![i] = NoAdd]
            /\ UNCHANGED rows
  <2>1. rows' = [rows EXCEPT ![i] = rows[i]]
    BY <1>10, SameEntry DEF IInv, TypeOK
  <2>2. import'[i] = NoImport /\ batch'[i] = batch[i] /\ rows'[i] = rows[i]
    BY <1>6, <1>10 DEF IInv, TypeOK
  <2>3. ImportFits(i, NoAdd.pc)'
    BY <1>3, <2>2, StepRecords DEF ImportFits
  <2>4. NoAdd.tries <= NoAdd.beaten
    BY StepRecords
  <2>5. NoAdd \in Add /\ NoAdd.pc = "idle" /\ NoImport \in Counters
    BY StepRecords
  <2>6. /\ import' = [import EXCEPT ![i] = NoImport]
        /\ add' = [add EXCEPT ![i] = NoAdd]
    BY <1>10
  <2>7. QED
    BY <1>2, <1>5, <1>7, <1>8, <2>1, <2>3, <2>4, <2>5, <2>6, OneImport
<1>11. QED
  BY <1>9, <1>10 DEF SaveError

LEMMA FinishImportKeeps ==
    ASSUME IInv, NEW i \in Import, FinishImport(i)
    PROVE  IInv'
<1>1. add[i].pc = "row" /\ import[i].at > Len(RowsOf[i])
  BY DEF FinishImport
<1>2. /\ i \in Creator /\ i \notin Admin
      /\ import[i] \in Counters /\ batch[i] \in Batch
      /\ import[i].at \in Nat /\ import[i].ok \in Nat /\ import[i].bad \in Nat
      /\ rows[i] \in Seq({"SUCCESS", "ERROR"}) /\ Len(rows[i]) \in Nat
      /\ Cardinality(Errors(rows[i])) \in Nat /\ Len(RowsOf[i]) \in Nat
      /\ ImportFits(i, add[i].pc)
  BY ImportFacts
<1>3. /\ Len(rows[i]) = Len(RowsOf[i])
      /\ import[i].bad = Cardinality(Errors(rows[i]))
      /\ import[i].ok + import[i].bad >= Len(rows[i])
      /\ import[i].ok + import[i].bad > Len(rows[i]) => SomethingLost
      /\ batch[i].status # "none" /\ batch[i].status # "COMPLETED"
  BY <1>1, <1>2 DEF ImportFits
<1>4. /\ UNCHANGED <<client, site, siteOf, born, rows, removal, raced>>
      /\ import' = [import EXCEPT ![i] = NoImport]
      /\ add' = [add EXCEPT ![i] = NoAdd]
  BY DEF FinishImport
<1>5. rows' = [rows EXCEPT ![i] = rows[i]]
  BY <1>4, SameEntry DEF IInv, TypeOK
<1>6. NoAdd \in Add /\ NoAdd.pc = "idle" /\ NoAdd.tries <= NoAdd.beaten /\ NoImport \in Counters
  BY StepRecords
<1>7. CASE batch' = [batch EXCEPT ![i] = Completed(import[i])] /\ UNCHANGED failures
  <2>1. PICK b : b = Completed(import[i])
    OBVIOUS
  <2>2. /\ b \in Batch /\ b.status = "COMPLETED"
        /\ b.ok = import[i].ok /\ b.bad = import[i].bad
    BY <1>2, <2>1 DEF Completed, Batch
  <2>3. import'[i] = NoImport /\ batch'[i] = b /\ rows'[i] = rows[i]
    BY <1>4, <1>7, <2>1 DEF IInv, TypeOK
  <2>4. ImportFits(i, NoAdd.pc)'
    BY <1>6, <2>2, <2>3 DEF ImportFits
  <2>5. (SomethingLost => SomethingLost') => CountsFit(i)'
    BY <1>2, <1>3, <2>2, <2>3 DEF CountsFit
  <2>6. batch' = [batch EXCEPT ![i] = b]
    BY <1>7, <2>1
  <2>7. QED
    BY <1>2, <1>4, <1>5, <1>6, <1>7, <2>2, <2>4, <2>5, <2>6, OneImport
<1>8. CASE Failure /\ UNCHANGED batch
  <2>1. PICK b : b = batch[i]
    OBVIOUS
  <2>2. b \in Batch /\ b.status # "COMPLETED" /\ batch' = [batch EXCEPT ![i] = b]
    BY <1>2, <1>3, <1>8, <2>1, SameEntry DEF IInv, TypeOK
  <2>3. import'[i] = NoImport /\ batch'[i] = batch[i] /\ rows'[i] = rows[i]
    BY <1>4, <1>8 DEF IInv, TypeOK
  <2>4. ImportFits(i, NoAdd.pc)'
    BY <1>3, <1>6, <2>3 DEF ImportFits
  <2>5. UNCHANGED <<client, site, siteOf, born, removal, raced>>
    BY <1>4
  <2>6. /\ import' = [import EXCEPT ![i] = NoImport]
        /\ add' = [add EXCEPT ![i] = NoAdd]
    BY <1>4
  <2>7. QED
    BY <1>2, <1>5, <1>6, <1>8, <2>2, <2>4, <2>5, <2>6, OneImport
<1>9. QED
  BY <1>7, <1>8 DEF FinishImport

-----------------------------------------------------------------------------
(* Removals *)

LEMMA RemovalFacts ==
    ASSUME TypeOK, NEW r \in Remover
    PROVE  /\ removal[r] \in Removal
           /\ removal[r].sites \in SUBSET Site /\ removal[r].items \in SUBSET Feedback
           /\ removal[r].item \in Feedback \cup {None}
           /\ removal[r].client \in Client \cup {None}
           /\ removal[r].disturbed \in BOOLEAN
BY DEF TypeOK, Removal

\* No creation and no import goes on; sites only go.
LEMMA OthersWait ==
    ASSUME IInv, TypeOK', BornFit', RemovalsFit',
           UNCHANGED <<add, import, batch, rows, raced>>,
           Failure \/ UNCHANGED failures,
           Gone, \A s \in Site : site'[s] \in {site[s], NoSite}
    PROVE  IInv'
<1>1. SomethingLost => SomethingLost'
  BY FailuresGrow, LossLasts DEF IInv
<1>2. CreationsFit' /\ CollisionsNeedCreations'
  BY CreationsStay DEF IInv, Gone
<1>3. ImportsReuseSites'
  <2> SUFFICES ASSUME NEW s \in Site, NEW t \in Site, s # t,
                      site'[s].imported, site'[t].imported,
                      site'[s].client = site'[t].client, site'[s].name = site'[t].name
               PROVE  <<site'[s].client, site'[s].name>> \in raced
    BY DEF ImportsReuseSites
  <2>1. ~NoSite.imported
    BY DEF NoSite
  <2>2. site'[s] = site[s] /\ site'[t] = site[t]
    BY <2>1
  <2>3. QED
    BY <2>2 DEF IInv, ImportsReuseSites
<1>4. ImportsFit' /\ CountersFitRows'
  BY <1>1, ImportsStay, CountersStay DEF IInv
<1>5. QED
  BY <1>2, <1>3, <1>4 DEF IInv

LEMMA OneRemoval ==
    ASSUME IInv, NEW r \in Remover, NEW m \in Removal, RemovalFits(m),
           removal' = [removal EXCEPT ![r] = m],
           Failure \/ UNCHANGED failures,
           UNCHANGED <<client, site, siteOf, born, add, import, batch, rows, raced>>
    PROVE  IInv'
<1>1. TypeOK'
  <2>1. removal' \in [Remover -> Removal]
    BY DEF IInv, TypeOK
  <2>2. QED
    BY <2>1, FailuresGrow DEF IInv, TypeOK
<1>2. BornFit'
  BY DEF IInv, BornFit, Exists
<1>3. ASSUME NEW q \in Remover
      PROVE  RemovalFits(removal[q])'
  <2>1. PICK p : p = removal'[q]
    OBVIOUS
  <2>2. p = IF q = r THEN m ELSE removal[q]
    BY <2>1 DEF IInv, TypeOK
  <2>3. RemovalFits(p)
    BY <2>2 DEF IInv, RemovalsFit
  <2>4. RemovalFits(p)'
    BY <2>3, RemovalStays
  <2>5. QED
    BY <2>1, <2>4
<1>4. RemovalsFit'
  BY <1>3 DEF RemovalsFit
<1>5. Gone
  BY SameTables
<1>6. QED
  BY <1>1, <1>2, <1>4, <1>5, OthersWait

LEMMA StartRemovalKeeps ==
    ASSUME IInv, NEW r \in Remover, NEW c \in Client, StartRemoval(r, c)
    PROVE  IInv'
<1>1. PICK m : m = [NoRemoval EXCEPT !.pc = "sites", !.client = c]
  OBVIOUS
<1>2. m = [pc |-> "sites", client |-> c, sites |-> {}, items |-> {}, item |-> None,
           disturbed |-> FALSE]
  BY <1>1 DEF NoRemoval
<1>3. m \in Removal
  BY <1>2 DEF Removal
<1>4. RemovalFits(m)
  BY <1>2 DEF RemovalFits, StartRemoval
<1>5. QED
  BY <1>1, <1>3, <1>4, OneRemoval DEF StartRemoval

LEMMA ListSitesKeeps ==
    ASSUME IInv, NEW r \in Remover, ListSites(r)
    PROVE  IInv'
<1>1. TypeOK /\ removal[r].pc = "sites" /\ RemovalFits(removal[r])
  BY DEF IInv, RemovalsFit, ListSites
<1>2. PICK m : m = [removal[r] EXCEPT !.pc = "next", !.sites = ToClear(removal[r].client)]
  OBVIOUS
<1>3. ToClear(removal[r].client) = {s \in Site : site[s].client = removal[r].client}
  BY DEF ToClear, SitesOf
<1>4. /\ m \in Removal /\ m.pc = "next" /\ m.client = removal[r].client
      /\ m.sites = {s \in Site : site[s].client = removal[r].client}
      /\ m.items = removal[r].items /\ m.disturbed = removal[r].disturbed
  BY <1>1, <1>2, <1>3, RemovalFacts DEF Removal
<1>5. removal[r].client \in Client
  BY <1>1 DEF RemovalFits
<1>6. \A s \in m.sites : s \in born
  BY <1>4, <1>5, CatalogAssumption DEF IInv, BornFit, NoSite
<1>7. \A f \in Feedback : IsAt(f, m.client) => siteOf[f] \in m.sites
  BY <1>1, <1>4 DEF IsAt, TypeOK
<1>8. RemovalFits(m)
  BY <1>1, <1>4, <1>5, <1>6, <1>7 DEF RemovalFits
<1>9. removal' = [removal EXCEPT ![r] = m]
  BY <1>2 DEF ListSites
<1>10. QED
  BY <1>4, <1>8, <1>9, OneRemoval DEF ListSites

LEMMA RemovalNextKeeps ==
    ASSUME IInv, NEW r \in Remover, RemovalNext(r)
    PROVE  IInv'
<1> DEFINE here == removal[r]
<1>1. TypeOK /\ here.pc = "next" /\ RemovalFits(here)
  BY DEF IInv, RemovalsFit, RemovalNext
<1>2. UNCHANGED <<client, site, siteOf, born, add, import, batch, rows, raced, failures>>
  BY DEF RemovalNext
<1>3. ASSUME NEW f \in here.items,
             removal' = [removal EXCEPT ![r].pc = "read", ![r].item = f,
                                        ![r].items = @ \ {f}]
      PROVE  IInv'
  <2>1. PICK m : m = [here EXCEPT !.pc = "read", !.item = f, !.items = here.items \ {f}]
    OBVIOUS
  <2>2. /\ m \in Removal /\ m.pc = "read" /\ m.client = here.client
        /\ m.sites = here.sites /\ m.items = here.items \ {f} /\ m.item = f
        /\ m.disturbed = here.disturbed /\ f \in Feedback
    BY <1>1, <2>1, RemovalFacts DEF Removal
  <2>3. RemovalFits(m)
    BY <1>1, <1>3, <2>2 DEF RemovalFits
  <2>4. removal' = [removal EXCEPT ![r] = m]
    BY <1>3, <2>1
  <2>5. QED
    BY <1>2, <2>2, <2>3, <2>4, OneRemoval
<1>4. ASSUME here.items = {}, NEW s \in here.sites,
             removal' = [removal EXCEPT ![r].sites = @ \ {s}, ![r].items = FeedbackAt({s})]
      PROVE  IInv'
  <2>1. PICK m : m = [here EXCEPT !.sites = here.sites \ {s}, !.items = FeedbackAt({s})]
    OBVIOUS
  <2>2. FeedbackAt({s}) = {f \in Feedback : siteOf[f] = s}
    BY DEF FeedbackAt
  <2>3. /\ m \in Removal /\ m.pc = "next" /\ m.client = here.client
        /\ m.sites = here.sites \ {s} /\ m.items = {f \in Feedback : siteOf[f] = s}
        /\ m.disturbed = here.disturbed /\ s \in Site
    BY <1>1, <2>1, <2>2, RemovalFacts DEF Removal
  <2>4. \A f \in Feedback : siteOf[f] = s => siteOf[f] # None /\ site[s] # NoSite
    BY <2>3, CatalogAssumption DEF IInv, BornFit
  <2>5. RemovalFits(m)
    BY <1>1, <1>4, <2>3, <2>4 DEF RemovalFits, IsAt
  <2>6. removal' = [removal EXCEPT ![r] = m]
    BY <1>4, <2>1
  <2>7. QED
    BY <1>2, <2>3, <2>5, <2>6, OneRemoval
<1>5. CASE /\ here.items = {} /\ here.sites = {}
           /\ removal' = [removal EXCEPT ![r].pc = "clear"]
  <2>1. PICK m : m = [here EXCEPT !.pc = "clear"]
    OBVIOUS
  <2>2. /\ m \in Removal /\ m.pc = "clear" /\ m.client = here.client
        /\ m.sites = here.sites /\ m.items = here.items
        /\ m.disturbed = here.disturbed
    BY <1>1, <2>1, RemovalFacts DEF Removal
  <2>3. RemovalFits(m)
    BY <1>1, <1>5, <2>2 DEF RemovalFits
  <2>4. removal' = [removal EXCEPT ![r] = m]
    BY <1>5, <2>1
  <2>5. QED
    BY <1>2, <2>2, <2>3, <2>4, OneRemoval
<1>6. QED
  BY <1>3, <1>4, <1>5 DEF RemovalNext

\* A removal stops half-way only when it was disturbed.
LEMMA AbortingKeeps ==
    ASSUME IInv, NEW r \in Remover, removal[r].disturbed, removal' = Aborts(r),
           UNCHANGED <<client, site, siteOf, born, add, import, batch, rows, raced, failures>>
    PROVE  IInv'
<1>1. PICK m : m = [NoRemoval EXCEPT !.pc = "aborted", !.disturbed = removal[r].disturbed]
  OBVIOUS
<1>2. removal[r].disturbed = TRUE
  BY RemovalFacts DEF IInv
<1>3. m = [pc |-> "aborted", client |-> None, sites |-> {}, items |-> {}, item |-> None,
           disturbed |-> TRUE]
  BY <1>1, <1>2 DEF NoRemoval
<1>4. m \in Removal
  BY <1>3 DEF Removal
<1>5. RemovalFits(m)
  BY <1>3 DEF RemovalFits
<1>6. removal' = [removal EXCEPT ![r] = m]
  BY <1>1 DEF Aborts
<1>7. QED
  BY <1>4, <1>5, <1>6, OneRemoval

LEMMA ReadItemKeeps ==
    ASSUME IInv, NEW r \in Remover, ReadItem(r)
    PROVE  IInv'
<1>1. TypeOK /\ removal[r].pc = "read" /\ RemovalFits(removal[r])
  BY DEF IInv, RemovalsFit, ReadItem
<1>2. UNCHANGED <<client, site, siteOf, born, add, import, batch, rows, raced, failures>>
  BY DEF ReadItem
<1>3. CASE siteOf[removal[r].item] = None
  <2>1. removal[r].disturbed
    BY <1>1, <1>3 DEF RemovalFits, IsAt
  <2>2. removal' = Aborts(r)
    BY <1>3 DEF ReadItem
  <2>3. QED
    BY <1>2, <2>1, <2>2, AbortingKeeps
<1>4. CASE siteOf[removal[r].item] # None
  <2>1. PICK m : m = [removal[r] EXCEPT !.pc = "delete"]
    OBVIOUS
  <2>2. /\ m \in Removal /\ m.pc = "delete" /\ m.client = removal[r].client
        /\ m.sites = removal[r].sites /\ m.items = removal[r].items
        /\ m.item = removal[r].item /\ m.disturbed = removal[r].disturbed
    BY <1>1, <2>1, RemovalFacts DEF Removal
  <2>3. RemovalFits(m)
    BY <1>1, <2>2 DEF RemovalFits
  <2>4. removal' = [removal EXCEPT ![r] = m]
    BY <1>4, <2>1 DEF ReadItem
  <2>5. QED
    BY <1>2, <2>2, <2>3, <2>4, OneRemoval
<1>5. QED
  BY <1>3, <1>4

\* What disturbs a removal.
Disturbed(m) == [m EXCEPT !.disturbed = TRUE]

LEMMA DisturbedFits ==
    ASSUME NEW m \in Removal, RemovalFits(m)
    PROVE  Disturbed(m) \in Removal /\ Disturbed(m).disturbed /\ RemovalFits(Disturbed(m))'
<1>1. PICK d : d = [m EXCEPT !.disturbed = TRUE]
  OBVIOUS
<1>2. /\ d \in Removal /\ d.pc = m.pc /\ d.client = m.client /\ d.item = m.item
      /\ d.disturbed
  BY <1>1 DEF Removal
<1>3. RemovalFits(d)'
  BY <1>2 DEF RemovalFits
<1>4. QED
  BY <1>1, <1>2, <1>3 DEF Disturbed

LEMMA DisturbIs ==
    ASSUME NEW c, NEW r, NEW q \in Remover
    PROVE  Disturb(c, r)[q] = IF q # r /\ removal[q].client = c THEN Disturbed(removal[q])
                              ELSE removal[q]
BY DEF Disturb, Disturbed

\* A removal of another client does not depend on feedback that goes.
LEMMA FeedbackGoes ==
    ASSUME TypeOK, BornFit, NEW f \in Feedback, siteOf[f] # None,
           siteOf' = [siteOf EXCEPT ![f] = None],
           UNCHANGED <<client, site, born>>,
           NEW m \in Removal, RemovalFits(m), m.client # site[siteOf[f]].client
    PROVE  RemovalFits(m)'
<1>1. \A g \in Feedback : siteOf'[g] = IF g = f THEN None ELSE siteOf[g]
  BY DEF TypeOK
<1>2. \A g \in Feedback : IsAt(g, m.client)' <=> IsAt(g, m.client)
  BY <1>1 DEF IsAt
<1>3. m.items \in SUBSET Feedback
  BY DEF Removal
<1>4. \A g \in Feedback : IsAt(g, m.client) => siteOf'[g] = siteOf[g]
  BY <1>1 DEF IsAt
<1>5. QED
  BY <1>2, <1>3, <1>4 DEF RemovalFits, Exists

LEMMA FeedbackGoesFits ==
    ASSUME TypeOK, BornFit, NEW f \in Feedback, siteOf' = [siteOf EXCEPT ![f] = None],
           UNCHANGED <<client, site, born>>
    PROVE  BornFit' /\ siteOf' \in [Feedback -> Site \cup {None}]
<1>1. \A g \in Feedback : siteOf'[g] = IF g = f THEN None ELSE siteOf[g]
  BY DEF TypeOK
<1>2. siteOf' \in [Feedback -> Site \cup {None}]
  BY DEF TypeOK
<1>3. QED
  BY <1>1, <1>2 DEF BornFit, Exists

LEMMA DeleteItemKeeps ==
    ASSUME IInv, NEW r \in Remover, DeleteItem(r)
    PROVE  IInv'
<1> DEFINE f == removal[r].item
<1>1. TypeOK /\ BornFit /\ removal[r].pc = "delete" /\ RemovalFits(removal[r])
  BY DEF IInv, RemovalsFit, DeleteItem
<1>2. UNCHANGED <<client, site, born, add, import, batch, rows, raced, failures>>
  BY DEF DeleteItem
<1>3. CASE siteOf[f] = None
  <2>1. removal[r].disturbed
    BY <1>1, <1>3 DEF RemovalFits, IsAt
  <2>2. removal' = Aborts(r) /\ UNCHANGED siteOf
    BY <1>3 DEF DeleteItem
  <2>3. QED
    BY <1>2, <2>1, <2>2, AbortingKeeps
<1>4. CASE siteOf[f] # None
  <2> DEFINE c == site[siteOf[f]].client
  <2>1. /\ siteOf' = [siteOf EXCEPT ![f] = None]
        /\ removal' = [Disturb(c, r) EXCEPT ![r].pc = "next", ![r].item = None]
    BY <1>4 DEF DeleteItem
  <2>2. f \in Feedback
    BY <1>1 DEF RemovalFits
  <2>3. BornFit' /\ siteOf' \in [Feedback -> Site \cup {None}]
    BY <1>1, <1>2, <2>1, <2>2, FeedbackGoesFits
  <2>4. PICK m : m = [removal[r] EXCEPT !.pc = "next", !.item = None]
    OBVIOUS
  <2>5. /\ m \in Removal /\ m.pc = "next" /\ m.client = removal[r].client
        /\ m.sites = removal[r].sites /\ m.items = removal[r].items
        /\ m.disturbed = removal[r].disturbed
    BY <1>1, <2>4, RemovalFacts DEF Removal
  <2>6. \A q \in Remover : removal'[q] = IF q = r THEN m ELSE Disturb(c, r)[q]
    <3>1. Disturb(c, r)[r] = removal[r] /\ DOMAIN Disturb(c, r) = Remover
      BY DEF Disturb
    <3>2. PICK others : others = Disturb(c, r)
      OBVIOUS
    <3>3. removal' = [others EXCEPT ![r].pc = "next", ![r].item = None]
      BY <2>1, <3>2
    <3>4. others[r] = removal[r] /\ DOMAIN others = Remover
      BY <3>1, <3>2
    <3>5. \A q \in Remover : removal'[q] = IF q = r THEN m ELSE others[q]
      BY <2>4, <3>3, <3>4
    <3>6. QED
      BY <3>2, <3>5
  <2>7. RemovalFits(m)'
    <3>1. \A g \in Feedback : siteOf'[g] = IF g = f THEN None ELSE siteOf[g]
      BY <1>1, <2>1 DEF TypeOK
    <3>2. \A g \in Feedback : IsAt(g, m.client)' <=> IsAt(g, m.client) /\ g # f
      BY <1>2, <3>1, CatalogAssumption DEF IsAt
    <3>3. m.items \in SUBSET Feedback
      BY <2>5 DEF Removal
    <3>4. QED
      BY <1>1, <1>2, <2>5, <3>1, <3>2, <3>3 DEF RemovalFits, Exists
  <2>8. ASSUME NEW q \in Remover
        PROVE  removal'[q] \in Removal /\ RemovalFits(removal[q])'
    <3>1. PICK p : p = removal'[q]
      OBVIOUS
    <3>2. removal[q] \in Removal /\ RemovalFits(removal[q])
      BY <1>1, RemovalFacts DEF IInv, RemovalsFit
    <3>3. CASE q = r
      BY <2>5, <2>6, <2>7, <3>3
    <3>4. CASE q # r /\ removal[q].client = c
      <4>1. p = Disturbed(removal[q])
        BY <2>6, <3>1, <3>4, DisturbIs
      <4>2. p \in Removal /\ RemovalFits(p)'
        BY <3>2, <4>1, DisturbedFits
      <4>3. QED
        BY <3>1, <4>2
    <3>5. CASE q # r /\ removal[q].client # c
      <4>1. p = removal[q]
        BY <2>6, <3>1, <3>5, DisturbIs
      <4>2. p \in Removal /\ RemovalFits(p)'
        BY <1>1, <1>2, <1>4, <2>1, <2>2, <3>2, <3>5, <4>1, FeedbackGoes
      <4>3. QED
        BY <3>1, <4>2
    <3>6. QED
      BY <3>3, <3>4, <3>5
  <2>9. removal' \in [Remover -> Removal]
    <3>1. removal' = [q \in Remover |-> removal'[q]]
      BY <2>1 DEF Disturb
    <3>2. QED
      BY <2>8, <3>1
  <2>10. TypeOK'
    BY <1>1, <1>2, <2>3, <2>9 DEF TypeOK
  <2>11. Gone /\ \A s \in Site : site'[s] \in {site[s], NoSite}
    BY <1>2, SameTables
  <2>12. RemovalsFit'
    BY <2>8 DEF RemovalsFit
  <2>13. QED
    BY <1>2, <2>3, <2>10, <2>11, <2>12, OthersWait
<1>5. QED
  BY <1>3, <1>4

\* Removals of client c, all but r's, are disturbed; the others do not notice.
LEMMA DisturbFits ==
    ASSUME TypeOK, RemovalsFit, NEW c, NEW r,
           NEW q \in Remover, q # r,
           \A m \in Removal : RemovalFits(m) /\ m.client # c => RemovalFits(m)',
           removal'[q] = Disturb(c, r)[q]
    PROVE  removal'[q] \in Removal /\ RemovalFits(removal[q])'
<1>1. PICK p : p = removal'[q]
  OBVIOUS
<1>2. removal[q] \in Removal /\ RemovalFits(removal[q])
  BY RemovalFacts DEF RemovalsFit
<1>3. CASE removal[q].client = c
  <2>1. p = Disturbed(removal[q])
    BY <1>1, <1>3, DisturbIs
  <2>2. p \in Removal /\ RemovalFits(p)'
    BY <1>2, <2>1, DisturbedFits
  <2>3. QED
    BY <1>1, <2>2
<1>4. CASE removal[q].client # c
  <2>1. p = removal[q]
    BY <1>1, <1>4, DisturbIs
  <2>2. p \in Removal /\ RemovalFits(p)'
    BY <1>2, <1>4, <2>1
  <2>3. QED
    BY <1>1, <2>2
<1>5. QED
  BY <1>3, <1>4

LEMMA AllDisturbedFit ==
    ASSUME TypeOK, RemovalsFit, NEW c, removal' = Disturb(c, None),
           \A m \in Removal : RemovalFits(m) /\ m.client # c => RemovalFits(m)'
    PROVE  removal' \in [Remover -> Removal] /\ RemovalsFit'
<1>1. \A q \in Remover : q # None
  BY CatalogAssumption
<1>2. \A q \in Remover : removal'[q] = Disturb(c, None)[q]
  OBVIOUS
<1>3. ASSUME NEW q \in Remover
      PROVE  removal'[q] \in Removal /\ RemovalFits(removal[q])'
  BY <1>1, <1>2, DisturbFits
<1>4. removal' = [q \in Remover |-> removal'[q]]
  BY DEF Disturb
<1>5. removal' \in [Remover -> Removal]
  BY <1>3, <1>4
<1>6. QED
  BY <1>3, <1>5 DEF RemovalsFit

LEMMA RemoveFeedbackKeeps ==
    ASSUME IInv, NEW f \in Feedback, RemoveFeedback(f)
    PROVE  IInv'
<1> DEFINE c == site[siteOf[f]].client
<1>1. TypeOK /\ BornFit /\ RemovalsFit
  BY DEF IInv
<1>2. /\ siteOf[f] # None /\ siteOf' = [siteOf EXCEPT ![f] = None]
      /\ removal' = Disturb(c, None)
      /\ UNCHANGED <<client, site, born, add, import, batch, rows, raced, failures>>
  BY DEF RemoveFeedback
<1>3. BornFit' /\ siteOf' \in [Feedback -> Site \cup {None}]
  BY <1>1, <1>2, FeedbackGoesFits
<1>4. \A m \in Removal : RemovalFits(m) /\ m.client # c => RemovalFits(m)'
  BY <1>1, <1>2, FeedbackGoes
<1>5. removal' \in [Remover -> Removal] /\ RemovalsFit'
  BY <1>1, <1>2, <1>4, AllDisturbedFit
<1>6. TypeOK'
  BY <1>1, <1>2, <1>3, <1>5 DEF TypeOK
<1>7. Gone /\ \A s \in Site : site'[s] \in {site[s], NoSite}
  BY <1>2, SameTables
<1>8. QED
  BY <1>2, <1>3, <1>5, <1>6, <1>7, OthersWait

LEMMA SubmitKeeps ==
    ASSUME IInv, NEW f \in Feedback, NEW s \in Site, Submit(f, s)
    PROVE  IInv'
<1> DEFINE c == site[s].client
<1>1. TypeOK /\ BornFit /\ RemovalsFit
  BY DEF IInv
<1>2. /\ f \notin born /\ site[s] # NoSite
      /\ siteOf' = [siteOf EXCEPT ![f] = s]
      /\ born' = born \cup {f}
      /\ removal' = Disturb(c, None)
      /\ UNCHANGED <<client, site, add, import, batch, rows, raced, failures>>
  BY DEF Submit
<1>3. \A g \in Feedback : siteOf'[g] = IF g = f THEN s ELSE siteOf[g]
  BY <1>1, <1>2 DEF TypeOK
<1>4. siteOf[f] = None
  BY <1>1, <1>2 DEF BornFit
<1>5. siteOf' \in [Feedback -> Site \cup {None}]
  BY <1>1, <1>2 DEF TypeOK
<1>6. BornFit'
  BY <1>1, <1>2, <1>3 DEF BornFit, Exists
<1>7. ASSUME NEW m \in Removal, RemovalFits(m), m.client # c
      PROVE  RemovalFits(m)'
  <2>1. \A g \in Feedback : IsAt(g, m.client)' <=> IsAt(g, m.client)
    BY <1>2, <1>3, <1>4, <1>7 DEF IsAt
  <2>2. \A g \in Feedback : IsAt(g, m.client) => siteOf'[g] = siteOf[g]
    BY <1>3, <1>4 DEF IsAt
  <2>3. m.items \in SUBSET Feedback
    BY DEF Removal
  <2>4. QED
    BY <1>2, <1>7, <2>1, <2>2, <2>3 DEF RemovalFits, Exists
<1>8. \A m \in Removal : RemovalFits(m) /\ m.client # c => RemovalFits(m)'
  BY <1>7
<1>9. removal' \in [Remover -> Removal] /\ RemovalsFit'
  BY <1>1, <1>2, <1>8, AllDisturbedFit
<1>10. TypeOK'
  BY <1>1, <1>2, <1>5, <1>9 DEF TypeOK
<1>11. Gone
  BY <1>2 DEF Gone, Exists
<1>12. \A t \in Site : site'[t] \in {site[t], NoSite}
  BY <1>2
<1>13. QED
  BY <1>2, <1>6, <1>9, <1>10, <1>11, <1>12, OthersWait

\* Sites without feedback go.
LEMMA SitesGo ==
    ASSUME TypeOK, BornFit, NEW S \in SUBSET Site, ~Restricted(S), site' = Without(S),
           UNCHANGED <<siteOf, born>>
    PROVE  /\ site' \in [Site -> SiteRow]
           /\ \A s \in Site : site'[s] \in {site[s], NoSite}
           /\ BareSitesChange
           /\ \A s \in Site : site'[s] # NoSite => s \in born
           /\ \A f \in Feedback : siteOf'[f] # None =>
                 f \in born' /\ site'[siteOf'[f]] # NoSite
<1>1. \A s \in Site : site'[s] = IF s \in S THEN NoSite ELSE site[s]
  BY DEF Without
<1>2. site' \in [Site -> SiteRow]
  BY DEF TypeOK, Without, SiteRow
<1>3. \A f \in Feedback : siteOf[f] \notin S
  BY DEF Restricted, FeedbackAt
<1>4. BareSitesChange
  BY <1>1, <1>3 DEF BareSitesChange
<1>5. \A s \in Site : site'[s] \in {site[s], NoSite}
  BY <1>1
<1>6. \A s \in Site : site'[s] # NoSite => s \in born
  BY <1>1 DEF BornFit
<1>7. \A f \in Feedback : siteOf'[f] # None => f \in born' /\ site'[siteOf'[f]] # NoSite
  BY <1>1, <1>3 DEF BornFit, TypeOK
<1>8. QED
  BY <1>2, <1>4, <1>5, <1>6, <1>7

\* A removal that has cleared its client's feedback finds none, unless disturbed.
LEMMA ClearedFacts ==
    ASSUME TypeOK, BornFit, NEW m, RemovalFits(m), m.pc \in {"clear", "client"}, ~m.disturbed
    PROVE  Exists(m.client) /\ ~Restricted(SitesOf(m.client))
<1>1. Exists(m.client) /\ \A f \in Feedback : ~IsAt(f, m.client)
  BY DEF RemovalFits
<1>2. \A f \in Feedback : siteOf[f] \notin SitesOf(m.client)
  BY <1>1, CatalogAssumption DEF IsAt, SitesOf
<1>3. QED
  BY <1>1, <1>2 DEF Restricted, FeedbackAt

LEMMA DeleteSitesKeeps ==
    ASSUME IInv, NEW r \in Remover, DeleteSites(r)
    PROVE  IInv'
<1> DEFINE S == SitesOf(removal[r].client)
<1>1. TypeOK /\ BornFit /\ RemovalsFit /\ removal[r].pc = "clear" /\ RemovalFits(removal[r])
  BY DEF IInv, RemovalsFit, DeleteSites
<1>2. UNCHANGED <<client, siteOf, born, add, import, batch, rows, raced, failures>>
  BY DEF DeleteSites
<1>3. CASE Restricted(S) /\ removal' = Aborts(r) /\ UNCHANGED site
  <2>1. removal[r].disturbed
    BY <1>1, <1>3, ClearedFacts
  <2>2. QED
    BY <1>2, <1>3, <2>1, AbortingKeeps
<1>4. CASE ~Restricted(S) /\ site' = Without(S)
           /\ removal' = [removal EXCEPT ![r].pc = "client"]
  <2>1. S \in SUBSET Site
    BY DEF SitesOf
  <2> HIDE DEF S
  <2>2. /\ site' \in [Site -> SiteRow]
        /\ \A s \in Site : site'[s] \in {site[s], NoSite}
        /\ BareSitesChange
        /\ \A s \in Site : site'[s] # NoSite => s \in born
        /\ \A f \in Feedback : siteOf'[f] # None =>
              f \in born' /\ site'[siteOf'[f]] # NoSite
    BY <1>1, <1>2, <1>4, <2>1, SitesGo
  <2>3. BornFit'
    BY <1>1, <1>2, <2>2 DEF BornFit, Exists
  <2>4. PICK m : m = [removal[r] EXCEPT !.pc = "client"]
    OBVIOUS
  <2>5. /\ m \in Removal /\ m.pc = "client" /\ m.client = removal[r].client
        /\ m.sites = removal[r].sites /\ m.items = removal[r].items
        /\ m.disturbed = removal[r].disturbed
    BY <1>1, <2>4, RemovalFacts DEF Removal
  <2>6. RemovalFits(m)
    BY <1>1, <2>5 DEF RemovalFits
  <2>7. removal' = [removal EXCEPT ![r] = m]
    BY <1>4, <2>4
  <2>8. ASSUME NEW q \in Remover
        PROVE  RemovalFits(removal[q])'
    <3>1. PICK p : p = removal'[q]
      OBVIOUS
    <3>2. p = IF q = r THEN m ELSE removal[q]
      BY <1>1, <2>7, <3>1 DEF TypeOK
    <3>3. RemovalFits(p) /\ p \in Removal
      BY <1>1, <2>5, <2>6, <3>2, RemovalFacts DEF RemovalsFit
    <3>4. p.items \in SUBSET Feedback /\ p.sites \in SUBSET Site
      BY <3>3 DEF Removal
    <3>5. RemovalFits(p)'
      BY <1>1, <1>2, <2>2, <3>3, <3>4, RemovalGoesOn DEF Exists
    <3>6. QED
      BY <3>1, <3>5
  <2>9. RemovalsFit'
    BY <2>8 DEF RemovalsFit
  <2>10. TypeOK'
    <3>1. removal' \in [Remover -> Removal]
      BY <1>1, <2>5, <2>7 DEF TypeOK
    <3>2. QED
      BY <1>1, <1>2, <2>2, <3>1 DEF TypeOK
  <2>11. Gone
    BY <1>2, <2>2 DEF Gone, Exists
  <2>12. QED
    BY <1>2, <2>2, <2>3, <2>9, <2>10, <2>11, OthersWait
<1>5. QED
  BY <1>3, <1>4 DEF DeleteSites

LEMMA DeleteClientKeeps ==
    ASSUME IInv, NEW r \in Remover, DeleteClient(r)
    PROVE  IInv'
<1> DEFINE c == removal[r].client
           S == SitesOf(c)
<1>1. TypeOK /\ BornFit /\ RemovalsFit /\ removal[r].pc = "client" /\ RemovalFits(removal[r])
  BY DEF IInv, RemovalsFit, DeleteClient
<1>2. UNCHANGED <<siteOf, born, add, import, batch, rows, raced, failures>>
  BY DEF DeleteClient
<1>3. CASE (~Exists(c) \/ Restricted(S)) /\ removal' = Aborts(r) /\ UNCHANGED <<client, site>>
  <2>1. removal[r].disturbed
    BY <1>1, <1>3, ClearedFacts
  <2>2. QED
    BY <1>2, <1>3, <2>1, AbortingKeeps
<1>4. CASE /\ Exists(c) /\ ~Restricted(S)
           /\ client' = [client EXCEPT ![c] = None]
           /\ site' = Without(S)
           /\ removal' = [Disturb(c, r) EXCEPT ![r] = NoRemoval]
  <2>1. S \in SUBSET Site /\ c \in Client
    BY <1>1 DEF SitesOf, RemovalFits
  <2>2. \A d \in Client : client'[d] = IF d = c THEN None ELSE client[d]
    BY <1>1, <1>4 DEF TypeOK
  <2> HIDE DEF S
  <2>3. /\ site' \in [Site -> SiteRow]
        /\ \A s \in Site : site'[s] \in {site[s], NoSite}
        /\ BareSitesChange
        /\ \A s \in Site : site'[s] # NoSite => s \in born
        /\ \A f \in Feedback : siteOf'[f] # None =>
              f \in born' /\ site'[siteOf'[f]] # NoSite
    BY <1>1, <1>2, <1>4, <2>1, SitesGo
  <2>4. BornFit'
    BY <1>1, <1>2, <2>2, <2>3 DEF BornFit, Exists
  <2>5. /\ \A q \in Remover : removal'[q] = IF q = r THEN NoRemoval ELSE Disturb(c, r)[q]
        /\ removal' = [q \in Remover |-> removal'[q]]
    BY <1>4 DEF Disturb
  <2>6. NoRemoval \in Removal /\ RemovalFits(NoRemoval)'
    BY DEF NoRemoval, Removal, RemovalFits
  <2>7. ASSUME NEW m \in Removal, RemovalFits(m), m.client # c
        PROVE  RemovalFits(m)'
    <3>1. m.items \in SUBSET Feedback /\ m.sites \in SUBSET Site
      BY DEF Removal
    <3>2. m.client \in Client /\ Exists(m.client) => Exists(m.client)'
      BY <2>2, <2>7 DEF Exists
    <3>3. QED
      BY <1>1, <1>2, <2>3, <2>7, <3>1, <3>2, RemovalGoesOn
  <2>8. ASSUME NEW q \in Remover
        PROVE  removal'[q] \in Removal /\ RemovalFits(removal[q])'
    <3>1. CASE q = r
      BY <2>5, <2>6, <3>1
    <3>2. CASE q # r
      BY <1>1, <2>5, <2>7, <3>2, DisturbFits
    <3>3. QED
      BY <3>1, <3>2
  <2>9. removal' \in [Remover -> Removal] /\ RemovalsFit'
    BY <2>5, <2>8 DEF RemovalsFit
  <2>10. TypeOK'
    <3>1. client' \in [Client -> ClientId \cup {None}]
      BY <1>1, <1>4 DEF TypeOK
    <3>2. QED
      BY <1>1, <1>2, <2>3, <2>9, <3>1 DEF TypeOK
  <2>11. Gone
    BY <1>2, <2>2, <2>3 DEF Gone, Exists
  <2>12. QED
    BY <1>2, <2>3, <2>4, <2>9, <2>10, <2>11, OthersWait
<1>5. QED
  BY <1>3, <1>4 DEF DeleteClient

LEMMA RemoveSiteKeeps ==
    ASSUME IInv, NEW s \in Site, RemoveSite(s)
    PROVE  IInv'
<1>1. TypeOK /\ BornFit /\ RemovalsFit
  BY DEF IInv
<1>2. /\ ~Restricted({s}) /\ site' = Without({s})
      /\ UNCHANGED <<client, siteOf, born, add, import, batch, rows, removal, raced, failures>>
  BY DEF RemoveSite
<1>3. {s} \in SUBSET Site
  OBVIOUS
<1>4. /\ site' \in [Site -> SiteRow]
      /\ \A t \in Site : site'[t] \in {site[t], NoSite}
      /\ BareSitesChange
      /\ \A t \in Site : site'[t] # NoSite => t \in born
      /\ \A f \in Feedback : siteOf'[f] # None =>
            f \in born' /\ site'[siteOf'[f]] # NoSite
  BY <1>1, <1>2, <1>3, SitesGo
<1>5. BornFit'
  BY <1>1, <1>2, <1>4 DEF BornFit, Exists
<1>6. RemovalsFit'
  <2>1. \A c : Exists(c) => Exists(c)'
    BY <1>2 DEF Exists
  <2>2. QED
    BY <1>1, <1>2, <1>4, <2>1, RemovalsGoOn
<1>7. TypeOK'
  BY <1>1, <1>2, <1>4 DEF TypeOK
<1>8. Gone
  BY <1>2, <1>4 DEF Gone, Exists
<1>9. QED
  BY <1>2, <1>4, <1>5, <1>6, <1>7, <1>8, OthersWait

LEMMA RemovalFailsKeeps ==
    ASSUME IInv, NEW r \in Remover, RemovalFails(r)
    PROVE  IInv'
<1>1. PICK a : a = [NoRemoval EXCEPT !.pc = "aborted", !.disturbed = removal[r].disturbed]
  OBVIOUS
<1>2. a = [pc |-> "aborted", client |-> None, sites |-> {}, items |-> {}, item |-> None,
           disturbed |-> removal[r].disturbed]
  BY <1>1 DEF NoRemoval
<1>3. PICK m : m = [a EXCEPT !.disturbed = TRUE]
  OBVIOUS
<1>4. m = [pc |-> "aborted", client |-> None, sites |-> {}, items |-> {}, item |-> None,
           disturbed |-> TRUE]
  BY <1>2, <1>3
<1>5. m \in Removal
  BY <1>4 DEF Removal
<1>6. RemovalFits(m)
  BY <1>4 DEF RemovalFits
<1>7. removal' = [removal EXCEPT ![r] = m]
  <2>1. Aborts(r) = [removal EXCEPT ![r] = a]
    BY <1>1 DEF Aborts
  <2>2. removal' = [[removal EXCEPT ![r] = a] EXCEPT ![r].disturbed = TRUE]
    BY <2>1 DEF RemovalFails
  <2>3. QED
    BY <1>3, <2>2 DEF IInv, TypeOK
<1>8. QED
  BY <1>5, <1>6, <1>7, OneRemoval DEF RemovalFails

-----------------------------------------------------------------------------
(* Every step *)

LEMMA CrashKeeps ==
    ASSUME IInv, Crash
    PROVE  IInv'
<1>1. TypeOK
  BY DEF IInv
<1>2. /\ UNCHANGED <<client, site, siteOf, born, batch, rows, raced>>
      /\ \A x \in Creator : add'[x] = NoAdd
      /\ \A i \in Import : import'[i] = NoImport
      /\ \A r \in Remover : removal'[r] = NoRemoval
  BY DEF Crash
<1>3. TypeOK'
  <2>1. add' \in [Creator -> Add] /\ import' \in [Import -> Counters]
    BY StepRecords DEF Crash
  <2>2. removal' \in [Remover -> Removal]
    BY DEF Crash, NoRemoval, Removal
  <2>3. failures' \in 0 .. MaxFailures
    BY <1>1, FailuresGrow DEF Crash
  <2>4. QED
    BY <1>1, <1>2, <2>1, <2>2, <2>3 DEF TypeOK
<1>4. BornFit' /\ ImportsReuseSites'
  BY <1>2 DEF IInv, BornFit, ImportsReuseSites, Exists
<1>5. SomethingLost => SomethingLost'
  BY <1>1, <1>2, SameTables, FailuresGrow, LossLasts DEF Crash
<1>6. CreationsFit' /\ CollisionsNeedCreations'
  <2>1. /\ NoAdd.pc = "idle" /\ NoAdd.tries <= NoAdd.beaten
    BY StepRecords
  <2>2. \A x \in Creator : CreationFits(x, NoAdd)' /\ CodeFits(NoAdd)' /\ LookupHolds(x, NoAdd)'
    BY <2>1 DEF CreationFits, CodeFits, LookupHolds
  <2>3. QED
    BY <1>2, <2>1, <2>2 DEF CreationsFit, CollisionsNeedCreations
<1>7. ImportsFit'
  <2> SUFFICES ASSUME NEW i \in Import PROVE ImportFits(i, add[i].pc)'
    BY DEF ImportsFit
  <2>1. i \in Creator /\ ImportFits(i, add[i].pc)
    BY DEF IInv, ImportsFit, Creator
  <2>2. add'[i].pc = "idle"
    BY <1>2, <2>1, StepRecords
  <2>3. QED
    BY <1>2, <2>1, <2>2 DEF ImportFits
<1>8. CountersFitRows'
  BY <1>1, <1>2, <1>5, CountersStay DEF IInv
<1>9. RemovalsFit'
  BY <1>2 DEF RemovalsFit, RemovalFits, NoRemoval
<1>10. QED
  BY <1>3, <1>4, <1>6, <1>7, <1>8, <1>9 DEF IInv

LEMMA NothingKeeps ==
    ASSUME IInv, UNCHANGED vars
    PROVE  IInv'
<1>1. TypeOK' /\ BornFit'
  BY DEF IInv, TypeOK, BornFit, Exists, vars
<1>2. RemovalsFit'
  BY RemovalStays DEF IInv, RemovalsFit, vars
<1>3. Gone /\ \A s \in Site : site'[s] \in {site[s], NoSite}
  BY SameTables DEF vars
<1>4. QED
  BY <1>1, <1>2, <1>3, OthersWait DEF vars

LEMMA NextKeeps ==
    ASSUME IInv, [Next]_vars
    PROVE  IInv'
<1>1. CASE \E id \in ClientId : CreateClient(id)
  BY <1>1, CreateClientKeeps
<1>2. CASE \E a \in Admin, c \in Client, n \in Name : StartSite(a, c, n)
  BY <1>2, StartSiteKeeps
<1>3. CASE \E x \in Creator : PickCode(x) \/ InsertSite(x) \/ CreationFails(x)
  BY <1>3, PickCodeKeeps, InsertSiteKeeps, CreationFailsKeeps
<1>4. CASE \E i \in Import : StartImport(i) \/ ImportStep(i)
  BY <1>4, StartImportKeeps, BeginRowKeeps, TouchClientKeeps, NewClientKeeps,
     FindSiteKeeps, TouchSiteKeeps, SaveSuccessKeeps, SaveErrorKeeps, FinishImportKeeps
  DEF ImportStep
<1>5. CASE \E r \in Remover, c \in Client : StartRemoval(r, c)
  BY <1>5, StartRemovalKeeps
<1>6. CASE \E r \in Remover : RemovalStep(r) \/ RemovalFails(r)
  BY <1>6, ListSitesKeeps, RemovalNextKeeps, ReadItemKeeps, DeleteItemKeeps,
     DeleteSitesKeeps, DeleteClientKeeps, RemovalFailsKeeps DEF RemovalStep
<1>7. CASE \E s \in Site : RemoveSite(s)
  BY <1>7, RemoveSiteKeeps
<1>8. CASE \E f \in Feedback, s \in Site : Submit(f, s)
  BY <1>8, SubmitKeeps
<1>9. CASE \E f \in Feedback : RemoveFeedback(f)
  BY <1>9, RemoveFeedbackKeeps
<1>10. CASE Crash
  BY <1>10, CrashKeeps
<1>11. CASE UNCHANGED vars
  BY <1>11, NothingKeeps
<1>12. QED
  BY <1>1, <1>2, <1>3, <1>4, <1>5, <1>6, <1>7, <1>8, <1>9, <1>10, <1>11 DEF Next

LEMMA InitHolds == Init => IInv
<1> SUFFICES ASSUME Init PROVE IInv
  OBVIOUS
<1>1. TypeOK
  <2>1. NoRemoval \in Removal
    BY DEF NoRemoval, Removal
  <2>2. NoSite \in SiteRow
    BY DEF SiteRow
  <2>3. failures \in 0 .. MaxFailures
    BY CatalogAssumption DEF Init
  <2>4. rows \in [Import -> Seq({"SUCCESS", "ERROR"})]
    BY DEF Init
  <2>5. QED
    BY <2>1, <2>2, <2>3, <2>4, StepRecords DEF Init, TypeOK
<1>2. BornFit
  BY DEF Init, BornFit, Exists
<1>3. NoAdd.pc = "idle" /\ NoAdd.tries <= NoAdd.beaten
  BY StepRecords
<1>4. CreationsFit /\ CollisionsNeedCreations
  BY <1>3 DEF Init, CreationsFit, CreationFits, CodeFits, LookupHolds,
              CollisionsNeedCreations
<1>5. ImportsReuseSites
  BY DEF Init, ImportsReuseSites, NoSite
<1>6. ImportsFit
  BY <1>3 DEF Init, ImportsFit, ImportFits, NoBatch, Creator
<1>7. CountersFitRows
  BY DEF Init, CountersFitRows, NoBatch
<1>8. RemovalsFit
  BY DEF Init, RemovalsFit, RemovalFits, NoRemoval
<1>9. QED
  BY <1>1, <1>2, <1>4, <1>5, <1>6, <1>7, <1>8 DEF IInv

LEMMA IInvHolds == Spec => []IInv
BY InitHolds, NextKeeps, PTL DEF Spec

-----------------------------------------------------------------------------
(* Results *)

\* The tables, the imports and their results, and what requests keep between
\* their queries have their types in every behaviour.
THEOREM TypesOfCatalog == Spec => []TypeOK
<1>1. IInv => TypeOK
  BY DEF IInv
<1>2. QED
  BY IInvHolds, <1>1, PTL

\* A new site's code is found taken only when someone else created a site for
\* the client since it was picked (createSiteWithRetry): whatever is deleted in
\* between, no attempt meets a code of its own making or of a site long there.
THEOREM NoAttemptIsWasted == Spec => []CollisionsNeedCreations
<1>1. IInv => CollisionsNeedCreations
  BY DEF IInv
<1>2. QED
  BY IInvHolds, <1>1, PTL

\* Two sites of one client and one name both come from CSV imports only if two
\* imports looked for the name at the same time (resolveSite).
THEOREM RepeatedImportsReuse == Spec => []ImportsReuseSites
<1>1. IInv => ImportsReuseSites
  BY DEF IInv
<1>2. QED
  BY IInvHolds, <1>1, PTL

\* A completed import has a result for each row and the number of its errors,
\* and counts a row twice only if something it needs was deleted or a query
\* failed (processFile).
THEOREM CountersAgree == Spec => []CountersFitRows
<1>1. IInv => CountersFitRows
  BY DEF IInv
<1>2. QED
  BY IInvHolds, <1>1, PTL

\* The removal of a client (ClientsService.remove) stops half-way only if
\* feedback came or went, someone else removed the client, or a query failed.
THEOREM RemovalsGetThrough == Spec => []AbortsOnlyIfDisturbed
<1>1. IInv => AbortsOnlyIfDisturbed
  BY DEF IInv, RemovalsFit, RemovalFits, AbortsOnlyIfDisturbed
<1>2. QED
  BY IInvHolds, <1>1, PTL

=============================================================================
