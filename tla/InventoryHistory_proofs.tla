----------------------- MODULE InventoryHistory_proofs -----------------------
(***************************************************************************)
(* Proofs about InventoryHistory, for any items, values, limit and number  *)
(* of requests at once.                                                    *)
(***************************************************************************)
EXTENDS InventoryHistory, FiniteSetTheorems, SequenceTheorems, TLAPS

\* A request that looked an item up names one, and while its transaction holds
\* a history row of the item, the item is there.
OpenEditsFit ==
    \A e \in Editor :
        /\ edit[e].pc \in {"begin", "delete"} => edit[e].i \in Item
        /\ edit[e].pc \in {"prune", "write"} => Stored(edit[e].i)

IInv ==
    /\ InventoryTypeOK
    /\ OpenEditsFit

\* The request e is in the transaction of an update.
InUpdate(e) == edit[e].pc \in {"prune", "write"}

\* An item that is not there yet was never overwritten; requests know of no such.
TrailsBegin ==
    /\ \A i \in Item : item[i] = "none" => trail[i] = <<>>
    /\ \A e \in Editor : edit[e].pc \in {"begin", "delete", "prune", "write"} =>
          item[edit[e].i] # "none"

\* No two updates have the same time: neither those that are committed, nor those
\* under way, and none deletes another's row before that is committed.
TimesDiffer ==
    /\ \A i \in Item : \A r \in history[i] :
          /\ r.changedAt <= updates
          /\ \A s \in history[i] : s.changedAt = r.changedAt => s = r
    /\ \A e \in Editor : InUpdate(e) =>
          /\ edit[e].changedAt <= updates
          /\ \A i \in Item : \A r \in history[i] : r.changedAt # edit[e].changedAt
          /\ \A d \in Editor \ {e} : InUpdate(d) => edit[d].changedAt # edit[e].changedAt
    /\ \A e \in Editor : edit[e].pc = "write" =>
          \A r \in edit[e].excess :
             /\ r.changedAt <= updates
             /\ \A d \in Editor \ {e} : InUpdate(d) => edit[d].changedAt # r.changedAt

\* Whoever has missed no update knows the item as it is.
UnmissedIsCurrent ==
    \A e \in Editor :
        edit[e].pc \in {"begin", "delete", "prune", "write"} /\ ~edit[e].missed =>
            /\ edit[e].before = value[edit[e].i]
            /\ InUpdate(e) => \A r \in history[edit[e].i] : r.changedAt < edit[e].changedAt
            /\ edit[e].pc = "write" =>
                  edit[e].excess = Excess(history[edit[e].i] \cup {RowOf(e)})

Writers(i) == {e \in Editor : edit[e].pc = "write" /\ edit[e].i = i}

\* The history of item i when those of T have committed their updates.
Outcome(i, T) ==
    (history[i] \cup {RowOf(e) : e \in T}) \ UNION {edit[e].excess : e \in T}

Most == MAX_HISTORY_ROWS + Cardinality(Editor) - 1

\* Whichever of the pending updates are committed, the history keeps its limit.
OutcomesNearLimit ==
    \A i \in Item : /\ IsFiniteSet(history[i])
                    /\ \A T \in SUBSET Writers(i) : Cardinality(Outcome(i, T)) <= Most

HistoriesFit ==
    /\ TrailsBegin
    /\ TimesDiffer
    /\ UnmissedIsCurrent
    /\ OutcomesNearLimit
    /\ HistoryIsTrail

-----------------------------------------------------------------------------
(* Rows and those in excess *)

LEMMA LeastOf ==
    ASSUME NEW S \in SUBSET Nat, S # {}
    PROVE  \E x \in S : \A y \in S : x <= y
<1> DEFINE R == {ss \in Nat \X Nat : ss[1] < ss[2]}
<1>1. IsWellFoundedOn(R, Nat)
  BY NatLessThanWellFounded DEF OpToRel
<1> HIDE DEF R
<1>2. PICK x \in S : \A y \in S : <<y, x>> \notin R
  BY <1>1, WFMin
<1>3. \A y \in S : ~(y < x)
  BY <1>2 DEF R
<1>4. QED
  BY <1>3

\* The rows of one history: there is an end to them, and no two have one time.
AreRows(rows) ==
    /\ rows \in SUBSET Row
    /\ IsFiniteSet(rows)
    /\ \A r \in rows : \A s \in rows : s.changedAt = r.changedAt => s = r

LEMMA RowTime ==
    ASSUME NEW r \in Row
    PROVE  r.changedAt \in Nat /\ r.previous \in Value
BY DEF Row

LEMMA SizesOf ==
    ASSUME NEW S, IsFiniteSet(S), NEW T \in SUBSET S
    PROVE  /\ IsFiniteSet(T) /\ Cardinality(T) \in Nat /\ Cardinality(S) \in Nat
           /\ Cardinality(T) <= Cardinality(S)
<1>1. IsFiniteSet(T) /\ Cardinality(T) <= Cardinality(S)
  BY FS_Subset
<1>2. QED
  BY <1>1, FS_CardinalityType

LEMMA OneFewer ==
    ASSUME NEW S, IsFiniteSet(S), NEW x \in S
    PROVE  /\ IsFiniteSet(S \ {x})
           /\ Cardinality(S) \in Nat /\ Cardinality(S \ {x}) \in Nat
           /\ Cardinality(S) = Cardinality(S \ {x}) + 1
<1>1. IsFiniteSet(S \ {x}) /\ Cardinality(S \ {x}) = Cardinality(S) - 1
  BY FS_RemoveElement
<1>2. Cardinality(S) \in Nat /\ Cardinality(S \ {x}) \in Nat
  BY <1>1, FS_CardinalityType
<1>3. QED
  BY <1>1, <1>2

LEMMA NewerSizes ==
    ASSUME NEW rows, AreRows(rows), NEW r \in rows
    PROVE  /\ Newer(rows, r) \in SUBSET (rows \ {r})
           /\ IsFiniteSet(Newer(rows, r)) /\ Cardinality(Newer(rows, r)) \in Nat
           /\ Cardinality(rows) \in Nat
           /\ Cardinality(Newer(rows, r)) < Cardinality(rows)
<1>1. r.changedAt \in Nat
  BY RowTime DEF AreRows
<1>2. Newer(rows, r) \in SUBSET (rows \ {r})
  BY <1>1 DEF Newer
<1>3. /\ IsFiniteSet(rows \ {r})
      /\ Cardinality(rows) \in Nat /\ Cardinality(rows \ {r}) \in Nat
      /\ Cardinality(rows) = Cardinality(rows \ {r}) + 1
  BY OneFewer DEF AreRows
<1>4. /\ IsFiniteSet(Newer(rows, r)) /\ Cardinality(Newer(rows, r)) \in Nat
      /\ Cardinality(Newer(rows, r)) <= Cardinality(rows \ {r})
  BY <1>2, <1>3, SizesOf
<1>5. QED
  BY <1>2, <1>3, <1>4

\* The oldest of some rows.
LEMMA OldestOf ==
    ASSUME NEW rows \in SUBSET Row, rows # {}
    PROVE  \E o \in rows : \A r \in rows : o.changedAt <= r.changedAt
<1> DEFINE times == {r.changedAt : r \in rows}
<1>1. times \in SUBSET Nat /\ times # {}
  BY RowTime
<1> HIDE DEF times
<1>2. PICK t \in times : \A u \in times : t <= u
  BY <1>1, LeastOf
<1>3. QED
  BY <1>2 DEF times

\* What is not in excess is MAX_HISTORY_ROWS rows at most.
LEMMA KeptAreFew ==
    ASSUME NEW rows, AreRows(rows)
    PROVE  Cardinality(rows \ Excess(rows)) <= MAX_HISTORY_ROWS
<1> DEFINE K == rows \ Excess(rows)
<1>1. K \in SUBSET rows /\ K \in SUBSET Row
  BY DEF AreRows
<1>2. MAX_HISTORY_ROWS \in Nat
  BY InventoryAssumption
<1>3. CASE K = {}
  BY <1>2, <1>3, FS_EmptySet
<1>4. CASE K # {}
  <2>1. PICK o \in K : \A r \in K : o.changedAt <= r.changedAt
    BY <1>1, <1>4, OldestOf
  <2>2. \A r \in K \ {o} : r.changedAt > o.changedAt
    BY <1>1, <2>1, RowTime DEF AreRows
  <2>3. K \ {o} \in SUBSET Newer(rows, o)
    BY <1>1, <2>2 DEF Newer
  <2>4. /\ IsFiniteSet(Newer(rows, o)) /\ Cardinality(Newer(rows, o)) \in Nat
    BY <2>1, NewerSizes
  <2>5. ~(Cardinality(Newer(rows, o)) >= MAX_HISTORY_ROWS)
    BY <2>1 DEF Excess
  <2>6. Cardinality(K \ {o}) <= Cardinality(Newer(rows, o))
    BY <2>3, <2>4, SizesOf
  <2>7. IsFiniteSet(K)
    BY <1>1, SizesOf DEF AreRows
  <2> HIDE DEF K
  <2>8. /\ Cardinality(K) \in Nat /\ Cardinality(K \ {o}) \in Nat
        /\ Cardinality(K) = Cardinality(K \ {o}) + 1
    BY <2>1, <2>7, OneFewer
  <2>9. Cardinality(K) <= MAX_HISTORY_ROWS
    BY <1>2, <2>4, <2>5, <2>6, <2>8
  <2>10. QED
    BY <2>9 DEF K
<1>5. QED
  BY <1>3, <1>4

LEMMA NoneInExcess ==
    ASSUME NEW rows, AreRows(rows), Cardinality(rows) <= MAX_HISTORY_ROWS
    PROVE  Excess(rows) = {}
<1>1. MAX_HISTORY_ROWS \in Nat
  BY InventoryAssumption
<1>2. \A r \in rows : ~(Cardinality(Newer(rows, r)) >= MAX_HISTORY_ROWS)
  BY <1>1, NewerSizes
<1>3. QED
  BY <1>2 DEF Excess

\* One row too many: the others are kept.
LEMMA OneInExcess ==
    ASSUME NEW rows, AreRows(rows), Cardinality(rows) = MAX_HISTORY_ROWS + 1
    PROVE  Cardinality(rows \ Excess(rows)) = MAX_HISTORY_ROWS
<1>1. MAX_HISTORY_ROWS \in Nat
  BY InventoryAssumption
<1>2. rows # {}
  BY <1>1, FS_EmptySet
<1>3. PICK o \in rows : \A r \in rows : o.changedAt <= r.changedAt
  BY <1>2, OldestOf DEF AreRows
<1>4. /\ IsFiniteSet(rows \ {o}) /\ Cardinality(rows \ {o}) \in Nat
      /\ Cardinality(rows \ {o}) = MAX_HISTORY_ROWS
  <2>1. IsFiniteSet(rows)
    BY DEF AreRows
  <2>2. /\ IsFiniteSet(rows \ {o}) /\ Cardinality(rows \ {o}) \in Nat
        /\ Cardinality(rows) = Cardinality(rows \ {o}) + 1
    BY <1>3, <2>1, OneFewer
  <2>3. QED
    BY <1>1, <2>2
<1>5. ASSUME NEW r \in rows \ {o}
      PROVE  ~(Cardinality(Newer(rows, r)) >= MAX_HISTORY_ROWS)
  <2>1. r.changedAt \in Nat /\ o.changedAt \in Nat
    BY RowTime DEF AreRows
  <2>2. Newer(rows, r) \in SUBSET ((rows \ {o}) \ {r})
    BY <1>3, <2>1 DEF Newer
  <2>3. /\ IsFiniteSet((rows \ {o}) \ {r})
        /\ Cardinality((rows \ {o}) \ {r}) \in Nat
        /\ Cardinality((rows \ {o}) \ {r}) + 1 = MAX_HISTORY_ROWS
    BY <1>4, OneFewer
  <2>4. /\ Cardinality(Newer(rows, r)) \in Nat
        /\ Cardinality(Newer(rows, r)) <= Cardinality((rows \ {o}) \ {r})
    BY <2>2, <2>3, SizesOf
  <2>5. QED
    BY <1>1, <2>3, <2>4
<1>6. rows \ {o} \in SUBSET (rows \ Excess(rows))
  BY <1>5 DEF Excess
<1>7. IsFiniteSet(rows \ Excess(rows))
  BY SizesOf DEF AreRows
<1>8. /\ Cardinality(rows \ Excess(rows)) \in Nat
      /\ Cardinality(rows \ {o}) <= Cardinality(rows \ Excess(rows))
  BY <1>6, <1>7, SizesOf
<1>9. QED
  BY <1>1, <1>4, <1>8, KeptAreFew

\* Whatever is newer than a row that is kept is kept.
LEMMA NewerOfKept ==
    ASSUME NEW rows, AreRows(rows), NEW r \in rows \ Excess(rows)
    PROVE  Newer(rows \ Excess(rows), r) = Newer(rows, r)
<1>1. MAX_HISTORY_ROWS \in Nat
  BY InventoryAssumption
<1>2. ASSUME NEW s \in Newer(rows, r)
      PROVE  s \notin Excess(rows)
  <2>1. s \in rows /\ r.changedAt \in Nat /\ s.changedAt \in Nat /\ s.changedAt > r.changedAt
    BY RowTime DEF AreRows, Newer
  <2>2. \A q \in Newer(rows, s) : q.changedAt \in Nat
    BY RowTime DEF AreRows, Newer
  <2>3. Newer(rows, s) \in SUBSET Newer(rows, r)
    BY <2>1, <2>2 DEF Newer
  <2>4. IsFiniteSet(Newer(rows, r)) /\ Cardinality(Newer(rows, r)) \in Nat
    BY NewerSizes
  <2>5. /\ Cardinality(Newer(rows, s)) \in Nat
        /\ Cardinality(Newer(rows, s)) <= Cardinality(Newer(rows, r))
    BY <2>3, <2>4, SizesOf
  <2>6. ~(Cardinality(Newer(rows, r)) >= MAX_HISTORY_ROWS)
    BY DEF Excess
  <2>7. ~(Cardinality(Newer(rows, s)) >= MAX_HISTORY_ROWS)
    BY <1>1, <2>4, <2>5, <2>6
  <2>8. QED
    BY <2>7 DEF Excess
<1>3. QED
  BY <1>2 DEF Newer

\* rows are the end of the trail t: the last values of it, in order.
EndsTrail(rows, t) ==
    /\ Cardinality(rows) = IF Len(t) < MAX_HISTORY_ROWS THEN Len(t) ELSE MAX_HISTORY_ROWS
    /\ \A r \in rows : r.previous = t[Len(t) - Cardinality(Newer(rows, r))]

\* A newest row is added, and what is in excess then is deleted.
LEMMA TrailGoesOn ==
    ASSUME NEW rows, AreRows(rows), NEW new \in Row,
           \A r \in rows : r.changedAt < new.changedAt,
           NEW t \in Seq(Value), EndsTrail(rows, t)
    PROVE  EndsTrail((rows \cup {new}) \ Excess(rows \cup {new}), Append(t, new.previous))
<1>1. PICK all : all = rows \cup {new}
  OBVIOUS
<1>2. PICK u : u = Append(t, new.previous)
  OBVIOUS
<1>3. MAX_HISTORY_ROWS \in Nat \ {0} /\ Len(t) \in Nat
  BY InventoryAssumption
<1>4. new.changedAt \in Nat /\ new.previous \in Value /\ new \notin rows
  BY RowTime DEF AreRows
<1>5. /\ Len(u) = Len(t) + 1
      /\ \A n \in 1 .. Len(t) : u[n] = t[n]
      /\ u[Len(t) + 1] = new.previous
  BY <1>2, <1>4, AppendProperties
<1>6. \A r \in rows : r.changedAt \in Nat
  BY RowTime DEF AreRows
<1>7. AreRows(all)
  <2>1. IsFiniteSet(all)
    BY <1>1, FS_AddElement DEF AreRows
  <2>2. QED
    BY <1>1, <1>4, <1>6, <2>1 DEF AreRows
<1>8. Cardinality(all) = Cardinality(rows) + 1 /\ Cardinality(rows) \in Nat
  BY <1>1, <1>4, FS_AddElement, FS_CardinalityType DEF AreRows
<1>9. PICK K : K = all \ Excess(all)
  OBVIOUS
<1>10. Cardinality(K) = IF Len(u) < MAX_HISTORY_ROWS THEN Len(u) ELSE MAX_HISTORY_ROWS
  <2>1. CASE Len(t) < MAX_HISTORY_ROWS
    <3>1. Cardinality(all) = Len(t) + 1
      BY <1>8, <2>1 DEF EndsTrail
    <3>2. Cardinality(all) <= MAX_HISTORY_ROWS
      BY <1>3, <2>1, <3>1
    <3>3. K = all
      BY <1>7, <1>9, <3>2, NoneInExcess
    <3>4. QED
      BY <1>3, <1>5, <2>1, <3>1, <3>3
  <2>2. CASE ~(Len(t) < MAX_HISTORY_ROWS)
    <3>1. Cardinality(all) = MAX_HISTORY_ROWS + 1
      BY <1>8, <2>2 DEF EndsTrail
    <3>2. Cardinality(K) = MAX_HISTORY_ROWS
      BY <1>7, <1>9, <3>1, OneInExcess
    <3>3. QED
      BY <1>3, <1>5, <2>2, <3>2
  <2>3. QED
    BY <2>1, <2>2
<1>11. ASSUME NEW r \in K
       PROVE  r.previous = u[Len(u) - Cardinality(Newer(K, r))]
  <2>1. Newer(K, r) = Newer(all, r)
    BY <1>7, <1>9, NewerOfKept
  <2>2. CASE r = new
    <3>1. Newer(all, r) = {}
      BY <1>1, <1>4, <1>6, <2>2 DEF Newer
    <3>2. Cardinality(Newer(K, r)) = 0
      BY <2>1, <3>1, FS_EmptySet
    <3>3. QED
      BY <1>3, <1>5, <2>2, <3>2
  <2>3. CASE r # new
    <3>1. r \in rows
      BY <1>1, <1>9, <2>3
    <3>2. Newer(all, r) = Newer(rows, r) \cup {new} /\ new \notin Newer(rows, r)
      BY <1>1, <1>4, <3>1 DEF Newer
    <3>3. /\ IsFiniteSet(Newer(rows, r)) /\ Cardinality(Newer(rows, r)) \in Nat
          /\ Cardinality(Newer(rows, r)) < Cardinality(rows)
      BY <3>1, NewerSizes
    <3>4. Cardinality(Newer(K, r)) = Cardinality(Newer(rows, r)) + 1
      BY <2>1, <3>2, <3>3, FS_AddElement
    <3>5. Cardinality(rows) <= Len(t)
      BY <1>3 DEF EndsTrail
    <3>6. r.previous = t[Len(t) - Cardinality(Newer(rows, r))]
      BY <3>1 DEF EndsTrail
    <3>7. /\ Len(t) - Cardinality(Newer(rows, r)) \in 1 .. Len(t)
          /\ Len(u) - Cardinality(Newer(K, r)) = Len(t) - Cardinality(Newer(rows, r))
      BY <1>3, <1>5, <1>8, <3>3, <3>4, <3>5
    <3>8. QED
      BY <1>5, <3>6, <3>7
  <2>4. QED
    BY <2>2, <2>3
<1>12. EndsTrail(K, u)
  BY <1>10, <1>11 DEF EndsTrail
<1>13. QED
  BY <1>1, <1>2, <1>9, <1>12

-----------------------------------------------------------------------------

LEMMA NoEditType ==
    /\ NoEdit \in [pc : EditPc, i : Item \cup {NoItem}, before : Value,
                   changedAt : Nat, excess : SUBSET Row, missed : BOOLEAN]
    /\ NoEdit.pc = "idle"
<1>1. (CHOOSE v \in Value : TRUE) \in Value
  BY InventoryAssumption
<1>2. QED
  BY <1>1 DEF NoEdit, EditPc

LEMMA InitIInv == InventoryInit => IInv
<1> SUFFICES ASSUME InventoryInit PROVE IInv
  OBVIOUS
<1>1. NoEdit.before \in Value
  BY NoEditType
<1>2. InventoryTypeOK
  BY <1>1, NoEditType, InventoryAssumption DEF InventoryInit, InventoryTypeOK
<1>3. OpenEditsFit
  BY NoEditType DEF InventoryInit, OpenEditsFit
<1>4. QED
  BY <1>2, <1>3 DEF IInv

\* A request ends: the others keep what they had.
LEMMA EndedKeeps ==
    ASSUME IInv, NEW e \in Editor, Ended(e)
    PROVE  /\ edit' \in [Editor -> [pc : EditPc, i : Item \cup {NoItem}, before : Value,
                         changedAt : Nat, excess : SUBSET Row, missed : BOOLEAN]]
           /\ edit'[e].pc = "idle"
           /\ \A d \in Editor : d # e => edit'[d] = edit[d]
BY NoEditType DEF Ended, IInv, InventoryTypeOK

LEMMA FindSiteForItemIInv ==
    ASSUME IInv, NEW e \in Editor, FindSiteForItem(e)
    PROVE  IInv'
<1>1. InventoryTypeOK'
  BY DEF FindSiteForItem, IInv, InventoryTypeOK, EditPc
<1>2. OpenEditsFit'
  BY DEF FindSiteForItem, IInv, InventoryTypeOK, OpenEditsFit, Stored
<1>3. QED
  BY <1>1, <1>2 DEF IInv

LEMMA InsertItemIInv ==
    ASSUME IInv, NEW e \in Editor, InsertItem(e)
    PROVE  IInv'
<1>1. /\ item' \in [Item -> {"none", "stored", "removed"}]
      /\ value' \in [Item -> Value]
      /\ \A i \in Item : item[i] = "stored" \/ item[i] = "removed" => item'[i] = item[i]
      /\ \A i \in Item : item'[i] # "stored" => item[i] # "stored"
  BY DEF InsertItem, IInv, InventoryTypeOK
<1>2. InventoryTypeOK'
  BY <1>1, EndedKeeps DEF InsertItem, IInv, InventoryTypeOK
<1>3. OpenEditsFit'
  BY <1>1, EndedKeeps DEF InsertItem, IInv, OpenEditsFit, Stored
<1>4. QED
  BY <1>2, <1>3 DEF IInv

LEMMA FindItemIInv ==
    ASSUME IInv, NEW e \in Editor, NEW i \in Item, FindItem(e, i)
    PROVE  IInv'
<1>1. PICK pc \in {"begin", "delete"} :
         edit' = [edit EXCEPT ![e] = [NoEdit EXCEPT !.pc = pc, !.i = i,
                                                    !.before = value[i]]]
  BY DEF FindItem
<1>2. value[i] \in Value
  BY DEF IInv, InventoryTypeOK
<1>3. /\ [NoEdit EXCEPT !.pc = pc, !.i = i, !.before = value[i]] \in
            [pc : EditPc, i : Item \cup {NoItem}, before : Value,
             changedAt : Nat, excess : SUBSET Row, missed : BOOLEAN]
      /\ [NoEdit EXCEPT !.pc = pc, !.i = i, !.before = value[i]].pc = pc
      /\ [NoEdit EXCEPT !.pc = pc, !.i = i, !.before = value[i]].i = i
  BY <1>2, NoEditType DEF EditPc
<1>4. InventoryTypeOK'
  BY <1>1, <1>3 DEF FindItem, IInv, InventoryTypeOK
<1>5. OpenEditsFit'
  BY <1>1, <1>3 DEF FindItem, IInv, InventoryTypeOK, OpenEditsFit, Stored
<1>6. QED
  BY <1>4, <1>5 DEF IInv

LEMMA BeginUpdateIInv ==
    ASSUME IInv, NEW e \in Editor, BeginUpdate(e)
    PROVE  IInv'
<1>1. CASE Stored(edit[e].i) /\ updates < MaxUpdates
  <2>1. CASE Ended(e) /\ ~Stored(edit[e].i)
    BY <1>1, <2>1
  <2>2. CASE /\ updates' = updates + 1
             /\ edit' = [edit EXCEPT ![e].pc = "prune", ![e].changedAt = updates + 1]
    <3>1. updates' \in 0 .. MaxUpdates
      BY <1>1, <2>2, InventoryAssumption DEF IInv, InventoryTypeOK
    <3>2. updates + 1 \in Nat
      BY DEF IInv, InventoryTypeOK
    <3>3. edit' \in [Editor -> [pc : EditPc, i : Item \cup {NoItem}, before : Value,
                     changedAt : Nat, excess : SUBSET Row, missed : BOOLEAN]]
      <4> DEFINE new == [edit[e] EXCEPT !.pc = "prune", !.changedAt = updates + 1]
      <4>1. new \in [pc : EditPc, i : Item \cup {NoItem}, before : Value,
                     changedAt : Nat, excess : SUBSET Row, missed : BOOLEAN]
        BY <3>2 DEF IInv, InventoryTypeOK, EditPc
      <4>2. edit' = [edit EXCEPT ![e] = new]
        BY <2>2 DEF IInv, InventoryTypeOK
      <4> HIDE DEF new
      <4>3. QED
        BY <4>1, <4>2 DEF IInv, InventoryTypeOK
    <3>. UNCHANGED <<siteStands, item, value, history, trail, raced>>
      BY DEF BeginUpdate
    <3>4. InventoryTypeOK'
      BY <3>1, <3>3 DEF IInv, InventoryTypeOK
    <3>5. OpenEditsFit'
      BY <1>1, <2>2 DEF BeginUpdate, IInv, InventoryTypeOK, OpenEditsFit, Stored
    <3>6. QED
      BY <3>4, <3>5 DEF IInv
  <2>3. QED
    BY <2>1, <2>2 DEF BeginUpdate
<1>2. CASE Ended(e) /\ UNCHANGED updates
  <2>1. InventoryTypeOK'
    BY <1>2, EndedKeeps DEF BeginUpdate, IInv, InventoryTypeOK
  <2>2. OpenEditsFit'
    BY <1>2, EndedKeeps DEF BeginUpdate, IInv, OpenEditsFit, Stored
  <2>3. QED
    BY <2>1, <2>2 DEF IInv
<1>3. QED
  BY <1>1, <1>2 DEF BeginUpdate

LEMMA PruneHistoryIInv ==
    ASSUME IInv, NEW e \in Editor, PruneHistory(e)
    PROVE  IInv'
<1> DEFINE i == edit[e].i
<1>1. i \in Item /\ history[i] \subseteq Row /\ RowOf(e) \in Row
  BY DEF PruneHistory, IInv, InventoryTypeOK, OpenEditsFit, Stored, RowOf, Row
<1>2. Excess(history[i] \cup {RowOf(e)}) \in SUBSET Row
  BY <1>1 DEF Excess
<1>3. InventoryTypeOK'
  <2>1. PICK x \in SUBSET Row : x = Excess(history[i] \cup {RowOf(e)})
    BY <1>2
  <2>2. PICK q : q = [edit[e] EXCEPT !.pc = "write", !.excess = x]
    OBVIOUS
  <2>3. q \in [pc : EditPc, i : Item \cup {NoItem}, before : Value,
              changedAt : Nat, excess : SUBSET Row, missed : BOOLEAN]
    BY <2>2 DEF IInv, InventoryTypeOK, EditPc
  <2>4. edit' = [edit EXCEPT ![e] = q]
    BY <2>1, <2>2 DEF PruneHistory, IInv, InventoryTypeOK
  <2>5. QED
    BY <2>3, <2>4 DEF PruneHistory, IInv, InventoryTypeOK
<1>4. OpenEditsFit'
  BY DEF PruneHistory, IInv, InventoryTypeOK, OpenEditsFit, Stored
<1>5. QED
  BY <1>3, <1>4 DEF IInv

LEMMA WriteUpdateIInv ==
    ASSUME IInv, NEW e \in Editor, WriteUpdate(e)
    PROVE  IInv'
<1> DEFINE i == edit[e].i
<1>1. i \in Item /\ item[i] = "stored" /\ RowOf(e) \in Row
  BY DEF WriteUpdate, IInv, InventoryTypeOK, OpenEditsFit, Stored, RowOf, Row
<1>2. /\ value' \in [Item -> Value]
      /\ history' \in [Item -> SUBSET Row]
      /\ \A j \in Item : j # i => history'[j] = history[j]
  BY <1>1 DEF WriteUpdate, IInv, InventoryTypeOK
<1>3. trail' \in [Item -> Seq(Value)]
  BY <1>1 DEF WriteUpdate, IInv, InventoryTypeOK
<1>4. raced' \subseteq Item
  BY <1>1 DEF WriteUpdate, IInv, InventoryTypeOK
<1>5. /\ edit' \in [Editor -> [pc : EditPc, i : Item \cup {NoItem}, before : Value,
                    changedAt : Nat, excess : SUBSET Row, missed : BOOLEAN]]
      /\ \A d \in Editor : edit'[d].pc = "idle"
                           \/ (edit'[d].pc = edit[d].pc /\ edit'[d].i = edit[d].i)
  BY NoEditType DEF WriteUpdate, IInv, InventoryTypeOK
<1>6. InventoryTypeOK'
  BY <1>1, <1>2, <1>3, <1>4, <1>5 DEF WriteUpdate, IInv, InventoryTypeOK
<1>7. OpenEditsFit'
  BY <1>5 DEF WriteUpdate, IInv, OpenEditsFit, Stored
<1>8. QED
  BY <1>6, <1>7 DEF IInv

\* The item goes only when no transaction holds one of its history rows.
LEMMA DeleteItemIInv ==
    ASSUME IInv, NEW e \in Editor, DeleteItem(e)
    PROVE  IInv'
<1> DEFINE i == edit[e].i
<1>1. CASE /\ Stored(i) /\ ~KeptByUpdate(i)
           /\ item' = [item EXCEPT ![i] = "removed"]
           /\ history' = [history EXCEPT ![i] = {}]
  <2>1. InventoryTypeOK'
    BY <1>1, EndedKeeps DEF DeleteItem, IInv, InventoryTypeOK, Stored
  <2>2. OpenEditsFit'
    BY <1>1, EndedKeeps DEF DeleteItem, IInv, InventoryTypeOK, OpenEditsFit, Stored,
                            KeptByUpdate
  <2>3. QED
    BY <2>1, <2>2 DEF IInv
<1>2. CASE UNCHANGED <<item, history>>
  <2>1. InventoryTypeOK'
    BY <1>2, EndedKeeps DEF DeleteItem, IInv, InventoryTypeOK
  <2>2. OpenEditsFit'
    BY <1>2, EndedKeeps DEF DeleteItem, IInv, OpenEditsFit, Stored
  <2>3. QED
    BY <2>1, <2>2 DEF IInv
<1>3. QED
  BY <1>1, <1>2 DEF DeleteItem

LEMMA EditFailsIInv ==
    ASSUME IInv, NEW e \in Editor, EditFails(e)
    PROVE  IInv'
<1>1. InventoryTypeOK'
  BY EndedKeeps DEF EditFails, IInv, InventoryTypeOK
<1>2. OpenEditsFit'
  BY EndedKeeps DEF EditFails, IInv, OpenEditsFit, Stored
<1>3. QED
  BY <1>1, <1>2 DEF IInv

LEMMA RemoveSiteIInv ==
    ASSUME IInv, RemoveSiteWithItems
    PROVE  IInv'
<1>1. InventoryTypeOK'
  BY DEF RemoveSiteWithItems, IInv, InventoryTypeOK
<1>2. OpenEditsFit'
  BY DEF RemoveSiteWithItems, IInv, OpenEditsFit, Stored, KeptByUpdate
<1>3. QED
  BY <1>1, <1>2 DEF IInv

LEMMA NextIInv == IInv /\ [InventoryNext]_inventoryVars => IInv'
<1> SUFFICES ASSUME IInv, [InventoryNext]_inventoryVars PROVE IInv'
  OBVIOUS
<1>1. ASSUME NEW e \in Editor, FindSiteForItem(e) \/ InsertItem(e) PROVE IInv'
  BY <1>1, FindSiteForItemIInv, InsertItemIInv
<1>2. ASSUME NEW e \in Editor, NEW i \in Item, FindItem(e, i) PROVE IInv'
  BY <1>2, FindItemIInv
<1>3. ASSUME NEW e \in Editor, BeginUpdate(e) \/ PruneHistory(e) \/ WriteUpdate(e)
      PROVE  IInv'
  BY <1>3, BeginUpdateIInv, PruneHistoryIInv, WriteUpdateIInv
<1>4. ASSUME NEW e \in Editor, DeleteItem(e) \/ EditFails(e) PROVE IInv'
  BY <1>4, DeleteItemIInv, EditFailsIInv
<1>5. CASE RemoveSiteWithItems
  BY <1>5, RemoveSiteIInv
<1>6. CASE UNCHANGED inventoryVars
  BY <1>6 DEF inventoryVars, IInv, InventoryTypeOK, OpenEditsFit, Stored
<1>7. QED
  BY <1>1, <1>2, <1>3, <1>4, <1>5, <1>6 DEF InventoryNext

-----------------------------------------------------------------------------
(* The histories *)

LEMMA EditFacts ==
    ASSUME InventoryTypeOK, NEW e \in Editor
    PROVE  /\ edit[e] \in [pc : EditPc, i : Item \cup {NoItem}, before : Value,
                           changedAt : Nat, excess : SUBSET Row, missed : BOOLEAN]
           /\ edit[e].changedAt \in Nat /\ edit[e].before \in Value
           /\ edit[e].excess \in SUBSET Row /\ edit[e].missed \in BOOLEAN
           /\ RowOf(e) \in Row
           /\ RowOf(e).changedAt = edit[e].changedAt /\ RowOf(e).previous = edit[e].before
BY DEF InventoryTypeOK, RowOf, Row

\* Items requests work on.
LEMMA ItemOf ==
    ASSUME IInv, NEW e \in Editor, edit[e].pc \in {"begin", "delete", "prune", "write"}
    PROVE  edit[e].i \in Item
BY DEF IInv, OpenEditsFit, Stored

LEMMA HistoryRows ==
    ASSUME InventoryTypeOK, TimesDiffer, OutcomesNearLimit, NEW i \in Item
    PROVE  AreRows(history[i])
BY DEF InventoryTypeOK, TimesDiffer, OutcomesNearLimit, AreRows

LEMMA Bounds ==
    /\ MAX_HISTORY_ROWS \in Nat \ {0} /\ Cardinality(Editor) \in Nat
    /\ Most \in Nat
BY InventoryAssumption, FS_CardinalityType DEF Most

LEMMA TrailIsEnd ==
    ASSUME HistoryIsTrail, NEW i \in Item, Stored(i), i \notin raced
    PROVE  EndsTrail(history[i], trail[i])
BY DEF HistoryIsTrail, EndsTrail

LEMMA OutcomeStays ==
    ASSUME NEW i \in Item, history'[i] = history[i], NEW T, \A d \in T : edit'[d] = edit[d]
    PROVE  Outcome(i, T)' = Outcome(i, T)
BY DEF Outcome, RowOf

LEMMA OutcomesStay ==
    ASSUME InventoryTypeOK, OutcomesNearLimit,
           \A d \in Editor : edit'[d] = edit[d] \/ edit'[d].pc # "write",
           NEW i \in Item, history'[i] = history[i]
    PROVE  /\ IsFiniteSet(history'[i])
           /\ \A T \in SUBSET Writers(i)' : Cardinality(Outcome(i, T)') <= Most
<1>1. IsFiniteSet(history'[i])
  BY DEF OutcomesNearLimit
<1>2. ASSUME NEW T \in SUBSET Writers(i)'
      PROVE  Cardinality(Outcome(i, T)') <= Most
  <2>1. \A d \in T : edit'[d] = edit[d]
    BY DEF Writers
  <2>2. T \in SUBSET Writers(i)
    BY <2>1 DEF Writers
  <2>3. Outcome(i, T)' = Outcome(i, T)
    BY <2>1, OutcomeStays
  <2>4. QED
    BY <2>2, <2>3 DEF OutcomesNearLimit
<1>3. QED
  BY <1>1, <1>2

\* Some requests end or begin, some items appear or go with their history; no
\* transaction of an update goes on.
SomeEndOrBegin ==
    /\ UNCHANGED <<updates, trail, raced>>
    /\ \A e \in Editor : edit'[e] = edit[e] \/ edit'[e].pc \in {"idle", "insert"}
    /\ \A i \in Item :
          \/ item'[i] = item[i] /\ history'[i] = history[i] /\ value'[i] = value[i]
          \/ item[i] = "none" /\ item'[i] = "stored" /\ history'[i] = history[i]
          \/ /\ item[i] = "stored" /\ item'[i] = "removed"
             /\ history'[i] = {} /\ value'[i] = value[i]
             /\ \A e \in Editor : ~(InUpdate(e) /\ edit[e].i = i)
          \/ /\ item[i] # "stored" /\ item'[i] = item[i]
             /\ history'[i] = {} /\ value'[i] = value[i]

LEMMA SomeEndOrBeginKeeps ==
    ASSUME IInv, IInv', HistoriesFit, SomeEndOrBegin
    PROVE  HistoriesFit'
<1>1. InventoryTypeOK /\ InventoryTypeOK'
  BY DEF IInv
<1>2. \A i \in Item : item[i] # "stored" => history[i] = {}
  BY <1>1 DEF InventoryTypeOK
<1>3. TrailsBegin'
  <2>1. \A i \in Item : item'[i] = "none" => item[i] = "none"
    BY DEF SomeEndOrBegin
  <2>2. ASSUME NEW e \in Editor, edit'[e].pc \in {"begin", "delete", "prune", "write"}
        PROVE  item'[edit'[e].i] # "none"
    <3>1. edit'[e] = edit[e]
      BY <2>2 DEF SomeEndOrBegin
    <3>2. edit[e].i \in Item /\ item[edit[e].i] # "none"
      BY <2>2, <3>1, ItemOf DEF HistoriesFit, TrailsBegin
    <3>3. QED
      BY <2>1, <3>1, <3>2
  <2>3. QED
    BY <2>1, <2>2 DEF HistoriesFit, TrailsBegin, SomeEndOrBegin
<1>4. \A i \in Item : history'[i] \in SUBSET history[i]
  BY DEF SomeEndOrBegin
<1>5. \A e \in Editor : /\ InUpdate(e)' => edit'[e] = edit[e] /\ InUpdate(e)
                        /\ edit'[e].pc = "write" => edit'[e] = edit[e]
  BY DEF SomeEndOrBegin, InUpdate
<1>6. TimesDiffer'
  BY <1>4, <1>5 DEF HistoriesFit, TimesDiffer, SomeEndOrBegin
<1>7. UnmissedIsCurrent'
  <2> SUFFICES ASSUME NEW e \in Editor,
                      edit'[e].pc \in {"begin", "delete", "prune", "write"},
                      ~edit'[e].missed
               PROVE  /\ edit'[e].before = value'[edit'[e].i]
                      /\ InUpdate(e)' => \A r \in history'[edit'[e].i] :
                                            r.changedAt < edit'[e].changedAt
                      /\ edit'[e].pc = "write" =>
                            edit'[e].excess = Excess(history'[edit'[e].i] \cup {RowOf(e)'})
    BY DEF UnmissedIsCurrent
  <2>1. edit'[e] = edit[e] /\ RowOf(e)' = RowOf(e)
    BY DEF SomeEndOrBegin, RowOf
  <2>2. edit[e].i \in Item /\ item[edit[e].i] # "none"
    BY <2>1, ItemOf DEF HistoriesFit, TrailsBegin
  <2>3. value'[edit[e].i] = value[edit[e].i]
    BY <2>2 DEF SomeEndOrBegin
  <2>4. InUpdate(e)' => InUpdate(e) /\ history'[edit[e].i] = history[edit[e].i]
    BY <1>2, <2>1, <2>2 DEF SomeEndOrBegin, InUpdate
  <2>5. edit'[e].pc = "write" => InUpdate(e)'
    BY DEF InUpdate
  <2>6. QED
    BY <2>1, <2>3, <2>4, <2>5 DEF HistoriesFit, UnmissedIsCurrent
<1>8. OutcomesNearLimit'
  <2> SUFFICES ASSUME NEW i \in Item
               PROVE  /\ IsFiniteSet(history'[i])
                      /\ \A T \in SUBSET Writers(i)' : Cardinality(Outcome(i, T)') <= Most
    BY DEF OutcomesNearLimit, Most
  <2>1. CASE history'[i] = history[i]
    <3>1. \A d \in Editor : edit'[d] = edit[d] \/ edit'[d].pc # "write"
      BY DEF SomeEndOrBegin
    <3>2. QED
      BY <1>1, <2>1, <3>1, OutcomesStay DEF HistoriesFit
  <2>2. CASE history'[i] # history[i]
    <3>1. history'[i] = {} /\ \A e \in Editor : ~(InUpdate(e) /\ edit[e].i = i)
      BY <1>2, <2>2 DEF SomeEndOrBegin
    <3>2. Writers(i)' = {}
      BY <1>5, <3>1 DEF Writers, InUpdate
    <3>3. ASSUME NEW T \in SUBSET Writers(i)'
          PROVE  Cardinality(Outcome(i, T)') <= Most
      <4>1. Outcome(i, T)' = {}
        BY <3>1, <3>2 DEF Outcome
      <4>2. QED
        BY <4>1, Bounds, FS_EmptySet
    <3>4. QED
      BY <3>1, <3>3, FS_EmptySet
  <2>3. QED
    BY <2>1, <2>2
<1>9. HistoryIsTrail'
  <2>1. ASSUME NEW i \in Item, item'[i] = "stored", i \notin raced'
        PROVE  EndsTrail(history'[i], trail'[i])
    <3>1. CASE item[i] = "stored"
      BY <2>1, <3>1, TrailIsEnd DEF SomeEndOrBegin, HistoriesFit, Stored
    <3>2. CASE item[i] # "stored"
      <4>1. item[i] = "none" /\ history'[i] = {} /\ trail'[i] = <<>>
        BY <1>2, <2>1, <3>2 DEF SomeEndOrBegin, HistoriesFit, TrailsBegin
      <4>2. QED
        BY <4>1, Bounds, FS_EmptySet DEF EndsTrail
    <3>3. QED
      BY <3>1, <3>2
  <2>2. QED
    BY <2>1 DEF HistoryIsTrail, EndsTrail, Stored
<1>10. QED
  BY <1>3, <1>6, <1>7, <1>8, <1>9 DEF HistoriesFit

LEMMA InsertItemFits ==
    ASSUME IInv, IInv', HistoriesFit, NEW e \in Editor, InsertItem(e)
    PROVE  HistoriesFit'
<1>1. \A d \in Editor : edit'[d] = edit[d] \/ edit'[d].pc \in {"idle", "insert"}
  BY EndedKeeps DEF InsertItem
<1>2. CASE \E i \in Item, v \in Value : /\ item[i] = "none"
                                        /\ item' = [item EXCEPT ![i] = "stored"]
                                        /\ value' = [value EXCEPT ![i] = v]
  <2>1. PICK i \in Item, v \in Value : /\ item[i] = "none"
                                       /\ item' = [item EXCEPT ![i] = "stored"]
                                       /\ value' = [value EXCEPT ![i] = v]
    BY <1>2
  <2>2. \A j \in Item : /\ item'[j] = IF j = i THEN "stored" ELSE item[j]
                        /\ value'[j] = IF j = i THEN v ELSE value[j]
    BY <2>1 DEF IInv, InventoryTypeOK
  <2>3. SomeEndOrBegin
    BY <1>1, <2>1, <2>2 DEF InsertItem, SomeEndOrBegin
  <2>4. QED
    BY <2>3, SomeEndOrBeginKeeps
<1>3. CASE UNCHANGED <<item, value>>
  <2>1. SomeEndOrBegin
    BY <1>1, <1>3 DEF InsertItem, SomeEndOrBegin
  <2>2. QED
    BY <2>1, SomeEndOrBeginKeeps
<1>4. QED
  BY <1>2, <1>3 DEF InsertItem

LEMMA FindSiteForItemFits ==
    ASSUME IInv, IInv', HistoriesFit, NEW e \in Editor, FindSiteForItem(e)
    PROVE  HistoriesFit'
<1>1. \A d \in Editor : edit'[d] = edit[d] \/ edit'[d].pc \in {"idle", "insert"}
  BY DEF FindSiteForItem, IInv, InventoryTypeOK
<1>2. SomeEndOrBegin
  BY <1>1 DEF FindSiteForItem, SomeEndOrBegin
<1>3. QED
  BY <1>2, SomeEndOrBeginKeeps

LEMMA EditFailsFits ==
    ASSUME IInv, IInv', HistoriesFit, NEW e \in Editor, EditFails(e)
    PROVE  HistoriesFit'
<1>1. \A d \in Editor : edit'[d] = edit[d] \/ edit'[d].pc \in {"idle", "insert"}
  BY EndedKeeps DEF EditFails
<1>2. SomeEndOrBegin
  BY <1>1 DEF EditFails, SomeEndOrBegin
<1>3. QED
  BY <1>2, SomeEndOrBeginKeeps

LEMMA DeleteItemFits ==
    ASSUME IInv, IInv', HistoriesFit, NEW e \in Editor, DeleteItem(e)
    PROVE  HistoriesFit'
<1> DEFINE i == edit[e].i
<1>1. \A d \in Editor : edit'[d] = edit[d] \/ edit'[d].pc \in {"idle", "insert"}
  BY EndedKeeps DEF DeleteItem
<1>2. CASE /\ Stored(i) /\ ~KeptByUpdate(i)
           /\ item' = [item EXCEPT ![i] = "removed"]
           /\ history' = [history EXCEPT ![i] = {}]
  <2>1. i \in Item /\ item[i] = "stored"
    BY <1>2 DEF Stored
  <2>2. \A j \in Item : /\ item'[j] = IF j = i THEN "removed" ELSE item[j]
                        /\ history'[j] = IF j = i THEN {} ELSE history[j]
    BY <1>2, <2>1 DEF IInv, InventoryTypeOK
  <2>3. \A d \in Editor : ~(InUpdate(d) /\ edit[d].i = i)
    BY <1>2 DEF KeptByUpdate, InUpdate
  <2>4. UNCHANGED <<value, updates, trail, raced>>
    BY DEF DeleteItem
  <2> HIDE DEF i
  <2>5. SomeEndOrBegin
    BY <1>1, <2>1, <2>2, <2>3, <2>4 DEF SomeEndOrBegin
  <2>6. QED
    BY <2>5, SomeEndOrBeginKeeps
<1>3. CASE UNCHANGED <<item, history>>
  <2>1. SomeEndOrBegin
    BY <1>1, <1>3 DEF DeleteItem, SomeEndOrBegin
  <2>2. QED
    BY <2>1, SomeEndOrBeginKeeps
<1>4. QED
  BY <1>2, <1>3 DEF DeleteItem

LEMMA RemoveSiteFits ==
    ASSUME IInv, IInv', HistoriesFit, RemoveSiteWithItems
    PROVE  HistoriesFit'
<1>1. \A i \in Item : /\ item'[i] = IF item[i] = "stored" THEN "removed" ELSE item[i]
                      /\ history'[i] = {}
                      /\ \A e \in Editor : ~(InUpdate(e) /\ edit[e].i = i)
  BY DEF RemoveSiteWithItems, KeptByUpdate, InUpdate
<1>2. SomeEndOrBegin
  BY <1>1 DEF RemoveSiteWithItems, SomeEndOrBegin
<1>3. QED
  BY <1>2, SomeEndOrBeginKeeps

\* Requests that prepare their update: the histories stay as they are.
LEMMA HistoriesStay ==
    ASSUME IInv, HistoriesFit, NEW e \in Editor, edit'[e].pc # "write",
           \A d \in Editor : d # e => edit'[d] = edit[d],
           UNCHANGED <<item, history, trail, raced>>
    PROVE  OutcomesNearLimit' /\ HistoryIsTrail'
<1>1. OutcomesNearLimit'
  <2> SUFFICES ASSUME NEW i \in Item
               PROVE  /\ IsFiniteSet(history'[i])
                      /\ \A T \in SUBSET Writers(i)' : Cardinality(Outcome(i, T)') <= Most
    BY DEF OutcomesNearLimit, Most
  <2>1. \A d \in Editor : edit'[d] = edit[d] \/ edit'[d].pc # "write"
    OBVIOUS
  <2>2. QED
    BY <2>1, OutcomesStay DEF HistoriesFit, IInv
<1>2. HistoryIsTrail'
  BY DEF HistoriesFit, HistoryIsTrail, Stored
<1>3. QED
  BY <1>1, <1>2

LEMMA FindItemFits ==
    ASSUME IInv, HistoriesFit, NEW e \in Editor, NEW i \in Item, FindItem(e, i)
    PROVE  HistoriesFit'
<1>1. PICK pc \in {"begin", "delete"} :
         edit' = [edit EXCEPT ![e] = [NoEdit EXCEPT !.pc = pc, !.i = i,
                                                    !.before = value[i]]]
  BY DEF FindItem
<1>2. PICK q : q = [NoEdit EXCEPT !.pc = pc, !.i = i, !.before = value[i]]
  OBVIOUS
<1>3. q.pc = pc /\ q.i = i /\ q.before = value[i]
  BY <1>2 DEF NoEdit
<1>4. \A d \in Editor : edit'[d] = IF d = e THEN q ELSE edit[d]
  BY <1>1, <1>2 DEF IInv, InventoryTypeOK
<1>5. UNCHANGED <<siteStands, item, value, history, updates, trail, raced>> /\ Stored(i)
  BY DEF FindItem
<1>6. TrailsBegin'
  BY <1>3, <1>4, <1>5 DEF HistoriesFit, TrailsBegin, Stored
<1>7. \A d \in Editor : InUpdate(d)' => d # e /\ InUpdate(d) /\ edit'[d] = edit[d]
  BY <1>3, <1>4 DEF InUpdate
<1>8. TimesDiffer'
  BY <1>5, <1>7 DEF HistoriesFit, TimesDiffer, InUpdate
<1>9. UnmissedIsCurrent'
  BY <1>3, <1>4, <1>5 DEF HistoriesFit, UnmissedIsCurrent, InUpdate, RowOf
<1>10. edit'[e].pc # "write" /\ \A d \in Editor : d # e => edit'[d] = edit[d]
  BY <1>3, <1>4
<1>11. QED
  BY <1>5, <1>6, <1>8, <1>9, <1>10, HistoriesStay DEF HistoriesFit

LEMMA BeginUpdateFits ==
    ASSUME IInv, IInv', HistoriesFit, NEW e \in Editor, BeginUpdate(e)
    PROVE  HistoriesFit'
<1>1. CASE /\ updates' = updates + 1
           /\ edit' = [edit EXCEPT ![e].pc = "prune", ![e].changedAt = updates + 1]
  <2>1. PICK q : q = [edit[e] EXCEPT !.pc = "prune", !.changedAt = updates + 1]
    OBVIOUS
  <2>2. /\ q.pc = "prune" /\ q.changedAt = updates + 1 /\ q.i = edit[e].i
        /\ q.before = edit[e].before /\ q.missed = edit[e].missed
    BY <2>1 DEF IInv, InventoryTypeOK
  <2>3. \A d \in Editor : edit'[d] = IF d = e THEN q ELSE edit[d]
    BY <1>1, <2>1 DEF IInv, InventoryTypeOK
  <2>4. UNCHANGED <<siteStands, item, value, history, trail, raced>> /\ edit[e].pc = "begin"
    BY DEF BeginUpdate
  <2>5. updates \in Nat /\ \A i \in Item : \A r \in history[i] : r.changedAt \in Nat
    BY RowTime DEF IInv, InventoryTypeOK
  <2>6. \A d \in Editor : edit[d].changedAt \in Nat /\ \A r \in edit[d].excess : r.changedAt \in Nat
    BY EditFacts, RowTime DEF IInv
  <2>7. TrailsBegin'
    BY <2>2, <2>3, <2>4 DEF HistoriesFit, TrailsBegin
  <2>8. \A d \in Editor : d # e /\ InUpdate(d)' => InUpdate(d) /\ edit'[d] = edit[d]
    BY <2>3 DEF InUpdate
  <2>9. TimesDiffer'
    <3>1. \A i \in Item : \A r \in history'[i] :
             /\ r.changedAt <= updates'
             /\ \A s \in history'[i] : s.changedAt = r.changedAt => s = r
      BY <1>1, <2>4, <2>5 DEF HistoriesFit, TimesDiffer
    <3>2. ASSUME NEW d \in Editor, InUpdate(d)'
          PROVE  /\ edit'[d].changedAt <= updates'
                 /\ \A i \in Item : \A r \in history'[i] : r.changedAt # edit'[d].changedAt
                 /\ \A c \in Editor \ {d} : InUpdate(c)' =>
                       edit'[c].changedAt # edit'[d].changedAt
      <4>1. \A c \in Editor : c # e /\ InUpdate(c)' =>
               /\ InUpdate(c) /\ edit'[c] = edit[c]
               /\ edit'[c].changedAt <= updates
        BY <2>8 DEF HistoriesFit, TimesDiffer
      <4>2. edit'[e].changedAt = updates + 1
        BY <2>2, <2>3
      <4>3. \A i \in Item : \A r \in history[i] : r.changedAt <= updates
        BY DEF HistoriesFit, TimesDiffer
      <4>4. \A c \in Editor : edit'[c].changedAt \in Nat
        BY <2>2, <2>3, <2>5, <2>6
      <4>5. updates' = updates + 1
        BY <1>1
      <4>6. edit'[d].changedAt <= updates'
        <5>1. CASE d = e
          BY <2>5, <4>2, <4>5, <5>1
        <5>2. CASE d # e
          <6>1. edit'[d].changedAt <= updates
            BY <3>2, <4>1, <5>2
          <6>2. QED
            BY <2>5, <4>4, <4>5, <6>1
        <5>3. QED
          BY <5>1, <5>2
      <4>7. \A i \in Item : \A r \in history'[i] : r.changedAt # edit'[d].changedAt
        <5>1. CASE d = e
          BY <2>4, <2>5, <4>2, <4>3, <5>1
        <5>2. CASE d # e
          BY <2>4, <3>2, <4>1, <5>2 DEF HistoriesFit, TimesDiffer
        <5>3. QED
          BY <5>1, <5>2
      <4>8. ASSUME NEW c \in Editor \ {d}, InUpdate(c)'
            PROVE  edit'[c].changedAt # edit'[d].changedAt
        <5>1. CASE d = e
          BY <2>5, <4>1, <4>2, <4>4, <4>8, <5>1
        <5>2. CASE c = e
          BY <2>5, <3>2, <4>1, <4>2, <4>4, <5>2
        <5>3. CASE d # e /\ c # e
          BY <3>2, <4>1, <4>8, <5>3 DEF HistoriesFit, TimesDiffer
        <5>4. QED
          BY <5>1, <5>2, <5>3
      <4>9. QED
        BY <4>6, <4>7, <4>8
    <3>3. ASSUME NEW d \in Editor, edit'[d].pc = "write", NEW r \in edit'[d].excess
          PROVE  /\ r.changedAt <= updates'
                 /\ \A c \in Editor \ {d} : InUpdate(c)' => edit'[c].changedAt # r.changedAt
      <4>1. d # e /\ edit'[d] = edit[d]
        BY <2>2, <2>3, <3>3
      <4>2. r.changedAt \in Nat /\ r.changedAt <= updates
        BY <2>6, <3>3, <4>1 DEF HistoriesFit, TimesDiffer
      <4>3. \A c \in Editor \ {d} : InUpdate(c) => edit[c].changedAt # r.changedAt
        BY <3>3, <4>1 DEF HistoriesFit, TimesDiffer
      <4>4. edit'[e].changedAt # r.changedAt
        BY <2>2, <2>3, <2>5, <4>2
      <4>5. r.changedAt <= updates'
        BY <1>1, <2>5, <4>2
      <4>6. QED
        BY <2>8, <4>3, <4>4, <4>5
    <3>4. QED
      BY <3>1, <3>2, <3>3 DEF TimesDiffer
  <2>10. UnmissedIsCurrent'
    <3> SUFFICES ASSUME NEW d \in Editor,
                        edit'[d].pc \in {"begin", "delete", "prune", "write"},
                        ~edit'[d].missed
                 PROVE  /\ edit'[d].before = value'[edit'[d].i]
                        /\ InUpdate(d)' => \A r \in history'[edit'[d].i] :
                                              r.changedAt < edit'[d].changedAt
                        /\ edit'[d].pc = "write" =>
                              edit'[d].excess = Excess(history'[edit'[d].i] \cup {RowOf(d)'})
      BY DEF UnmissedIsCurrent
    <3>1. CASE d = e
      <4>1. edit'[d] = q /\ edit[e].i \in Item
        BY <2>3, <2>4, <3>1, ItemOf
      <4>2. \A r \in history[edit[e].i] : r.changedAt <= updates
        BY <4>1 DEF HistoriesFit, TimesDiffer
      <4>3. \A r \in history[edit[e].i] : r.changedAt < updates + 1
        BY <2>5, <4>1, <4>2
      <4>4. edit[e].before = value[edit[e].i]
        BY <2>2, <2>4, <4>1 DEF HistoriesFit, UnmissedIsCurrent
      <4>5. QED
        BY <2>2, <2>4, <4>1, <4>3, <4>4
    <3>2. CASE d # e
      <4>1. edit'[d] = edit[d] /\ RowOf(d)' = RowOf(d)
        BY <2>3, <3>2 DEF RowOf
      <4>2. InUpdate(d)' => InUpdate(d)
        BY <4>1 DEF InUpdate
      <4>3. QED
        BY <2>4, <4>1, <4>2 DEF HistoriesFit, UnmissedIsCurrent
    <3>3. QED
      BY <3>1, <3>2
  <2>11. edit'[e].pc # "write" /\ \A d \in Editor : d # e => edit'[d] = edit[d]
    BY <2>2, <2>3
  <2>12. QED
    BY <2>4, <2>7, <2>9, <2>10, <2>11, HistoriesStay DEF HistoriesFit
<1>2. CASE Ended(e) /\ UNCHANGED updates
  <2>1. \A d \in Editor : edit'[d] = edit[d] \/ edit'[d].pc \in {"idle", "insert"}
    BY <1>2, EndedKeeps
  <2>2. SomeEndOrBegin
    BY <1>2, <2>1 DEF BeginUpdate, SomeEndOrBegin
  <2>3. QED
    BY <2>2, SomeEndOrBeginKeeps
<1>3. QED
  BY <1>1, <1>2 DEF BeginUpdate

\* The rows of the requests other than e are fewer than the requests.
LEMMA RowsOfFewer ==
    ASSUME NEW e \in Editor, NEW T \in SUBSET Editor,
           NEW others, others = {RowOf(d) : d \in T \ {e}}
    PROVE  /\ IsFiniteSet(others) /\ Cardinality(others) \in Nat
           /\ Cardinality(others) + 1 <= Cardinality(Editor)
<1>1. /\ IsFiniteSet(Editor \ {e})
      /\ Cardinality(Editor) \in Nat /\ Cardinality(Editor \ {e}) \in Nat
      /\ Cardinality(Editor) = Cardinality(Editor \ {e}) + 1
  BY InventoryAssumption, OneFewer
<1>2. PICK S : S = T \ {e}
  OBVIOUS
<1>3. /\ IsFiniteSet(S) /\ Cardinality(S) \in Nat
      /\ Cardinality(S) <= Cardinality(Editor \ {e})
  <2>1. S \in SUBSET (Editor \ {e})
    BY <1>2
  <2>2. QED
    BY <1>1, <2>1, SizesOf
<1>4. PICK f : f = [d \in S |-> RowOf(d)]
  OBVIOUS
<1>5. f \in Surjection(S, others)
  BY <1>2, <1>4 DEF Surjection
<1>6. IsFiniteSet(others) /\ Cardinality(others) <= Cardinality(S)
  BY <1>3, <1>5, FS_Surjection
<1>7. Cardinality(others) \in Nat
  BY <1>6, FS_CardinalityType
<1>8. QED
  BY <1>1, <1>3, <1>6, <1>7

LEMMA UnionFits ==
    ASSUME NEW A, NEW B, IsFiniteSet(A), IsFiniteSet(B),
           Cardinality(A) <= MAX_HISTORY_ROWS,
           Cardinality(B) + 1 <= Cardinality(Editor)
    PROVE  IsFiniteSet(A \cup B) /\ Cardinality(A \cup B) <= Most
<1>1. IsFiniteSet(A \cap B) /\ IsFiniteSet(A \cup B)
  <2>1. A \cap B \in SUBSET A
    OBVIOUS
  <2>2. QED
    BY <2>1, FS_Subset, FS_Union
<1>2. Cardinality(A \cup B) = Cardinality(A) + Cardinality(B) - Cardinality(A \cap B)
  BY FS_Union
<1>3. /\ Cardinality(A) \in Nat /\ Cardinality(B) \in Nat
      /\ Cardinality(A \cap B) \in Nat /\ Cardinality(A \cup B) \in Nat
  BY <1>1, FS_CardinalityType
<1>4. QED
  BY <1>1, <1>2, <1>3, Bounds DEF Most

LEMMA OutcomeIsFinite ==
    ASSUME NEW i \in Item, IsFiniteSet(history[i]), NEW T \in SUBSET Writers(i)
    PROVE  IsFiniteSet(Outcome(i, T))
<1>1. T \in SUBSET Editor
  BY DEF Writers
<1>2. IsFiniteSet(T)
  BY <1>1, InventoryAssumption, FS_Subset
<1>3. PICK others : others = {RowOf(d) : d \in T}
  OBVIOUS
<1>4. PICK f : f = [d \in T |-> RowOf(d)]
  OBVIOUS
<1>5. f \in Surjection(T, others)
  BY <1>3, <1>4 DEF Surjection
<1>6. IsFiniteSet(others)
  BY <1>2, <1>5, FS_Surjection
<1>7. IsFiniteSet(history[i] \cup others)
  BY <1>6, FS_Union
<1>8. Outcome(i, T) \in SUBSET (history[i] \cup others)
  BY <1>3 DEF Outcome
<1>9. QED
  BY <1>7, <1>8, FS_Subset

LEMMA PruneHistoryFits ==
    ASSUME IInv, IInv', HistoriesFit, NEW e \in Editor, PruneHistory(e)
    PROVE  HistoriesFit'
<1> DEFINE i == edit[e].i
<1>1. edit[e].pc = "prune" /\ InUpdate(e) /\ i \in Item
  BY ItemOf DEF PruneHistory, InUpdate
<1>2. PICK x : x = Excess(history[i] \cup {RowOf(e)})
  OBVIOUS
<1>3. PICK q : q = [edit[e] EXCEPT !.pc = "write", !.excess = x]
  OBVIOUS
<1>4. /\ q.pc = "write" /\ q.excess = x /\ q.i = edit[e].i
      /\ q.before = edit[e].before /\ q.missed = edit[e].missed
      /\ q.changedAt = edit[e].changedAt
  BY <1>3 DEF IInv, InventoryTypeOK
<1>5. \A d \in Editor : edit'[d] = IF d = e THEN q ELSE edit[d]
  BY <1>2, <1>3 DEF PruneHistory, IInv, InventoryTypeOK
<1>6. UNCHANGED <<siteStands, item, value, history, updates, trail, raced>>
  BY DEF PruneHistory
<1>7. \A d \in Editor : /\ InUpdate(d)' => InUpdate(d)
                        /\ edit'[d].changedAt = edit[d].changedAt
                        /\ edit'[d].i = edit[d].i
                        /\ RowOf(d)' = RowOf(d)
  BY <1>1, <1>4, <1>5 DEF InUpdate, RowOf
<1>8. x \in SUBSET (history[i] \cup {RowOf(e)})
  BY <1>2 DEF Excess
<1>9. RowOf(e) \in Row /\ RowOf(e).changedAt = edit[e].changedAt
  BY EditFacts DEF IInv
<1>10. AreRows(history[i] \cup {RowOf(e)})
  <2>1. AreRows(history[i])
    BY <1>1, HistoryRows DEF HistoriesFit, IInv
  <2>2. IsFiniteSet(history[i] \cup {RowOf(e)})
    BY <2>1, FS_AddElement DEF AreRows
  <2>3. \A r \in history[i] : r.changedAt # RowOf(e).changedAt
    BY <1>1, <1>9 DEF HistoriesFit, TimesDiffer
  <2>4. QED
    BY <1>9, <2>1, <2>2, <2>3 DEF AreRows
<1>11. TrailsBegin'
  BY <1>1, <1>4, <1>5, <1>6 DEF HistoriesFit, TrailsBegin
<1>12. TimesDiffer'
  <2>1. \A j \in Item : \A r \in history'[j] :
           /\ r.changedAt <= updates'
           /\ \A s \in history'[j] : s.changedAt = r.changedAt => s = r
    BY <1>6 DEF HistoriesFit, TimesDiffer
  <2>2. \A d \in Editor : InUpdate(d)' =>
           /\ edit'[d].changedAt <= updates'
           /\ \A j \in Item : \A r \in history'[j] : r.changedAt # edit'[d].changedAt
           /\ \A c \in Editor \ {d} : InUpdate(c)' => edit'[c].changedAt # edit'[d].changedAt
    BY <1>6, <1>7 DEF HistoriesFit, TimesDiffer
  <2>3. ASSUME NEW d \in Editor, edit'[d].pc = "write", NEW r \in edit'[d].excess
        PROVE  /\ r.changedAt <= updates'
               /\ \A c \in Editor \ {d} : InUpdate(c)' => edit'[c].changedAt # r.changedAt
    <3>1. CASE d = e
      <4>1. r \in history[i] \cup {RowOf(e)}
        BY <1>4, <1>5, <1>8, <2>3, <3>1
      <4>2. CASE r \in history[i]
        BY <1>1, <1>6, <1>7, <4>2 DEF HistoriesFit, TimesDiffer
      <4>3. CASE r = RowOf(e)
        BY <1>1, <1>6, <1>7, <1>9, <3>1, <4>3 DEF HistoriesFit, TimesDiffer
      <4>4. QED
        BY <4>1, <4>2, <4>3
    <3>2. CASE d # e
      <4>1. edit'[d] = edit[d]
        BY <1>5, <3>2
      <4>2. QED
        BY <1>6, <1>7, <2>3, <4>1 DEF HistoriesFit, TimesDiffer
    <3>3. QED
      BY <3>1, <3>2
  <2>4. QED
    BY <2>1, <2>2, <2>3 DEF TimesDiffer
<1>13. UnmissedIsCurrent'
  <2> SUFFICES ASSUME NEW d \in Editor,
                      edit'[d].pc \in {"begin", "delete", "prune", "write"},
                      ~edit'[d].missed
               PROVE  /\ edit'[d].before = value'[edit'[d].i]
                      /\ InUpdate(d)' => \A r \in history'[edit'[d].i] :
                                            r.changedAt < edit'[d].changedAt
                      /\ edit'[d].pc = "write" =>
                            edit'[d].excess = Excess(history'[edit'[d].i] \cup {RowOf(d)'})
    BY DEF UnmissedIsCurrent
  <2>1. CASE d = e
    <3>1. ~edit[e].missed /\ edit'[e] = q
      BY <1>4, <1>5, <2>1
    <3>2. /\ edit[e].before = value[i]
          /\ \A r \in history[i] : r.changedAt < edit[e].changedAt
      BY <1>1, <3>1 DEF HistoriesFit, UnmissedIsCurrent
    <3>3. q.excess = Excess(history'[q.i] \cup {RowOf(e)'})
      BY <1>2, <1>4, <1>6, <1>7
    <3>4. QED
      BY <1>4, <1>6, <2>1, <3>1, <3>2, <3>3
  <2>2. CASE d # e
    <3>1. edit'[d] = edit[d] /\ RowOf(d)' = RowOf(d) /\ (InUpdate(d)' => InUpdate(d))
      BY <1>5, <1>7, <2>2
    <3>2. QED
      BY <1>6, <3>1 DEF HistoriesFit, UnmissedIsCurrent
  <2>3. QED
    BY <2>1, <2>2
<1>14. OutcomesNearLimit'
  <2> SUFFICES ASSUME NEW j \in Item
               PROVE  /\ IsFiniteSet(history'[j])
                      /\ \A T \in SUBSET Writers(j)' : Cardinality(Outcome(j, T)') <= Most
    BY DEF OutcomesNearLimit, Most
  <2>1. IsFiniteSet(history'[j])
    BY <1>6 DEF HistoriesFit, OutcomesNearLimit
  <2>2. ASSUME NEW T \in SUBSET Writers(j)'
        PROVE  Cardinality(Outcome(j, T)') <= Most
    <3>1. T \in SUBSET Editor
      BY DEF Writers
    <3>2. CASE e \notin T
      <4>1. \A d \in T : edit'[d] = edit[d]
        BY <1>5, <3>1, <3>2
      <4>2. T \in SUBSET Writers(j)
        BY <4>1 DEF Writers
      <4>3. Outcome(j, T)' = Outcome(j, T)
        BY <1>6, <4>1, OutcomeStays
      <4>4. QED
        BY <4>2, <4>3 DEF HistoriesFit, OutcomesNearLimit
    <3>3. CASE e \in T
      <4>1. j = i
        BY <1>7, <3>3 DEF Writers
      <4>2. PICK rows : rows = history[i] \cup {RowOf(e)}
        OBVIOUS
      <4>3. PICK others : others = {RowOf(d) : d \in T \ {e}}
        OBVIOUS
      <4>4. Outcome(j, T)' \in SUBSET ((rows \ Excess(rows)) \cup others)
        <5>1. ASSUME NEW r \in Outcome(j, T)'
              PROVE  r \in (rows \ Excess(rows)) \cup others
          <6>1. r \notin edit'[e].excess
            BY <3>3, <5>1 DEF Outcome
          <6>2. r \notin Excess(rows)
            BY <1>2, <1>4, <1>5, <4>2, <6>1
          <6>3. r \in history'[j] \/ \E d \in T : r = RowOf(d)'
            BY <5>1 DEF Outcome
          <6>4. CASE r \in history'[j]
            BY <1>6, <4>1, <4>2, <6>2, <6>4
          <6>5. CASE \E d \in T : r = RowOf(d)'
            <7>1. PICK d \in T : r = RowOf(d)'
              BY <6>5
            <7>2. r = RowOf(d)
              BY <1>7, <3>1, <7>1
            <7>3. QED
              BY <4>2, <4>3, <6>2, <7>2
          <6>6. QED
            BY <6>3, <6>4, <6>5
        <5>2. QED
          BY <5>1
      <4>5. /\ IsFiniteSet(rows) /\ Cardinality(rows \ Excess(rows)) <= MAX_HISTORY_ROWS
        BY <1>10, <4>2, KeptAreFew DEF AreRows
      <4>6. IsFiniteSet(rows \ Excess(rows)) /\ Cardinality(rows \ Excess(rows)) \in Nat
        BY <4>5, SizesOf
      <4>7. IsFiniteSet(others) /\ Cardinality(others) \in Nat
            /\ Cardinality(others) + 1 <= Cardinality(Editor)
        BY <3>1, <4>3, RowsOfFewer
      <4>8. /\ IsFiniteSet((rows \ Excess(rows)) \cup others)
            /\ Cardinality((rows \ Excess(rows)) \cup others) <= Most
        BY <4>5, <4>6, <4>7, UnionFits
      <4>9. /\ Cardinality(Outcome(j, T)') \in Nat
            /\ Cardinality((rows \ Excess(rows)) \cup others) \in Nat
            /\ Cardinality(Outcome(j, T)') <= Cardinality((rows \ Excess(rows)) \cup others)
        BY <4>4, <4>8, SizesOf
      <4>10. QED
        BY <4>8, <4>9, Bounds
    <3>4. QED
      BY <3>2, <3>3
  <2>3. QED
    BY <2>1, <2>2
<1>15. HistoryIsTrail'
  BY <1>6 DEF HistoriesFit, HistoryIsTrail, Stored
<1>16. QED
  BY <1>11, <1>12, <1>13, <1>14, <1>15 DEF HistoriesFit

LEMMA WriteUpdateFits ==
    ASSUME IInv, IInv', HistoriesFit, NEW e \in Editor, WriteUpdate(e)
    PROVE  HistoriesFit'
<1> DEFINE i == edit[e].i
<1>1. edit[e].pc = "write" /\ InUpdate(e) /\ i \in Item
  BY ItemOf DEF WriteUpdate, InUpdate
<1>2. PICK v \in Value : value' = [value EXCEPT ![i] = v]
  BY DEF WriteUpdate
<1>3. UNCHANGED <<siteStands, item, updates>>
  BY DEF WriteUpdate
<1>4. \A j \in Item :
        /\ value'[j] = IF j = i THEN v ELSE value[j]
        /\ history'[j] = IF j = i THEN (history[i] \cup {RowOf(e)}) \ edit[e].excess
                         ELSE history[j]
        /\ trail'[j] = IF j = i THEN Append(trail[i], value[i]) ELSE trail[j]
  BY <1>1, <1>2 DEF WriteUpdate, IInv, InventoryTypeOK
<1>5. raced' = IF edit[e].missed THEN raced \cup {i} ELSE raced
  BY DEF WriteUpdate
<1>6. edit'[e] = NoEdit /\ NoEdit.pc = "idle"
  BY DEF WriteUpdate, NoEdit
<1>7. ASSUME NEW d \in Editor, d # e
      PROVE  /\ edit'[d].pc = edit[d].pc /\ edit'[d].i = edit[d].i
             /\ edit'[d].before = edit[d].before /\ edit'[d].excess = edit[d].excess
             /\ edit'[d].changedAt = edit[d].changedAt
             /\ edit'[d].missed = (edit[d].missed \/ edit[d].i = i)
  <2>1. edit'[d] = [edit[d] EXCEPT !.missed = @ \/ edit[d].i = i]
    BY <1>7 DEF WriteUpdate
  <2>2. QED
    BY <2>1, EditFacts DEF IInv
<1>8. \A d \in Editor : InUpdate(d)' => d # e /\ InUpdate(d)
  BY <1>6, <1>7 DEF InUpdate
<1>9. \A d \in Editor : d # e => RowOf(d)' = RowOf(d)
  BY <1>7 DEF RowOf
<1>10. RowOf(e) \in Row /\ RowOf(e).changedAt = edit[e].changedAt
       /\ RowOf(e).previous = edit[e].before
  BY EditFacts DEF IInv
<1>11. \A j \in Item : history'[j] \in SUBSET (history[j] \cup {RowOf(e)})
  BY <1>4
<1> HIDE DEF i
<1>12. TrailsBegin'
  <2>1. item[i] # "none"
    BY <1>1 DEF HistoriesFit, TrailsBegin, i
  <2>2. \A j \in Item : item'[j] = "none" => trail'[j] = <<>>
    BY <1>3, <1>4, <2>1 DEF HistoriesFit, TrailsBegin
  <2>3. QED
    BY <1>3, <1>6, <1>7, <2>2 DEF HistoriesFit, TrailsBegin
<1>13. TimesDiffer'
  <2>1. ASSUME NEW j \in Item, NEW r \in history'[j]
        PROVE  /\ r.changedAt <= updates'
               /\ \A s \in history'[j] : s.changedAt = r.changedAt => s = r
               /\ \A c \in Editor : InUpdate(c)' => r.changedAt # edit'[c].changedAt
    <3>1. r \in history[j] \cup {RowOf(e)} /\ history'[j] \in SUBSET (history[j] \cup {RowOf(e)})
      BY <1>11, <2>1
    <3>2. \A s \in history[j] : s.changedAt # RowOf(e).changedAt
      BY <1>1, <1>10 DEF HistoriesFit, TimesDiffer
    <3>3. \A s \in history'[j] : s.changedAt = r.changedAt => s = r
      BY <3>1, <3>2 DEF HistoriesFit, TimesDiffer
    <3>4. r.changedAt <= updates'
      BY <1>1, <1>3, <1>10, <3>1 DEF HistoriesFit, TimesDiffer
    <3>5. ASSUME NEW c \in Editor, InUpdate(c)'
          PROVE  r.changedAt # edit'[c].changedAt
      <4>1. c # e /\ InUpdate(c) /\ edit'[c].changedAt = edit[c].changedAt
        BY <1>7, <1>8, <3>5
      <4>2. \A s \in history[j] : s.changedAt # edit[c].changedAt
        BY <4>1 DEF HistoriesFit, TimesDiffer
      <4>3. edit[c].changedAt # edit[e].changedAt
        BY <1>1, <4>1 DEF HistoriesFit, TimesDiffer
      <4>4. QED
        BY <1>10, <3>1, <4>1, <4>2, <4>3
    <3>6. QED
      BY <3>3, <3>4, <3>5
  <2>2. ASSUME NEW d \in Editor, InUpdate(d)'
        PROVE  /\ edit'[d].changedAt <= updates'
               /\ \A c \in Editor \ {d} : InUpdate(c)' => edit'[c].changedAt # edit'[d].changedAt
    BY <1>3, <1>7, <1>8, <2>2 DEF HistoriesFit, TimesDiffer
  <2>3. ASSUME NEW d \in Editor, edit'[d].pc = "write", NEW r \in edit'[d].excess
        PROVE  /\ r.changedAt <= updates'
               /\ \A c \in Editor \ {d} : InUpdate(c)' => edit'[c].changedAt # r.changedAt
    <3>1. d # e /\ edit[d].pc = "write" /\ r \in edit[d].excess
      BY <1>6, <1>7, <2>3
    <3>2. QED
      BY <1>3, <1>7, <1>8, <3>1 DEF HistoriesFit, TimesDiffer
  <2>4. QED
    BY <2>1, <2>2, <2>3 DEF TimesDiffer
<1>14. UnmissedIsCurrent'
  <2> SUFFICES ASSUME NEW d \in Editor,
                      edit'[d].pc \in {"begin", "delete", "prune", "write"},
                      ~edit'[d].missed
               PROVE  /\ edit'[d].before = value'[edit'[d].i]
                      /\ InUpdate(d)' => \A r \in history'[edit'[d].i] :
                                            r.changedAt < edit'[d].changedAt
                      /\ edit'[d].pc = "write" =>
                            edit'[d].excess = Excess(history'[edit'[d].i] \cup {RowOf(d)'})
    BY DEF UnmissedIsCurrent
  <2>1. d # e
    BY <1>6
  <2>2. ~edit[d].missed /\ edit[d].i # i
    BY <1>7, <2>1
  <2>3. edit[d].i \in Item
    BY <1>7, <2>1, ItemOf
  <2>4. value'[edit[d].i] = value[edit[d].i] /\ history'[edit[d].i] = history[edit[d].i]
    BY <1>4, <2>2, <2>3
  <2>5. InUpdate(d)' => InUpdate(d)
    BY <1>8
  <2>6. QED
    BY <1>7, <1>9, <2>1, <2>2, <2>4, <2>5 DEF HistoriesFit, UnmissedIsCurrent
<1>15. OutcomesNearLimit'
  <2> SUFFICES ASSUME NEW j \in Item
               PROVE  /\ IsFiniteSet(history'[j])
                      /\ \A T \in SUBSET Writers(j)' : Cardinality(Outcome(j, T)') <= Most
    BY DEF OutcomesNearLimit, Most
  <2>1. IsFiniteSet(history[j]) /\ \A T \in SUBSET Writers(j) : Cardinality(Outcome(j, T)) <= Most
    BY DEF HistoriesFit, OutcomesNearLimit
  <2>2. IsFiniteSet(history'[j])
    <3>1. IsFiniteSet(history[j] \cup {RowOf(e)})
      BY <2>1, FS_AddElement
    <3>2. QED
      BY <1>11, <3>1, FS_Subset
  <2>3. ASSUME NEW T \in SUBSET Writers(j)'
        PROVE  Cardinality(Outcome(j, T)') <= Most
    <3>1. ASSUME NEW d \in T
          PROVE  /\ d \in Editor /\ d # e /\ d \in Writers(j) /\ RowOf(d)' = RowOf(d)
                 /\ edit'[d].excess = edit[d].excess
      <4>1. d \in Editor /\ edit'[d].pc = "write" /\ edit'[d].i = j
        BY <3>1 DEF Writers
      <4>2. d # e
        BY <1>6, <4>1
      <4>3. QED
        BY <1>7, <1>9, <4>1, <4>2 DEF Writers
    <3>2. CASE j # i
      <4>1. history'[j] = history[j]
        BY <1>4, <3>2
      <4>2. Outcome(j, T)' = Outcome(j, T)
        BY <3>1, <4>1 DEF Outcome
      <4>3. QED
        BY <2>1, <3>1, <4>2
    <3>3. CASE j = i
      <4>1. PICK W : W = T \cup {e}
        OBVIOUS
      <4>2. W \in SUBSET Writers(j)
        BY <1>1, <3>1, <3>3, <4>1 DEF Writers, i
      <4>3. Outcome(j, T)' \in SUBSET Outcome(j, W)
        <5>1. ASSUME NEW r \in Outcome(j, T)'
              PROVE  r \in Outcome(j, W)
          <6>1. \A d \in T : r \notin edit[d].excess
            BY <3>1, <5>1 DEF Outcome
          <6>2. r \in history'[j] \/ \E d \in T : r = RowOf(d)
            BY <3>1, <5>1 DEF Outcome
          <6>3. CASE r \in history'[j]
            <7>1. r \in history[j] \cup {RowOf(e)} /\ r \notin edit[e].excess
              BY <1>4, <3>3, <6>3
            <7>2. QED
              BY <4>1, <6>1, <7>1 DEF Outcome
          <6>4. CASE \E d \in T : r = RowOf(d)
            <7>1. PICK d \in T : r = RowOf(d)
              BY <6>4
            <7>2. d \in Editor \ {e} /\ InUpdate(d)
              BY <3>1, <7>1 DEF Writers, InUpdate
            <7>3. r.changedAt = edit[d].changedAt
              BY <7>1, <7>2, EditFacts DEF IInv
            <7>4. r \notin edit[e].excess
              BY <1>1, <7>2, <7>3 DEF HistoriesFit, TimesDiffer
            <7>5. QED
              BY <4>1, <6>1, <7>1, <7>4 DEF Outcome
          <6>5. QED
            BY <6>2, <6>3, <6>4
        <5>2. QED
          BY <5>1
      <4>4. IsFiniteSet(Outcome(j, W))
        BY <2>1, <4>2, OutcomeIsFinite
      <4>5. /\ Cardinality(Outcome(j, T)') \in Nat /\ Cardinality(Outcome(j, W)) \in Nat
            /\ Cardinality(Outcome(j, T)') <= Cardinality(Outcome(j, W))
        BY <4>3, <4>4, SizesOf
      <4>6. Cardinality(Outcome(j, W)) <= Most
        BY <2>1, <4>2
      <4>7. QED
        BY <4>5, <4>6, Bounds
    <3>4. QED
      BY <3>2, <3>3
  <2>4. QED
    BY <2>2, <2>3
<1>16. HistoryIsTrail'
  <2>1. ASSUME NEW j \in Item, item'[j] = "stored", j \notin raced'
        PROVE  EndsTrail(history'[j], trail'[j])
    <3>1. EndsTrail(history[j], trail[j])
      <4>1. item[j] = "stored" /\ j \notin raced
        BY <1>3, <1>5, <2>1
      <4>2. QED
        BY <4>1, TrailIsEnd DEF HistoriesFit, Stored
    <3>2. CASE j # i
      BY <1>4, <3>1, <3>2
    <3>3. CASE j = i
      <4>1. ~edit[e].missed
        BY <1>5, <2>1, <3>3
      <4>2. /\ edit[e].before = value[j]
            /\ \A r \in history[j] : r.changedAt < edit[e].changedAt
            /\ edit[e].excess = Excess(history[j] \cup {RowOf(e)})
        BY <1>1, <3>3, <4>1 DEF HistoriesFit, UnmissedIsCurrent, i
      <4>3. AreRows(history[j]) /\ trail[j] \in Seq(Value)
        BY HistoryRows DEF HistoriesFit, IInv, InventoryTypeOK
      <4>4. \A r \in history[j] : r.changedAt < RowOf(e).changedAt
        BY <1>10, <4>2
      <4>5. EndsTrail((history[j] \cup {RowOf(e)}) \ Excess(history[j] \cup {RowOf(e)}),
                      Append(trail[j], RowOf(e).previous))
        BY <1>10, <3>1, <4>3, <4>4, TrailGoesOn
      <4>6. /\ history'[j] = (history[j] \cup {RowOf(e)}) \ Excess(history[j] \cup {RowOf(e)})
            /\ trail'[j] = Append(trail[j], RowOf(e).previous)
        BY <1>4, <1>10, <3>3, <4>2
      <4>7. QED
        BY <4>5, <4>6
    <3>4. QED
      BY <3>2, <3>3
  <2>2. QED
    BY <2>1 DEF HistoryIsTrail, EndsTrail, Stored
<1>17. QED
  BY <1>12, <1>13, <1>14, <1>15, <1>16 DEF HistoriesFit

-----------------------------------------------------------------------------

LEMMA InitHistoriesFit == InventoryInit => HistoriesFit
<1> SUFFICES ASSUME InventoryInit
             PROVE  HistoriesFit
  OBVIOUS
<1>1. \A e \in Editor : edit[e].pc = "idle"
  BY DEF InventoryInit, NoEdit
<1>2. \A i \in Item : /\ item[i] = "none" /\ history[i] = {} /\ trail[i] = <<>>
                      /\ Writers(i) = {}
  BY <1>1 DEF InventoryInit, Writers
<1>3. ASSUME NEW i \in Item, NEW T \in SUBSET Writers(i)
      PROVE  Cardinality(Outcome(i, T)) <= Most
  <2>1. Outcome(i, T) = {}
    BY <1>2 DEF Outcome
  <2>2. QED
    BY <2>1, Bounds, FS_EmptySet
<1>4. OutcomesNearLimit
  BY <1>2, <1>3, FS_EmptySet DEF OutcomesNearLimit
<1>5. TrailsBegin /\ TimesDiffer /\ UnmissedIsCurrent
  BY <1>1, <1>2 DEF TrailsBegin, TimesDiffer, UnmissedIsCurrent, InUpdate
<1>6. HistoryIsTrail
  BY <1>2 DEF HistoryIsTrail, Stored
<1>7. QED
  BY <1>4, <1>5, <1>6 DEF HistoriesFit

LEMMA NextHistoriesFit ==
    IInv /\ IInv' /\ HistoriesFit /\ [InventoryNext]_inventoryVars => HistoriesFit'
<1> SUFFICES ASSUME IInv, IInv', HistoriesFit, [InventoryNext]_inventoryVars
             PROVE  HistoriesFit'
  OBVIOUS
<1>1. CASE UNCHANGED inventoryVars
  <2>1. SomeEndOrBegin
    BY <1>1 DEF inventoryVars, SomeEndOrBegin
  <2>2. QED
    BY <2>1, SomeEndOrBeginKeeps
<1>2. ASSUME NEW e \in Editor, FindSiteForItem(e)
      PROVE  HistoriesFit'
  BY <1>2, FindSiteForItemFits
<1>3. ASSUME NEW e \in Editor, InsertItem(e)
      PROVE  HistoriesFit'
  BY <1>3, InsertItemFits
<1>4. ASSUME NEW e \in Editor, NEW i \in Item, FindItem(e, i)
      PROVE  HistoriesFit'
  BY <1>4, FindItemFits
<1>5. ASSUME NEW e \in Editor, BeginUpdate(e)
      PROVE  HistoriesFit'
  BY <1>5, BeginUpdateFits
<1>6. ASSUME NEW e \in Editor, PruneHistory(e)
      PROVE  HistoriesFit'
  BY <1>6, PruneHistoryFits
<1>7. ASSUME NEW e \in Editor, WriteUpdate(e)
      PROVE  HistoriesFit'
  BY <1>7, WriteUpdateFits
<1>8. ASSUME NEW e \in Editor, DeleteItem(e)
      PROVE  HistoriesFit'
  BY <1>8, DeleteItemFits
<1>9. ASSUME NEW e \in Editor, EditFails(e)
      PROVE  HistoriesFit'
  BY <1>9, EditFailsFits
<1>10. CASE RemoveSiteWithItems
  BY <1>10, RemoveSiteFits
<1>11. QED
  BY <1>1, <1>2, <1>3, <1>4, <1>5, <1>6, <1>7, <1>8, <1>9, <1>10 DEF InventoryNext

LEMMA HistoriesAlwaysFit == InventorySpec => []HistoriesFit
<1>1. InventoryInit => IInv /\ HistoriesFit
  BY InitIInv, InitHistoriesFit
<1>2. (IInv /\ HistoriesFit) /\ [InventoryNext]_inventoryVars => (IInv /\ HistoriesFit)'
  BY NextIInv, NextHistoriesFit
<1>3. QED
  BY <1>1, <1>2, PTL DEF InventorySpec

\* However many updates of an item prune at the same time, none seeing the row
\* another adds (history.create, findMany, deleteMany in one transaction), no
\* sequence of them leaves more than MAX_HISTORY_ROWS rows and one for each
\* further request that may overlap.
THEOREM HistoriesKeepTheLimit == InventorySpec => []HistoryNearLimit
<1>1. HistoriesFit => HistoryNearLimit
  <2> SUFFICES ASSUME HistoriesFit, NEW i \in Item
               PROVE  Cardinality(history[i]) <= Most
    BY DEF HistoryNearLimit, Most
  <2>1. Outcome(i, {}) = history[i]
    BY DEF Outcome
  <2>2. {} \in SUBSET Writers(i)
    OBVIOUS
  <2>3. QED
    BY <2>1, <2>2 DEF HistoriesFit, OutcomesNearLimit
<1>2. QED
  BY <1>1, HistoriesAlwaysFit, PTL

\* As long as no update overwrites a value it has not read, an item's history is
\* the end of the sequence of its overwritten values, in order and complete, the
\* last MAX_HISTORY_ROWS of them: whatever fails, is rolled back or is removed
\* meanwhile.
THEOREM HistoriesAreTrails == InventorySpec => []HistoryIsTrail
<1>1. HistoriesFit => HistoryIsTrail
  BY DEF HistoriesFit
<1>2. QED
  BY <1>1, HistoriesAlwaysFit, PTL

-----------------------------------------------------------------------------

\* Every variable keeps its type; in particular no transaction, however its
\* statements interleave with removals of its item or its site, leaves history
\* rows behind of an item that is gone.
THEOREM TypeCorrect == InventorySpec => []InventoryTypeOK
<1>1. IInv => InventoryTypeOK
  BY DEF IInv
<1>2. QED
  BY InitIInv, NextIInv, <1>1, PTL DEF InventorySpec


=============================================================================
