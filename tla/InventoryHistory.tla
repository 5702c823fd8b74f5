-------------------------- MODULE InventoryHistory --------------------------
(***************************************************************************)
(* Inventory items of a site and the history of their values.  Several     *)
(* requests of the dashboard create, update and remove items at once, and  *)
(* the site may be removed with all its items.                             *)
(*                                                                         *)
(* An update reads the item, and only then opens a transaction.  Postgres  *)
(* runs it at READ COMMITTED, the default: a statement sees what has been  *)
(* committed before it and what its own transaction did, so the row it     *)
(* adds and the rows it deletes are seen by others at its end only.  The   *)
(* added row's foreign key keeps the item from being deleted meanwhile.    *)
(***************************************************************************)
EXTENDS Naturals, FiniteSets, Sequences

CONSTANTS
    Item,               \* ids of items, given once
    Value,              \* what an update may overwrite: quantity, status, notes
    Editor,             \* requests of the dashboard that may run at once
    NoItem,             \* no item
    MAX_HISTORY_ROWS,   \* 10 in the code
    MaxUpdates          \* bound: transactions of updates ever begun

ASSUME InventoryAssumption ==
    /\ NoItem \notin Item
    /\ Value # {}
    /\ IsFiniteSet(Editor)
    /\ MAX_HISTORY_ROWS \in Nat \ {0}
    /\ MaxUpdates \in Nat

VARIABLES
    siteStands, \* the site's row exists
    item,       \* whether each item's row is not there yet, stored or removed
    value,      \* inventory_items: the value of each stored item
    history,    \* inventory_history: each item's rows, changedAt and the value before
    edit,       \* each request between two queries
    updates,    \* transactions begun, the clock changedAt is read from
    trail,      \* auxiliary: the values of each item that were overwritten, in order
    raced       \* auxiliary: items overwritten by an update that had read an older value

inventoryVars == <<siteStands, item, value, history, edit, updates, trail, raced>>

Row == [changedAt : Nat, previous : Value]
EditPc == {"idle", "insert", "begin", "prune", "write", "delete"}

\* before and changedAt are what the request's history row says, excess the
\* rows it deletes; missed (auxiliary): another update was committed since the
\* item was read.
NoEdit == [pc |-> "idle", i |-> NoItem, before |-> CHOOSE v \in Value : TRUE,
           changedAt |-> 0, excess |-> {}, missed |-> FALSE]

InventoryTypeOK ==
    /\ siteStands \in BOOLEAN
    /\ item \in [Item -> {"none", "stored", "removed"}]
    /\ value \in [Item -> Value]
    /\ history \in [Item -> SUBSET Row]
    /\ \A i \in Item : item[i] # "stored" => history[i] = {}
    /\ edit \in [Editor -> [pc : EditPc, i : Item \cup {NoItem}, before : Value,
                           changedAt : Nat, excess : SUBSET Row, missed : BOOLEAN]]
    /\ updates \in 0 .. MaxUpdates
    /\ trail \in [Item -> Seq(Value)]
    /\ raced \subseteq Item

InventoryInit ==
    /\ siteStands = TRUE
    /\ item = [i \in Item |-> "none"]
    /\ value = [i \in Item |-> NoEdit.before]
    /\ history = [i \in Item |-> {}]
    /\ edit = [e \in Editor |-> NoEdit]
    /\ updates = 0
    /\ trail = [i \in Item |-> <<>>]
    /\ raced = {}

-----------------------------------------------------------------------------

Stored(i) == i \in Item /\ item[i] = "stored"
Ended(e) == edit' = [edit EXCEPT ![e] = NoEdit]

\* Mutant: the transaction does not keep the item's row.
KeptByUpdate_Never(i) == FALSE

\* A transaction that added a history row holds the item's row until it ends:
\* whoever wants to delete the item waits.
KeptByUpdate(i) ==
    \E e \in Editor : edit[e].i = i /\ edit[e].pc \in {"prune", "write"}

-----------------------------------------------------------------------------
(* create *)

\* The site is found, or the request ends with 404.
FindSiteForItem(e) ==
    /\ edit[e].pc = "idle"
    /\ siteStands
    /\ edit' = [edit EXCEPT ![e].pc = "insert"]
    /\ UNCHANGED <<siteStands, item, value, history, updates, trail, raced>>

\* Without the site the foreign key refuses the item.
InsertItem(e) ==
    /\ edit[e].pc = "insert"
    /\ \/ /\ siteStands
          /\ \E i \in Item, v \in Value :
                /\ item[i] = "none"
                /\ item' = [item EXCEPT ![i] = "stored"]
                /\ value' = [value EXCEPT ![i] = v]
       \/ /\ ~siteStands
          /\ UNCHANGED <<item, value>>
    /\ Ended(e)
    /\ UNCHANGED <<siteStands, history, updates, trail, raced>>

-----------------------------------------------------------------------------
(* update and remove: both begin with findOne *)

\* The item is found as it is now, or the request ends with 404.
FindItem(e, i) ==
    /\ edit[e].pc = "idle"
    /\ Stored(i)
    /\ \E pc \in {"begin", "delete"} :
          edit' = [edit EXCEPT ![e] = [NoEdit EXCEPT !.pc = pc, !.i = i,
                                                     !.before = value[i]]]
    /\ UNCHANGED <<siteStands, item, value, history, updates, trail, raced>>

\* The transaction's first statement, inventoryHistory.create: refused by its
\* foreign key when the item has gone since.
BeginUpdate(e) ==
    /\ edit[e].pc = "begin"
    /\ \/ /\ Stored(edit[e].i)
          /\ updates < MaxUpdates
          /\ updates' = updates + 1
          /\ edit' = [edit EXCEPT ![e].pc = "prune", ![e].changedAt = updates + 1]
       \/ /\ ~Stored(edit[e].i)
          /\ Ended(e)
          /\ UNCHANGED updates
    /\ UNCHANGED <<siteStands, item, value, history, trail, raced>>

RowOf(e) == [changedAt |-> edit[e].changedAt, previous |-> edit[e].before]

Newer(rows, r) == {s \in rows : s.changedAt > r.changedAt}

\* Mutants: one row too many is kept, or the oldest ones are.
Excess_OneMore(rows) == {r \in rows : Cardinality(Newer(rows, r)) > MAX_HISTORY_ROWS}
Excess_Newest(rows) ==
    {r \in rows : Cardinality(rows \ Newer(rows, r)) > MAX_HISTORY_ROWS}

\* ORDER BY changedAt DESC, without the first MAX_HISTORY_ROWS.
Excess(rows) == {r \in rows : Cardinality(Newer(rows, r)) >= MAX_HISTORY_ROWS}

\* findMany sees the committed rows and its own, and deleteMany deletes the
\* rows it found.
PruneHistory(e) ==
    /\ edit[e].pc = "prune"
    /\ edit' = [edit EXCEPT ![e].pc = "write",
                    ![e].excess = Excess(history[edit[e].i] \cup {RowOf(e)})]
    /\ UNCHANGED <<siteStands, item, value, history, updates, trail, raced>>

\* inventoryItem.update, and the transaction is committed.  The request need
\* not name all fields; one it leaves out stays as it is.
WriteUpdate(e) ==
    LET i == edit[e].i IN
    /\ edit[e].pc = "write"
    /\ \E v \in Value : value' = [value EXCEPT ![i] = v]
    /\ history' = [history EXCEPT ![i] = (@ \cup {RowOf(e)}) \ edit[e].excess]
    /\ trail' = [trail EXCEPT ![i] = Append(@, value[i])]
    /\ raced' = IF edit[e].missed THEN raced \cup {i} ELSE raced
    /\ edit' = [d \in Editor |->
                   IF d = e THEN NoEdit
                   ELSE [edit[d] EXCEPT !.missed = @ \/ edit[d].i = i]]
    /\ UNCHANGED <<siteStands, item, updates>>

\* The history goes with the item; an item already gone makes delete throw.
DeleteItem(e) ==
    LET i == edit[e].i IN
    /\ edit[e].pc = "delete"
    /\ \/ /\ Stored(i)
          /\ ~KeptByUpdate(i)
          /\ item' = [item EXCEPT ![i] = "removed"]
          /\ history' = [history EXCEPT ![i] = {}]
       \/ ~Stored(i) /\ UNCHANGED <<item, history>>
    /\ Ended(e)
    /\ UNCHANGED <<siteStands, value, updates, trail, raced>>

\* A query throws or the process restarts: an open transaction is rolled back.
EditFails(e) ==
    /\ edit[e].pc # "idle"
    /\ Ended(e)
    /\ UNCHANGED <<siteStands, item, value, history, updates, trail, raced>>

\* The site is deleted, alone or with its client, and its items with it.
RemoveSiteWithItems ==
    /\ siteStands
    /\ \A i \in Item : ~KeptByUpdate(i)
    /\ siteStands' = FALSE
    /\ item' = [i \in Item |-> IF item[i] = "stored" THEN "removed" ELSE item[i]]
    /\ history' = [i \in Item |-> {}]
    /\ UNCHANGED <<value, edit, updates, trail, raced>>

InventoryNext ==
    \/ \E e \in Editor :
          \/ FindSiteForItem(e) \/ InsertItem(e)
          \/ \E i \in Item : FindItem(e, i)
          \/ BeginUpdate(e) \/ PruneHistory(e) \/ WriteUpdate(e)
          \/ DeleteItem(e) \/ EditFails(e)
    \/ RemoveSiteWithItems

InventorySpec == InventoryInit /\ [][InventoryNext]_inventoryVars

-----------------------------------------------------------------------------
(* Safety *)

\* MAX_HISTORY_ROWS is exact for updates that run one after the other, and each
\* further request that may overlap adds at most one row: transactions that
\* prune at the same time do not see each other's row.  No sequence of them
\* lets the history grow beyond that.
HistoryNearLimit ==
    \A i \in Item :
        Cardinality(history[i]) <= MAX_HISTORY_ROWS + Cardinality(Editor) - 1

\* Unless an update was committed over a value it had not read, an item's
\* history is the end of its trail: the values that were overwritten, in order,
\* none left out and none twice, the last MAX_HISTORY_ROWS of them.  Updates
\* that fail, at whatever statement, leave nothing in it.
HistoryIsTrail ==
    \A i \in Item : Stored(i) /\ i \notin raced =>
        LET kept == Cardinality(history[i])
            all  == Len(trail[i])
        IN
        /\ kept = IF all < MAX_HISTORY_ROWS THEN all ELSE MAX_HISTORY_ROWS
        /\ \A r \in history[i] :
              r.previous = trail[i][all - Cardinality(Newer(history[i], r))]

=============================================================================
