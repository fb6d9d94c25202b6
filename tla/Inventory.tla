----------------------------- MODULE Inventory ------------------------------
(***************************************************************************)
(* The admin's inventory page (admin/src/pages/Inventory.jsx): each row    *)
(* has a draft, saved alone or with all the others that differ.  Checkout  *)
(* takes units meanwhile (reserveInventoryForItems); a save writes the     *)
(* number typed, whatever the stock has become.                            *)
(***************************************************************************)
EXTENDS Integers, FiniteSets

CONSTANTS Products,
          MaxStock,   \* bound on the units of one product
          MaxSaves,   \* bound on the saves of one row
          MaxLost     \* bound on requests that fail or whose answer is lost

VARIABLES
  stock,       \* the server's units of each product
  reads,       \* answers of listInventoryProducts on their way
  shown,       \* products: the units last read
  draft,       \* drafts: the units typed
  saves,       \* requests to save a row
  count,       \* saves of each row so far
  savingAll,   \* the rows of a "Save all" not answered yet
  crossed,     \* history: rows typed into, saved again or read while a save was under way
  unsaved,     \* history: what was in the row when its last save failed, or Nothing
  lost

vars == <<stock, reads, shown, draft, saves, count, savingAll, crossed, unsaved, lost>>
historyVars == <<crossed, unsaved>>

Units == 0..MaxStock
Nothing == -1

Init ==
  /\ stock \in [Products -> {1}]
  /\ reads = {}
  /\ shown = stock /\ draft = stock
  /\ saves = {} /\ savingAll = {}
  /\ count = [p \in Products |-> 0]
  /\ crossed = {}
  /\ unsaved = [p \in Products |-> Nothing]
  /\ lost = 0

Dirty == {p \in Products : draft[p] # shown[p]}
UnderWay(p) == \E r \in saves : r.p = p

\* A row gets another draft by the admin's own doing.
Redrafted(ids) ==
  /\ crossed' = crossed \cup {p \in ids : UnderWay(p)}
  /\ unsaved' = [p \in Products |-> IF p \in ids THEN Nothing ELSE unsaved[p]]

-----------------------------------------------------------------------------
\* Checkout takes a unit, if there is one, or gives one back.
Reserve(p) ==
  /\ stock[p] > 0
  /\ stock' = [stock EXCEPT ![p] = @ - 1]
  /\ UNCHANGED <<reads, shown, draft, saves, count, savingAll, historyVars, lost>>

Release(p) ==
  /\ stock[p] < MaxStock
  /\ stock' = [stock EXCEPT ![p] = @ + 1]
  /\ UNCHANGED <<reads, shown, draft, saves, count, savingAll, historyVars, lost>>

\* fetchInventory, by Refresh.
FetchInventory ==
  /\ reads = {}
  /\ reads' = {stock}
  /\ UNCHANGED <<stock, shown, draft, saves, count, savingAll, historyVars, lost>>

\* Its answer replaces every row and every draft.
InventoryAnswer(list) ==
  /\ list \in reads
  /\ reads' = {}
  /\ shown' = list /\ draft' = list
  /\ Redrafted(Products)
  /\ UNCHANGED <<stock, saves, count, savingAll, lost>>

InventoryFails(list) ==
  /\ list \in reads /\ lost < MaxLost
  /\ reads' = {}
  /\ lost' = lost + 1
  /\ UNCHANGED <<stock, shown, draft, saves, count, savingAll, historyVars>>

-----------------------------------------------------------------------------
(* Drafts.                                                                 *)

SetDrafts(ids, value(_)) ==
  /\ draft' = [p \in Products |-> IF p \in ids THEN value(p) ELSE draft[p]]
  /\ Redrafted(ids)
  /\ UNCHANGED <<stock, reads, shown, saves, count, savingAll, lost>>

\* updateDraft: the inputs of a row are never disabled.
UpdateDraft(p, u) == SetDrafts({p}, LAMBDA q : u)

\* onRestockConfirm: the units are added to the drafts of the rows selected.
StageRestock(ids, u) ==
  /\ \A p \in ids : draft[p] + u <= MaxStock
  /\ SetDrafts(ids, LAMBDA p : IF draft[p] + u < 0 THEN 0 ELSE draft[p] + u)

\* discardRow, discardAll.
Discard(ids) == SetDrafts(ids, LAMBDA p : shown[p])

-----------------------------------------------------------------------------
(* Saving.                                                                 *)

Request(p) == [p |-> p, n |-> count[p] + 1, units |-> draft[p], at |-> "sent"]

\* persistOne, for each row at once: the draft as it is now is sent.
Persist(ids) ==
  /\ \A p \in ids : count[p] < MaxSaves
  /\ saves' = saves \cup {Request(p) : p \in ids}
  /\ count' = [p \in Products |-> IF p \in ids THEN count[p] + 1 ELSE count[p]]
  /\ crossed' = crossed \cup {p \in ids : UnderWay(p)} \cup (IF reads # {} THEN ids ELSE {})
  /\ UNCHANGED <<stock, reads, shown, draft, unsaved, lost>>

\* saveOne, by the button of a row that differs, or by Enter in any row.
SaveOne(p) == Persist({p}) /\ UNCHANGED savingAll

\* saveAll: the rows that differ.
SaveAll ==
  /\ savingAll = {} /\ Dirty # {}
  /\ Persist(Dirty)
  /\ savingAll' = {Request(p) : p \in Dirty}

\* updateProductInventory: the units sent become the stock.
TakeSave(r) ==
  /\ r \in saves /\ r.at = "sent"
  /\ stock' = [stock EXCEPT ![r.p] = r.units]
  /\ saves' = (saves \ {r}) \cup {[r EXCEPT !.at = "saved"]}
  /\ UNCHANGED <<reads, shown, draft, count, savingAll, historyVars, lost>>

\* What the answer to a save does to "Saving…" (saveAll waits for each of its rows).
Settles(r) ==
  /\ saves' = saves \ {r}
  /\ savingAll' = {q \in savingAll : <<q.p, q.n>> # <<r.p, r.n>>}

\* The row and its draft become what the server stored; Recent adjustments gets a line.
Saved(r) ==
  /\ r \in saves /\ r.at = "saved"
  /\ Settles(r)
  /\ shown' = [shown EXCEPT ![r.p] = r.units]
  /\ draft' = [draft EXCEPT ![r.p] = r.units]
  /\ unsaved' = [unsaved EXCEPT ![r.p] = Nothing]
  /\ UNCHANGED <<stock, reads, count, crossed, lost>>

\* The save fails, or its answer is lost: a message, and the draft stays.
NotSaved(r) ==
  /\ r \in saves /\ lost < MaxLost
  /\ Settles(r)
  /\ unsaved' = [unsaved EXCEPT ![r.p] = r.units]
  /\ lost' = lost + 1
  /\ UNCHANGED <<stock, reads, shown, draft, count, crossed>>

Next ==
  \/ \E p \in Products : Reserve(p) \/ Release(p) \/ SaveOne(p) \/ \E u \in Units : UpdateDraft(p, u)
  \/ FetchInventory \/ SaveAll
  \/ \E list \in reads : InventoryAnswer(list) \/ InventoryFails(list)
  \/ \E ids \in (SUBSET Products) \ {{}} : Discard(ids) \/ \E u \in {-1, 1} : StageRestock(ids, u)
  \/ \E r \in saves : TakeSave(r) \/ Saved(r) \/ NotSaved(r)

Spec == Init /\ [][Next]_vars

-----------------------------------------------------------------------------
\* Rows are saved together and fail one by one: what was typed into a row whose save failed
\* is still there, to be saved again, until the admin changes it, discards it or reads the
\* list again (persistOne, saveAll).  Not so for a row typed into or saved again while a
\* save of it was under way: the answer of that save replaces the draft.
FailedIsKept ==
  \A p \in Products \ crossed : unsaved[p] # Nothing => draft[p] = unsaved[p]
=============================================================================
