----------------------------- MODULE MCSettings -----------------------------
(* Two tabs over one file of a plain setting and a list of two items. *)
EXTENDS Settings

Item(k, v) == [k |-> k, v |-> v]
MCFirst == [plain |-> 1, list |-> <<Item("a", 1)>>]
MCBackup == [plain |-> 1, list |-> <<>>]
MCNewItem == {Item("c", 2)}
MCBounds == [edit |-> 2, save |-> 2, other |-> 2]
Tabs == Permutations(Page)

\* A tab keeps edits "as they change ...; none once saved or reverted"
\* (ui/src/form/stash.ts:65-67), and puts them back "so a change made elsewhere
\* meanwhile is kept" (:6-8): so a page that starts puts none back unsaid that
\* had been saved, over a change that took it out again.
NoneOnceSaved == \A p \in Page : \A part \in again[p] : FieldOf(part) \in told[p]
=============================================================================
