---------------------------- MODULE IntentMerge ----------------------------
(***************************************************************************)
(* The three-way merge of settings (src/intent/merge.ts): what a page's    *)
(* edits over one file come to over a newer one.  Settings are plain ones  *)
(* and one list, whose items are told apart by an identity each has, alone *)
(* in the list (`k`), and hold one value (`v`).                            *)
(***************************************************************************)
EXTENDS Naturals, SequencesExt

NoItem == [k |-> "", v |-> 0]
KeysOf(list) == {list[i].k : i \in DOMAIN list}
ItemOf(list, k) == IF k \in KeysOf(list) THEN CHOOSE item \in ToSet(list) : item.k = k ELSE NoItem

\* Of two atomic values both changed, the edit's, and a conflict.
MergeAtoms(base, mine, theirs) ==
    IF mine = base THEN [value |-> theirs, conflict |-> FALSE]
    ELSE [value |-> mine, conflict |-> ~(theirs = base \/ mine = theirs)]

Order(list, among) == SelectSeq([i \in DOMAIN list |-> list[i].k], LAMBDA k : k \in among)
Clash(base, mine, theirs) ==
    \E k \in KeysOf(base) :
        \/ k \notin KeysOf(mine) /\ k \in KeysOf(theirs) /\ ItemOf(theirs, k) # ItemOf(base, k)
        \/ k \notin KeysOf(theirs) /\ k \in KeysOf(mine) /\ ItemOf(mine, k) # ItemOf(base, k)
Moved(base, mine) == LET both == KeysOf(base) \cap KeysOf(mine) IN Order(base, both) # Order(mine, both)

\* Their order, one removed on either side left out; then the items only mine added.
MergeLists(base, mine, theirs) ==
    LET item(k) == MergeAtoms(ItemOf(base, k), ItemOf(mine, k), ItemOf(theirs, k))
        kept == SelectSeq(theirs, LAMBDA t : t.k \in KeysOf(mine) \/ t.k \notin KeysOf(base))
        merged == [i \in DOMAIN kept |-> IF kept[i].k \in KeysOf(mine) THEN item(kept[i].k).value ELSE kept[i]]
        added == SelectSeq(mine, LAMBDA m : m.k \notin KeysOf(theirs) /\ m.k \notin KeysOf(base))
    IN  IF mine = base THEN [value |-> theirs, conflict |-> FALSE]
        ELSE IF theirs = base \/ mine = theirs THEN [value |-> mine, conflict |-> FALSE]
        ELSE IF Clash(base, mine, theirs) \/ Moved(base, mine) THEN [value |-> mine, conflict |-> TRUE]
        ELSE [value |-> merged \o added,
              conflict |-> \E k \in KeysOf(kept) \cap KeysOf(mine) : item(k).conflict]

\* The fields in conflict are what the page tells.
Merge3(base, mine, theirs) ==
    LET plain == MergeAtoms(base.plain, mine.plain, theirs.plain)
        list == MergeLists(base.list, mine.list, theirs.list)
    IN  [value |-> [plain |-> plain.value, list |-> list.value],
         conflicts |-> {f \in {"plain", "list"} : IF f = "plain" THEN plain.conflict ELSE list.conflict}]

-----------------------------------------------------------------------------
(* What properties compare: settings by their parts. *)

Parts(intent) == {"plain"} \cup KeysOf(intent.list)
PartOf(intent, part) == IF part = "plain" THEN intent.plain ELSE ItemOf(intent.list, part).v
FieldOf(part) == IF part = "plain" THEN "plain" ELSE "list"
Differ(a, b) == {part \in Parts(a) \cup Parts(b) : PartOf(a, part) # PartOf(b, part)}
=============================================================================
