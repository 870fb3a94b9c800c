----------------------------- MODULE UciConfig -----------------------------
(***************************************************************************)
(* One of a device's configs as the engine (src/engine/uci.ts,             *)
(* getUciCommands.ts) and the review (src/applyDiff.ts, applyChanges.ts)   *)
(* work on it: what wipes it and declares it again, how what is staged is  *)
(* checked, what an apply leaves, the lines that differ and why each does; *)
(* and what uci itself does with the operations.                           *)
(*                                                                         *)
(* A config is a sequence of sections.  A section's `id` is the name uci   *)
(* knows it by: its own, or for an anonymous one a name made of its place  *)
(* and what it holds.  A value is the items it reads back as, and whether  *)
(* it is a list: `uci show` prints a list of one item like a plain value.  *)
(***************************************************************************)
EXTENDS Naturals, FiniteSets, SequencesExt, TLC

CONSTANTS
    Anon,       \* the name of a section that has none
    Keep,       \* the types configs_to_not_reset keeps
    SecretOption

Named(c) == SelectSeq(c, LAMBDA s : s.name # Anon)
NoName(c) == SelectSeq(c, LAMBDA s : s.name = Anon)
OfName(name) == <<name>>
Load(sections) ==
    [i \in DOMAIN sections |-> LET s == sections[i] IN
        [type |-> s.type, name |-> s.name, opts |-> s.opts,
         id |-> IF s.name # Anon THEN OfName(s.name) ELSE <<i, s.type, s.opts>>]]

Plain(item) == [list |-> FALSE, items |-> <<item>>]
ListOf(items) == [list |-> TRUE, items |-> items]
Empty == [list |-> FALSE, items |-> <<>>]

-----------------------------------------------------------------------------
(* uci.  A staged change that fits the config no more is passed over. *)

SetOption(opts, o, v) == IF v = Empty THEN [p \in DOMAIN opts \ {o} |-> opts[p]] ELSE (o :> v) @@ opts
Added(opts, o, item) == (o :> ListOf((IF o \in DOMAIN opts THEN opts[o].items ELSE <<>>) \o <<item>>)) @@ opts
Put(c, change) ==
    IF change.op = "delete" THEN SelectSeq(c, LAMBDA s : s.id # change.id)
    ELSE IF change.op = "section" /\ \A i \in DOMAIN c : c[i].id # change.id
    THEN Append(c, [type |-> change.type, name |-> change.id[1], opts |-> <<>>, id |-> change.id])
    ELSE [i \in DOMAIN c |->
            IF c[i].id # change.id THEN c[i]
            ELSE CASE change.op = "section" -> [c[i] EXCEPT !.type = change.type]
                   [] change.op = "set" -> [c[i] EXCEPT !.opts = SetOption(@, change.option, change.value)]
                   [] change.op = "add_list" -> [c[i] EXCEPT !.opts = Added(@, change.option, change.value)]]

Staged(c, delta) == FoldLeft(Put, c, delta)

\* One operation of a batch; `delete @type[0]` names the first section of the type.
Batched(b, o) ==
    LET firsts == SelectSeq(b.config, LAMBDA s : o.op = "delete first" /\ s.type = o.type)
        change == IF o.op # "delete first" THEN o
                  ELSE [op |-> "delete", id |-> IF firsts = <<>> THEN <<>> ELSE firsts[1].id]
        fits == change.op = "section" \/ \E i \in DOMAIN b.config : b.config[i].id = change.id
    IN  [config |-> Put(b.config, change), delta |-> Append(b.delta, change), failed |-> b.failed \/ ~fits]
Batch(c, operations) == FoldLeft(Batched, [config |-> c, delta |-> <<>>, failed |-> FALSE], operations)

-----------------------------------------------------------------------------
(* The engine. *)

Owned(c) == SelectSeq(c, LAMBDA s : s.type \notin Keep)
Merged(c) == SelectSeq(c, LAMBDA s : s.type \in Keep)

\* What uci would not store is left out.
DeclaredConfigs(sections) ==
    Load([i \in DOMAIN sections |->
        [sections[i] EXCEPT !.opts = [o \in {p \in DOMAIN @ : @[p].items # <<>>} |-> @[o]]]])

DeletesOf(c) ==
    [i \in DOMAIN c |-> IF c[i].name # Anon THEN [op |-> "delete", id |-> OfName(c[i].name)]
                        ELSE [op |-> "delete first", type |-> c[i].type]]
AnonymousFirst(current) ==                                    \* mutant: in the other order
    DeletesOf(NoName(Owned(current))) \o DeletesOf(Named(Owned(current)))
WipeOperations(current) ==
    DeletesOf(Named(Owned(current))) \o DeletesOf(NoName(Owned(current)))

OptionOperations(id, o, v) ==
    LET set(value) == <<[op |-> "set", id |-> id, option |-> o, value |-> value]>> IN
    IF v.list
    THEN set(Empty) \o [i \in DOMAIN v.items |-> [op |-> "add_list", id |-> id, option |-> o, value |-> v.items[i]]]
    ELSE set(v)
SectionOperations(s) ==
    <<[op |-> "section", id |-> OfName(s.name), type |-> s.type]>>
        \o FlattenSeq([i \in 1..Cardinality(DOMAIN s.opts) |->
                LET o == SetToSeq(DOMAIN s.opts)[i] IN OptionOperations(OfName(s.name), o, s.opts[o])])
UciOperations(sections) == FlattenSeq([i \in DOMAIN sections |-> SectionOperations(sections[i])])

\* Compared in order, the sections nothing keeps exactly, the merged ones by what is declared.
SameSections(has, wants) ==
    /\ Len(has) = Len(wants)
    /\ \A i \in DOMAIN has : has[i].name = wants[i].name /\ has[i].type = wants[i].type /\ has[i].opts = wants[i].opts
Holds(actual, want) ==
    \E i \in DOMAIN actual :
        /\ actual[i].name = want.name
        /\ \A o \in DOMAIN want.opts : o \in DOMAIN actual[i].opts /\ actual[i].opts[o] = want.opts[o]
OnlyDeclared(actual, declared) ==                             \* mutant: what else is there not looked at
    \A i \in DOMAIN declared : Holds(actual, declared[i])
VerifyConfigs(actual, declared) ==
    /\ SameSections(Owned(actual), Owned(declared))
    /\ \A i \in DOMAIN Merged(declared) : Holds(actual, Merged(declared)[i])

ChangedConfigs(current, declared) == Owned(current) # <<>> \/ declared # <<>>

-----------------------------------------------------------------------------
(* What an apply leaves, and the lines that differ. *)

ConfigsAfter(current, declared) ==
    LET over(s) == SelectSeq(Merged(declared), LAMBDA w : s.name # Anon /\ w.name = s.name)
        kept == [i \in DOMAIN Merged(current) |-> LET s == Merged(current)[i] IN
                    IF over(s) = <<>> THEN s ELSE [s EXCEPT !.opts = over(s)[1].opts @@ @]]
    IN  kept \o SelectSeq(declared, LAMBDA w : w.type \notin Keep \/ \A i \in DOMAIN kept : kept[i].name # w.name)

\* A line's key is its section's and its option's, "" for the section's own.
KeyOf(c, i) ==
    IF c[i].name # Anon THEN OfName(c[i].name)
    ELSE <<c[i].type, Cardinality({j \in 1..i - 1 : c[j].type = c[i].type})>>
Lines(c) ==
    LET at(k) == CHOOSE i \in DOMAIN c : KeyOf(c, i) = k[1]
        keys == UNION {{KeyOf(c, i)} \X ({""} \cup DOMAIN c[i].opts) : i \in DOMAIN c}
    IN  [k \in keys |-> IF k[2] = "" THEN <<c[at(k)].type>> ELSE c[at(k)].opts[k[2]].items]
NoLine == <<>>
LineAt(lines, k) == IF k \in DOMAIN lines THEN lines[k] ELSE NoLine
Secret(k) == k[2] \in SecretOption
Differing(before, after) == {k \in DOMAIN before \cup DOMAIN after : LineAt(before, k) # LineAt(after, k)}

Alike(a, b) == Cardinality({o \in DOMAIN a.opts \cap DOMAIN b.opts : a.opts[o] = b.opts[o]})
Options(a, b) == Cardinality(DOMAIN a.opts \cup DOMAIN b.opts)
Pair(b, i, a, j) == [from |-> KeyOf(b, i), to |-> KeyOf(a, j), alike |-> Alike(b[i], a[j]), of |-> Options(b[i], a[j])]
Likeness(p) == IF p.of = 0 THEN <<1, 1>> ELSE <<p.alike, p.of>>
Liker(p, q) == Likeness(p)[1] * Likeness(q)[2] > Likeness(q)[1] * Likeness(p)[2]
Renames(before, after) ==
    LET keys(c) == {KeyOf(c, i) : i \in DOMAIN c}
        gone == SelectSeq([i \in DOMAIN before |-> i], LAMBDA i : KeyOf(before, i) \notin keys(after))
        coming == SelectSeq([j \in DOMAIN after |-> j], LAMBDA j : KeyOf(after, j) \notin keys(before))
        all == FlattenSeq([g \in DOMAIN gone |-> [n \in DOMAIN coming |-> <<gone[g], coming[n]>>]])
        fit == SelectSeq(all, LAMBDA ij : before[ij[1]].type = after[ij[2]].type)
        pairs == SelectSeq([n \in DOMAIN fit |-> Pair(before, fit[n][1], after, fit[n][2])],
                           LAMBDA p : 2 * Likeness(p)[1] >= Likeness(p)[2])
        take(taken, p) == IF \E t \in ToSet(taken) : t.from = p.from \/ t.to = p.to THEN taken ELSE Append(taken, p)
    IN  FoldLeft(take, <<>>, SortSeq(pairs, Liker))
NewKey(pairs, k) ==
    LET of == {p \in ToSet(pairs) : p.from = k[1]} IN IF of = {} THEN k ELSE <<(CHOOSE p \in of : TRUE).to, k[2]>>
OldKey(pairs, k) ==
    LET of == {p \in ToSet(pairs) : p.to = k[1]} IN IF of = {} THEN k ELSE <<(CHOOSE p \in of : TRUE).from, k[2]>>
Renamed(lines, pairs) ==
    [k \in {NewKey(pairs, l) : l \in DOMAIN lines} |-> lines[OldKey(pairs, k)]]

-----------------------------------------------------------------------------
(* Why a line differs: `last` are the lines the settings last applied      *)
(* leave, compiled today, `stamp` those the last apply left.               *)

StampOf(declared) == LET lines == Lines(declared) IN [k \in {l \in DOMAIN lines : ~Secret(l)} |-> lines[k]]

AnyStamped(k, now, after, last, stamp) ==                     \* mutant: what it still holds not asked
    IF LineAt(last, k) # after THEN "edit"
    ELSE IF Secret(k) THEN "unknown"
    ELSE IF k \in DOMAIN stamp THEN "device" ELSE "update"
LineWhy(k, now, after, last, stamp) ==
    IF LineAt(last, k) # after THEN "edit"
    ELSE IF Secret(k) THEN "unknown"
    ELSE IF k \in DOMAIN stamp THEN (IF now = stamp[k] THEN "update" ELSE "device")
    ELSE IF now # NoLine THEN "device" ELSE "update"

RenameWhy(p, last, stamp) ==
    IF <<p.to, "">> \notin DOMAIN last THEN "edit"
    ELSE IF <<p.to, "">> \in DOMAIN stamp THEN "device"
    ELSE IF <<p.from, "">> \in DOMAIN stamp THEN "update" ELSE "unknown"
=============================================================================
