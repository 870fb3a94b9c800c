------------------------------ MODULE Settings ------------------------------
(***************************************************************************)
(* The saved settings and those who change them: the file and its versions *)
(* (src/settings.ts, src/server/api/intent.ts, backup.ts), and the pages   *)
(* (ui/src/data/api.ts, ui/src/form): each edits a draft over the file as  *)
(* it last read it, and names that file's version as it saves.             *)
(*                                                                         *)
(* Requests take their time and their answers may be lost.  The server is  *)
(* one process, or on a router a process for each request.  A page has one *)
(* read and one write of the file under way at most.                       *)
(***************************************************************************)
EXTENDS IntentMerge, FiniteSets, TLC

CONSTANTS
    Page,
    First,          \* the file at first
    Backup,         \* what a restore puts in its place
    PlainValue, ItemValue, NewItem, \* what people type
    Bounds          \* bound: how many edits (on a page or elsewhere), saves, and other things
                    \* (a restore, a second read, a reload, a lost answer) one behaviour has

ASSUME BoundsAssumption == Bounds \in [{"edit", "save", "other"} -> Nat]

None == "none"

VARIABLES
    served,     \* "process": one for every request; "cgi": one for each
    file,       \* the saved settings; their version is a hash of them
    kept,       \* the replaced files kept
    page,       \* each page: its draft and the version it names
    put, get,   \* each page's write and read of the file under way
    stash,      \* the edits each tab keeps for a reload: the file they are over, and the draft
    typed,      \* history: the parts its user typed there and has not had saved or taken back
    told,       \* history: the fields where it told that an edit won over a change
    again,      \* history: the parts where it put back an edit already saved, which its tab still kept
    raced,      \* history: a change was written over unseen (Apart, Behind)
    left        \* what the bounds still allow

vars == <<served, file, kept, page, put, get, stash, typed, told, again, raced, left>>

Spends(what) == left[what] > 0 /\ left' = [left EXCEPT ![what] = @ - 1]
Free == UNCHANGED left
Loading == [open |-> FALSE]
Open(p) == page[p].open
DraftOf(saved, value, version) ==   \* seen: history, the newest file the page was given
    [open |-> TRUE, saved |-> saved, value |-> value, version |-> version, seen |-> saved]
Changed(p) == Open(p) /\ page[p].value # page[p].saved
NoGet == [at |-> None]
NoPut == [at |-> None, kind |-> None]
NoEdits == [base |-> First, value |-> First]
Asked == [at |-> "asked", crossed |-> FALSE]

Init ==
    /\ served \in {"process", "cgi"}
    /\ file = First /\ kept = {}
    /\ page = [p \in Page |-> DraftOf(First, First, First)]
    /\ put = [p \in Page |-> NoPut] /\ get = [p \in Page |-> NoGet]
    /\ stash = [p \in Page |-> NoEdits]
    /\ typed = [p \in Page |-> <<>>] /\ told = [p \in Page |-> {}] /\ again = [p \in Page |-> {}]
    /\ raced = FALSE /\ left = Bounds

-----------------------------------------------------------------------------
(* What a tab keeps: written as its draft says it moved on (an edit, a     *)
(* save's end, a later file under it), never as the page starts.  A write  *)
(* that waits for typing to pause is made as the page goes.                *)

KeepEdits(p) ==
    stash' = [stash EXCEPT ![p] =
        IF page'[p].value # page'[p].saved THEN [base |-> page'[p].saved, value |-> page'[p].value] ELSE NoEdits]

-----------------------------------------------------------------------------
(* The page's user. *)

EditsOf(intent) ==
    {[intent EXCEPT !.plain = v] : v \in PlainValue}
        \cup {[intent EXCEPT !.list[i].v = v] : i \in DOMAIN intent.list, v \in ItemValue}
        \cup {[intent EXCEPT !.list = RemoveAt(@, i)] : i \in DOMAIN intent.list}
        \cup {[intent EXCEPT !.list = Append(@, item)] : item \in {n \in NewItem : n.k \notin KeysOf(intent.list)}}

\* What was typed in the parts that differ, or that they were removed; what is
\* as the saved file has it is no edit, unless that file is just being written.
Typed(p, to) ==
    LET parts == DOMAIN typed[p] \cup Differ(page[p].value, to)
    IN  [part \in {k \in parts : put[p] # NoPut \/ k \in Differ(page[p].saved, to)} |-> PartOf(to, part)]

Edit(p) ==
    /\ Open(p) /\ Spends("edit")
    /\ \E value \in EditsOf(page[p].value) \ {page[p].value} :
        /\ page' = [page EXCEPT ![p].value = value]
        /\ typed' = [typed EXCEPT ![p] = Typed(p, value)]
    /\ KeepEdits(p)
    /\ UNCHANGED <<served, file, kept, put, get, told, again, raced>>

\* Not while it saves.
Revert(p) ==
    /\ Changed(p) /\ put[p] = NoPut
    /\ page' = [page EXCEPT ![p].value = page[p].saved]
    /\ typed' = [typed EXCEPT ![p] = <<>>] /\ again' = [again EXCEPT ![p] = {}]
    /\ KeepEdits(p)
    /\ Free /\ UNCHANGED <<served, file, kept, put, get, told, raced>>

-----------------------------------------------------------------------------
(* Writes: a save of the draft, a restore of a reviewed backup.            *)
(* A read they cross is read again.                                        *)

Crossing(p) == get' = [get EXCEPT ![p] = IF @ = NoGet THEN @ ELSE [@ EXCEPT !.crossed = TRUE]]
Request(at, p, kind, value, version) ==
    [at |-> at, heard |-> TRUE, kind |-> kind, sent |-> value, version |-> version,
     over |-> page[p].seen, typed |-> typed[p], told |-> told[p], again |-> again[p]]
Answered(request, at) ==
    [at |-> at, heard |-> request.heard, kind |-> request.kind, sent |-> request.sent, over |-> request.over, typed |-> request.typed]

Save(p) ==
    /\ Changed(p) /\ put[p] = NoPut /\ Spends("save")
    /\ put' = [put EXCEPT ![p] = Request("sent", p, "save", page[p].value, page[p].version)]
    /\ Crossing(p)
    /\ UNCHANGED <<served, file, kept, page, stash, typed, told, again, raced>>

\* Reviewed against the file as it is then, whatever the page last read.
ReviewBackup(p) ==
    /\ Open(p) /\ put[p] = NoPut /\ Spends("other")
    /\ put' = [put EXCEPT ![p] = Request("reviewed", p, "restore", Backup, file)]
    /\ UNCHANGED <<served, file, kept, page, get, stash, typed, told, again, raced>>
Restore(p) ==
    /\ Open(p) /\ put[p].at = "reviewed"
    /\ put' = [put EXCEPT ![p].at = "sent"]
    /\ Crossing(p)
    /\ Free /\ UNCHANGED <<served, file, kept, page, stash, typed, told, again, raced>>

ChangedElsewhere(version) == version # file

\* On a router, a file written between a save's check and its write, or between
\* a read of the file and of its version, is written over unseen.
Apart(p) == served = "cgi" /\ (put[p].version # file \/ put[p].version # put[p].over)

\* A page that read a later file before its save's answer came goes back to the
\* one it saved: refused as a version, unless the file went back to it as well.
Behind(p) == put[p].version = file /\ put[p].version # put[p].over

\* A restore keeps the file it replaces; nothing is written over itself.
WriteIntentFile(p, value) ==
    /\ file' = value
    /\ kept' = IF put[p].kind = "restore" /\ value # file THEN kept \cup {file} ELSE kept

Refuses(p) ==
    /\ put[p].at = "sent" /\ ChangedElsewhere(put[p].version)
    /\ put' = [put EXCEPT ![p] = Answered(@, "refused")]
    /\ Free /\ UNCHANGED <<served, file, kept, page, get, stash, typed, told, again, raced>>
Checks(p) ==
    /\ served = "cgi"
    /\ put[p].at = "sent" /\ ~ChangedElsewhere(put[p].version)
    /\ put' = [put EXCEPT ![p].at = "checked"]
    /\ Free /\ UNCHANGED <<served, file, kept, page, get, stash, typed, told, again, raced>>
Stores(p) ==
    /\ IF served = "cgi" THEN put[p].at = "checked" ELSE put[p].at = "sent" /\ ~ChangedElsewhere(put[p].version)
    /\ WriteIntentFile(p, put[p].sent)
    /\ put' = [put EXCEPT ![p] = Answered(@, "done")]
    /\ raced' = (raced \/ (put[p].kind = "save" /\ (Apart(p) \/ Behind(p))))
    /\ Free /\ UNCHANGED <<served, page, get, stash, typed, told, again>>

\* Edits made while the save was on its way are kept.
SavedAsSettled(draft, sent) == [draft EXCEPT !.saved = sent, !.value = sent]  \* mutant: they are not
SavedAs(draft, sent) == [draft EXCEPT !.saved = sent]
After(old, sent) == [part \in {k \in DOMAIN old : k \notin DOMAIN sent \/ sent[k] # old[k]} |-> old[part]]

Saved(p) ==
    /\ put[p].at = "done" /\ put[p].heard
    /\ LET sent == put[p].sent IN
        IF put[p].kind = "save"
        THEN /\ page' = [page EXCEPT ![p] = [SavedAs(@, sent) EXCEPT !.version = sent,
                                !.seen = IF page[p].seen = put[p].over THEN sent ELSE page[p].seen]]
             /\ typed' = [typed EXCEPT ![p] = After(@, put[p].typed)]
             /\ again' = [again EXCEPT ![p] = @ \cap Differ(sent, page'[p].value)]
        ELSE /\ page' = [page EXCEPT ![p] = DraftOf(sent, sent, sent)]
             /\ typed' = [typed EXCEPT ![p] = <<>>] /\ again' = [again EXCEPT ![p] = {}]
    /\ KeepEdits(p)
    /\ told' = [told EXCEPT ![p] = {}]
    /\ put' = [put EXCEPT ![p] = NoPut]
    /\ Crossing(p)
    /\ Free /\ UNCHANGED <<served, file, kept, raced>>

\* A save that failed is said by the draft, which moves on with it.
FailedSave(p) == IF put[p].kind = "save" /\ Open(p) THEN KeepEdits(p) ELSE stash' = stash

\* Read again, over a read under way too; refused, a restore is reviewed again.
NotSaved(p) ==
    /\ put[p].at = "refused" /\ put[p].heard
    /\ put' = [put EXCEPT ![p] = NoPut]
    /\ get' = [get EXCEPT ![p] = Asked]
    /\ UNCHANGED page /\ FailedSave(p)
    /\ Free /\ UNCHANGED <<served, file, kept, typed, told, again, raced>>

\* Nothing says whether it was done, or still will be.
AnswerLost(p) ==
    /\ put[p].at \in {"sent", "checked", "done", "refused"} /\ put[p].heard /\ Spends("other")
    /\ put' = [put EXCEPT ![p].heard = FALSE]
    /\ Crossing(p)
    /\ UNCHANGED page /\ FailedSave(p)
    /\ UNCHANGED <<served, file, kept, typed, told, again, raced>>
Unheard(p) ==
    /\ put[p].at \in {"sent", "done", "refused"} /\ ~put[p].heard
    /\ put' = [put EXCEPT ![p] = NoPut]
    /\ Free /\ UNCHANGED <<served, file, kept, page, get, stash, typed, told, again, raced>>

-----------------------------------------------------------------------------
(* Reads. *)

\* A login, an apply refused, an undo: the page reads the file again.
ReadAgain(p) ==
    /\ Open(p) /\ get[p] = NoGet /\ Spends("other")
    /\ get' = [get EXCEPT ![p] = Asked]
    /\ UNCHANGED <<served, file, kept, page, put, stash, typed, told, again, raced>>

\* The file, then its version: a process for each may find another written between.
Reads(p) ==
    /\ get[p].at = "asked"
    /\ get' = [get EXCEPT ![p] = [at |-> IF served = "cgi" THEN "body" ELSE "read", crossed |-> @.crossed, body |-> file, version |-> file]]
    /\ Free /\ UNCHANGED <<served, file, kept, page, put, stash, typed, told, again, raced>>
ReadsVersion(p) ==
    /\ get[p].at = "body"
    /\ get' = [get EXCEPT ![p].at = "read", ![p].version = file]
    /\ Free /\ UNCHANGED <<served, file, kept, page, put, stash, typed, told, again, raced>>

\* The draft moves on to the file read, the edits over it: a part just put back
\* as the file had it, its save on its way, is none.  A page that starts has
\* the edits its tab kept.
Rebase(p, base, value) ==
    LET merged == Merge3(base, value, get[p].body) IN
    /\ page' = [page EXCEPT ![p] = DraftOf(get[p].body, merged.value, get[p].version)]
    /\ told' = [told EXCEPT ![p] = @ \cup merged.conflicts]
    /\ typed' = [typed EXCEPT ![p] =
                    [part \in {k \in DOMAIN @ : k \in Differ(base, value) \/ PartOf(merged.value, k) = @[k]} |-> @[part]]]
    /\ again' = [again EXCEPT ![p] = Differ(get[p].body, merged.value)
                    \cap (IF Open(p) THEN @ ELSE Differ(base, value) \ DOMAIN typed[p])]
    /\ IF Open(p) /\ get[p].body # base THEN KeepEdits(p) ELSE stash' = stash
Loads(p) ==
    /\ get[p].at = "read"
    /\ IF get[p].crossed
       THEN get' = [get EXCEPT ![p] = Asked] /\ UNCHANGED <<page, stash, told, again, typed>>
       ELSE /\ get' = [get EXCEPT ![p] = NoGet]
            /\ IF Open(p) THEN Rebase(p, page[p].saved, page[p].value)
               ELSE Rebase(p, stash[p].base, stash[p].value)
    /\ Free /\ UNCHANGED <<served, file, kept, put, raced>>

\* What the tab keeps stays as last written.  A write under way goes on without
\* its page: stored, its edits are saved and kept all the same.
Reload(p) ==
    /\ Open(p) /\ put[p].at # "reviewed" /\ Spends("other")
    /\ page' = [page EXCEPT ![p] = Loading]
    /\ get' = [get EXCEPT ![p] = Asked]
    /\ put' = [put EXCEPT ![p] = IF @ = NoPut THEN @ ELSE [@ EXCEPT !.heard = FALSE]]
    /\ typed' = [typed EXCEPT ![p] = [part \in DOMAIN @ \cap Differ(page[p].saved, page[p].value) |-> @[part]]]
    /\ again' = [again EXCEPT ![p] = {}]
    /\ UNCHANGED <<served, file, kept, stash, told, raced>>

\* A shell, an editor: no version asked for.
Elsewhere ==
    /\ Spends("edit")
    /\ file' \in EditsOf(file) \ {file}
    /\ UNCHANGED <<served, kept, page, put, get, stash, typed, told, again, raced>>

Next ==
    \/ Elsewhere
    \/ \E p \in Page :
        \/ Edit(p) \/ Revert(p) \/ Save(p) \/ ReviewBackup(p) \/ Restore(p)
        \/ Refuses(p) \/ Checks(p) \/ Stores(p) \/ Saved(p) \/ NotSaved(p) \/ AnswerLost(p) \/ Unheard(p)
        \/ ReadAgain(p) \/ Reads(p) \/ ReadsVersion(p) \/ Loads(p) \/ Reload(p)

Spec == Init /\ [][Next]_vars

-----------------------------------------------------------------------------
(* Properties. *)

\* What its user typed is in a page's draft, or over a reload in what its tab
\* keeps, until it is saved or taken back: through the saves it was typed
\* across, refused and lost ones, and whatever is saved elsewhere meanwhile.
EditsKept ==
    \A p \in Page :
        LET value == IF Open(p) THEN page[p].value ELSE stash[p].value
        IN  \A part \in DOMAIN typed[p] : PartOf(value, part) = typed[p][part]

\* A save changes in the file what its user typed and nothing else, but in a
\* field where the page told that an edit won over a change saved elsewhere, or
\* a part where it put back an edit saved before a reload and kept all the same
\* (stash.ts:69-83 writes only as the draft moves on; NoneOnceSaved of MCSettings).
SavesAsTyped(p) ==
    ~raced' =>
        \A part \in Parts(file) \cup Parts(file') \cup DOMAIN put[p].typed :
            IF part \in DOMAIN put[p].typed THEN PartOf(file', part) = put[p].typed[part]
            ELSE PartOf(file', part) = PartOf(file, part) \/ FieldOf(part) \in put[p].told \/ part \in put[p].again

\* A restore replaces the file it was reviewed against, and that file is kept.
RestoresAsReviewed(p) ==
    ~(served = "cgi" /\ file # put[p].version) => file = put[p].version /\ file \in kept' \cup {Backup}

\* No edit, no saved change and no replaced file is lost unseen.
NothingLost ==
    [][/\ EditsKept'
       /\ \A p \in Page :
            put[p].at # "done" /\ put'[p].at = "done" =>
                IF put[p].kind = "save" THEN SavesAsTyped(p) ELSE RestoresAsReviewed(p)]_vars
=============================================================================
