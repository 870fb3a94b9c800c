--------------------------- MODULE SettingsProofs ---------------------------
(***************************************************************************)
(* Where one process serves every request, a draft is over the very file   *)
(* whose version its save will name: so a save that is not refused goes    *)
(* in place of the file its edits were made over.  It is what Apart and    *)
(* Behind of Settings are the exceptions to.                               *)
(***************************************************************************)
EXTENDS Settings, TLAPS

Fields == {"open", "saved", "value", "version", "seen"}

\* What a page is, and what its read of the file is: not yet open or a draft;
\* none, asked for, or come with a file and its version.
PageShape(page_p) == DOMAIN page_p = Fields \/ (DOMAIN page_p = {"open"} /\ page_p.open = FALSE)
GetShape(get_p) ==
    \/ get_p = NoGet
    \/ DOMAIN get_p = {"at", "crossed"} /\ get_p.at = "asked"
    \/ DOMAIN get_p = {"at", "crossed", "body", "version"} /\ get_p.at \in {"body", "read"}
Shapes ==
    /\ DOMAIN page = Page /\ \A p \in Page : PageShape(page[p])
    /\ DOMAIN get = Page /\ \A p \in Page : GetShape(get[p])

\* A read is of one file: its version is that of the body (src/server/api/intent.ts,
\* where the two are read with nothing else between).
ReadIsWhole ==
    served = "process" =>
        \A p \in Page : get[p].at # "body" /\ (get[p].at = "read" => get[p].version = get[p].body)

\* The version a page names is the one of the file its draft is over
\* (ui/src/data/api.ts keeps the version, ui/src/form/draft.tsx the file).
VersionIsSaved == served = "process" => \A p \in Page : Open(p) => page[p].version = page[p].saved

IInv == Shapes /\ ReadIsWhole /\ VersionIsSaved

-----------------------------------------------------------------------------
(* How a page and its read change, whatever step does it. *)

PageStep(p) ==
    \/ page' = page
    \/ Open(p) /\ \E value : page' = [page EXCEPT ![p].value = value]
    \/ \E sent, seen : page' = [page EXCEPT ![p] = [@ EXCEPT !.saved = sent, !.version = sent, !.seen = seen]]
    \/ \E body, value, version :
        /\ served = "process" => version = body
        /\ page' = [page EXCEPT ![p] = DraftOf(body, value, version)]
    \/ page' = [page EXCEPT ![p] = Loading]

GetStep(p) ==
    \/ get' = get
    \/ Crossing(p)
    \/ get' = [get EXCEPT ![p] = Asked]
    \/ get' = [get EXCEPT ![p] = NoGet]
    \/ Reads(p)
    \/ ReadsVersion(p)

LEMMA PageStepOK ==
    ASSUME NEW p \in Page, IInv, served' = served, PageStep(p)
    PROVE  DOMAIN page' = Page /\ (\A q \in Page : PageShape(page[q])') /\ VersionIsSaved'
<1>1. DOMAIN page' = Page /\ \A q \in Page : q # p => page'[q] = page[q]
  BY DEF PageStep, IInv, Shapes
<1>2. PageShape(page'[p]) /\ (served = "process" /\ page'[p].open => page'[p].version = page'[p].saved)
  <2>0. PageShape(page[p]) /\ (served = "process" /\ page[p].open => page[p].version = page[p].saved)
    BY DEF IInv, Shapes, VersionIsSaved, Open
  <2>1. CASE page' = page
    BY <2>0, <2>1
  <2>2. CASE Open(p) /\ \E value : page' = [page EXCEPT ![p].value = value]
    <3>1. PICK value : page' = [page EXCEPT ![p].value = value]
      BY <2>2
    <3>2. page'[p] = [page[p] EXCEPT !.value = value]
      BY <3>1 DEF IInv, Shapes
    <3> QED BY <2>0, <2>2, <3>2 DEF PageShape, Fields, Open
  <2>3. CASE \E sent, seen : page' = [page EXCEPT ![p] = [@ EXCEPT !.saved = sent, !.version = sent, !.seen = seen]]
    <3>1. PICK sent, seen : page' = [page EXCEPT ![p] = [@ EXCEPT !.saved = sent, !.version = sent, !.seen = seen]]
      BY <2>3
    <3>2. page'[p] = [page[p] EXCEPT !.saved = sent, !.version = sent, !.seen = seen]
      BY <3>1 DEF IInv, Shapes
    <3> QED BY <2>0, <3>2 DEF PageShape, Fields
  <2>4. CASE \E body, value, version : /\ served = "process" => version = body
                                       /\ page' = [page EXCEPT ![p] = DraftOf(body, value, version)]
    <3>1. PICK body, value, version : /\ served = "process" => version = body
                                      /\ page' = [page EXCEPT ![p] = DraftOf(body, value, version)]
      BY <2>4
    <3>2. page'[p] = DraftOf(body, value, version)
      BY <3>1 DEF IInv, Shapes
    <3> QED BY <3>1, <3>2 DEF DraftOf, PageShape, Fields
  <2>5. CASE page' = [page EXCEPT ![p] = Loading]
    <3>1. page'[p] = Loading
      BY <2>5 DEF IInv, Shapes
    <3> QED BY <3>1 DEF Loading, PageShape
  <2> QED BY <2>1, <2>2, <2>3, <2>4, <2>5 DEF PageStep
<1> QED BY <1>1, <1>2 DEF IInv, Shapes, VersionIsSaved, Open, PageShape

LEMMA GetStepOK ==
    ASSUME NEW p \in Page, IInv, served' = served, GetStep(p)
    PROVE  DOMAIN get' = Page /\ (\A q \in Page : GetShape(get[q])') /\ ReadIsWhole'
<1> DEFINE Whole(get_p) == served = "process" => get_p.at # "body" /\ (get_p.at = "read" => get_p.version = get_p.body)
<1>1. DOMAIN get' = Page /\ \A q \in Page : q # p => get'[q] = get[q]
  BY DEF GetStep, Crossing, Reads, ReadsVersion, IInv, Shapes
<1>2. GetShape(get'[p]) /\ Whole(get'[p])
  <2>0. GetShape(get[p]) /\ Whole(get[p])
    BY DEF IInv, Shapes, ReadIsWhole
  <2>1. CASE get' = get
    BY <2>0, <2>1
  <2>2. CASE Crossing(p)
    <3>1. get'[p] = IF get[p] = NoGet THEN get[p] ELSE [get[p] EXCEPT !.crossed = TRUE]
      BY <2>2 DEF Crossing, IInv, Shapes
    <3> QED BY <2>0, <3>1 DEF GetShape
  <2>3. CASE get' = [get EXCEPT ![p] = Asked] \/ get' = [get EXCEPT ![p] = NoGet]
    <3>1. get'[p] = Asked \/ get'[p] = NoGet
      BY <2>3 DEF IInv, Shapes
    <3> QED BY <3>1 DEF Asked, NoGet, None, GetShape
  <2>4. CASE Reads(p)
    <3>1. get'[p] = [at |-> IF served = "cgi" THEN "body" ELSE "read", crossed |-> get[p].crossed, body |-> file, version |-> file]
      BY <2>4 DEF Reads, IInv, Shapes
    <3> QED BY <3>1 DEF GetShape
  <2>5. CASE ReadsVersion(p)
    <3>1. get[p].at = "body" /\ served # "process"
      BY <2>0, <2>5 DEF ReadsVersion
    <3>2. get'[p] = [get[p] EXCEPT !.at = "read", !.version = file]
      BY <2>5 DEF ReadsVersion, IInv, Shapes
    <3>3. DOMAIN get[p] = {"at", "crossed", "body", "version"}
      BY <2>0, <3>1 DEF GetShape, NoGet, None
    <3> QED BY <3>1, <3>2, <3>3 DEF GetShape
  <2> QED BY <2>1, <2>2, <2>3, <2>4, <2>5 DEF GetStep
<1> QED BY <1>1, <1>2 DEF IInv, Shapes, ReadIsWhole

-----------------------------------------------------------------------------
LEMMA InitIInv == Init => IInv
BY DEF Init, IInv, Shapes, PageShape, GetShape, ReadIsWhole, VersionIsSaved, Open, DraftOf, Fields, NoGet, None

\* A read comes to a page, as it starts or over its draft.
LEMMA LoadsSteps ==
    ASSUME NEW p \in Page, IInv, Loads(p)
    PROVE  PageStep(p) /\ GetStep(p) /\ served' = served
<1>1. GetStep(p) /\ served' = served
  BY DEF Loads, GetStep
<1>2. CASE get[p].crossed
  <2>1. page' = page
    BY <1>2 DEF Loads
  <2> QED BY <1>1, <2>1 DEF PageStep
<1>3. CASE ~get[p].crossed
  <2>1. PICK base, value : Rebase(p, base, value)
    BY <1>3 DEF Loads
  <2>2. page' = [page EXCEPT ![p] = DraftOf(get[p].body, Merge3(base, value, get[p].body).value, get[p].version)]
    BY <2>1 DEF Rebase
  <2>3. served = "process" => get[p].version = get[p].body
    BY DEF Loads, IInv, ReadIsWhole
  <2>4. \E body, v, version : /\ served = "process" => version = body
                             /\ page' = [page EXCEPT ![p] = DraftOf(body, v, version)]
    BY <2>2, <2>3
  <2> QED BY <1>1, <2>4 DEF PageStep
<1> QED BY <1>1, <1>2, <1>3

\* A save is answered: the draft is over what was sent, whose version it names.
LEMMA SavedSteps ==
    ASSUME NEW p \in Page, IInv, Saved(p)
    PROVE  PageStep(p) /\ GetStep(p) /\ served' = served
<1>1. GetStep(p) /\ served' = served
  BY DEF Saved, GetStep
<1> DEFINE sent == put[p].sent
           seen == IF page[p].seen = put[p].over THEN sent ELSE page[p].seen
<1>2. CASE put[p].kind = "save"
  <2>1. page' = [page EXCEPT ![p] = [SavedAs(@, sent) EXCEPT !.version = sent, !.seen = seen]]
    BY <1>2 DEF Saved
  <2> DEFINE row == [SavedAs(page[p], sent) EXCEPT !.version = sent, !.seen = seen]
  <2>2. p \in DOMAIN page
    BY DEF IInv, Shapes
  <2>3. page' = [page EXCEPT ![p] = row]
    BY <2>1, <2>2
  <2>4. row = [page[p] EXCEPT !.saved = sent, !.version = sent, !.seen = seen]
    BY DEF SavedAs
  <2>5. page' = [page EXCEPT ![p] = [@ EXCEPT !.saved = sent, !.version = sent, !.seen = seen]]
    <3> HIDE DEF seen, sent, row
    <3> QED BY <2>2, <2>3, <2>4
  <2>6. \E s, t : page' = [page EXCEPT ![p] = [@ EXCEPT !.saved = s, !.version = s, !.seen = t]]
    <3> HIDE DEF sent, seen
    <3> QED BY <2>5
  <2> QED BY <1>1, <2>6 DEF PageStep
<1>3. CASE put[p].kind # "save"
  <2>1. page' = [page EXCEPT ![p] = DraftOf(sent, sent, sent)]
    BY <1>3 DEF Saved
  <2> HIDE DEF sent
  <2>2. \E body, value, version : /\ served = "process" => version = body
                                 /\ page' = [page EXCEPT ![p] = DraftOf(body, value, version)]
    BY <2>1
  <2> QED BY <1>1, <2>2 DEF PageStep
<1> QED BY <1>1, <1>2, <1>3

\* Every other step of a page.
LEMMA OtherSteps ==
    ASSUME NEW p \in Page, IInv,
           \/ Edit(p) \/ Revert(p) \/ Save(p) \/ ReviewBackup(p) \/ Restore(p)
           \/ Refuses(p) \/ Checks(p) \/ Stores(p) \/ NotSaved(p) \/ AnswerLost(p) \/ Unheard(p)
           \/ ReadAgain(p) \/ Reads(p) \/ ReadsVersion(p) \/ Reload(p)
    PROVE  PageStep(p) /\ GetStep(p) /\ served' = served
<1>1. CASE Edit(p) \/ Revert(p)
  BY <1>1 DEF Edit, Revert, Changed, PageStep, GetStep
<1>2. CASE Save(p) \/ ReviewBackup(p) \/ Restore(p) \/ AnswerLost(p) \/ Unheard(p)
  BY <1>2 DEF Save, ReviewBackup, Restore, AnswerLost, Unheard, PageStep, GetStep
<1>3. CASE Refuses(p) \/ Checks(p) \/ Stores(p)
  BY <1>3 DEF Refuses, Checks, Stores, PageStep, GetStep
<1>4. CASE NotSaved(p) \/ ReadAgain(p) \/ Reload(p)
  BY <1>4 DEF NotSaved, ReadAgain, Reload, PageStep, GetStep
<1>5. CASE Reads(p) \/ ReadsVersion(p)
  BY <1>5 DEF Reads, ReadsVersion, PageStep, GetStep
<1> QED BY <1>1, <1>2, <1>3, <1>4, <1>5

LEMMA StepIInv == IInv /\ [Next]_vars => IInv'
<1> SUFFICES ASSUME IInv, [Next]_vars PROVE IInv'
  OBVIOUS
<1>1. CASE Elsewhere \/ UNCHANGED vars
  <2>1. UNCHANGED <<served, page, get>>
    BY <1>1 DEF Elsewhere, vars
  <2> QED BY <2>1 DEF IInv, Shapes, PageShape, GetShape, ReadIsWhole, VersionIsSaved, Open
<1>2. ASSUME NEW p \in Page, PageStep(p), GetStep(p), served' = served PROVE IInv'
  <2>1. DOMAIN page' = Page /\ (\A q \in Page : PageShape(page[q])') /\ VersionIsSaved'
    BY <1>2, PageStepOK
  <2>2. DOMAIN get' = Page /\ (\A q \in Page : GetShape(get[q])') /\ ReadIsWhole'
    BY <1>2, GetStepOK
  <2> QED BY <2>1, <2>2 DEF IInv, Shapes
<1> QED BY <1>1, <1>2, LoadsSteps, SavedSteps, OtherSteps DEF Next

\* Served by one process, a page names the version of the very file its draft
\* is over, through crossed reads, lost answers, restores, reloads and saves
\* made elsewhere: for any number of pages, any settings and any bounds.
THEOREM NamesWhatItIsOver == Spec => []VersionIsSaved
<1>1. IInv => VersionIsSaved
  BY DEF IInv
<1> QED BY <1>1, InitIInv, StepIInv, PTL DEF Spec
=============================================================================
