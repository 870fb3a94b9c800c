---------------------------- MODULE ConfigChange ----------------------------
(***************************************************************************)
(* A device's config through a review and the apply it was for: the plan   *)
(* (src/applyDiff.ts, GET /api/apply/plan), the run that checks it         *)
(* (src/apply/plan.ts), stages it and checks that (src/apply/configure.ts) *)
(* and commits it, and what the run keeps for the next review: the         *)
(* settings as live, the lines it left as the device's stamp.              *)
(*                                                                         *)
(* Meanwhile the settings are saved, the app is updated, the device is     *)
(* changed by hand, and a run may fail or die anywhere.                    *)
(***************************************************************************)
EXTENDS UciConfig

CONSTANTS
    App,            \* versions of this app
    Intent,         \* what an intent file may hold
    LowLevel,       \* a low-level config file: applied unreviewed, nothing kept of it
    Compile,        \* the sections each version declares for each settings
    Stock,          \* what the device may hold at first
    Packaged,       \* what installing packages may add to the config
    HandSection,    \* sections someone may add by hand
    HandOption,     \* options someone may change by hand
    HandValue,      \* and the values given
    Bounds          \* bound: how often, in one behaviour, each of: hand (edits), run, review, save, update

ASSUME BoundsAssumption == Bounds \in [{"hand", "run", "review", "save", "update"} -> Nat]

None == [app |-> "none", settings |-> "none"]

VARIABLES
    dev,        \* the config as committed
    delta,      \* the changes staged over it
    app, saved, \* this app's version, the saved settings
    live,       \* what is kept of the applies: the settings last applied, the device's stamp
    plan,       \* the reviewed plan, from when its settings' version is read
    run,        \* the run
    meddled,    \* history: the lines changed by others since the run checked the device
    touched,    \* history: the lines changed by others since the stamp
    left        \* what the bounds still allow

vars == <<dev, delta, app, saved, live, plan, run, meddled, touched, left>>

NoPlan == [at |-> "none"]
NoRun == [at |-> "idle"]
NotLive == [settings |-> "none", stamp |-> <<>>, of |-> None]
Spends(what) == left[what] > 0 /\ left' = [left EXCEPT ![what] = @ - 1]
At(p) == run.at = p

\* What anyone reads: staged changes included.
Shown == Staged(dev, delta)
Declared(version, settings) == DeclaredConfigs(Compile[version][settings])

Init ==
    /\ \E c \in Stock : dev = Load(c)
    /\ delta = <<>>
    /\ app \in App /\ saved \in Intent
    /\ live = NotLive /\ plan = NoPlan /\ run = NoRun
    /\ meddled = {} /\ touched = {}
    /\ left = Bounds

-----------------------------------------------------------------------------
(* Others. *)

\* What LuCI saves, or a shell with its own staged changes: written over the file.
SectionWith(s, o, v) == [s EXCEPT !.opts = SetOption(@, o, Plain(v))]
EditsOf(c) ==
    {[c EXCEPT ![i] = SectionWith(@, o, v)] : i \in DOMAIN c, o \in HandOption, v \in HandValue}
        \cup {RemoveAt(c, i) : i \in DOMAIN c}
        \cup {Append(c, s) : s \in {h \in HandSection : h.name = Anon \/ \A i \in DOMAIN c : c[i].name # h.name}}

\* An anonymous section is staged by its place: once staged, moving any is a change to all of them.
Anonymous(c) == {k \in DOMAIN Lines(c) : Len(k[1]) > 1}
ChangedByOthers(c) ==
    /\ dev' = Load(c)
    /\ touched' = touched \cup Differing(Lines(dev), Lines(dev'))
    /\ meddled' = meddled \cup Differing(Lines(dev), Lines(dev'))
                    \cup (IF delta = <<>> THEN {} ELSE Anonymous(dev) \cup Anonymous(dev'))

HandEdit ==
    /\ Spends("hand")
    /\ \E c \in EditsOf(dev) : Load(c) # dev /\ ChangedByOthers(c)
    /\ run' = IF run.at \in {"read", "staged"} THEN [run EXCEPT !.disturbed = TRUE] ELSE run
    /\ UNCHANGED <<delta, app, saved, live, plan>>

SaveSettings ==
    /\ Spends("save")
    /\ saved' \in Intent \ {saved}
    /\ UNCHANGED <<dev, delta, app, live, plan, run, meddled, touched>>

\* Its server starts again: no page's plan, and no run of its own, outlives it here.
UpdateApp ==
    /\ Spends("update")
    /\ plan.at = "none" /\ At("idle")
    /\ app' \in App \ {app}
    /\ UNCHANGED <<dev, delta, saved, live, plan, run, meddled, touched>>

-----------------------------------------------------------------------------
(* The review. *)

\* A secret's value is left out of it.
StateHash(c) == LET lines == Lines(c) IN {<<k, IF Secret(k) THEN NoLine ELSE lines[k]>> : k \in DOMAIN lines}

Diff(current, declared) ==
    LET after == ConfigsAfter(current, declared)
        pairs == Renames(current, after)
        now == Renamed(Lines(current), pairs)
    IN  [pairs |-> pairs,
         lines |-> {[key |-> k, before |-> LineAt(now, k), after |-> LineAt(Lines(after), k)] : k \in Differing(now, Lines(after))}]

\* Why, as a review would say now; nothing else is said before the first apply.
Whys(diff) ==
    LET last == Lines(ConfigsAfter(Shown, Declared(app, live.settings)))
    IN  [lines |-> {[key |-> l.key, why |-> LineWhy(l.key, l.before, l.after, last, live.stamp)] : l \in diff.lines},
         pairs |-> {[pair |-> p, why |-> RenameWhy(p, last, live.stamp)] : p \in ToSet(diff.pairs)}]

VersionFirst == plan' = [at |-> "reading", version |-> saved]
ReviewBegins ==
    /\ Spends("review")
    /\ At("idle") \/ At("dead")
    /\ VersionFirst
    /\ UNCHANGED <<dev, delta, app, saved, live, run, meddled, touched>>

Reviewed == [at |-> "read", version |-> plan.version, hash |-> StateHash(Shown), diff |-> Diff(Shown, Declared(app, saved))]
ReviewReads ==
    /\ plan.at = "reading"
    /\ plan' = Reviewed
    /\ UNCHANGED <<dev, delta, app, saved, live, run, meddled, touched, left>>

-----------------------------------------------------------------------------
(* The run. *)

\* The page's plan goes with it; what the command line applies, the saved settings or a low-level file, was not reviewed.
StartOf(at, settings, reviewed) ==
    run' = [at |-> at, settings |-> settings, verify |-> reviewed, checked |-> <<>>, snapshot |-> <<>>,
            installed |-> FALSE, current |-> <<>>, disturbed |-> FALSE]
Start ==
    /\ At("idle") /\ Spends("run")
    /\ plan.at \in {"none", "read"} /\ plan' = NoPlan
    /\ \/ plan.at = "read" /\ plan.version = saved /\ StartOf("claimed", saved, plan)
       \/ plan.at = "none" /\ \E s \in LowLevel \cup {saved} : StartOf("planning", s, NoPlan)
    /\ UNCHANGED <<dev, delta, app, saved, live, meddled, touched>>

\* What the run applies is a copy of the settings, taken after their version was
\* looked at: another process may save between the two.
TakesSnapshot ==
    /\ At("claimed")
    /\ run' = [run EXCEPT !.at = "planning", !.settings = saved]
    /\ UNCHANGED <<dev, delta, app, saved, live, plan, meddled, touched, left>>

\* "The settings were changed elsewhere since this page read them."
StartRefused ==
    /\ At("idle") /\ plan.at = "read" /\ plan.version # saved
    /\ plan' = NoPlan
    /\ UNCHANGED <<dev, delta, app, saved, live, run, meddled, touched, left>>

Checks == run.verify.at = "read" => StateHash(Shown) = run.verify.hash
PlanDevice ==
    /\ At("planning") /\ Checks
    /\ run' = [run EXCEPT !.at = "planned", !.checked = Shown]
    /\ meddled' = {}
    /\ UNCHANGED <<dev, delta, app, saved, live, plan, touched, left>>

PlanStale ==
    /\ At("planning") /\ ~Checks
    /\ run' = NoRun
    /\ UNCHANGED <<dev, delta, app, saved, live, plan, meddled, touched, left>>

\* What its watchdog puts back; the staged changes go with it.
Arm ==
    /\ At("planned")
    /\ run' = [run EXCEPT !.at = "armed", !.snapshot = dev]
    /\ delta' = <<>>
    /\ UNCHANGED <<dev, app, saved, live, plan, meddled, touched, left>>

\* What is staged is reverted first; a package may bring sections of its own.
Prepare ==
    /\ At("armed")
    /\ delta' = <<>>
    /\ \E sections \in {<<>>} \cup {<<s>> : s \in Packaged} :
        /\ dev' = Load(dev \o sections)
        /\ run' = [run EXCEPT !.at = "prepared", !.installed = sections # <<>>]
    /\ UNCHANGED <<app, saved, live, plan, meddled, touched, left>>

ReadCurrent ==
    /\ At("prepared")
    /\ run' = [run EXCEPT !.at = "read", !.current = Shown]
    /\ UNCHANGED <<dev, delta, app, saved, live, plan, meddled, touched, left>>

RunDeclares == Declared(app, run.settings)
Staging == Batch(dev, WipeOperations(run.current) \o UciOperations(Compile[app][run.settings]))
Reverted(at) == run' = [run EXCEPT !.at = at] /\ delta' = <<>>
Stage ==
    /\ At("read")
    /\ IF Staging.failed THEN Reverted("refused")
       ELSE run' = [run EXCEPT !.at = "staged"] /\ delta' = Staging.delta
    /\ UNCHANGED <<dev, app, saved, live, plan, meddled, touched, left>>

\* Verified, the sections nothing keeps are as declared, whoever changed them before.
KeptLines(c) == {k \in DOMAIN Lines(c) : \E i \in DOMAIN c : KeyOf(c, i) = k[1] /\ c[i].type \in Keep}
Verify ==
    /\ At("staged")
    /\ IF VerifyConfigs(Shown, RunDeclares)
       THEN /\ run' = [run EXCEPT !.at = "verified"]
            /\ meddled' = meddled \cap (KeptLines(run.checked) \cup KeptLines(Shown))
            /\ UNCHANGED delta
       ELSE Reverted("refused") /\ UNCHANGED meddled
    /\ UNCHANGED <<dev, app, saved, live, plan, touched, left>>

Commit ==
    /\ At("verified")
    /\ run' = [run EXCEPT !.at = "committed"]
    /\ IF ChangedConfigs(run.current, RunDeclares)
       THEN dev' = Load(Shown) /\ delta' = <<>>
       ELSE UNCHANGED <<dev, delta>>
    /\ UNCHANGED <<app, saved, live, plan, meddled, touched, left>>

-----------------------------------------------------------------------------
(* How it ends: on this device, and in what is kept of it. *)

Ended == run' = NoRun /\ meddled' = {} /\ UNCHANGED <<app, saved, plan, left>>
RunIsLive == [live EXCEPT !.settings = run.settings]
Stamped(l) == [l EXCEPT !.stamp = StampOf(RunDeclares), !.of = [app |-> app, settings |-> run.settings]]

\* Applied: the settings are live.  Partial, or the job ended before making them live: only stamped.
EndsStamped ==
    /\ At("committed") /\ run.settings \notin LowLevel
    /\ live' \in {Stamped(RunIsLive), Stamped(live)}
    /\ touched' = meddled
    /\ Ended /\ UNCHANGED <<dev, delta>>

\* A low-level file's, or the tool died with the change kept: nothing says so.
EndsUnsaid ==
    /\ At("committed")
    /\ touched' = touched \cup Differing(Lines(run.checked), Lines(dev))
    /\ Ended /\ UNCHANGED <<dev, delta, live>>

\* Refused, failed, or not confirmed: with packages or the commit undone by the watchdog.
RollsBack ==
    /\ run.at \in {"armed", "prepared", "read", "staged", "verified", "refused", "committed", "dead"}
    /\ dev' = run.snapshot /\ delta' = <<>>
    /\ Ended /\ UNCHANGED <<live, touched>>

\* With nothing done that a revert does not undo, its watchdog is stood down.
GivesUp ==
    /\ run.at \in {"planned", "armed", "prepared", "read", "staged", "refused"} /\ ~run.installed
    /\ UNCHANGED dev /\ delta' = <<>>
    /\ Ended /\ UNCHANGED <<live, touched>>

\* Its watchdog is still armed: no run plans until it has fired.
Dies ==
    /\ run.at \in {"prepared", "staged", "verified"}
    /\ run' = [run EXCEPT !.at = "dead"]
    /\ UNCHANGED <<dev, delta, app, saved, live, plan, meddled, touched, left>>

Next ==
    \/ HandEdit \/ SaveSettings \/ UpdateApp
    \/ ReviewBegins \/ ReviewReads
    \/ Start \/ TakesSnapshot \/ StartRefused \/ PlanDevice \/ PlanStale \/ Arm \/ Prepare \/ ReadCurrent \/ Stage \/ Verify \/ Commit
    \/ EndsStamped \/ EndsUnsaid \/ RollsBack \/ GivesUp \/ Dies

Spec == Init /\ [][Next]_vars

-----------------------------------------------------------------------------
(* Properties. *)

\* An anonymous section's place moves with the others'.
ByOthers(k, keys) ==
    \/ k \in keys
    \/ \E t \in keys : Len(k[1]) > 1 /\ Len(t[1]) > 1 /\ t[1][1] = k[1][1] /\ t[2] = k[2]

\* A reviewed run leaves the device as its review said, line by line: what the
\* plan's changes make of what the run checked, but for the lines someone
\* changed after that check where nothing is declared, or after the staged
\* config was verified, and for secrets, which the state hash leaves out.  Not
\* where the settings were saved as the run took its copy (RunsWhatWasReviewed of
\* MCConfigChange).
IsOfReview == run.settings = run.verify.version
AsReviewed ==
    At("committed") /\ run.verify.at = "read" /\ IsOfReview =>
        LET diff == run.verify.diff
            before == Renamed(Lines(run.checked), diff.pairs)
            changed(k) == {l \in diff.lines : l.key = k}
            said(k) == IF changed(k) = {} THEN LineAt(before, k) ELSE (CHOOSE l \in changed(k) : TRUE).after
        IN  \A k \in DOMAIN before \cup DOMAIN Lines(dev) \cup {l.key : l \in diff.lines} :
                \/ Secret(k)
                \/ ByOthers(k, meddled) \/ ByOthers(OldKey(diff.pairs, k), meddled)
                \/ LineAt(Lines(dev), k) = said(k)

\* A staged config is refused only where somebody changed it since it was read,
\* or a section the device keeps has a name the settings give to another type:
\* left alone, the wipe and the declaration make what is declared, whatever
\* the device held.
NameTaken(sections) ==
    \E i \in DOMAIN run.current, j \in DOMAIN sections :
        /\ run.current[i].name = sections[j].name
        /\ run.current[i].type \in Keep /\ run.current[i].type # sections[j].type
RefusedWhenMeddled == At("refused") => run.disturbed \/ NameTaken(RunDeclares)

\* What a review says of a change is so.  "On the device": somebody, or a run
\* that was not recorded, changed it there since the stamp.  "An update": this
\* version makes of the live settings what the stamp's did not.  "Your edit":
\* the settings are not the live ones.  Left out: the options of a section an
\* update itself renamed, and updates where the stamp is a partial apply's.
WhyIsTrue ==
    At("idle") /\ live.settings # "none" =>
        LET diff == Diff(Shown, Declared(app, saved))
            whys == Whys(diff)
            old(k) == OldKey(diff.pairs, k)
            byUpdate(k) == \E p \in whys.pairs : p.pair.to = k[1] /\ p.why = "update"
            partial == live.of.settings # live.settings
            makes(version) == Lines(Declared(version, live.settings))
            byOthers(k) == ByOthers(k, touched)
            isSo(k, why) ==
                CASE why = "device" -> byOthers(k) \/ byOthers(old(k)) \/ byUpdate(k)
                  [] why = "update" -> partial \/ LineAt(makes(app), k) # LineAt(makes(live.of.app), k)
                  [] why = "edit" -> saved # live.settings
                  [] OTHER -> TRUE
        IN  /\ \A l \in whys.lines : isSo(l.key, l.why)
            /\ \A p \in whys.pairs :
                    CASE p.why = "device" -> byOthers(<<p.pair.to, "">>)
                      [] p.why = "update" -> partial \/ <<p.pair.from, "">> \notin DOMAIN makes(app)
                      [] p.why = "edit" -> saved # live.settings
                      [] OTHER -> TRUE
=============================================================================
