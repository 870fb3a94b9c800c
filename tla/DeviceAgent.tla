---------------------------- MODULE DeviceAgent ----------------------------
(***************************************************************************)
(* One device of one apply: the agent script's verbs, its watchdog, the    *)
(* boot script, and the orchestrator's calls to it (src/agent/script.ts,   *)
(* src/agent/index.ts, src/apply/).                                        *)
(*                                                                         *)
(* The watchdog, the verbs and the boot script run one shell command at a  *)
(* time and interleave freely.  A call whose answer is lost leaves its     *)
(* verb running on the device beside the next one.  There is no clock: a   *)
(* sleep may end at any moment, so every race of a deadline with a verb    *)
(* is explored.                                                            *)
(***************************************************************************)
EXTENDS Naturals, FiniteSets

CONSTANTS
    MaxWatchdogs,    \* bound: watchdog processes ever started on the device
    MaxCalls,        \* bound: verbs running at once (the awaited one, and those whose answer was lost)
    MaxLost,         \* bound: answers lost
    MaxKills,        \* bound: watchdogs killed from outside (out of memory)
    MaxCuts,         \* bound: power cuts
    MaxFailed,       \* bound: commands of a restore that fail, a missing boot script counted
    Modes,           \* the rollback modes explored
    Works,           \* what the apply changes besides config: sets of "packages", "files"
    SettleOutlasts   \* a disarm's 5 s settle outlasts a woken watchdog's next two commands

ASSUME BoundsAssumption ==
    /\ MaxWatchdogs \in Nat \ {0} /\ MaxCalls \in Nat \ {0}
    /\ MaxLost \in Nat /\ MaxKills \in Nat /\ MaxCuts \in Nat /\ MaxFailed \in Nat
ASSUME ModesAssumption == Modes \subseteq {"reload", "reboot", "reload-then-reboot"}
ASSUME WorksAssumption == Works \subseteq SUBSET {"packages", "files"}
ASSUME SettleAssumption == SettleOutlasts \in BOOLEAN

VARIABLES
    flash,    \* what survives a restart
    ram,      \* /tmp: the run's directory, its markers, uci's staged changes
    up,       \* "up", "dead" (no boot links), or where the boot script is
    wd,       \* the watchdog processes
    verb,     \* the verbs running on the device
    client,   \* the apply's phase for this device, the call it awaits, what it was told
    past,     \* history: what went wrong or was cut short, that no later state shows
    left      \* what the bounds still allow

device == <<flash, ram, up>>
vars == <<flash, ram, up, wd, verb, client, past, left>>

Watchdog == 1..MaxWatchdogs
Call == 1..MaxCalls

-----------------------------------------------------------------------------
(* State. *)

Settings == {"old", "part", "new", "none"}   \* "none": renamed away, nothing in its place yet

Flash == [config: Settings,                  \* /etc/config
          aside: BOOLEAN,                    \* a copy beside it, config.onc-new
          files: {"old", "new"},             \* the managed files
          links: {"old", "new", "none"},     \* /etc/rc.d
          packages: {"old", "new"},
          boot: {"none", "part", "config", "whole"}, \* this run's boot-time copy
          init: BOOLEAN,                     \* the boot script and its link, an earlier apply's or this one's
          applied: BOOLEAN]                  \* the marker first-boot scripts look for

Marks == {"snapshot", "committed", "confirmed", "restoring", "restored", "recovered"}

Ram == [staged: BOOLEAN,                     \* uncommitted uci changes
        script: BOOLEAN,                     \* the agent and its step directory
        dir: BOOLEAN,                        \* the run's directory
        marks: SUBSET Marks,                 \* files in it
        pid: 0..MaxWatchdogs,                \* watchdog.pid
        slept: 0..MaxWatchdogs,              \* sleep.pid, by whose sleep it names
        out: SUBSET {"committed", "disarmed"}] \* markers beside the directory

EmptyRam == [staged |-> FALSE, script |-> FALSE, dir |-> FALSE, marks |-> {}, pid |-> 0, slept |-> 0, out |-> {}]

\* History: what a restore could not put back, a cut between two renames, a restart that runs
\* the boot script on this run's copy, a step verb that changed the device beside or after a restore.
Events == {"config not copied", "files not back", "packages not back", "links not copied", "cut in a swap",
           "restarted on part", "restarted on config", "restarted on whole", "overlapped"}
NotBack == {"config not copied", "files not back", "packages not back", "links not copied"}
MayFail == Cardinality(past \cap NotBack) + (IF flash.init THEN 0 ELSE 1) < MaxFailed

TouchAnyway(mark) == [ram EXCEPT !.marks = @ \cup {mark}]  \* mutant: a touch that makes the directory
Touch(mark) == IF ram.dir THEN [ram EXCEPT !.marks = @ \cup {mark}] ELSE ram
WithoutDir(r) == [r EXCEPT !.dir = FALSE, !.marks = {}, !.pid = 0, !.slept = 0]

\* is_watchdog, own_sleep and died_asleep, given what a verb read of the pid files.
Alive(w) == w # 0 /\ wd[w].at \notin {"off", "ended"}
OwnSleep(s, p) == s # 0 /\ s = p /\ wd[p].at = "asleep" /\ wd[p].sleeps
DiedAsleep(p) == ram.slept # 0 /\ "restoring" \notin ram.marks /\ ~Alive(p)

-----------------------------------------------------------------------------
(* The watchdog: watchdog() of the agent. *)

WatchdogAt == {"off", "starting", "falling asleep", "asleep", "deciding",
               "standing down", "saying disarmed", "clearing",
               "unconfirmed", "copying", "swapping", "swapped", "unbooting", "unstaging",
               "files", "packages", "links", "linked", "settled", "awaiting", "ended"}

\* Between its mark and the end: what a restore is in the middle of.
RestoringAt == {"copying", "swapping", "swapped", "unbooting", "unstaging",
                "files", "packages", "links", "linked", "settled", "awaiting"}

CanStart == \E w \in Watchdog : wd[w].at = "off"
Started == [wd EXCEPT ![CHOOSE w \in Watchdog : /\ wd[w].at = "off"
                                                /\ \A x \in 1..(w - 1) : wd[x].at # "off"].at = "starting"]

Goes(w, from, to) == wd[w].at = from /\ wd' = [wd EXCEPT ![w].at = to]
OthersThanWatchdog == <<verb, client, left>>

\* [ -d "$R" ] || exit; its pid written.
WatchdogBegins(w) ==
    /\ \/ /\ ~ram.dir
          /\ Goes(w, "starting", "ended")
          /\ UNCHANGED ram
       \/ /\ ram.dir
          /\ Goes(w, "starting", "falling asleep")
          /\ ram' = [ram EXCEPT !.pid = w]
    /\ UNCHANGED <<flash, up, past, OthersThanWatchdog>>

\* sleep, and its pid written; with the directory gone its timeout is too, and it does not sleep.
WatchdogSleeps(w) ==
    /\ wd[w].at = "falling asleep"
    /\ wd' = [wd EXCEPT ![w] = [at |-> "asleep", sleeps |-> ram.dir]]
    /\ ram' = IF ram.dir THEN [ram EXCEPT !.slept = w] ELSE ram
    /\ UNCHANGED <<flash, up, past, OthersThanWatchdog>>

\* The window runs out.
SleepEnds(w) ==
    /\ wd[w].at = "asleep" /\ wd[w].sleeps
    /\ wd' = [wd EXCEPT ![w].sleeps = FALSE]
    /\ UNCHANGED <<device, past, OthersThanWatchdog>>

WatchdogWakes(w) ==
    /\ ~wd[w].sleeps
    /\ Goes(w, "asleep", "deciding")
    /\ UNCHANGED <<device, past, OthersThanWatchdog>>

\* The run dropped meanwhile, confirmed, or neither.
WatchdogDecides(w) ==
    /\ \/ ~ram.dir /\ Goes(w, "deciding", "ended")
       \/ ram.dir /\ "confirmed" \in ram.marks /\ Goes(w, "deciding", "standing down")
       \/ ram.dir /\ "confirmed" \notin ram.marks /\ Goes(w, "deciding", "unconfirmed")
    /\ UNCHANGED <<device, past, OthersThanWatchdog>>

\* What it leaves beside its directory of the commit's marker.
LeavesNoMark == ram.out                              \* mutant: the marker goes with the directory
LeavesCommitMark == IF "committed" \in ram.marks THEN ram.out \cup {"committed"} ELSE ram.out

\* Its markers first, then its copy and directory.
WatchdogStandsDown(w) ==
    /\ \/ /\ Goes(w, "standing down", "saying disarmed")
          /\ ram' = [ram EXCEPT !.out = LeavesCommitMark]
          /\ UNCHANGED flash
       \/ /\ Goes(w, "saying disarmed", "clearing")
          /\ ram' = [ram EXCEPT !.out = @ \cup {"disarmed"}]
          /\ UNCHANGED flash
       \/ /\ Goes(w, "clearing", "ended")
          /\ flash' = [flash EXCEPT !.boot = "none"]
          /\ ram' = WithoutDir(ram)
    /\ UNCHANGED <<up, past, OthersThanWatchdog>>

\* touch "$R/restoring": from here a disarm says it fired.
WatchdogFires(w) ==
    /\ Goes(w, "unconfirmed", "copying")
    /\ ram' = Touch("restoring")
    /\ UNCHANGED <<flash, up, past, OthersThanWatchdog>>

\* The snapshot copied beside /etc/config; with no room the current config stays.
WatchdogCopies(w) ==
    /\ \/ /\ "snapshot" \in ram.marks
          /\ Goes(w, "copying", "swapping")
          /\ flash' = [flash EXCEPT !.aside = TRUE]
          /\ UNCHANGED past
       \/ /\ MayFail \/ "snapshot" \notin ram.marks
          /\ Goes(w, "copying", "unbooting")
          /\ flash' = [flash EXCEPT !.aside = FALSE]
          /\ past' = past \cup {"config not copied"}
    /\ UNCHANGED <<ram, up, OthersThanWatchdog>>

\* Two renames: there is no /etc/config between them.
SwapOut == flash' = [flash EXCEPT !.config = "none"]
SwapIn(copied) == flash' = IF flash.aside /\ flash.config = "none"
                             THEN [flash EXCEPT !.config = copied, !.aside = FALSE] ELSE flash

WatchdogSwaps(w) ==
    /\ \/ /\ flash.config # "none"
          /\ Goes(w, "swapping", "swapped")
          /\ SwapOut
       \/ /\ flash.config = "none"            \* the first rename fails, and so does the pair
          /\ Goes(w, "swapping", "unbooting")
          /\ UNCHANGED flash
       \/ /\ Goes(w, "swapped", "unbooting")
          /\ SwapIn("old")
    /\ UNCHANGED <<ram, up, past, OthersThanWatchdog>>

\* The boot-time copy dropped, staged changes reverted, the files put back one by one, unchecked.
WatchdogRestores(w) ==
    /\ \/ /\ Goes(w, "unbooting", "unstaging")
          /\ flash' = [flash EXCEPT !.boot = "none"]
          /\ UNCHANGED <<ram, past>>
       \/ /\ Goes(w, "unstaging", "files")
          /\ ram' = [ram EXCEPT !.staged = FALSE]
          /\ UNCHANGED <<flash, past>>
       \/ /\ Goes(w, "files", "packages")
          /\ flash' = IF "snapshot" \in ram.marks THEN [flash EXCEPT !.files = "old"] ELSE flash
          /\ UNCHANGED <<ram, past>>
       \/ /\ "snapshot" \in ram.marks /\ flash.files = "new" /\ MayFail
          /\ Goes(w, "files", "packages")
          /\ past' = past \cup {"files not back"}
          /\ UNCHANGED <<flash, ram>>
    /\ UNCHANGED <<up, OthersThanWatchdog>>

\* The new ones deleted, the removed ones added from the files staged before the arm.  Either apk
\* may fail, which is only said; its database is locked while a prepare's apk runs.
WatchdogRestoresPackages(w) ==
    LET locked == \E c \in Call : verb[c].at = "installing"
        listed == "snapshot" \in ram.marks IN
    /\ Goes(w, "packages", "links")
    /\ \/ /\ locked
          /\ past' = past \cup {"overlapped"}
          /\ UNCHANGED flash
       \/ /\ ~locked
          /\ flash' = IF listed THEN [flash EXCEPT !.packages = "old"] ELSE flash
          /\ UNCHANGED past
       \/ /\ ~locked /\ listed /\ flash.packages = "new" /\ MayFail
          /\ past' = past \cup {"packages not back"}
          /\ UNCHANGED flash
    /\ UNCHANGED <<ram, up, OthersThanWatchdog>>

\* rc.d, copied and then swapped in by two renames; left alone if it cannot be copied.
WatchdogRestoresLinks(w) ==
    /\ \/ /\ "snapshot" \in ram.marks /\ flash.links # "none"
          /\ Goes(w, "links", "linked")
          /\ flash' = [flash EXCEPT !.links = "none"]
          /\ UNCHANGED past
       \/ /\ MayFail \/ "snapshot" \notin ram.marks
          /\ Goes(w, "links", "settled")
          /\ past' = past \cup {"links not copied"}
          /\ UNCHANGED flash
       \/ /\ Goes(w, "linked", "settled")
          /\ flash' = [flash EXCEPT !.links = "old"]
          /\ UNCHANGED past
    /\ UNCHANGED <<ram, up, OthersThanWatchdog>>

-----------------------------------------------------------------------------
(* Restarts: the watchdog's own, a power cut, and the boot script. *)

UpAt == {"up", "dead", "boot", "boot swapping", "boot swapped", "boot files", "boot links", "boot linked", "boot end"}

Silent == [at |-> "idle", p |-> 0, s |-> 0, answer |-> "none"]

RamOnFlash == [ram EXCEPT !.staged = FALSE]           \* mutant: the run's directory kept over a restart
RamAfterRestart == EmptyRam

\* Every process ends and /tmp is empty; without boot links no script runs at all, and without the
\* boot script no copy is looked at.
Restart ==
    /\ wd' = [w \in Watchdog |-> IF wd[w].at = "off" THEN wd[w] ELSE [at |-> "ended", sleeps |-> FALSE]]
    /\ verb' = [c \in Call |-> Silent]
    /\ ram' = RamAfterRestart
    /\ up' = IF flash.links = "none" THEN "dead" ELSE IF flash.init THEN "boot" ELSE "up"
    /\ past' = past \cup {event \in Events :
                           \/ event = "cut in a swap" /\ "none" \in {flash.config, flash.links}
                           \/ event = "restarted on part" /\ flash.init /\ flash.boot = "part"
                           \/ event = "restarted on config" /\ flash.init /\ flash.boot = "config"
                           \/ event = "restarted on whole" /\ flash.init /\ flash.boot = "whole"}

\* rollback mode "reboot", once everything is back on flash.
WatchdogReboots(w) ==
    /\ wd[w].at = "settled" /\ client.mode = "reboot"
    /\ Restart
    /\ UNCHANGED <<flash, client, left>>

\* The old config reloaded and its services put back as they were.
WatchdogReloads(w) ==
    /\ client.mode # "reboot"
    /\ Goes(w, "settled", "awaiting")
    /\ ram' = Touch("restored")
    /\ UNCHANGED <<flash, up, past, OthersThanWatchdog>>

\* Told access is back, or forbidden to reboot: it cleans up after itself.
WatchdogCleansUp(w) ==
    /\ "recovered" \in ram.marks \/ client.mode = "reload"
    /\ Goes(w, "awaiting", "ended")
    /\ ram' = [WithoutDir(ram) EXCEPT !.script = FALSE]
    /\ UNCHANGED <<flash, up, past, OthersThanWatchdog>>

\* Not told in time: a restart is its last resort.
WatchdogGivesUp(w) ==
    /\ wd[w].at = "awaiting" /\ client.mode = "reload-then-reboot"
    /\ Restart
    /\ UNCHANGED <<flash, client, left>>

WatchdogStep(w) ==
    \/ WatchdogBegins(w) \/ WatchdogSleeps(w) \/ WatchdogWakes(w) \/ WatchdogDecides(w)
    \/ WatchdogStandsDown(w) \/ WatchdogFires(w) \/ WatchdogCopies(w) \/ WatchdogSwaps(w)
    \/ WatchdogRestores(w) \/ WatchdogRestoresPackages(w) \/ WatchdogRestoresLinks(w)
    \/ WatchdogReboots(w) \/ WatchdogReloads(w) \/ WatchdogCleansUp(w) \/ WatchdogGivesUp(w)

\* Killed from outside, while it lives.
WatchdogKilled(w) ==
    /\ Alive(w) /\ left.kills > 0
    /\ wd' = [wd EXCEPT ![w] = [at |-> "ended", sleeps |-> FALSE]]
    /\ left' = [left EXCEPT !.kills = @ - 1]
    /\ UNCHANGED <<device, verb, client, past>>

PowerCut ==
    /\ left.cuts > 0
    /\ Restart
    /\ left' = [left EXCEPT !.cuts = @ - 1]
    /\ UNCHANGED <<flash, client>>

\* boot(): the copy's config, then its files and links if the copy is whole, then the copy goes.
\* All it asks of the config's copy is that its directory is there, as it may be of one cut short.
BootStep ==
    /\ \/ up = "boot" /\ flash.boot = "none" /\ up' = "up" /\ UNCHANGED <<flash, past>>
       \/ up = "boot" /\ flash.boot = "part" /\ up' = "boot end" /\ UNCHANGED <<flash, past>>
       \/ up = "boot" /\ flash.boot # "none" /\ up' = "boot swapping"
          /\ flash' = [flash EXCEPT !.aside = TRUE] /\ UNCHANGED past
       \/ up = "boot" /\ flash.boot # "none" /\ MayFail /\ up' = "boot files"
          /\ flash' = [flash EXCEPT !.aside = FALSE]
          /\ past' = past \cup {"config not copied"}
       \/ up = "boot swapping" /\ flash.config # "none" /\ up' = "boot swapped" /\ SwapOut /\ UNCHANGED past
       \/ up = "boot swapping" /\ flash.config = "none" /\ up' = "boot files" /\ UNCHANGED <<flash, past>>
       \/ up = "boot swapped" /\ up' = "boot files" /\ UNCHANGED past
          /\ SwapIn(IF flash.boot = "part" THEN "part" ELSE "old")
       \/ up = "boot files" /\ flash.boot \in {"part", "config"} /\ up' = "boot end" /\ UNCHANGED <<flash, past>>
       \/ up = "boot files" /\ flash.boot = "whole" /\ up' = "boot links"
          /\ flash' = [flash EXCEPT !.files = "old"] /\ UNCHANGED past
       \/ up = "boot files" /\ flash.boot = "whole" /\ flash.files = "new" /\ MayFail /\ up' = "boot links"
          /\ past' = past \cup {"files not back"} /\ UNCHANGED flash
       \/ up = "boot links" /\ up' = "boot linked"
          /\ flash' = [flash EXCEPT !.links = "none"] /\ UNCHANGED past
       \/ up = "boot links" /\ MayFail /\ up' = "boot end"
          /\ past' = past \cup {"links not copied"} /\ UNCHANGED flash
       \/ up = "boot linked" /\ up' = "boot end"
          /\ flash' = [flash EXCEPT !.links = "old"] /\ UNCHANGED past
       \/ up = "boot end" /\ up' = "up"
          /\ flash' = [flash EXCEPT !.boot = "none"] /\ UNCHANGED past
    /\ UNCHANGED <<ram, wd, verb, client, left>>

-----------------------------------------------------------------------------
(* The verbs.  One answers "yes" (its word said), "kept" (asleep only) or  *)
(* "no"; what it wrote before failing stays.                               *)

VerbAt == {"idle", "said",
           "installing boot script", "snapshotting", "copying to flash", "copying more", "launching", "settling",
           "discarding staged", "installing", "staging", "writing",
           "committing", "committing more", "reloading", "starting services",
           "finished?", "asleep?", "reverting", "recovered?", "done",
           "disarm", "confirming", "waking", "settling disarm", "still asleep?", "stood down?",
           "clearing copies", "was it committed?", "or before it left?", "marking applied",
           "drop", "settling drop", "dropping", "rollback-now", "relaunching"}

\* Where each verb starts.
Begins == [arm |-> "installing boot script", prepare |-> "discarding staged", stage |-> "staging", finalise |-> "committing",
           services |-> "starting services", commit_finished |-> "finished?", asleep |-> "asleep?",
           disarm |-> "disarm", done |-> "done", rollback_now |-> "rollback-now", recovered |-> "recovered?",
           drop |-> "drop", revert |-> "reverting"]

Then(c, from, to) == verb[c].at = from /\ verb' = [verb EXCEPT ![c].at = to]
Says(c, from, answer) == verb[c].at = from /\ verb' = [verb EXCEPT ![c] = [Silent EXCEPT !.at = "said", !.answer = answer]]
OthersThanVerb == <<up, client, left>>

\* Whether a step verb changed the device beside a restore, or after one.
RestoreBegan == "restoring" \in ram.marks \/ ~ram.dir \/ \E w \in Watchdog : wd[w].at \in RestoringAt
NotesOverlap == past' = IF flash' # flash /\ RestoreBegan THEN past \cup {"overlapped"} ELSE past

\* arm: the boot script, if there is room; the snapshot, whole or not armed; the flash copy, made in
\* place, as much as there is room for; the watchdog.
Arm(c) ==
    /\ \/ /\ Then(c, "installing boot script", "snapshotting")
          /\ \E there \in {flash.init, TRUE} : flash' = [flash EXCEPT !.init = there]
          /\ UNCHANGED <<ram, wd>>
       \/ /\ ram.dir /\ Then(c, "snapshotting", "copying to flash")
          /\ ram' = Touch("snapshot") /\ UNCHANGED <<flash, wd>>
       \/ /\ Says(c, "snapshotting", "no") /\ UNCHANGED <<flash, ram, wd>>
       \/ /\ Then(c, "copying to flash", "copying more")
          /\ flash' = [flash EXCEPT !.boot = "part"]
          /\ UNCHANGED <<ram, wd>>
       \/ /\ Then(c, "copying more", "launching")
          \* dropped meanwhile, the removal and the copy may each leave some of it
          /\ \E copy \in IF flash.boot = "part" THEN {"none", "config"} \cup (IF ram.dir THEN {"whole"} ELSE {})
                                             ELSE {"none", "part"} :
                flash' = [flash EXCEPT !.boot = copy]
          /\ UNCHANGED <<ram, wd>>
       \/ /\ Then(c, "launching", "settling")
          /\ IF ram.script THEN CanStart /\ wd' = Started ELSE UNCHANGED wd
          /\ UNCHANGED <<flash, ram>>
       \/ /\ Says(c, "settling", IF ram.slept # 0 THEN "yes" ELSE "no") /\ UNCHANGED <<flash, ram, wd>>
    /\ UNCHANGED <<past, OthersThanVerb>>

\* prepare: committed state, then the packages; an apk that fails may have done some of its work.
Prepare(c) ==
    /\ \/ /\ ram.script /\ Then(c, "discarding staged", "installing")
          /\ ram' = [ram EXCEPT !.staged = FALSE] /\ UNCHANGED flash
       \/ /\ Says(c, "discarding staged", "no") /\ UNCHANGED <<flash, ram>>
       \/ /\ "packages" \in client.work
          /\ \/ /\ Says(c, "installing", "yes") /\ flash' = [flash EXCEPT !.packages = "new"]
             \/ /\ Says(c, "installing", "no")
                /\ \E some \in {flash.packages, "new"} : flash' = [flash EXCEPT !.packages = some]
          /\ UNCHANGED ram
       \/ /\ "packages" \notin client.work /\ Says(c, "installing", "yes") /\ UNCHANGED <<flash, ram>>
    /\ NotesOverlap
    /\ UNCHANGED <<wd, OthersThanVerb>>

\* stage: the uci batch, then the managed files (read from the step directory).
Stage(c) ==
    /\ \/ /\ ram.script /\ Then(c, "staging", "writing")
          /\ ram' = [ram EXCEPT !.staged = TRUE] /\ UNCHANGED flash
       \/ /\ \E some \in BOOLEAN : ram' = [ram EXCEPT !.staged = @ \/ (some /\ ram.script)]
          /\ Says(c, "staging", "no") /\ UNCHANGED flash
       \/ /\ ram.script /\ Says(c, "writing", "yes")
          /\ flash' = IF "files" \in client.work THEN [flash EXCEPT !.files = "new"] ELSE flash
          /\ UNCHANGED ram
       \/ /\ Says(c, "writing", "no")
          /\ \E some \in {flash.files} \cup (IF ram.script /\ "files" \in client.work THEN {"new"} ELSE {}) :
                flash' = [flash EXCEPT !.files = some]
          /\ UNCHANGED ram
    /\ NotesOverlap
    /\ UNCHANGED <<wd, OthersThanVerb>>

\* uci commit of a config: nothing where nothing is staged, or no config is there.
Committed(config) == IF ~ram.staged \/ config = "none" THEN config ELSE IF config = "old" THEN "part" ELSE "new"

\* finalise: each config committed by name, the reload, and only then the commit's marker.
Finalise(c) ==
    /\ \/ /\ Then(c, "committing", "committing more") /\ ram.script
          /\ flash' = [flash EXCEPT !.config = Committed(@)] /\ UNCHANGED ram
       \/ /\ Then(c, "committing more", "reloading") /\ ram.script
          /\ flash' = [flash EXCEPT !.config = Committed(@)]
          /\ ram' = [ram EXCEPT !.staged = FALSE]
       \/ /\ (Says(c, "committing", "no") \/ Says(c, "committing more", "no")) /\ UNCHANGED <<flash, ram>>
       \/ /\ Says(c, "reloading", "yes") /\ ram' = Touch("committed") /\ UNCHANGED flash
    /\ NotesOverlap
    /\ UNCHANGED <<wd, OthersThanVerb>>

\* services: enabled at boot (a link) and started; the declared ones' failures are said, not fatal.
Services(c) ==
    /\ Says(c, "starting services", "yes")
    /\ flash' = IF flash.links # "none" THEN [flash EXCEPT !.links = "new"] ELSE flash
    /\ NotesOverlap
    /\ UNCHANGED <<ram, wd, OthersThanVerb>>

Answered(p) == IF OwnSleep(ram.slept, p) /\ ram.marks \cap {"confirmed", "restoring"} = {} THEN "yes"
               ELSE IF DiedAsleep(p) THEN "kept" ELSE "no"

HasBegunRestoring == "restoring" \in ram.marks        \* mutant: access told back once the restore began
HasRestored == "restored" \in ram.marks

\* commit-finished, asleep, revert, recovered, done: one look, or one write, each.
ShortVerb(c) ==
    /\ \/ Says(c, "finished?", IF "committed" \in ram.marks THEN "yes" ELSE "no") /\ UNCHANGED ram
       \/ Says(c, "asleep?", Answered(ram.pid)) /\ UNCHANGED ram
       \/ Says(c, "reverting", "yes") /\ ram' = [ram EXCEPT !.staged = FALSE]
       \/ IF HasRestored
            THEN Says(c, "recovered?", "yes") /\ ram' = Touch("recovered")
            ELSE Says(c, "recovered?", "no") /\ UNCHANGED ram
       \/ /\ Says(c, "done", "yes")
          /\ ram' = [IF Alive(ram.pid) THEN ram ELSE WithoutDir(ram) EXCEPT !.script = FALSE, !.out = {}]
    /\ UNCHANGED <<flash, wd, past, OthersThanVerb>>

\* disarm, up to its evidence: already stood down; died asleep; fired; else the flag, and its sleep ended.
Disarm(c) ==
    LET v == verb[c] IN
    /\ \/ /\ "disarmed" \in ram.out /\ Then(c, "disarm", "clearing copies") /\ UNCHANGED <<ram, wd>>
       \/ /\ "disarmed" \notin ram.out /\ DiedAsleep(ram.pid)
          /\ Then(c, "disarm", "clearing copies") /\ UNCHANGED <<ram, wd>>
       \/ /\ "disarmed" \notin ram.out /\ ~DiedAsleep(ram.pid) /\ ~Alive(ram.pid)
          /\ Says(c, "disarm", "no") /\ UNCHANGED <<ram, wd>>
       \/ /\ "disarmed" \notin ram.out /\ Alive(ram.pid) /\ v.at = "disarm"
          /\ verb' = [verb EXCEPT ![c] = [@ EXCEPT !.at = "confirming", !.p = ram.pid, !.s = ram.slept]]
          /\ UNCHANGED <<ram, wd>>
       \/ Then(c, "confirming", "waking") /\ ram' = Touch("confirmed") /\ UNCHANGED wd
       \/ /\ Then(c, "waking", "settling disarm")
          /\ wd' = IF OwnSleep(v.s, v.p) THEN [wd EXCEPT ![v.p].sleeps = FALSE] ELSE wd
          /\ UNCHANGED ram
       \/ /\ Then(c, "settling disarm", "still asleep?")
          \* 5 s: not over while the watchdog, woken, has yet to decide and say so.
          /\ SettleOutlasts => ~Alive(v.p) \/ wd[v.p].at \notin {"deciding", "unconfirmed"}
          /\ UNCHANGED <<ram, wd>>
    /\ UNCHANGED <<flash, past, OthersThanVerb>>

\* Its watchdog still sleeps with the flag set, or has yet to see it.
SleepsFlagged(p) == Alive(p) /\ "confirmed" \in ram.marks  \* mutant: its restore's mark not looked at
SleepsConfirmed(p) == Alive(p) /\ "confirmed" \in ram.marks /\ "restoring" \notin ram.marks

\* Whether this run committed, by a marker in its directory or beside it.
MarksAlways(markers) == TRUE                          \* mutant: an untouched device marked too
CommittedBy(markers) == "committed" \in markers

\* disarm's evidence, in its order, and stood_down: every boot-time copy gone, the marker if committed.
DisarmEnds(c) ==
    LET sleeps == SleepsConfirmed(verb[c].p) IN
    /\ \/ sleeps /\ Then(c, "still asleep?", "clearing copies") /\ UNCHANGED flash
       \/ ~sleeps /\ Then(c, "still asleep?", "stood down?") /\ UNCHANGED flash
       \/ "disarmed" \in ram.out /\ Then(c, "stood down?", "clearing copies") /\ UNCHANGED flash
       \/ "disarmed" \notin ram.out /\ Says(c, "stood down?", "no") /\ UNCHANGED flash
       \/ Then(c, "clearing copies", "was it committed?") /\ flash' = [flash EXCEPT !.boot = "none"]
       \/ CommittedBy(ram.marks) /\ Then(c, "was it committed?", "marking applied") /\ UNCHANGED flash
       \/ ~CommittedBy(ram.marks) /\ Then(c, "was it committed?", "or before it left?") /\ UNCHANGED flash
       \/ CommittedBy(ram.out) /\ Then(c, "or before it left?", "marking applied") /\ UNCHANGED flash
       \/ ~CommittedBy(ram.out) /\ Says(c, "or before it left?", "yes") /\ UNCHANGED flash
       \/ Says(c, "marking applied", "yes") /\ flash' = [flash EXCEPT !.applied = TRUE]
    /\ UNCHANGED <<ram, wd, past, OthersThanVerb>>

\* drop: a live watchdog stood down first; one that will not end keeps its run.
Drop(c) ==
    LET v == verb[c] IN
    /\ \/ /\ Alive(ram.pid) /\ v.at = "drop"
          /\ verb' = [verb EXCEPT ![c] = [@ EXCEPT !.at = "settling drop", !.p = ram.pid]]
          /\ ram' = Touch("confirmed")
          /\ wd' = IF OwnSleep(ram.slept, ram.pid) THEN [wd EXCEPT ![ram.pid].sleeps = FALSE] ELSE wd
          /\ UNCHANGED flash
       \/ ~Alive(ram.pid) /\ Then(c, "drop", "dropping") /\ UNCHANGED <<flash, ram, wd>>
       \/ ~Alive(v.p) /\ Then(c, "settling drop", "dropping") /\ UNCHANGED <<flash, ram, wd>>
       \/ Alive(v.p) /\ Says(c, "settling drop", "no") /\ UNCHANGED <<flash, ram, wd>>
       \/ /\ Says(c, "dropping", "yes")
          /\ flash' = [flash EXCEPT !.boot = "none"]
          /\ ram' = [WithoutDir(ram) EXCEPT !.script = FALSE, !.out = {}]
          /\ UNCHANGED wd
    /\ UNCHANGED <<past, OthersThanVerb>>

\* rollback-now: its sleep ended, or already restoring; one that died asleep started again, with no wait.
RollbackNow(c) ==
    LET asleep == OwnSleep(ram.slept, ram.pid) IN
    /\ \/ /\ asleep /\ Says(c, "rollback-now", "yes")
          /\ wd' = [wd EXCEPT ![ram.pid].sleeps = FALSE]
       \/ ~asleep /\ "restoring" \in ram.marks /\ Says(c, "rollback-now", "yes") /\ UNCHANGED wd
       \/ /\ ~asleep /\ DiedAsleep(ram.pid) /\ "confirmed" \notin ram.marks
          /\ Then(c, "rollback-now", "relaunching") /\ UNCHANGED wd
       \/ /\ ~asleep /\ "restoring" \notin ram.marks /\ (~DiedAsleep(ram.pid) \/ "confirmed" \in ram.marks)
          /\ Says(c, "rollback-now", "no") /\ UNCHANGED wd
       \/ /\ ram.dir /\ Says(c, "relaunching", "yes")
          /\ IF ram.script THEN CanStart /\ wd' = Started ELSE UNCHANGED wd
       \/ ~ram.dir /\ Says(c, "relaunching", "no") /\ UNCHANGED wd
    /\ UNCHANGED <<flash, ram, past, OthersThanVerb>>

VerbStep(c) ==
    \/ Arm(c) \/ Prepare(c) \/ Stage(c) \/ Finalise(c) \/ Services(c) \/ ShortVerb(c)
    \/ Disarm(c) \/ DisarmEnds(c) \/ Drop(c) \/ RollbackNow(c)

-----------------------------------------------------------------------------
(* The apply's side, for this device: what it calls in each phase, and what *)
(* may follow each answer, a lost one included.  Where another device's     *)
(* failure can turn the run back, both ways are open.                       *)

PhaseVerb == [arming |-> "arm", dropping |-> "drop", redropping |-> "drop",
              preparing |-> "prepare", staging |-> "stage", committing |-> "finalise",
              reverting |-> "revert", revertingUnknown |-> "revert",
              starting |-> "services", confirming |-> "commit_finished", asking |-> "asleep", reasking |-> "asleep",
              disarming |-> "disarm", redisarming |-> "disarm", releasing |-> "disarm", rereleasing |-> "disarm",
              undoing |-> "rollback_now", reundoing |-> "rollback_now",
              recovering |-> "recovered", finishing |-> "done"]

Phase == DOMAIN PhaseVerb \cup {"over"}
Answer == {"yes", "kept", "no", "lost"}

\* Packages and files only the watchdog undoes: nothing else changed, its watchdog is stood down.
ReleasesReverted == {"releasing"}                     \* mutant: what uci's revert does not undo forgotten
AfterRevert == IF client.work # {} THEN {"undoing"} ELSE {"releasing"}

Following(phase, said) ==
    CASE phase = "arming" -> IF said = "yes" THEN {"preparing", "releasing"} ELSE {"dropping"}
      [] phase = "dropping" -> IF said = "yes" THEN {"over"} ELSE {"redropping", "recovering"}
      [] phase = "redropping" -> IF said = "yes" THEN {"over"} ELSE {"recovering"}
      [] phase = "preparing" -> IF said = "yes" THEN {"staging", "reverting"}
                                ELSE IF said = "no" THEN {"reverting"} ELSE {"revertingUnknown"}
      [] phase = "staging" -> IF said = "yes" THEN {"committing", "reverting"}
                              ELSE IF said = "no" THEN {"reverting"} ELSE {"revertingUnknown"}
      [] phase = "reverting" -> AfterRevert
      [] phase = "revertingUnknown" -> {"undoing"}
      \* A dropped commit is expected, and told from a failed one by its marker.
      [] phase = "committing" -> IF said = "no" THEN {"revertingUnknown"} ELSE {"starting", "undoing", "recovering"}
      [] phase = "starting" -> {"confirming", "recovering"}
      [] phase = "confirming" -> IF said = "yes" THEN {"asking", "undoing"} ELSE {"undoing"}
      [] phase = "asking" -> IF said \in {"yes", "kept"} THEN {"disarming", "undoing"}
                             ELSE IF said = "no" THEN {"recovering"} ELSE {"reasking", "recovering"}
      [] phase = "reasking" -> IF said \in {"yes", "kept"} THEN {"disarming", "undoing"} ELSE {"recovering"}
      [] phase = "disarming" -> IF said = "yes" THEN {"finishing"}
                                ELSE IF said = "no" THEN {"recovering"} ELSE {"redisarming", "recovering"}
      [] phase = "releasing" -> IF said = "yes" THEN {"finishing"}
                                ELSE IF said = "no" THEN {"recovering"} ELSE {"rereleasing", "recovering"}
      [] phase \in {"redisarming", "rereleasing"} -> IF said = "yes" THEN {"finishing"} ELSE {"recovering"}
      [] phase = "undoing" -> IF said = "yes" THEN {"recovering"} ELSE {"reundoing", "recovering"}
      [] phase = "reundoing" -> {"recovering"}
      [] phase = "recovering" -> IF said = "yes" THEN {"over"} ELSE {"recovering", "over"}
      [] OTHER -> {"over"}

\* What the run is told of this device, for good.
Told(phase, said) ==
    IF said # "yes" THEN client.told
    ELSE IF phase \in {"disarming", "redisarming"} THEN "kept"
    ELSE IF phase \in {"releasing", "rereleasing"} THEN "untouched"
    ELSE IF phase = "recovering" THEN "rolled back"
    ELSE IF phase \in {"dropping", "redropping"} THEN "dropped" ELSE client.told

Hears(said) ==
    \E phase \in Following(client.phase, said) :
        client' = [client EXCEPT !.phase = phase, !.awaits = 0, !.told = Told(client.phase, said)]

\* A call: over a session that is up, to an agent still there (sh finds none otherwise: no answer word).
CallVerb ==
    /\ client.phase # "over" /\ client.awaits = 0 /\ up = "up"
    /\ \E c \in Call :
        /\ verb[c].at = "idle" /\ \A x \in 1..(c - 1) : verb[x].at # "idle"
        /\ client' = [client EXCEPT !.awaits = c]
        /\ verb' = [verb EXCEPT ![c].at = IF ram.script THEN Begins[PhaseVerb[client.phase]] ELSE "said",
                                ![c].answer = IF ram.script THEN "none" ELSE "no"]
    /\ UNCHANGED <<device, wd, past, left>>

HearAnswer ==
    /\ client.awaits # 0 /\ verb[client.awaits].at = "said"
    /\ Hears(verb[client.awaits].answer)
    /\ verb' = [verb EXCEPT ![client.awaits] = Silent]
    /\ UNCHANGED <<device, wd, past, left>>

\* The link stalls or drops, or the call's time limit passes; its verb goes on.
LoseAnswer ==
    /\ client.awaits # 0 /\ left.losses > 0
    /\ Hears("lost")
    /\ left' = [left EXCEPT !.losses = @ - 1]
    /\ UNCHANGED <<device, wd, verb, past>>

\* The device is down: the call it was in is cut, and no new one gets in.
Unreachable ==
    /\ up # "up" /\ client.phase # "over"
    /\ Hears("lost")
    /\ UNCHANGED <<device, wd, verb, past, left>>

\* The tool's process ends, mid-run: nothing more is called.
ClientDies ==
    /\ client.phase # "over"
    /\ client' = [client EXCEPT !.phase = "over", !.awaits = 0]
    /\ UNCHANGED <<device, wd, verb, past, left>>

\* Nobody listens: what it says goes nowhere; one that writes as it goes may end at its next write.
Writes == {"discarding staged", "installing", "staging", "writing", "committing", "committing more", "starting services"}
VerbEnds(c) ==
    /\ c # client.awaits
    /\ verb[c].at \in Writes \cup {"said"}
    /\ verb' = [verb EXCEPT ![c] = Silent]
    /\ UNCHANGED <<device, wd, client, past, left>>

-----------------------------------------------------------------------------
(* The specification, from the agent just installed (begin). *)

Client == [phase: Phase, awaits: 0..MaxCalls, mode: Modes, work: Works,
           told: {"nothing", "kept", "untouched", "rolled back", "dropped"}]

Init ==
    /\ \E init \in BOOLEAN :
       flash = [config |-> "old", aside |-> FALSE, files |-> "old", links |-> "old", packages |-> "old",
                boot |-> "none", init |-> init, applied |-> FALSE]
    /\ ram = [EmptyRam EXCEPT !.script = TRUE, !.dir = TRUE]
    /\ up = "up"
    /\ wd = [w \in Watchdog |-> [at |-> "off", sleeps |-> FALSE]]
    /\ verb = [c \in Call |-> Silent]
    /\ \E mode \in Modes, work \in Works :
          client = [phase |-> "arming", awaits |-> 0, mode |-> mode, work |-> work, told |-> "nothing"]
    /\ past = {}
    /\ left = [losses |-> MaxLost, kills |-> MaxKills, cuts |-> MaxCuts]

Next ==
    \/ \E w \in Watchdog : WatchdogStep(w) \/ SleepEnds(w) \/ WatchdogKilled(w)
    \/ BootStep \/ PowerCut
    \/ \E c \in Call : VerbStep(c) \/ VerbEnds(c)
    \/ CallVerb \/ HearAnswer \/ LoseAnswer \/ Unreachable \/ ClientDies

Spec == Init /\ [][Next]_vars

\* A process that can run does; a sleep ends; the boot script runs to its end.
Fairness ==
    /\ \A w \in Watchdog : WF_vars(WatchdogStep(w)) /\ WF_vars(SleepEnds(w))
    /\ WF_vars(BootStep)
FairSpec == Spec /\ Fairness

-----------------------------------------------------------------------------
(* Properties. *)

FlashOK == flash \in Flash
RamOK == ram \in Ram /\ (ram.dir \/ (ram.marks = {} /\ ram.pid = 0 /\ ram.slept = 0))
WdOK == wd \in [Watchdog -> [at: WatchdogAt, sleeps: BOOLEAN]]
VerbOK == verb \in [Call -> [at: VerbAt, p: 0..MaxWatchdogs, s: 0..MaxWatchdogs, answer: {"none", "yes", "kept", "no"}]]
LeftOK == left \in [losses: 0..MaxLost, kills: 0..MaxKills, cuts: 0..MaxCuts]
ClientOK == client \in Client

\* Every variable is what it holds in the code; a run's files are in its directory.
TypeOK == FlashOK /\ RamOK /\ up \in UpAt /\ WdOK /\ VerbOK /\ ClientOK /\ past \subseteq Events /\ LeftOK

Restoring == \E w \in Watchdog : wd[w].at \in RestoringAt
StoodDown == client.told \in {"kept", "untouched"}

\* A device told disarmed (l.602: only on evidence) keeps what it holds: no
\* watchdog of the run goes on to restore it, and no copy on flash would
\* bring the old settings back at a restart, then or later.
DisarmedStays ==
    StoodDown => /\ ~Restoring
                 /\ \A w \in Watchdog : wd[w].at # "unconfirmed"
                 /\ flash.boot = "none"
                 /\ up \notin UpAt \ {"up", "boot"}
                 /\ flash.config = IF client.told = "kept" THEN "new" ELSE "old"

\* From its mark on, a watchdog's restore is known to whoever asks.
FiredIsMarked == ram.dir /\ Restoring => "restoring" \in ram.marks

\* A disarm that goes by its watchdog still sleeping with the flag set (l.603)
\* is right: that watchdog has not begun to restore and, the settle having
\* outlasted a waking one's next commands, is not about to either.
DisarmedOnEvidence ==
    [][\A c \in Call :
          verb[c].at = "still asleep?" /\ verb'[c].at = "clearing copies" =>
            /\ wd[verb[c].p].at \notin RestoringAt
            /\ SettleOutlasts => wd[verb[c].p].at # "unconfirmed"]_vars

\* A device told disarmed with its change committed carries the marker an
\* image's first-boot defaults look for, however the watchdog's leaving and
\* the disarm's two looks for the commit's marker interleave.
KeptIsMarked == client.told = "kept" => flash.applied

\* The marker is only ever on a device whose whole change was committed.
MarkedWasCommitted == [][flash'.applied /\ ~flash.applied => flash.config = "new"]_vars

\* A device the run reports rolled back has its config, files, packages and
\* boot links back and no copy left on flash, whatever was lost, killed or
\* cut on the way, but for what its restore itself could not put back (no room
\* for a copy, an apk that failed: at most said in its log) and a step verb
\* that still ran beside the restore.
RolledBackIsWhole ==
    client.told = "rolled back" /\ "overlapped" \notin past =>
        /\ flash.config = "old" \/ "config not copied" \in past
        /\ flash.files = "old" \/ "files not back" \in past
        /\ flash.packages = "old" \/ "packages not back" \in past
        /\ flash.links = "old" \/ "links not copied" \in past
        /\ flash.boot = "none"

\* A device whose boot script runs on a copy of this run, finished before the
\* restart, comes up on its old config and, the copy whole, its old files and
\* boot links, and stays on them whatever the apply still asks of it; but for
\* what the boot script could not copy and a cut between two renames.
RestartRestores ==
    /\ up = "up" /\ past \cap {"restarted on config", "restarted on whole"} # {} =>
         flash.config = "old" \/ past \cap {"config not copied", "cut in a swap"} # {}
    /\ up = "up" /\ "restarted on whole" \in past =>
         /\ flash.files = "old" \/ "files not back" \in past
         /\ flash.links = "old" \/ past \cap {"links not copied", "cut in a swap"} # {}

OldAgain == flash.config = "old" /\ flash.files = "old" /\ flash.packages = "old"
NewWhole == flash.config = "new" /\ (client.work # {} => flash.files = "new" /\ flash.packages = "new")

\* Whatever answers are lost and wherever the tool stops, the device ends
\* wholly on its old settings or wholly on the new ones, with no more than
\* its own watchdog to see to it; but for what a restore could not put back
\* and a step verb beside one.
EndsWhole ==
    \/ <>[]OldAgain \/ <>[]NewWhole
    \/ <>(past \cap {"config not copied", "files not back", "packages not back", "overlapped"} # {})
=============================================================================
