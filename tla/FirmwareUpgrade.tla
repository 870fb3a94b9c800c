-------------------------- MODULE FirmwareUpgrade --------------------------
(***************************************************************************)
(* A firmware upgrade, run before the apply that follows it (`provision    *)
(* --upgrade`: src/firmware/run.ts, upgrade.ts, upgradeScript.ts,          *)
(* src/cli/provision.ts), and its end at the app's next start where it     *)
(* flashes the router it runs on (src/firmware/self.ts).                   *)
(*                                                                         *)
(* Three processes: the run; the work on one device's session, which the   *)
(* run stops waiting for after 15 minutes (readEach), and which then goes  *)
(* on by itself where the session is local; and each device's sysupgrade,  *)
(* started a moment after its verb answered.  The apply is one step here   *)
(* (NetworkApply has it whole).                                            *)
(***************************************************************************)
EXTENDS FirmwarePlan

CONSTANTS
    Releases,       \* releases a device may run, or be given
    Asks,           \* what the settings and the user ask: [network, own, out, only, acks, unread, unbuildable]
    MaxFaults       \* bound: answers lost, writes failed, devices slow or moved by hand, kills, cuts

FirstBoot == 0
Release == Nat \X Nat
Running == {r \in Release : r[1] > FirstBoot}                 \* what a device may run: no series is numbered 0

\* What imagePlans, the settings and the newest of each series may be.
ASSUME AsksAssumption ==
    /\ Releases \subseteq Running /\ CheckedSeries \in Nat /\ MaxFaults \in Nat
    /\ \A ask \in Asks :
        LET wish(kinds) == {w \in [kind : kinds, release : Release] : w.kind = "release" => w.release \in Running}
        IN  /\ ask.network \in wish(WishKind \ {"network"}) /\ ask.own \in [Device -> wish(WishKind)]
            /\ IsFiniteSet(DOMAIN ask.out)
            /\ \A s \in DOMAIN ask.out : ask.out[s] \in {NoRelease} \cup {r \in Running : r[1] = s}
            /\ ask.only \cup ask.unread \cup ask.unbuildable \subseteq Device

VARIABLES
    ask,            \* one of Asks
    host,           \* the device this app runs on, or NoDevice
    via,            \* the access point whose Wi-Fi this machine is on, or NoDevice
    facts,          \* the release last read of each device
    dev,            \* each device: its release, the series its settings were written for, what it holds in RAM, its sysupgrade, this app kept on it
    run,            \* the upgrade: its place, plan, devices done, devices told failed, and how it ended
    work,           \* flashOne on the session of the run's device
    note,           \* upgrading.json: the release this app's device is being moved to
    app,            \* this app on its host: there, gone, or kept and not back yet; and where its next start is in finishing
    faults          \* what the bound still allows

fixed == <<ask, host, facts>>
vars == <<fixed, via, dev, run, work, note, app, faults>>

NoStep == [device |-> NoDevice, from |-> NoRelease, to |-> NoRelease, keep |-> "settings", host |-> FALSE]
NoWork == [at |-> "none", over |-> FALSE]

Fault == faults > 0 /\ faults' = faults - 1
Fine == UNCHANGED faults

Step == run.steps[run.i]
\* The device worked on, whatever the run went on to.
Current == run.steps[run.i].device
Sets(d, r) == dev' = [dev EXCEPT ![d] = r]
RunAt(p) == run' = [run EXCEPT !.at = p]
WorkAt(p) == work' = [work EXCEPT !.at = p]
Ends(how) == run' = [run EXCEPT !.at = "ended", !.end = how]

Plan(apphost, wifi) ==
    UpgradePlan(ask.network, ask.own, ask.out, facts, ask.only, ask.unbuildable, apphost, wifi)

Init ==
    /\ ask \in Asks
    /\ host \in {NoDevice, Router}
    /\ via \in (IF host = NoDevice THEN {NoDevice} \cup (Device \ Repeaters) ELSE {NoDevice})
    /\ \E runs \in [Device -> Releases] :
        /\ facts = [d \in Device |-> IF d \in ask.unread THEN NoRelease ELSE runs[d]]
        /\ dev = [d \in Device |-> [runs |-> runs[d], conf |-> runs[d][1], ram |-> "none",
                                    sys |-> "no", flash |-> NoStep, kept |-> FALSE]]
    /\ run = [at |-> "plan", i |-> 1, steps |-> <<>>, done |-> {}, told |-> {}, end |-> "none", seen |-> NoDevice]
    /\ work = NoWork /\ note = NoRelease
    /\ app = [there |-> "yes", start |-> "none"]
    /\ faults = MaxFaults

-----------------------------------------------------------------------------
(* upgradeFirst: planned, read, planned again, built.                      *)

PlansAlone ==
    /\ run.at = "plan"
    /\ LET draft == Plan(NoDevice, {})
       IN  IF Blind(ask.network, ask.own, ask.out, facts, ask.only) # {} \/ Refused(draft, ask.acks) THEN Ends("refused")
           ELSE run' = [run EXCEPT !.at = IF draft.steps = <<>> THEN "applying" ELSE "reading", !.steps = draft.steps]
    /\ Fine /\ UNCHANGED <<fixed, via, dev, work, note, app>>

ReadsNoPlan ==                                                \* mutant: planned once, before the devices are read
    /\ run.at = "reading"
    /\ run' = [run EXCEPT !.at = "building", !.seen = via]
    /\ Fine /\ UNCHANGED <<fixed, via, dev, work, note, app>>

\* Each device that would move, once: whether this app runs on it, and whether this machine is on its Wi-Fi.
ReadsDevices ==
    /\ run.at = "reading"
    /\ LET moving == {run.steps[i].device : i \in DOMAIN run.steps}
           plan == Plan(IF host \in moving THEN host ELSE NoDevice, {via} \cap moving)
       IN  IF Refused(plan, ask.acks) THEN Ends("refused")
           ELSE run' = [run EXCEPT !.at = "building", !.steps = plan.steps, !.seen = via]
    /\ Fine /\ UNCHANGED <<fixed, via, dev, work, note, app>>

DeviceNotRead ==
    /\ run.at = "reading"
    /\ Ends("refused")
    /\ Fault /\ UNCHANGED <<fixed, via, dev, work, note, app>>

\* requestImages: every image, or nothing is flashed.
Builds ==
    /\ run.at = "building"
    /\ \/ RunAt("next") /\ Fine
       \/ Ends("failed") /\ Fault
    /\ UNCHANGED <<fixed, via, dev, work, note, app>>

-----------------------------------------------------------------------------
(* upgradeEach: a device after the other, until the first failure.         *)

\* stopped, and planAfterUpgrade: those upgraded still get the settings.
Stops(d) ==
    run' = [run EXCEPT !.told = @ \cup {d},
                       !.at = IF run.done = {} THEN "ended" ELSE "applying",
                       !.end = IF run.done = {} THEN "failed" ELSE @]

OpensSession ==
    /\ run.at = "next" /\ run.i \in DOMAIN run.steps
    /\ \/ RunAt("flashing") /\ work' = [NoWork EXCEPT !.at = "session"] /\ Fine
       \/ Stops(Current) /\ UNCHANGED work /\ Fault
    /\ UNCHANGED <<fixed, via, dev, note, app>>

AllUpgraded ==
    /\ run.at = "next" /\ run.i \notin DOMAIN run.steps
    /\ RunAt("applying")
    /\ Fine /\ UNCHANGED <<fixed, via, dev, work, note, app>>

\* The time is up: the session closed, the work on it left to end by itself.
TimesOut ==
    /\ run.at = "flashing" /\ work.at \notin {"ok", "failed"}
    /\ Stops(Current) /\ work' = [work EXCEPT !.over = TRUE]
    /\ Fault /\ UNCHANGED <<fixed, via, dev, note, app>>

WorkDone ==
    /\ run.at = "flashing" /\ work.at \in {"ok", "failed"}
    /\ IF work.at = "failed" THEN Stops(Current)
       ELSE RunAt(IF Step.host THEN "own flash" ELSE "waiting")
    /\ work' = NoWork
    /\ Fine /\ UNCHANGED <<fixed, via, dev, note, app>>

NotWaitedFor ==                                               \* mutant: the next device at once
    /\ run.at = "waiting"
    /\ run' = [run EXCEPT !.at = "next", !.i = @ + 1, !.done = @ \cup {Current}]
    /\ Fine /\ UNCHANGED <<fixed, via, dev, work, note, app>>

\* backOn
ComesBack ==
    /\ run.at = "waiting"
    /\ dev[Current].sys # "writing" /\ dev[Current].runs = Step.to
    /\ run' = [run EXCEPT !.at = "next", !.i = @ + 1, !.done = @ \cup {Current}]
    /\ Fine /\ UNCHANGED <<fixed, via, dev, work, note, app>>

NotBack ==
    /\ run.at = "waiting"
    /\ Stops(Current)
    /\ IF dev[Current].sys = "no" /\ dev[Current].runs # Step.to THEN Fine ELSE Fault
    /\ UNCHANGED <<fixed, via, dev, work, note, app>>

NoteLeft ==                                                   \* mutant: its note left behind
    /\ run.at = "own flash" /\ dev[host].sys = "no"
    /\ Stops(host) /\ UNCHANGED note
    /\ Sets(host, [dev[host] EXCEPT !.ram = "none", !.kept = FALSE])
    /\ Fine /\ UNCHANGED <<fixed, via, work, app>>

\* upgradeThen, still there after selfFlashLimit: sysupgrade never began.
OwnFlashNeverBegan ==
    /\ run.at = "own flash" /\ dev[host].sys = "no"
    /\ Stops(host) /\ note' = NoRelease
    /\ Sets(host, [dev[host] EXCEPT !.ram = "none", !.kept = FALSE])
    /\ Fine /\ UNCHANGED <<fixed, via, work, app>>

-----------------------------------------------------------------------------
(* flashOne: the verbs of the device's script, in order.  A closed session *)
(* answers nothing, but a local one is no connection, and goes on.         *)

Answers == ~work.over \/ Step.host

Verb(at, d) == work.at = at /\ Answers /\ d = Current

SessionTrusted ==                                             \* mutant: what it runs now not asked
    /\ Verb("session", Current)
    /\ WorkAt("room") /\ Fine
    /\ UNCHANGED <<fixed, via, dev, run, note, app>>

\* Not the session planned for, not on the release planned from, or no script written.
ChecksSession ==
    /\ Verb("session", Current)
    /\ LET d == Current IN
       \/ (d = host) = Step.host /\ dev[d].runs = Step.from /\ WorkAt("room") /\ Fine
       \/ ~((d = host) = Step.host /\ dev[d].runs = Step.from) /\ WorkAt("failed") /\ Fine
       \/ WorkAt("failed") /\ Fault
    /\ UNCHANGED <<fixed, via, dev, run, note, app>>

Fetches ==
    /\ Verb("room", Current)
    /\ LET d == Current IN
       \/ WorkAt("check") /\ Sets(d, [dev[d] EXCEPT !.ram = "image"]) /\ Fine
       \/ WorkAt("clean") /\ Fault /\ \E left \in {"none", "part", "image"} : Sets(d, [dev[d] EXCEPT !.ram = left])
    /\ UNCHANGED <<fixed, via, run, note, app>>

Checks ==
    /\ Verb("check", Current)
    /\ LET d == Current IN
       \/ WorkAt(IF Step.host THEN "keep self" ELSE "flash") /\ Sets(d, [dev[d] EXCEPT !.ram = "checked"]) /\ Fine
       \/ WorkAt("clean") /\ Sets(d, [dev[d] EXCEPT !.ram = "none"]) /\ Fault
    /\ UNCHANGED <<fixed, via, run, note, app>>

NotKept ==                                                    \* mutant: the note alone
    /\ Verb("keep self", Current)
    /\ WorkAt("flash") /\ note' = Step.to
    /\ Fine /\ UNCHANGED <<fixed, via, dev, run, app>>

\* keep-self, then noteUpgrading, which a full disk only loses.
KeepsSelf ==
    /\ Verb("keep self", Current)
    /\ \/ WorkAt("flash") /\ Sets(host, [dev[host] EXCEPT !.kept = TRUE])
          /\ \/ note' = Step.to /\ Fine
             \/ UNCHANGED note /\ Fault
       \/ WorkAt("clean") /\ UNCHANGED note /\ Fault
          /\ \E kept \in BOOLEAN : Sets(host, [dev[host] EXCEPT !.kept = kept])
    /\ UNCHANGED <<fixed, via, run, app>>

\* flash or flash-keys: sysupgrade a moment after its answer, which may be lost.
Flashes ==
    /\ Verb("flash", Current)
    /\ LET d == Current
           due == [dev[d] EXCEPT !.sys = "due", !.flash = Step]
       IN  \/ WorkAt("ok") /\ Sets(d, due) /\ Fine
           \/ WorkAt("clean") /\ Fault /\ (Sets(d, due) \/ UNCHANGED dev)
    /\ UNCHANGED <<fixed, via, run, note, app>>

\* What the device is left with, if it can be asked; this app's note forgotten.
Cleans ==
    /\ work.at = "clean"
    /\ WorkAt("failed")
    /\ note' = IF Step.host THEN NoRelease ELSE note
    /\ LET cleaned == [dev[Current] EXCEPT !.ram = "none", !.kept = FALSE]
       IN  \/ Answers /\ dev[Current].sys # "writing" /\ Sets(Current, cleaned) /\ Fine
           \/ ~Answers /\ UNCHANGED dev /\ Fine
           \/ dev[Current].sys = "writing" /\ UNCHANGED dev /\ Fine
           \/ UNCHANGED dev /\ Fault
    /\ UNCHANGED <<fixed, via, run, app>>

\* Over a closed session every verb is unanswered, and so is its clean.
VerbUnanswered ==
    /\ work.at \in {"session", "room", "check", "flash"} /\ ~Answers
    /\ WorkAt(IF work.at = "session" THEN "failed" ELSE "clean")
    /\ Fine /\ UNCHANGED <<fixed, via, dev, run, note, app>>

-----------------------------------------------------------------------------
(* The devices: sysupgrade, and coming up after it.                        *)

\* Writing flash, it ends every process: this app's too, on its host.
SysupgradeBegins(d) ==
    /\ dev[d].sys = "due" /\ dev[d].ram \in {"image", "checked"}
    /\ Sets(d, [dev[d] EXCEPT !.sys = "writing"])
    /\ IF d = host THEN /\ run' = IF run.at = "ended" THEN run ELSE [run EXCEPT !.at = "killed"]
                        /\ work' = NoWork
                   ELSE UNCHANGED <<run, work>>
    /\ Fine /\ UNCHANGED <<fixed, via, note, app>>

SysupgradeFails(d) ==
    /\ dev[d].sys = "due"
    /\ Sets(d, [dev[d] EXCEPT !.sys = "no"])
    /\ IF dev[d].ram \in {"image", "checked"} THEN Fault ELSE Fine
    /\ UNCHANGED <<fixed, via, run, work, note, app>>

\* What a boot makes of this app's package, kept or not: reinstalled, or, failing, left to the next boot.
Reinstalled(kept) == IF kept THEN {"yes", "not back"} ELSE {"gone"}

\* Its new release, or the old one where it did not take; firstBootScript when no settings were kept.
Boots(d) ==
    /\ dev[d].sys = "writing"
    /\ LET flash == dev[d].flash
           up == [dev[d] EXCEPT !.ram = "none", !.sys = "no", !.flash = NoStep]
       IN  \/ /\ Sets(d, [up EXCEPT !.runs = flash.to, !.conf = IF flash.keep = "keys" THEN FirstBoot ELSE @, !.kept = FALSE])
              /\ \E there \in Reinstalled(dev[d].kept /\ flash.host /\ flash.keep = "settings") :
                    /\ app' = IF d = host THEN [there |-> there, start |-> "starting"] ELSE app
                    /\ IF d = host /\ there = "not back" THEN Fault ELSE Fine
           \/ /\ Sets(d, up) /\ Fault
              /\ app' = IF d = host THEN [app EXCEPT !.start = "starting"] ELSE app
    /\ UNCHANGED <<fixed, via, run, work, note>>

\* Booted again, by hand or by a cut: the reinstall left in place, run again.
BootsAgain ==
    /\ app.there = "not back" /\ dev[host].sys = "no"
    /\ \E there \in Reinstalled(TRUE) : app' = [app EXCEPT !.there = there]
    /\ Fine /\ UNCHANGED <<fixed, via, dev, run, work, note>>

-----------------------------------------------------------------------------
(* The settings applied: after the upgrade, or at the next start.          *)

AppliedTo(ds) == dev' = [d \in Device |-> IF d \in ds THEN [dev[d] EXCEPT !.conf = dev[d].runs[1]] ELSE dev[d]]
AllUp(ds) == \A d \in ds : dev[d].sys # "writing"

AppliesToAll ==                                               \* mutant: stopped partway, taken for applied
    /\ run.at = "applying"
    /\ AllUp(run.done) /\ AppliedTo(run.done) /\ Ends("applied")
    /\ Fine /\ UNCHANGED <<fixed, via, work, note, app>>

\* Gone wrong: any of them may hold the settings, and it ends partial where some said they keep them.
EndsPartly(ds, keeps) ==
    run' = [run EXCEPT !.at = "ended", !.end = IF keeps = {} THEN "failed" ELSE "partial", !.told = @ \cup (ds \ keeps)]

\* provisionWith, after upgradeThen: every device, or, stopped, those upgraded.
Applies ==
    /\ run.at = "applying"
    /\ LET ds == IF run.told = {} THEN Device ELSE run.done
       IN  \/ AllUp(ds) /\ AppliedTo(ds) /\ Ends(IF run.told = {} THEN "applied" ELSE "partial") /\ Fine
           \/ ~AllUp(ds) /\ UNCHANGED dev /\ Ends("failed") /\ Fine
           \/ /\ AllUp(ds) /\ Fault
              /\ \E holds \in SUBSET ds : AppliedTo(holds) /\ \E keeps \in SUBSET holds \ {ds} : EndsPartly(ds, keeps)
    /\ UNCHANGED <<fixed, via, work, note, app>>

NoteNotRead ==                                                \* mutant: no start looks at it
    /\ app.there = "yes" /\ app.start = "starting"
    /\ app' = [app EXCEPT !.start = "nothing"]
    /\ Fine /\ UNCHANGED <<fixed, via, dev, run, work, note>>

\* finishSelfUpgrade: the note read once, and dropped.
ReadsNote ==
    /\ app.there = "yes" /\ app.start = "starting"
    /\ app' = [app EXCEPT !.start = IF note = NoRelease THEN "nothing" ELSE "network"]
    /\ note' = NoRelease
    /\ Fine /\ UNCHANGED <<fixed, via, dev, run, work>>

\* Once the network is up, at most 3 minutes: the apply the run would have made, and what is said of it.
FinishesUpgrade ==
    /\ app.start = "network"
    /\ app' = [app EXCEPT !.start = "said"]
    /\ \/ AllUp(Device) /\ AppliedTo(Device) /\ Fine
       \/ ~AllUp(Device) /\ UNCHANGED dev /\ Fine
       \/ AllUp(Device) /\ Fault /\ \E holds \in SUBSET Device : AppliedTo(holds)
    /\ UNCHANGED <<fixed, via, run, work, note>>

RestartedMeanwhile ==
    /\ app.start = "network"
    /\ app' = [app EXCEPT !.start = "cut"]
    /\ Fault /\ UNCHANGED <<fixed, via, dev, run, work, note>>

-----------------------------------------------------------------------------
(* What else happens.                                                      *)

Killed ==
    /\ run.at \notin {"ended", "killed"}
    /\ RunAt("killed") /\ work' = NoWork
    /\ Fault /\ UNCHANGED <<fixed, via, dev, note, app>>

MovedByHand(d) ==
    /\ run.at \in {"reading", "building", "next"} /\ dev[d].sys = "no"
    /\ \E r \in Releases \ {NoRelease, dev[d].runs} : Sets(d, [dev[d] EXCEPT !.runs = r, !.conf = r[1]])
    /\ Fault /\ UNCHANGED <<fixed, via, run, work, note, app>>

Roams ==
    /\ via # NoDevice /\ run.at \in {"reading", "building", "next"}
    /\ via' \in Device \ (Repeaters \cup {via})
    /\ Fault /\ UNCHANGED <<fixed, dev, run, work, note, app>>

RunStep == PlansAlone \/ ReadsDevices \/ Builds \/ OpensSession \/ AllUpgraded \/ WorkDone \/ ComesBack
           \/ NotBack \/ OwnFlashNeverBegan \/ Applies
WorkStep == ChecksSession \/ Fetches \/ Checks \/ KeepsSelf \/ Flashes \/ Cleans \/ VerbUnanswered
DeviceStep(d) == SysupgradeBegins(d) \/ SysupgradeFails(d) \/ Boots(d)
StartStep == ReadsNote \/ FinishesUpgrade

Next ==
    \/ RunStep \/ DeviceNotRead \/ TimesOut
    \/ WorkStep
    \/ \E d \in Device : DeviceStep(d) \/ MovedByHand(d)
    \/ StartStep \/ RestartedMeanwhile \/ BootsAgain
    \/ Killed \/ Roams

Spec == Init /\ [][Next]_vars
        /\ WF_vars(RunStep) /\ WF_vars(WorkStep) /\ WF_vars(StartStep)
        /\ \A d \in Device : WF_vars(DeviceStep(d))

-----------------------------------------------------------------------------
(* Properties. *)

UpgradeStep == [device : Device, from : Running, to : Running, keep : {"settings", "keys"}, host : BOOLEAN]
DeviceState == [runs : Running, conf : Nat, ram : {"none", "part", "image", "checked"},
                sys : {"no", "due", "writing"}, flash : UpgradeStep \cup {NoStep}, kept : BOOLEAN]
Phase == {"plan", "reading", "building", "next", "flashing", "waiting", "own flash", "applying", "ended", "killed"}
RunState == [at : Phase, i : Nat, steps : Seq(UpgradeStep), done : SUBSET Device, told : SUBSET Device,
             end : {"none", "refused", "failed", "applied", "partial"}, seen : Device \cup {NoDevice}]
WorkPlace == {"none", "session", "room", "check", "keep self", "flash", "clean", "ok", "failed"}
WorkState == [at : WorkPlace, over : BOOLEAN]
AppState == [there : {"yes", "gone", "not back"}, start : {"none", "starting", "network", "nothing", "said", "cut"}]

\* The plan's steps are from and to releases that are known, whatever was read
\* of the devices and of the series (upgradePlan, targetOf, stateOf).
TypeOK ==
    /\ ask \in Asks /\ host \in {NoDevice, Router} /\ via \in Device \cup {NoDevice}
    /\ facts \in [Device -> Running \cup {NoRelease}] /\ dev \in [Device -> DeviceState]
    /\ run \in RunState /\ work \in WorkState
    /\ note \in Release /\ app \in AppState /\ faults \in 0..MaxFaults

\* Settings written for a series are never on a device that runs an older one
\* (upgradePlan.ts's keep, and flashOne's look at what the device runs now):
\* older OpenWrt is not handed newer config.
NoNewerSettings == \A d \in Device : dev[d].conf <= dev[d].runs[1]

\* The order of the flashes (inFlashOrder) and the wait for each (backOn): while
\* a device writes its flash, no other one of the run does, and none still to
\* be flashed is a repeater or, the router down, any device but this app's own.
FlashedInTurn ==
    \A d \in Device : dev[d].sys # "no" /\ run.at \notin {"ended", "killed", "applying"} =>
        /\ \A e \in Device \ {d} : dev[e].sys = "no"
        /\ \A i \in run.i + 1 .. Len(run.steps) :
            LET e == run.steps[i].device IN
            /\ e \in Repeaters => d \in Repeaters
            /\ d = Router => e = host

\* Back on first-boot settings a device has no mesh and no Wi-Fi (keysRefusal):
\* none this run flashed so cuts off a repeater, or this machine where it was
\* when the devices were read; and the device this app runs on comes up from
\* its own flash with this app on it, or with its package kept, to be put back
\* at a later boot where that failed (keep-self, the runtime in its image).
NoneCutOff ==
    /\ app.there # "gone"
    /\ \A d \in Device : dev[d].conf = FirstBoot =>
        /\ d \notin Repeaters
        /\ d \in MeshNodes => Repeaters = {}
        /\ d # run.seen

\* A note is acted on at the next start: once a run has ended with no work of
\* its own left, there is one only while the flash it is about goes on.  Left
\* out is a run whose time was up while its own device's flash answered: what
\* it would have done after it (upgradeThen) nobody does any more.
NoteIsOfAFlash ==
    note # NoRelease /\ run.at = "ended" /\ work.at \in {"none", "failed"} =>
        dev[host].sys # "no" \/ app.start = "starting"

\* A run that says applied leaves no device on first-boot settings; one that
\* says partial, only devices it told of: where the upgrade stopped, and those
\* that did not say they keep what was applied (planAfterUpgrade, and the
\* ending provisionWith gives a stopped upgrade).
FirstBootIsTold ==
    run.at = "ended" /\ run.end \in {"applied", "partial"} =>
        \A d \in Device : dev[d].conf = FirstBoot => run.end = "partial" /\ d \in run.told

\* A device only moves back, or into a series not checked against, where that
\* was acknowledged; and moved by this run, it was chosen, and goes to the
\* release its settings choose, from the one the plan knew.
OnlyAsAsked ==
    [][\A d \in Device : dev[d].sys = "writing" /\ dev'[d].runs # dev[d].runs =>
          LET target == Target(ask.network, ask.own[d], ask.out) IN
          /\ Older(dev'[d].runs, dev[d].runs) => ask.acks.downgrade
          /\ dev'[d].runs[1] > CheckedSeries => ask.acks.newSeries
          /\ d \in ask.only /\ dev[d].runs = facts[d]
          /\ target.kind = "release" /\ dev'[d].runs = target.version]_vars

\* The router flashing itself ends the run; its next start takes the note up
\* and says how it went (finishSelfUpgrade), unless the device restarts again
\* while that start waits for the network, the note already dropped; or this
\* app could not be reinstalled as it booted, and there is no start before a
\* later boot puts it back.
NoteIsFinished ==
    (note # NoRelease /\ host # NoDevice /\ dev[host].sys = "writing")
        ~> (app.start \in {"said", "cut"} \/ app.there = "not back")
=============================================================================
