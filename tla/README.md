# A verification project for openwrt-configurator

openwrt-configurator applies one configuration to a whole network of OpenWrt
devices over SSH, as one change: every device is confirmed, or every device is
rolled back. TLA+ modules here model the parts of it where that promise is kept
or lost; TLC checks them on small instances, and TLAPS proves some of what they
say for every size.

All paths below are the repository's (`src/agent/script.ts` and so on).

## The system

| Part | State it keeps | Operations | Talks to |
|---|---|---|---|
| **Device agent** (`src/agent/`) | on the device: the run's directory in `/tmp` (snapshot, markers, pid files), the boot-time copy on flash, markers beside the directory, a watchdog process, the boot script | `begin`, `stage-packages`, `arm`, `prepare`, `stage`, `finalise`, `services`, `hooks`, `commit-finished`, `asleep`, `disarm`, `rollback-now`, `recovered`, `drop`, `revert`, `done`; the watchdog; the boot script | called over SSH by the orchestrator; the watchdog by signals, files and its sleep |
| **Orchestrator** (`src/apply/`) | one run: each device's session, deadline and what is known of it | plan, stage, arm all, configure and commit each, confirm all, ask all, disarm all; abort, roll back now, recover, discard | the agents; reports events to the job |
| **Job and lock** (`src/apply/job.ts`, `src/lock.ts`) | beside the settings file: a lock directory with its holder's token, a takeover lock, the run's record, its outcome, the live and previous settings | claim, start, end; running?, state, undo | web requests, the CLI, the collector, each its own process |
| **Firmware upgrade** (`src/firmware/`) | images, an upgrade script on the device, what a self-upgrade has left to do | build, plan, flash, wait, first boot, self-flash and finish at next start | the job, the agents |
| **Status** (`src/status/`) | snapshot, history, events, who is reading | collect, read now, one action at a time | the devices; the lock; the job |
| **Engine** (`src/engine/`, `src/condition.ts`) | none (pure) | settings and device facts to a device's config; the uci wipe, batch and verify | planning and configuring |
| **Change plan** (`src/applyPlan.ts`, `src/applyDiff.ts`, ...) | hashes of what each device was left holding | what an apply would change, and why | reads devices; the job's verify |
| **Settings and pages** (`src/settings.ts`, `src/backup.ts`, `src/server/api/intent.ts`, `ui/src/data/`, `ui/src/form/`) | the settings file and the backups of it; each tab's draft, the version it last read, the edits it keeps over a reload | read, save by version, review and restore, merge three ways | the web API; the apply takes the file as saved |
| **Location, facts, server, CLI, compilers** | files beside the settings; a password; nothing | see `PROJECT.json` | the parts above |

### What is hard

- **One device.** A watchdog, the verbs of the agent and, after a restart, the
  boot script are separate processes writing the same files with no lock. A
  call whose answer is lost leaves its verb running. Disarming races the
  watchdog waking. A power cut can come between any two commands.
- **One run.** Disarming cannot be taken back and is done a device at a time,
  while every other watchdog's clock runs down. Calls are lost, done or not.
  What a failed step changed decides whether a watchdog may be stood down.
- **One settings file.** Requests are processes; a lock is a directory; a holder
  may die anywhere, and taking over its lock is check-then-act. Tabs, a shell and
  the app write the file over each other; answers cross and get lost.
- **One review.** What it says of a device is to be what the apply does minutes
  later, on a device anyone may change meanwhile, and why each line changes is
  told from states of three ages.

`PROJECT.json` lists each hazard at its line, with the properties aimed at it.

## Modules

| Module | Models | Built on |
|---|---|---|
| `DeviceAgent` | one device of one apply, shell command by shell command: the verbs, the watchdogs, the boot script, and the orchestrator's side of that device | - |
| `DeviceAgentProofs` | its types, what its disarm goes by, what a restart leaves | `DeviceAgent`, TLAPS |
| `DeviceKeptProofs` | that a device told disarmed, or kept, stays as it is | `DeviceAgentProofs` |
| `NetworkApply` | one apply over N devices with clocks and lost calls; each device is its change and its watchdog | - |
| `AllOrNothing` | what an apply promises, in three variables | - |
| `NetworkApplyProofs` | its types, that it counts on no more time than it has, that what it keeps is kept whole, and that a changed device has its way back | `NetworkApply`, TLAPS |
| `NetworkPromiseProofs` | that it implements `AllOrNothing`, and that what it says at its end is so | `NetworkApplyProofs` |
| `DirLock` | `src/lock.ts`, file operation by file operation | - |
| `ApplyJob` | `src/apply/job.ts`, the exclusion with Status actions, a reader of the last run's state | `DirLock` |
| `ApplyJobProofs` | theorems about it | `ApplyJob`, TLAPS |
| `FirmwarePlan` | what an upgrade would do: targets, order, what is kept, what is refused | - |
| `FirmwareUpgrade` | the upgrade's run, the work on one device's session, each device's sysupgrade, and the app's next start | `FirmwarePlan` |
| `FirmwareUpgradeProofs` | its types, and what it promises of the order, the releases, the settings and the telling | `FirmwareUpgrade`, TLAPS |
| `StatusEvents` | what the collector makes of a read: events, clients' moves, the clients ever seen | - |
| `Collector` | the collector's loop, its files in RAM and on flash, its ends and starts, the requests beside it | `StatusEvents` |
| `CollectorProofs` | that its snapshot stays fresh, an outage is told in time, and a client's moves follow one another | `Collector`, TLAPS |
| `UciConfig` | one config: wiping, declaring, checking, what uci makes of it, the lines that differ and why | - |
| `ConfigChange` | one device's config through reviews, runs, hand edits, saves, an app update | `UciConfig` |
| `IntentMerge` | the three-way merge of settings | - |
| `Settings` | the settings file, the pages that edit it, the requests between them | `IntentMerge` |
| `SettingsProofs` | theorems about it | `Settings`, TLAPS |
| `MCDeviceAgent`, `MCNetworkApply`, `MCApplyJob`, `MCFirmwareUpgrade`, `MCCollector`, `MCConfigChange`, `MCSettings` | instances, and what docs and comments claim that the code does not always do | the module named |

`NetworkApply` abstracts what `DeviceAgent` has in detail: its `wd` values
`asleep`, `dead`, `restoring`, `restored`, `over`, `disarmed` stand for the places
of one watchdog process there, and each of its verbs is one step. `DeviceAgent`
in turn takes the rest of the network as free choice: wherever another device's
failure may turn the run back, its `Following` allows both ways.

### DeviceAgent

| Variable | In the code |
|---|---|
| `flash` | `/etc/config` and the copy beside it, managed files, `/etc/rc.d`, packages, the boot-time copy (`none`, `part` while its config is being copied, `config` while arm is between its two writes, `whole`), the boot script (`init`), the applied marker |
| `ram` | `/tmp`: staged uci changes, the agent, the run's directory with its markers and pid files, the markers beside it |
| `up` | running, or where the boot script is; `dead` when a cut between two renames left no boot links |
| `wd`, `verb` | the watchdog and verb processes, by the next command each will run |
| `client` | the orchestrator's phase for this device, the call it awaits, what it told of it |

An action is a command that another process can see the effect of: the test,
write, rename or kill of one shell line. So a disarm's flag, its killing of the
sleep, its settle and its three looks at the evidence are six steps, and a
watchdog's waking, looking at the flag and marking itself are three; TLC tries
all interleavings. Config is old, partly new, new or absent, files and packages
old or new: no property tells more apart. What a command of a restore may fail at
is there too, as the code goes on after it: no room for the config's copy or the
boot links', a managed file not copied, an `apk del` or `apk add` that failed, in
the watchdog and, but for packages, in the boot script; `arm` may find no room for
the boot script, for its copy of the config or for the rest of it. `past` records
which it was, as no later state shows it. There is no clock: a sleep ends at any
moment. The one fact of time used is `SettleOutlasts`: the 5 s that `disarm`
waits are longer than a woken watchdog's next two commands take. With it FALSE,
`DisarmedStays` fails, and that is a real limit of the code's argument.

### NetworkApply

A call is two steps: the device does it, then the answer is heard or the call
is lost; a call may also be lost before the device does it. Answers are heard in
the run's own order (the code awaits each). Watchdogs, deadlines and the
duration of the call under way count ticks down or up, and a tick may come
between any two steps. A restore is two steps, the mark and the end; what it
leaves (`Leaves`) is nothing of the change, or part of it where `DeviceAgent` has a
command of it fail, and then the device is in `past.unrestored`. `todo` is what
`abort`, `rollBackNow`, `recoverLater` and the discards still have to do, in their
order, so each failure's undo is the code's sequence and not a set of devices.
`Dies` is the tool's process ending anywhere: devices are then on their own.

Where the code retries for as long as a budget lasts (reaching a device,
`recovered`), the model may stop at any time.

### DirLock and ApplyJob

Every `makeDir`, `readFile`, `writeFile`, `remove` and `stat` that another
process could come between is a step. An age is `new` or `old`, the code's
threshold being a minute. A run's `record`, `outcome`, `snapshot`, `live` and
`previous` are the files of those names; settings are named by the run that was
first asked to apply them, so an undo is a run whose snapshot names an earlier
one. A process killed stops where it is and leaves what it made.

### FirmwarePlan and FirmwareUpgrade

`FirmwarePlan` is pure and takes what the settings ask, the releases known, the
facts last read and, the second time, where this app runs and over whose Wi-Fi
this machine is. `FirmwareUpgrade` runs it twice as `upgradeFirst` does. Three
processes go on beside each other: `run` (what `upgradeEach` and `provisionWith`
do), `work` (`flashOne` on one device's session, which the run stops waiting for
after its limit, and which goes on where the session is local), and each
device's `sys` (sysupgrade, a second after its verb answered). A device is what
it runs, the series its settings were written for (0 on first-boot settings),
what is in its RAM, and whether the app is kept on it. `note` is
`upgrading.json`; `app.start` is the app's next start finishing the upgrade, and
`app.there` whether there is an app to start: kept, it is put back at the boot
after the flash, or that fails (`not back`) and any later boot tries again
(`BootsAgain`). The apply is one step (`NetworkApply` has it whole): all of the
devices, none, or some, of which fewer may say they keep it (`EndsPartly`). With
releases read, a series with none has nothing to say of its devices' targets; with
none read, an upgrade that needs one is refused (`Blind`).

`InFlashOrder` is a stable sort by rank. It is written as the one listing of the
devices in which each comes before the next (`Before`: a lower rank, or the same
and earlier in the settings), and a theorem says there is exactly one
(`FlashOrder`). A release is a pair of numbers, `Running` those a device may run: a
series above 0, which stands for first-boot settings.

### StatusEvents and Collector

`StatusEvents` is `observe`, `eventsBetween`, `keepEvents`, `updateMoves` and
`updateRegistry` as operators. In `Collector`, `net` is what the devices would
say, `state` what the loop carries in memory, `ram` and `flash` the files, and a
read digests all three in the order the code writes them: any write may fail,
and the process may end between any two. Whatever is due is begun before time
goes on (`Waits`), as the loop wakes every two seconds and a unit is half a
minute. `quiet`, `booted` are histories for the properties.

### UciConfig and ConfigChange

A config is a sequence of sections, each with a type, a name or none, and options
whose values are items and whether they are a list: what tells apart a list of one
from a plain value, an empty value from none, and an anonymous section from a
named one. uci's own operations (staging by name, by place, `delete @type[0]`,
a batch that goes on after a line that failed) are external, written from how
`getDeviceScript.ts` and the agent use them; the rest of `UciConfig` is `uci.ts`,
`getUciCommands.ts`, `applyDiff.ts` and `applyChanges.ts`, operator by function.

`ConfigChange` has one device with one config of two types, one of them kept. `dev`
is what is committed and `delta` what is staged over it; `plan` is a review, from
when its version is read; `run` goes through planning, arming, preparing (packages
may bring sections), reading, staging, verifying, committing and each way of
ending; `live` is what is kept of the applies: the settings and the stamp. A run
looks at the version it was started by (`Start`) and then takes its copy of the
settings (`TakesSnapshot`): a save may come between. Hand edits may come between any two steps. A run may start from a review, from the
command line without one, or with a low-level file.

### IntentMerge and Settings

Settings are a plain value and a list of items with an identity. Each page has a
draft over the file it last read (`page`), at most one write (`put`) and one read
(`get`) under way, and what its tab keeps over a reload (`stash`), which is written
or dropped as the draft moves on while the page is open (`KeepEdits`) and never by
a reload, so that it may hold an edit already saved. The version of a
file is a hash, so it is the file itself here. `served` says whether one process
answers every request or, as on a router, one each: then a save's check and its
write, and a read of the file and of its version, are two steps. `typed`, `told`,
`again` (parts put back after a reload though they were saved) and `raced` are
histories for the property.

## Runs

All bounds are constants of the configuration files.

| Run | Question | Bounds |
|---|---|---|
| `device_agent` | What is a device left with that was told disarmed, rolled back, or restarted on its copy? | 2 watchdogs, 2 verbs at once, 1 lost answer, 1 kill, 1 power cut, 1 failing command of a restore (`MaxFailed`, a missing boot script counted), settings alone or with packages and files, `reload-then-reboot`, the default |
| `device_ends_whole` | Does a device end wholly old or wholly new with nothing but its own processes? | packages and files too, 1 watchdog, 2 verbs at once, 1 lost answer, 1 failing command of a restore, no kill or cut, the modes `reload` and `reboot` |
| `network_apply` | Does a run count on no more time than it has, keep what it says it keeps, always leave a way back, tell the truth, implement `AllOrNothing`, and does each device come to keep or undo, however the run ends? | 2 devices, window 3, margin 1, 2 lost calls, 1 kill, plans where the one or the other device has packages or files (`Plans`) |
| `apply_job` | Do applies and actions exclude each other; is only what was applied live; is a run told interrupted really so? | 3 applies (symmetric) with 1 kill and 1 failed write; or an apply from the UI, one from the command line, an action and a reader, with the same |
| `apply_starts` | Does a left-over lock or takeover ever stop an apply or an action for good? Do two actions go on at once? | 2 applies, 3 actions, or one of each, 2 kills, 1 failed write |
| `firmware` | Is a device flashed out of its turn, unasked, handed settings newer than its release, or cut off; does the run's end tell of every device left on first-boot settings; is the app's own upgrade finished? | a router, a mesh repeater, an access point; 11 ways of asking, releases of 2 series, 2 faults |
| `collector` | Is what is told true, told once, in turn and in time; is the snapshot fresh; what does lost power cost? | a router with a line, a service and a client, 10 half minutes, up to 3 changes of one kind with a fault |
| `change_plan` | Does an apply do what its review said, is it refused only for cause, is each change told for why it is one? | one config of 3 sections, 2 settings and a low-level file in 2 app versions, 2 runs, a review, a hand edit, a save, an update |
| `settings` | Is an edit, a saved change or a replaced file ever lost unseen? | 2 tabs (symmetric), 2 edits (on a page or elsewhere), 2 saves, and 2 of: a restore, a second read, a reload, a lost answer |
| `cut_between_renames`, `all_disarms_lost`, `two_applies_start` | Where does the code do other than a doc or comment says? | as small as shows it |

Why these bounds are enough for what they show:

- *Two watchdogs* are the first and the one a `rollback-now` or a lost arm adds.
  Three (a kill and two relaunches by calls of which one lost its answer) can
  restore at once, and then `RolledBackIsWhole` does not hold: the cleanup of
  one takes the snapshot the other restores from. The claim is made for two.
- *Two verbs* are the awaited one and one whose answer was lost.
- *Two devices* have an earlier and a later one for every failure, and both
  orders of undoing; the theorems are for any number.
- *One failing command* of a restore (`MaxFailed`): config, files, packages and links
  are put back one after another, whatever failed before, and each formula's
  exemption names its own part; a second failure leaves what two such runs leave.
- *Two plans*, `{1}` and `{2}`, have the earlier device and the later one as the one
  with packages or files, which alone a restore may leave in part.
- *Three applies* are the least for a takeover: the one that ended, the one
  that judged it gone, the one that made the lock meanwhile.
- *Three actions*: one killed holding the lock, one killed taking it over, one that
  must get through both. All five processes at once add states and no new meeting
  of two, so a behaviour has the applies, the actions, or one of each (`Together`).
- *Three devices* are one of each role an upgrade tells apart; two faults are the
  one that stops a run and one while it ends. More faults add states only.
- *Ten half minutes* hold an hour cut to two, a month's bucket of four, and the
  quiet time after the last change that each promise needs; no two kinds of
  change meet but through the same lists, so a behaviour has one or two kinds.
- *One config of three sections* has an anonymous one before and after a kept one,
  so places move as they are wiped; the second version renames a section, adds
  an option and an empty list. Two runs make live settings, then differ from them.
- *Two tabs, two edits, two saves* hold both having edits over the same file, one
  saving, the other refused, merged and saved again, or one edit made while the
  other is saved; with two of the other things between any two steps.
- One kill and one failure leave every place of every process as where it
  happens, as it may be any process's and at any step.

### What they show

- `DisarmedStays`, `KeptIsMarked`, `MarkedWasCommitted`: told disarmed, a device
  keeps what it has; no watchdog restores it later, no flash copy undoes it at
  the next boot, and the applied marker is there exactly when a whole change was.
- `RolledBackIsWhole`: told rolled back, it has all the code promises back and no
  copy left on flash, part by part, but for a part the restore itself said in
  its log, or did not say, that it could not put back: the config (no room to
  stage it), files (one not copied), packages (`apk` failed), boot links (no
  room), and for a step verb still running beside the restore: a `prepare` may
  take 15 minutes inside a window of 90 s a device. That the run says
  rolled back of such a device all the same, `RolledBackRewinds` shows (below).
- `RestartRestores`: restarted inside the window on a finished copy, with its boot
  script in place, it has what the copy held back and stays on it, but for the same
  causes and a power cut between two renames (`cut_between_renames`). Of a restart
  on a copy cut short it says nothing (`NoPartSwappedIn`, below, shows what comes of
  it), nor of one whose boot script found no room.
- `EndsWhole`: with nothing but its own processes a device ends all old or all new;
  but for the causes named for `RolledBackIsWhole`.
- `WayBack`: a changed device always has a watchdog that restores it, or one
  that a wake or restart can replace, until all devices were found ready.
- `PartialHasCause` and `Implements`: after the agreement, some keep and some
  undo only when a device was unreachable twice as it was disarmed, or when the
  disarming outlasted the margin `readyToDisarm` asks for.
- `ToldTruly`, `KeptHolds`: what the run says of each device is so. `WayBack`,
  `ToldTruly` and `EndsTogether` leave out the devices in `past.unrestored`: those
  whose restore could not put all of it back, which answer the run as
  one that did, and those configured while their restore ran. A restore is not
  tried twice. `Implements` goes by the watchdog alone: a device whose watchdog
  took the restore on counts as undone there, whatever that restore left.
- `OneApply`, `ActionsApart`: no order of claims, takeovers, ends and kills lets
  two applies, or an apply and an action, work at once, but for two causes: a
  lock removed by a process that judged another (`stolen`), and a run whose pid
  was never recorded or was written over (`unnoted`). `job.ts:359-360` says of a
  pid that could not be recorded that it "only makes the run look interrupted";
  a second apply can then also start.
- `LiveWasApplied`, `LiveIsLast`: only settings applied everywhere become live,
  and what is live is what was applied last, but for a run cut as it promoted.
- `InterruptedIsSo`: the second look at the outcome makes "interrupted" right, for
  a run whose outcome nothing else replaced.

- `NoNewerSettings`, `OnlyAsAsked`: what a device runs is looked at again on its own
  session, so one moved by hand since its facts were read is neither moved
  unacknowledged nor handed settings written for a newer series.
- `FlashedInTurn`, `NoneCutOff`: no device writes flash while another still to be
  flashed needs it, and none comes up on first-boot settings where repeaters or
  this machine (where it was when the devices were read) need it; the app is there
  after its own device's flash, or its package is, to be put back at a later boot
  where that failed: never flashed away with nothing kept of it.
- `FirstBootIsTold`, `NoteIsOfAFlash`, `NoteIsFinished`: a run's end names every
  device it leaves on first-boot settings, those of an apply that reached some of
  the devices included; the note a start acts on is of a flash that began, and is
  acted on, unless the device restarts while that start waits for the network, or
  the app's reinstall failed and no later boot puts it back.
- A device told failed may still be flashed: the time was up, or the answer lost,
  with sysupgrade already started. Nothing above is lost by it.
- `ToldInTurn`, `ToldOnce`, `MovesInTurn`, `OutageTold`: one slow answer is no outage,
  an outage is told within two reads and ended only after it was told, a restart
  told is one there was; writes that failed, kills and lost power change none of
  it. `SnapshotStaysFresh`, `AtMostAnHour`: no request reads beside a loop that goes
  on, and lost power costs an hour and what is between two reads and writes.

- `AsReviewed`: what a reviewed run commits is, line by line, what the review said,
  but for what someone changed after the run's check where nothing is declared
  (a kept section) or after the staged config was verified. A secret's value is
  not compared: the state hash leaves it out. Nor does it speak of a run whose copy of
  the settings is not the version it was started by (`RunsWhatWasReviewed`, below).
- `RefusedWhenMeddled`: left alone, a run is never refused by its own verification,
  whatever the device held: the order of the wipe, the clearing of lists and the
  reading after packages are what makes it so. But a section of a kept type that
  bears a declared section's name under another type makes the run refuse
  every time (`NameTaken`).
- `WhyIsTrue`: a change told as an edit, an update or one on the device is one. Two
  cases are left out, as the code tells them otherwise: after a partial apply,
  settings taken back read as an update (`applyChanges.ts:94`); a section the app
  itself renamed has its changed options told as the device's.
- `NothingLost`: what a user typed is in the draft, or over a reload in the tab, until
  it is saved or taken back; a save changes what was typed and nothing else but
  where the page told that an edit won, or where a page put back after a reload
  an edit that was saved already (`again`; `NoneOnceSaved`, below, shows it); a restore replaces the file it was
  reviewed against, and keeps it. On a router, a file written between another
  save's check and its write is written over unseen, contrary to what
  `server/api/intent.ts:3-5` says: the property leaves that out (`raced`), and
  it is the router's alone, where each request is a process of its own. Also
  left out: a page that reads a later file before its own save's answer comes goes
  back to the version it saved (`draft.tsx:195`); its next save is refused, unless
  the file itself went back to that version meanwhile (`Behind`). And an edit
  taken back while its save is on its way counts as none if the page then
  reloads, or reads the file again, before the answer.

### Disagreements found

1. `cut_between_renames`: a power cut between the two renames leaves no
   `/etc/config`; the boot script's own first rename then fails, and its copy
   is removed all the same.
2. `all_disarms_lost`: when every disarm was done but its answer lost twice, the
   run says rolled-back and no device kept the change; they all do.
3. `two_applies_start`: `takeLock` removes a lock by its name and not the one it
   judged; a third process's fresh lock goes, and two applies start.

Four more are what the exemptions of the properties above come from. They are not
among the runs; each is an invariant of an MC module that TLC finds violated with
the configuration named:

| Invariant | Shown by | What the code does |
|---|---|---|
| `RolledBackRewinds` | `tlc -config MCDeviceAgentBack.cfg MCDeviceAgent` | A restore whose copies or `apk` commands fail (`script.ts:516-518`, `:524`, `:527`, `:532`) marks itself restored all the same, and the run says rolled back of a device that still has packages, files or config of the change; `docs/how-it-works.md:62-66` says a rollback rewinds them |
| `NoPartSwappedIn` | `tlc -config MCDeviceAgentPart.cfg MCDeviceAgent` | The boot-time copy of the config is made in place (`:481`), and the boot script asks only whether its directory is there (`:88`): a power cut in the middle of the copy has the device come up on part of its own config, less than either config, which `:48-49` rules out for the snapshot in RAM ("whole or the arm fails"); the copy for the boot has no such rule |
| `RunsWhatWasReviewed` | `tlc -config MCConfigChangeSaved.cfg MCConfigChange` | Settings saved by another process between a run's look at their version (`job.ts:302`) and its copy of them (`:309`) are applied, though `server/api/provision.ts:18-20` says "what runs is what was reviewed" |
| `NoneOnceSaved` | `tlc -config MCSettingsReload.cfg MCSettings` | A page reloaded while its save is on its way keeps that edit in its tab, against `stash.ts:66-67` ("none once saved or reverted"); taken out elsewhere, the next reload puts it back as if just typed |

## Fairness

- `device_ends_whole`: each watchdog's next command, the end of its sleep, and the
  boot script. They are local processes of a running device. Nothing is asked
  of the orchestrator or the network.
- `network_apply`: ticks, each watchdog's steps, that a called device does
  the call, that the run hears what was answered, and that it goes on between calls. A call that is never answered is
  ended by its time limit, which is a lost call; the run's own loops end by
  their deadlines. `Dies` is never assumed and never excluded.
- `apply_starts`: every process goes on until it ends or is killed, and a minute
  passes however often shorter things happen (strong fairness of `Minute`, whose
  guard is that no short request is in the middle of its steps). Requests are
  bounded by their own timeouts, actions by `actionBudgetMs`.

- `firmware`: the run, the work on a session, each device's sysupgrade and boot, and
  the app's next start go on; a kill or a restart is never assumed or excluded, nor
  a later boot that puts the app back.

Deadlock is not checked: a run that ended, a device at rest and a job that is
gone rightly do nothing more.

## Proofs

For every value of the constants, from the named assumptions in the modules:

| Theorem | Says | Argument |
|---|---|---|
| `DeviceAgentProofs!TypeCorrect` | `TypeOK` always | one lemma per variable, one step per action |
| `DeviceAgentProofs!FiredMarked` | a watchdog in its restore has its mark in the run's directory | inductive by itself, from `MarksStay`: a run's directory is made once and its markers stay until it goes |
| `DeviceAgentProofs!DisarmOnEvidence` | a disarm that goes by its watchdog still sleeping is right | needs `DisarmInv`: past its first look it names a watchdog, past the flag the flag is there, and past the settle that watchdog is not about to fire |
| `DeviceAgentProofs!RestartRestoresAlways` | `RestartRestores`: restarted on its finished flash copy by its boot script, a device is on what that held and stays there, but for what that could not copy and a cut between two renames | needs `RestartInv` |
| `DeviceKeptProofs!DisarmedAlwaysStays` | where `SettleOutlasts`, `DisarmedStays`: told disarmed, a device keeps what it holds | needs `DisarmInv`, `RestartInv`'s part on what is still, and `KeptInv` |
| `DeviceKeptProofs!KeptAlwaysMarked` | there too, `KeptIsMarked`: told kept, it carries the applied marker | the same |
| `DeviceKeptProofs!MarkedAlwaysCommitted` | there too, `MarkedWasCommitted`: no other gets it | the same, as an action property |
| `NetworkApplyProofs!TypeCorrect` | `TypeOK` always, any number of devices | one lemma per variable; `ItemsOK` for the undo lists of each failure |
| `NetworkApplyProofs!CountsCorrect` | the run never counts on more time than a device gives | needs `CountInv` |
| `NetworkApplyProofs!KeptKeeps` | `KeptHolds`: a device the run counts as kept has the whole change and no watchdog | needs `HoldInv` |
| `NetworkApplyProofs!WayBackStays` | `WayBack`: a changed device has its way back until all agreed, but for one its restore is behind, in part | needs `HoldInv` and `WayInv` |
| `NetworkPromiseProofs!KeepsPromise` | `Implements`: every run is one that `AllOrNothing` allows | needs all three, and `PromiseInv` |
| `NetworkPromiseProofs!PartialAlwaysHasCause` | `PartialHasCause`: after the agreement only a device out of reach twice, or a disarming longer than the margin, leaves some kept and some not | needs `MarginInv` |
| `NetworkPromiseProofs!AlwaysToldTruly` | `ToldTruly`: what the run says of each device it undid is so, but for one whose restore failed in part | needs `ToldInv` |
| `ApplyJobProofs!TypeCorrect` | `TypeOK` always, any number of applies and actions | one lemma per kind of step |
| `ApplyJobProofs!OneApplyAlways`, `ActionsApartAlways`, `OneActionAlways` | `OneApply`, `ActionsApart`, `OneAction`: what excludes applies and actions does, but for the two causes the formulas name | the invariant `IInv` |
| `ApplyJobProofs!LiveWasAppliedAlways`, `LiveIsLastAlways` | `LiveWasApplied`, `LiveIsLast`: the live settings are ones applied everywhere, and the last | `LiveInv` and `LastInv` of it |
| `ApplyJobProofs!InterruptedIsSoAlways` | `InterruptedIsSo`: a run read as interrupted is | `ReadInv` and `WroteInv` of it |
| `SettingsProofs!NamesWhatItIsOver` | served by one process, the version a page names is of the very file its draft is over, through crossed reads, lost answers and reloads | `VersionIsSaved`, which needs that a read is whole (`ReadIsWhole`) |
| `FirmwareUpgradeProofs!TypeCorrect` | `TypeOK` always: no step of a plan is from or to a release nobody read | one lemma per action for what it does to each part |
| `FirmwareUpgradeProofs!NeverNewerSettings`, `AlwaysInTurn`, `NeverCutOff`, `NoteAlwaysOfAFlash`, `FirstBootAlwaysTold` | `NoNewerSettings`, `FlashedInTurn`, `NoneCutOff`, `NoteIsOfAFlash`, `FirstBootIsTold` | the invariant `IInv` |
| `FirmwareUpgradeProofs!AlwaysAsAsked` | `OnlyAsAsked`, an action property: what is flashed was asked and acknowledged | the plan part of `IInv` |
| `CollectorProofs!SnapshotAlwaysFresh` | `SnapshotStaysFresh`: a loop that goes on leaves no request to read beside it | needs `Clocked` and `SnapshotPaced` |
| `CollectorProofs!OutageAlwaysTold` | `OutageTold`: a device down is said so within two reads | needs `Clocked` and `MissesPaced` |
| `CollectorProofs!MovesAlwaysInTurn` | `MovesInTurn`: in memory and in every copy a client left just where it then joined | needs `MovesFollow` |

`CountsOnNoMore` is not inductive: an arm's deadline is written from the duration
of the call, so the invariant adds that a watchdog being armed has slept no
longer than that call (`ArmedDuringCall`), the same of one that said what it still
sleeps (`SaidDuringCall`), and that an arm lost before it was done leaves no
watchdog asleep on an earlier window (`NotYetArmed`). Most steps are quiet: they
start no sleep and leave the clocks alone, and `QuietStep` covers them at once.

`KeptHolds` is not inductive either. That a kept change is whole is known from the
commit's marker: `HoldInv` has it that a marked device that stands has the whole
change, that confirming asked every device for its marker before any was
disarmed, and that a device's own word of its disarming is true; and that once
one may be kept the run only waits for others, and wakes, drops or releases none.

`WayBack` rests on what the run decided earlier: a call that stands a watchdog down
is an item of an undo list written when its device was last known not to have
changed. `WayInv` splits the items by what they may do (`SafeItem`), the phases by
the devices they have not come to (`ChangedInTurn`), and says that disarming
comes only after the agreement.

The refinement maps a device's watchdog and change to its fate. Its two hard steps
are the agreement, where every fate must be open though it was asked one device
at a time (`AskedReady`: one asked still sleeps unless its time is over, which the
last answer's look at the margins then sees; this is where `CountInv` is needed),
and the end, where what the run says must be so (`VerdictHasGround`). A drop would
open a fate again were its device disarmed: the devices dropped are others than
those released (`DropsApart`), and after the agreement nothing is released.

`PartialHasCause` is a sum: `readyToDisarm` let no device be disarmed unless all had
the margin left, and `MarginInv` has it that what a sleeping watchdog still sleeps and
the time disarming has taken never add up to less (`StandsForMargin`); a device
that refuses to be disarmed is then late (`RefusesLate`), and one left for its own
watchdog has been out of reach or late (`LeftWithCause`). `ToldTruly` needs that an
answer is still so when the run hears it (`ReleasedIsSo`, `RecoveredIsSo`): no step
rouses a watchdog that is disarmed or over, or changes its device.

`DisarmedStays` holds because the order of the shell's commands on both sides fits:
the disarm puts its flag, wakes the watchdog, settles, and only then reads what
became of it. `KeptInv` follows a device from its arming on: going forward no verb
of a way back runs on it, awaited or left over from a lost answer (`OnwardCalls`);
there is one watchdog and its pid is the noted one (`OneWatchdog`), which leaves in
the code's order (`LeavesInOrder`); one commit writes its marker last
(`OneFinalise`, `SettingsSo`), so that the marker, in the directory or left
behind by the watchdog, means the whole change (`Finished`); a disarm past each look
knows what that look was for (`Evidence`, `Answers`), and what a device was told
remains so (`ToldHolds`). These three theorems have the hypothesis `SettleOutlasts`,
which the runs have too: without it a watchdog stalled for the whole settle,
between reading that no flag is there and its own mark, restores a device told
disarmed. It is a fact of scheduling (5 s against two commands), not of the
code. `RestartRestores` is inductive with what a restart leaves running: nothing of
the run, whose verbs then find no agent (`StillInv`).

`IInv` of `ApplyJob` goes from the file system up. `FreshInv` and `OwnerInv` say whose
name a lock may bear and what one who looked may have seen; `JudgedInv`, that a
lock found stale is of a process that is over, or has no name and is not new;
`HoldInv`, that but for a lock removed unjudged its directory is its holder's.
On these stand `RecordInv` and `ProcessInv` (with every pid recorded, the one run
with a process has the lock and the record), `ApartInv` (an action that goes on has
seen no run), `LiveInv` and `LastInv` (the snapshot a run is about to make live is
its own), and `ReadInv` and `WroteInv` for the reader. The theorems are for any
number of applies and actions, and any number of kills and failed writes;
`apply_job` and `apply_starts` check the same with three.

`IInv` of `FirmwareUpgrade` ties a flash to the plan made before it. Three things
have the plan's current step in hand, and the run may give up on the other two while
they go on: the run, the work on a session, a device's sysupgrade. `PlanInv` says of
which plan the steps are and what is true of each (`Going`: from and to releases
that were read, acknowledged, in order, cutting off none). `BetweenInv` says that
none of the three has anything in hand before a step or after its device is back,
`WorkInv` that the device worked on still runs what the plan knew until its flash,
and `FlashInv` that only the current device has a sysupgrade, and of the current
step. From these each promise follows by following one thing: settings
(`NoNewerSettings` is then inductive), what is cut off (`CutInv`), the app kept on its
device (`KeptInv`), the note (`NoteInv`: something is always still to come of it), and
what was told (`ToldInv`: a device on first-boot settings is done, told of, or
waited for). A plan whose devices are read later is another plan with the same steps
and, because refused ones stop it, the same promises (`ReadPlan`). The order rests
on lemmas of its own: `Before` is a total order of finitely many devices
(`BeforeOrder`), any set of them has a first (`HasFirst`), and so exactly one listing
(`Sorted`, `FlashOrder`); likewise the newest of finitely many releases
(`HasNewest`).

`Collector`'s first two are about time, and how old something may be depends on where the
loop is: asleep it is at most a pace behind its last read's end, reading at most
that and what a read takes. `Paced` says so of a time all is counted from;
`SnapshotPaced` has it of the last snapshot, `MissesPaced` of a device's fall and one
whole round for each read it has missed since, both from when the loop was
last disturbed at the latest. `TimesAssumption` asks for it that a snapshot counts as
fresh for longer than the slow pace and a read: 60 s and 30 s against 60 s and at
most 12 s (`collector.ts`, `read.ts:27`). Of the events and moves a read makes these
two need nothing, so they stay unopened.

The third needs that where a client is goes with its newest move: it has no place
just when that move says it left (`MovesFollow`), which holds of the loop's memory and
of both files, each of them whole. So taking the moves back from flash, or losing
them all, keeps what is so of them. A client that is missed leaves at
the time it was first missed, which is no earlier than its last move, so a list is in
the order of time as well, and the moves of the last days are the first of it
(`RecentIs`): dropping the others, or those above the limit, parts no two that
follow one another. `Recent` says of `list.filter` by its positions what it keeps,
which the provers can open and a filter with a test as its parameter they cannot.

The provers have no induction over data, but induction over the natural numbers can
be had without it: the set of numbers something holds for is all of them if it has 0
and each next one (`Induct`, from the numbers being well founded). That is how the
one listing is shown, over the number of devices.

Only model-checked:

- The liveness properties (`EndsWhole`, `EndsTogether`, `StartsAtLast`,
  `NoteIsFinished`): they need fairness.
- `RolledBackIsWhole`, which is claimed for two watchdogs only and fails for three
  (above), so there is no theorem of it for any number.
- `ToldInTurn`, `ToldOnce` and `AtMostAnHour` of `Collector`, and
  `AsReviewed`, `RefusedWhenMeddled` and `WhyIsTrue` of `ConfigChange`: what they are
  about is made by filters, sorts, permutations and folds over sequences of any
  length, which the provers here take as unknown. `AtMostAnHour` also depends on how
  long a boot takes against a month's bucket.
- `NothingLost` of `Settings`, and what `UciConfig` and `IntentMerge` compute for every
  input (that a config declared and applied verifies, that a merge keeps both sides'
  edits): inductions over sequences; `change_plan` and `settings` check them on what
  they reach.

## What the models leave out

- Config, packages and files by content; the engine that makes them.
- `DeviceAgent`: hooks, `stage-packages`, other runs' boot-time copies on the same
  device. So a boot-time copy that an arm whose answer was lost writes after a drop
  stays without harm here: what a restart then undoes is a later run's.
- `NetworkApply`: unconfirmed applies, what follows the disarming (hooks, service
  checks: they only turn `applied` into `applied-with-problems`). A lost call is
  done or not, never done later: that is `DeviceAgent`'s.
- `DirLock`: `removeDir` is one step (a removal cut in the middle leaves a lock
  without an owner, which the model has from other causes). Processes that hold
  a lock for a moment are assumed to take less than a minute.
- `ApplyJob`: the log, event and verify files, the times of applies, the undo's
  check before it claims, an `applyRunning` whose own read fails, a job that did
  not start and whose outcome cannot be written either, a pid reused by another
  process with the same command line; what an action does: a reboot or Wi-Fi reload it
  started goes on after its lock is given back (`status/actions.ts:110-113`).
- `FirmwareUpgrade`: images by content and how they are built; candidates and
  snapshot releases; a device that is reset by hand.
- `StatusEvents`: events of ports, radios, the mesh and failover; the bands of a
  client; the limit of 500 remembered clients. `Collector`: graphs but for the
  last reading in them; the hourly work beside the reads; a read of the network
  that fails as a whole (each device's answer may fail).
- `ConfigChange`: several configs, files, packages' reasons, changes fixes make, the
  undo of an apply (a run of the previous settings), staged changes someone else
  left uncommitted, a hand edit inside one step, a stamp that could not be
  written. The app is taken not to be updated between a review and its run.
  Packages bring sections of types the settings own.
- `Settings`: list items moved, identities told twice, a list of lists; defaults and the
  site's seed the server fills in (what is stored is what was sent); a kept edit
  that is a day old or of another network, a login that ends and forgets it; a
  read that was cancelled and still answers; older formats; the sixth backup.
  After a save whose answer was lost, the page saves again only once the request
  has ended on the server.
- The parts `PROJECT.json` lists as not modelled, each with its reason.

## Plan

Done, in this order: one device (`DeviceAgent`), one run (`NetworkApply` and
`AllOrNothing`), the lock and the job (`DirLock`, `ApplyJob`), the firmware upgrade,
the collector, a config's review and apply (`UciConfig`, `ConfigChange`), the
settings file and its pages (`IntentMerge`, `Settings`), and the proofs above.

Left, by importance:

1. **Several runs on one device**: the refusal of a device another run's watchdog
   guards (`plan.ts`), checked long before arming, and older boot-time copies.
2. **UnconfirmedApply**: `runUnconfirmed`, where no watchdog is armed and the only
   record of what a device holds is the run's (`kept`, and the verdict it gives).
3. **Algorithms**, against reference definitions over bounded inputs: provisioning
   and mesh order, progress from events, conditions.
4. **Proofs**: `Collector`'s events (`ToldInTurn`, `ToldOnce`) and `ConfigChange`
   (`AsReviewed`), once what filters and folds over them give is stated as lemmas.

Of the abstract specifications, `AllOrNothing` is stated and proved; a lock as a
variable with at most one holder for `DirLock`'s causes-free behaviours is not.
