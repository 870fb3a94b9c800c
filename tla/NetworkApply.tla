---------------------------- MODULE NetworkApply ----------------------------
(***************************************************************************)
(* One apply over several devices (src/apply/provisionNetwork.ts and the   *)
(* phases it calls): arm all, configure and commit each, confirm all, ask  *)
(* all, disarm all, and the ways back.  Each device is its change and its  *)
(* watchdog; DeviceAgent has what happens inside one.                      *)
(*                                                                         *)
(* A call is two steps: the device does it, and its answer is heard, or    *)
(* lost.  Clocks count down in ticks, at one rate on both sides, and a     *)
(* tick may pass between any two steps.                                    *)
(***************************************************************************)
EXTENDS Naturals, Sequences, FiniteSets

CONSTANTS
    N,            \* the devices, 1..N in provisioning order
    Window,       \* ticks a watchdog sleeps
    MinConfirm,   \* timing.minimumConfirmWindowMs, in ticks
    Margin,       \* disarmMarginSeconds, in ticks
    Mode,         \* the rollback mode
    Plans,        \* the plans explored: each the devices whose change includes packages or files
    MaxLost,      \* bound: calls lost, done or not
    MaxKills      \* bound: watchdogs killed asleep

ASSUME SizesAssumption ==
    /\ N \in Nat \ {0} /\ Window \in Nat \ {0} /\ MinConfirm \in Nat \ {0} /\ Margin \in Nat \ {0}
    /\ MaxLost \in Nat /\ MaxKills \in Nat
ASSUME ModeAssumption == Mode \in {"reload", "reboot", "reload-then-reboot"}
ASSUME PlansAssumption == Plans \subseteq SUBSET (1..N)

VARIABLES
    dev,        \* each device: its change, its commit's marker, its watchdog and how long that still sleeps
    hard,       \* this run's plan (hasIrreversibleSteps)
    client,     \* where the run is: its phase, the device, how long the call took so far, its answer
    deadline,   \* what the run counts on: ticks before each watchdog fires, from before its arm
    firesIn,    \* and as asked before disarming
    timed,      \* the devices that said when they fire
    todo,       \* what is left to undo, in order
    kept,       \* those that said they are disarmed
    verdict,    \* how the run will end
    told,       \* what it says of each device
    past,       \* history: whether all were found ready, ticks since, a disarming lost; the devices a restore
                \* did not put back whole, or was configured beside
    left        \* what the bounds still allow

vars == <<dev, hard, client, deadline, firesIn, timed, todo, kept, verdict, told, past, left>>
run == <<deadline, firesIn, timed, kept>>

Device == 1..N
Watchdog == {"none", "asleep", "dead", "disarmed", "restoring", "restored", "over"}
Undoing == {"wake over session", "wake", "wait", "recover", "release", "release again",
            "wait untouched", "recover untouched", "discard", "discard again", "discard stray", "discard stray again"}
Phase == {"staging", "arming", "configuring", "committing", "confirming", "asking", "asking again",
          "disarming", "disarming again", "undoing", "ended", "gone"}

Item(d, how) == [device |-> d, how |-> how]
Upward(from, to, how) == [k \in 1..(to + 1 - from) |-> Item(from + k - 1, how)]
Downward(from, to, how) == [k \in 1..(from + 1 - to) |-> Item(from + 1 - k, how)]

Doing == IF client.at # "undoing" THEN client.at ELSE IF todo = <<>> THEN "nothing" ELSE Head(todo).how
Called == IF client.at = "undoing" THEN Head(todo).device ELSE client.i
Asking == client.at \in {"asking", "asking again"}
NoTimes == [d \in Device |-> 0]
LessUnchecked(n, by) == n - by                                \* mutant: time left below nothing
Less(n, by) == IF n > by THEN n - by ELSE 0

Earliest == CHOOSE t \in 0..Window : /\ \E d \in Device : deadline[d] = t
                                     /\ \A d \in Device : t <= deadline[d]

-----------------------------------------------------------------------------
(* The devices. *)

\* Whether an agent is there to answer, and whether its run's directory is.
HasAgent(d) == dev[d].wd # "over"

Turns(d, wd) == [dev EXCEPT ![d].wd = wd, ![d].sleeps = 0]

Fires(d) ==
    /\ dev[d].wd = "asleep" /\ dev[d].sleeps = 0
    /\ dev' = Turns(d, "restoring")
    /\ UNCHANGED <<hard, client, run, todo, verdict, told, past, left>>

\* What a restore leaves of the change: nothing; or, where the snapshot could not be copied or apk
\* failed, which is only said, some or all of it ("part": it goes no further from there).
Leaves(d) == {"none"} \cup IF dev[d].change = "none" THEN {} ELSE {"part"}

Restores(d) ==
    /\ dev[d].wd = "restoring"
    /\ \E change \in Leaves(d) :
          /\ dev' = [dev EXCEPT ![d].wd = IF Mode = "reboot" THEN "over" ELSE "restored", ![d].change = change]
          /\ past' = IF change = "none" THEN past ELSE [past EXCEPT !.unrestored = @ \cup {d}]
    /\ UNCHANGED <<hard, client, run, todo, verdict, told, left>>

\* Not told in time that access is back: it reboots, or is forbidden to and ends.
GivesUp(d) ==
    /\ dev[d].wd = "restored"
    /\ dev' = [dev EXCEPT ![d].wd = "over"]
    /\ UNCHANGED <<hard, client, run, todo, verdict, told, past, left>>

Killed(d) ==
    /\ dev[d].wd = "asleep" /\ left.kills > 0
    /\ dev' = Turns(d, "dead")
    /\ left' = [left EXCEPT !.kills = @ - 1]
    /\ UNCHANGED <<hard, client, run, todo, verdict, told, past>>

-----------------------------------------------------------------------------
(* A device does what it is called for, and answers. *)

Answers(said) == client' = [client EXCEPT !.answer = said]
Asked(doing) == client.answer = "none" /\ Doing \in doing
OthersThanDevice == <<hard, run, todo, verdict, told, left>>

\* arm; one that fails may have started its watchdog all the same.
Arms ==
    /\ Asked({"arming"})
    /\ \E said \in {"yes", "no"}, wd \in {"asleep", "none"} :
          /\ said = "yes" => wd = "asleep"
          /\ Answers(said)
          /\ dev' = [dev EXCEPT ![client.i].wd = wd, ![client.i].sleeps = IF wd = "asleep" THEN Window ELSE 0]
    /\ UNCHANGED <<past, OthersThanDevice>>

\* prepare and stage: packages and files changed, config only staged.
Configures ==
    LET d == client.i IN
    /\ Asked({"configuring"})
    /\ \E said \in {"yes", "no"}, change \in {dev[d].change, "steps"} :
          /\ change = "steps" => d \in hard /\ HasAgent(d)
          /\ said = "yes" => HasAgent(d) /\ (change = "steps" <=> d \in hard)
          /\ Answers(said)
          /\ dev' = [dev EXCEPT ![d].change = change]
          /\ past' = IF change = "steps" /\ dev[d].wd \notin {"asleep", "dead"}
                       THEN [past EXCEPT !.unrestored = @ \cup {d}] ELSE past
    /\ UNCHANGED OthersThanDevice

\* finalise: commits what is staged; once its watchdog restores, nothing is. Its marker at its end.
Commits ==
    LET d == client.i
        staged == dev[d].wd \in {"asleep", "dead"} IN
    /\ Asked({"committing"})
    /\ \/ /\ Answers("yes") /\ HasAgent(d)
          /\ dev' = [dev EXCEPT ![d].change = IF staged THEN "new" ELSE @, ![d].marker = TRUE]
       \/ /\ Answers("no")
          /\ \E change \in {dev[d].change} \cup (IF staged THEN {"part"} ELSE {}) :
                dev' = [dev EXCEPT ![d].change = change]
    /\ UNCHANGED <<past, OthersThanDevice>>

\* commit-finished, over the confirming reconnect: made only before the earliest deadline.
TellsFinished ==
    /\ Asked({"confirming"}) /\ Earliest > 0
    /\ Answers(IF dev[client.i].marker /\ HasAgent(client.i) THEN "yes" ELSE "no")
    /\ UNCHANGED <<dev, past, OthersThanDevice>>

\* asleep, with the ticks it still sleeps.
TellsAsleep ==
    LET d == client.i IN
    /\ Asked({"asking", "asking again"})
    /\ client' = [client EXCEPT !.answer = IF dev[d].wd = "asleep" THEN "yes" ELSE IF dev[d].wd = "dead" THEN "kept" ELSE "no",
                                !.seconds = dev[d].sleeps]
    /\ UNCHANGED <<dev, past, OthersThanDevice>>

DisarmsAnyway(d) == dev[d].wd # "none"                         \* mutant: a fired one disarmed too
Disarmable(d) == dev[d].wd \in {"asleep", "dead", "disarmed"}

Disarms ==
    LET d == Called IN
    /\ Asked({"disarming", "disarming again", "release", "release again"})
    /\ IF Disarmable(d)
         THEN Answers("yes") /\ dev' = Turns(d, "disarmed")
         ELSE Answers("no") /\ UNCHANGED dev
    /\ UNCHANGED <<past, OthersThanDevice>>

\* rollback-now: one dead asleep is started again.
Wakes ==
    LET d == Called IN
    /\ Asked({"wake over session", "wake"})
    /\ IF dev[d].wd \in {"asleep", "dead"} THEN Answers("yes") /\ dev' = Turns(d, "restoring")
       ELSE /\ Answers(IF dev[d].wd \in {"restoring", "restored"} THEN "yes" ELSE "no")
            /\ UNCHANGED dev
    /\ UNCHANGED <<past, OthersThanDevice>>

RecoverableEarly(d) == dev[d].wd \in {"restoring", "restored"} \* mutant: told of it once it began
Recoverable(d) == dev[d].wd = "restored"

\* recovered: only once it has restored, and then it cleans up.
TellsRecovered ==
    LET d == Called IN
    /\ Asked({"recover", "recover untouched"}) /\ Mode # "reboot"
    /\ IF Recoverable(d)
         THEN Answers("yes") /\ dev' = [dev EXCEPT ![d].wd = "over"]
         ELSE Answers("no") /\ UNCHANGED dev
    /\ UNCHANGED <<past, OthersThanDevice>>

\* drop: one past its flag finishes its own run.
Drops ==
    LET d == Called IN
    /\ Asked({"discard", "discard again", "discard stray", "discard stray again"})
    /\ IF dev[d].wd \in {"none", "asleep", "dead", "disarmed"}
         THEN Answers("yes") /\ dev' = Turns(d, "none")
         ELSE Answers("no") /\ UNCHANGED dev
    /\ UNCHANGED <<past, OthersThanDevice>>

DeviceDoes ==
    \/ Arms \/ Configures \/ Commits \/ TellsFinished \/ TellsAsleep
    \/ Disarms \/ Wakes \/ TellsRecovered \/ Drops

-----------------------------------------------------------------------------
(* The run hears of it and goes on. *)

\* An answer heard; or the call lost, done on the device or not.
Hears(said) ==
    IF said = "lost" THEN left.losses > 0 /\ left' = [left EXCEPT !.losses = @ - 1]
                     ELSE said = client.answer /\ UNCHANGED left
Heard == {"yes", "no", "kept", "lost"}

From(at, i) == [at |-> at, i |-> i, took |-> 0, answer |-> "none", seconds |-> 0]
Goes(at, i) == client' = From(at, i) /\ UNCHANGED <<todo, verdict, told>>
NextOr(at, then) == IF client.i < N THEN Goes(at, client.i + 1) ELSE Goes(then, 1)
Undoes(items, end) ==
    /\ client' = From("undoing", client.i) /\ todo' = items /\ verdict' = end
    /\ UNCHANGED told

\* Agents put in place and packages staged on every device, before any is armed.
Stages ==
    /\ client.at = "staging"
    /\ \/ Goes("arming", 1)
       \/ \E i \in Device : Undoes(Upward(1, i, "discard"), "failed")
    /\ UNCHANGED <<dev, hard, run, past, left>>

\* Each deadline counts from before the call.
FromAnswer == Window                                          \* mutant: from when it answered
FromCall == Less(Window, client.took)

HearArm(said) ==
    LET i == client.i IN
    /\ client.at = "arming" /\ Hears(said)
    /\ deadline' = [deadline EXCEPT ![i] = FromCall]
    /\ IF said = "yes"
         THEN NextOr("arming", "configuring")
         ELSE Undoes(Upward(1, i - 1, "release") \o <<Item(i, "discard stray")>> \o Upward(i + 1, N, "discard"), "failed")
    /\ UNCHANGED <<dev, hard, firesIn, timed, kept, past>>

\* A committed or changed device is rolled back, latest first; one never changed is stood down.
FailsConfiguring(changed) ==
    LET i == client.i IN
    IF changed THEN Undoes(Downward(i, 1, "wake") \o Upward(i + 1, N, "release"), "rolled-back")
               ELSE Undoes(Downward(i - 1, 1, "wake") \o Upward(i, N, "release"), IF i > 1 THEN "rolled-back" ELSE "failed")

\* No session to it, before anything was asked.
Unreached ==
    /\ client.at = "configuring" /\ client.answer = "none" /\ left.losses > 0
    /\ left' = [left EXCEPT !.losses = @ - 1]
    /\ FailsConfiguring(FALSE)
    /\ UNCHANGED <<dev, hard, run, past>>

\* What a lost call changed is not known.
LeftArmedIfLost(said) == said = "lost"                        \* mutant: one that said no taken for nothing changed
LeftArmed(said) == client.i \in hard \/ said = "lost"

InTime == Earliest >= MinConfirm * client.i
HearConfigured(said) ==
    /\ client.at = "configuring" /\ Hears(said)
    /\ IF said = "yes" /\ InTime THEN Goes("committing", client.i) ELSE FailsConfiguring(LeftArmed(said))
    /\ UNCHANGED <<dev, hard, run, past>>

\* A dropped link is expected; a failed commit may have persisted part of it.
HearCommitted(said) ==
    /\ client.at = "committing" /\ Hears(said)
    /\ IF said = "no" THEN FailsConfiguring(TRUE) ELSE NextOr("configuring", "confirming")
    /\ UNCHANGED <<dev, hard, run, past>>

\* It cannot be reached on its new config before the earliest deadline: its own watchdog undoes it.
Confirmless ==
    LET i == client.i IN
    /\ client.at = "confirming" /\ client.answer = "none"
    /\ Undoes(Downward(N, i + 1, "wake") \o Downward(i - 1, 1, "wake over session") \o <<Item(i, "wait")>>, "rolled-back")
    /\ UNCHANGED <<dev, hard, run, past, left>>

HearFinished(said) ==
    LET i == client.i IN
    /\ client.at = "confirming" /\ Hears(said)
    /\ IF said = "yes" THEN NextOr("confirming", "asking")
                       ELSE Undoes(Downward(N, i, "wake") \o Downward(i - 1, 1, "wake over session"), "rolled-back")
    /\ UNCHANGED <<dev, hard, run, past>>

\* What a device said is left, less what the asking took.
AsSaid == client.seconds                                      \* mutant: as if it said so just now
AsSaidWhenAsked == Less(client.seconds, client.took)

NoneLate(ins, among) == FALSE                                 \* mutant: no margin kept
Late(ins, among) == \E d \in among : ins[d] < Margin

HearAsleep(said) ==
    LET i == client.i
        others == Downward(N, i + 1, "wake over session") \o Downward(i - 1, 1, "wake over session")
        ins == [firesIn EXCEPT ![i] = IF said = "yes" THEN AsSaidWhenAsked ELSE @]
        among == IF said = "yes" THEN timed \cup {i} ELSE timed IN
    /\ Asking /\ Hears(said)
    /\ CASE said = "lost" /\ client.at = "asking" ->
              client' = [client EXCEPT !.at = "asking again", !.answer = "none"] /\ UNCHANGED <<todo, verdict, told>>
         [] said = "lost" /\ client.at = "asking again" -> Undoes(others \o <<Item(i, "wait")>>, "rolled-back")
         [] said = "no" -> Undoes(others \o <<Item(i, "recover")>>, "rolled-back")
         [] said \in {"yes", "kept"} ->
              IF Late(ins, among) THEN Undoes(Downward(N, 1, "wake over session"), "rolled-back")
                                  ELSE NextOr("asking", "disarming")
    /\ firesIn' = IF Asking' THEN ins ELSE NoTimes
    /\ timed' = IF Asking' THEN among ELSE {}
    /\ past' = [past EXCEPT !.agreed = client'.at = "disarming"]
    /\ UNCHANGED <<dev, hard, deadline, kept>>

\* One lost as it is disarmed does not undo the rest: it rolls back on its own.
HearDisarmed(said) ==
    LET i == client.i
        keeping == IF said = "yes" THEN kept \cup {i} ELSE kept
        undoing == IF said = "yes" THEN todo ELSE Append(todo, Item(i, IF said = "no" THEN "recover" ELSE "wait")) IN
    /\ client.at \in {"disarming", "disarming again"} /\ Hears(said)
    /\ IF said = "lost" /\ client.at = "disarming"
         THEN client' = From("disarming again", i) /\ UNCHANGED <<todo, verdict, kept>>
         ELSE /\ kept' = keeping /\ todo' = undoing
              /\ IF i < N THEN client' = From("disarming", i + 1) /\ UNCHANGED verdict
                 ELSE /\ client' = From("undoing", i)
                      /\ verdict' \in IF undoing = <<>> THEN {"applied", "applied-with-problems"}
                                      ELSE IF keeping # {} THEN {"partial"} ELSE {"rolled-back"}
    /\ past' = [past EXCEPT !.cut = @ \/ (said = "lost" /\ client.at = "disarming again")]
    /\ UNCHANGED <<dev, hard, deadline, firesIn, timed, told>>

-----------------------------------------------------------------------------
(* Undoing, an item at a time: src/apply/recover.ts. *)

Becomes(how) == client' = From("undoing", client.i) /\ todo' = <<Item(Called, how)>> \o Tail(todo) /\ UNCHANGED <<told, verdict>>
Ends(word) ==
    /\ client' = From("undoing", client.i) /\ todo' = Tail(todo)
    /\ told' = [told EXCEPT ![Called] = word] /\ UNCHANGED verdict
OthersThanUndoing == <<dev, hard, run, past>>

HearWoken(said) ==
    /\ Doing \in {"wake over session", "wake"} /\ Hears(said)
    /\ CASE said = "yes" -> Becomes("recover")
         [] said # "yes" /\ Doing = "wake over session" -> Becomes("wake")
         [] said # "yes" /\ Doing = "wake" -> Becomes("wait")
    /\ UNCHANGED OthersThanUndoing

HearReleased(said) ==
    /\ Doing \in {"release", "release again"} /\ Hears(said)
    /\ CASE said = "yes" -> Ends("untouched")
         [] said \in {"no", "kept"} -> Becomes("recover untouched")
         [] said = "lost" /\ Doing = "release" -> Becomes("release again")
         [] said = "lost" /\ Doing = "release again" -> Becomes("wait untouched")
    /\ UNCHANGED OthersThanUndoing

Waits ==
    /\ Doing \in {"wait", "wait untouched"} /\ deadline[Called] = 0
    /\ Becomes(IF Doing = "wait" THEN "recover" ELSE "recover untouched")
    /\ UNCHANGED <<OthersThanUndoing, left>>

\* Asked until it says so, or for as long as its restore should take.
HearRecovered(said) ==
    /\ Doing \in {"recover", "recover untouched"} /\ Hears(said)
    /\ IF said = "yes" THEN Ends(IF Doing = "recover" THEN "rolled back" ELSE "untouched") ELSE Becomes(Doing)
    /\ UNCHANGED OthersThanUndoing

StopsAsking ==
    /\ Doing \in {"recover", "recover untouched"}
    /\ Ends("rolling back")
    /\ UNCHANGED <<OthersThanUndoing, left>>

HearDropped(said) ==
    LET stray == <<Item(Called, "wait")>> IN
    /\ Doing \in {"discard", "discard again", "discard stray", "discard stray again"} /\ Hears(said)
    /\ CASE said = "yes" -> Ends("nothing")
         [] said # "yes" /\ Doing = "discard" -> Becomes("discard again")
         [] said # "yes" /\ Doing = "discard stray" -> Becomes("discard stray again")
         [] said # "yes" /\ Doing = "discard again" -> Ends("nothing")
         \* Its watchdog may have started: told it recovered, once it has.
         [] said # "yes" /\ Doing = "discard stray again" ->
              /\ client' = From("undoing", client.i) /\ todo' = Tail(todo) \o stray
              /\ UNCHANGED <<told, verdict>>
    /\ UNCHANGED OthersThanUndoing

Concludes ==
    /\ client.at = "undoing" /\ todo = <<>>
    /\ client' = From("ended", client.i)
    /\ UNCHANGED <<OthersThanUndoing, todo, verdict, told, left>>

\* The tool's process ends mid-run, and what it knew with it.
Dies ==
    /\ client.at \notin {"ended", "gone"}
    /\ client' = From("gone", 1)
    /\ deadline' = NoTimes /\ firesIn' = NoTimes /\ timed' = {} /\ kept' = {} /\ todo' = <<>>
    /\ verdict' = "nothing" /\ told' = [d \in Device |-> "nothing"]
    /\ UNCHANGED <<dev, hard, past, left>>

RunHears ==
    \E said \in Heard :
        \/ HearArm(said) \/ HearConfigured(said) \/ HearCommitted(said) \/ HearFinished(said)
        \/ HearAsleep(said) \/ HearDisarmed(said)
        \/ HearWoken(said) \/ HearReleased(said) \/ HearRecovered(said) \/ HearDropped(said)
RunGoesOn == Stages \/ Confirmless \/ Waits \/ StopsAsking \/ Concludes

\* Only an arm's and an asleep's duration is ever used.
Timing == client.at = "arming" \/ Asking
Tick ==
    LET slower(f) == [d \in Device |-> Less(f[d], 1)]
        disarming == client.at \in {"disarming", "disarming again"} IN
    /\ dev' = [d \in Device |-> [dev[d] EXCEPT !.sleeps = Less(@, 1)]]
    /\ deadline' = slower(deadline) /\ firesIn' = slower(firesIn)
    /\ client' = [client EXCEPT !.took = IF Timing /\ @ < Window THEN @ + 1 ELSE @]
    /\ past' = IF disarming /\ past.disarming < Margin THEN [past EXCEPT !.disarming = @ + 1] ELSE past
    /\ UNCHANGED <<hard, timed, kept, todo, verdict, told, left>>

-----------------------------------------------------------------------------
Init ==
    /\ dev = [d \in Device |-> [change |-> "none", marker |-> FALSE, wd |-> "none", sleeps |-> 0]]
    /\ hard \in Plans
    /\ client = From("staging", 1)
    /\ deadline = NoTimes /\ firesIn = NoTimes
    /\ timed = {} /\ kept = {} /\ todo = <<>>
    /\ verdict = "nothing"
    /\ told = [d \in Device |-> "nothing"]
    /\ past = [agreed |-> FALSE, disarming |-> 0, cut |-> FALSE, unrestored |-> {}]
    /\ left = [losses |-> MaxLost, kills |-> MaxKills]

Next ==
    \/ \E d \in Device : Fires(d) \/ Restores(d) \/ GivesUp(d) \/ Killed(d)
    \/ DeviceDoes \/ RunHears \/ RunGoesOn \/ Unreached \/ Dies \/ Tick

Spec == Init /\ [][Next]_vars

\* Time passes, a watchdog that can go on does, a device does what it is asked and the run hears what
\* was answered, and goes on between calls.
CallGoesOn == IF client.answer = "none" THEN DeviceDoes ELSE RunHears
FairSpec ==
    /\ Spec
    /\ WF_vars(Tick)
    /\ \A d \in Device : WF_vars(Fires(d) \/ Restores(d) \/ GivesUp(d))
    /\ WF_vars(CallGoesOn) /\ WF_vars(RunGoesOn)

-----------------------------------------------------------------------------
(* Properties. *)

TypeOK ==
    /\ dev \in [Device -> [change: {"none", "steps", "part", "new"}, marker: BOOLEAN, wd: Watchdog, sleeps: 0..Window]]
    /\ hard \subseteq Device
    /\ client \in [at: Phase, i: Device, took: 0..Window, answer: {"none", "yes", "no", "kept"}, seconds: 0..Window]
    /\ deadline \in [Device -> 0..Window] /\ firesIn \in [Device -> 0..Window]
    /\ timed \subseteq Device /\ kept \subseteq Device
    /\ todo \in Seq([device: Device, how: Undoing])
    /\ verdict \in {"nothing", "applied", "applied-with-problems", "rolled-back", "partial", "failed"}
    /\ told \in [Device -> {"nothing", "untouched", "rolled back", "rolling back"}]
    /\ past \in [agreed: BOOLEAN, disarming: 0..Margin, cut: BOOLEAN, unrestored: SUBSET Device]
    /\ left \in [losses: 0..MaxLost, kills: 0..MaxKills]

\* The run never counts on time a device does not give: a watchdog sleeps at
\* least until the deadline measured from before its arm, and until what its
\* answer said, less the whole of the asking.
CountsOnNoMore ==
    \A d \in Device : dev[d].wd = "asleep" =>
        /\ deadline[d] <= dev[d].sleeps
        /\ d \in timed => firesIn[d] <= dev[d].sleeps

\* A device the run counts as kept has the whole change, and no watchdog to
\* take it away: src/apply/provisionNetwork.ts says it is "keeping the change".
KeptHolds == \A d \in kept : dev[d].wd = "disarmed" /\ dev[d].change = "new"

\* A changed device always has its way back (a watchdog that restores it, or
\* that a restart or a wake can replace), until all were found ready and it
\* was disarmed: abort and disarmLive never stand down one that changed.  But
\* for one its watchdog has been through and could not put back, or that was
\* configured beside it: a restore is not tried twice.
WayBack ==
    \A d \in Device \ past.unrestored :
        \/ dev[d].change = "none"
        \/ dev[d].wd \in {"asleep", "dead", "restoring"}
        \/ past.agreed /\ dev[d].wd = "disarmed"

\* Once all were found ready, some keep the change and some do not only if a
\* device could not be reached twice as it was disarmed, or disarming took
\* longer than the margin readyToDisarm asked for.
PartialHasCause == verdict = "partial" => past.cut \/ past.disarming = Margin

\* What the run says of a device it undid is so: rolled back, or never
\* changed, with no watchdog left to restore or reboot it; but for one whose
\* restore could not put all of it back, of which the run is told the same.
ToldTruly ==
    \A d \in Device \ past.unrestored :
        told[d] \in {"rolled back", "untouched"} => dev[d].change = "none" /\ dev[d].wd \in {"disarmed", "over"}

\* The head of src/apply/provisionNetwork.ts, as AllOrNothing has it; what a
\* watchdog took on is undone here though its restore left some of it.
Fate(d) ==
    CASE dev[d].wd = "disarmed" /\ past.agreed -> IF dev[d].change = "new" THEN "kept" ELSE "in part"
      [] dev[d].wd = "disarmed" /\ ~past.agreed -> "undone"
      [] dev[d].wd \in {"restoring", "restored", "over"} -> "undone"
      [] dev[d].wd \in {"none", "asleep", "dead"} -> "open"
Said ==
    IF client.at # "ended" THEN "nothing"
    ELSE IF verdict = "applied-with-problems" THEN "applied" ELSE verdict
Promise == INSTANCE AllOrNothing WITH fate <- [d \in Device |-> Fate(d)], agreed <- past.agreed, said <- Said
Implements == Promise!Spec

\* However the run ends, its own process included, every device comes to keep
\* the change or to have none of it, but for one whose watchdog was killed and
\* which nothing woke, which waits for a restart, and one whose restore could
\* not put it back.
EndsTogether ==
    <>[](/\ client.at \in {"ended", "gone"}
         /\ \A d \in Device \ past.unrestored :
               \/ dev[d].change = "none" /\ dev[d].wd \notin {"asleep", "restoring"}
               \/ dev[d].wd = "disarmed" /\ past.agreed
               \/ dev[d].wd = "dead")
=============================================================================
