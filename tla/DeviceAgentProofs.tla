------------------------- MODULE DeviceAgentProofs -------------------------
(***************************************************************************)
(* DeviceAgent's type invariant and what a disarm goes by, for any number  *)
(* of watchdogs, calls, losses, kills and cuts.                            *)
(***************************************************************************)
EXTENDS DeviceAgent, TLAPS

(* The run's files. *)

LEMMA WithoutDirOK ==
    ASSUME NEW r \in Ram
    PROVE  WithoutDir(r) \in Ram /\ WithoutDir(r).marks = {} /\ WithoutDir(r).pid = 0 /\ WithoutDir(r).slept = 0
<1>1. 0 \in 0..MaxWatchdogs
  BY BoundsAssumption DEF BoundsAssumption
<1>2. WithoutDir(r) \in Ram
  BY <1>1 DEF WithoutDir, Ram
<1>3. WithoutDir(r).marks = {} /\ WithoutDir(r).pid = 0 /\ WithoutDir(r).slept = 0
  BY DEF WithoutDir, Ram
<1> QED BY <1>2, <1>3

\* What the verbs and the watchdog do to the run's files keeps them well formed.
LEMMA RamSteps ==
    ASSUME RamOK
    PROVE  /\ \A w \in Watchdog : ram.dir /\ ram' \in {[ram EXCEPT !.pid = w], [ram EXCEPT !.slept = w]} => RamOK'
           /\ \A mark \in Marks : ram' = Touch(mark) => RamOK'
           /\ \A said \in SUBSET {"committed", "disarmed"} : ram' = [ram EXCEPT !.out = said] => RamOK'
           /\ \A some \in BOOLEAN : ram' = [ram EXCEPT !.staged = some] => RamOK'
           /\ ram' = WithoutDir(ram) => RamOK'
           /\ ram' = [WithoutDir(ram) EXCEPT !.script = FALSE] => RamOK'
           /\ ram' = [WithoutDir(ram) EXCEPT !.script = FALSE, !.out = {}] => RamOK'
           /\ ram' = [ram EXCEPT !.script = FALSE, !.out = {}] => RamOK'
<1>1. ASSUME NEW w \in Watchdog, ram.dir, ram' = [ram EXCEPT !.pid = w] PROVE RamOK'
  <2>1. ram' \in Ram /\ ram'.dir
    BY <1>1 DEF RamOK, Ram, Watchdog
  <2> QED BY <2>1 DEF RamOK
<1>2. ASSUME NEW w \in Watchdog, ram.dir, ram' = [ram EXCEPT !.slept = w] PROVE RamOK'
  <2>1. ram' \in Ram /\ ram'.dir
    BY <1>2 DEF RamOK, Ram, Watchdog
  <2> QED BY <2>1 DEF RamOK
<1>3. ASSUME NEW mark \in Marks, ram' = Touch(mark) PROVE RamOK'
  BY <1>3 DEF RamOK, Touch, Ram
<1>4. ASSUME NEW said \in SUBSET {"committed", "disarmed"}, ram' = [ram EXCEPT !.out = said] PROVE RamOK'
  BY <1>4 DEF RamOK, Ram
<1>5. ASSUME NEW some \in BOOLEAN, ram' = [ram EXCEPT !.staged = some] PROVE RamOK'
  BY <1>5 DEF RamOK, Ram
<1>6. ASSUME ram' = WithoutDir(ram) PROVE RamOK'
  BY <1>6, WithoutDirOK DEF RamOK
<1>7. ASSUME NEW r \in Ram, r.marks = {}, r.pid = 0, r.slept = 0,
             ram' \in {[r EXCEPT !.script = FALSE], [r EXCEPT !.script = FALSE, !.out = {}]}
      PROVE  RamOK'
  BY <1>7 DEF RamOK, Ram
<1>8. ASSUME ram' = [ram EXCEPT !.script = FALSE, !.out = {}] PROVE RamOK'
  BY <1>8 DEF RamOK, Ram
<1>9. ASSUME ram' \in {[WithoutDir(ram) EXCEPT !.script = FALSE], [WithoutDir(ram) EXCEPT !.script = FALSE, !.out = {}]}
      PROVE  RamOK'
  BY <1>9, <1>7, WithoutDirOK DEF RamOK
<1> QED BY <1>1, <1>2, <1>3, <1>4, <1>5, <1>6, <1>8, <1>9

(* The watchdog's steps. *)

LEMMA GoesOK ==
    ASSUME WdOK, NEW w \in Watchdog, NEW from, NEW to \in WatchdogAt, Goes(w, from, to)
    PROVE  WdOK'
BY DEF WdOK, Goes

LEMMA WatchdogWdOK ==
    ASSUME TypeOK, NEW w \in Watchdog, WatchdogStep(w), ~WatchdogReboots(w), ~WatchdogGivesUp(w)
    PROVE  WdOK'
<1>1. CASE WatchdogSleeps(w)
  BY <1>1, BoundsAssumption DEF BoundsAssumption, WatchdogSleeps, TypeOK, WdOK, RamOK, Ram, WatchdogAt
<1>2. CASE ~WatchdogSleeps(w)
  <2>1. \E from \in WatchdogAt, to \in WatchdogAt : Goes(w, from, to)
    BY <1>2 DEF WatchdogStep, WatchdogBegins, WatchdogWakes, WatchdogDecides, WatchdogStandsDown, WatchdogFires,
                WatchdogCopies, WatchdogSwaps, WatchdogRestores, WatchdogRestoresPackages, WatchdogRestoresLinks,
                WatchdogReloads, WatchdogCleansUp, WatchdogAt
  <2> QED BY <2>1, GoesOK DEF TypeOK
<1> QED BY <1>1, <1>2

LEMMA WatchdogRamOK ==
    ASSUME TypeOK, NEW w \in Watchdog, WatchdogStep(w), ~WatchdogReboots(w), ~WatchdogGivesUp(w)
    PROVE  RamOK'
<1> RamOK BY DEF TypeOK
<1>0. CASE UNCHANGED ram
  BY <1>0 DEF RamOK
<1>1. CASE WatchdogBegins(w) \/ WatchdogSleeps(w)
  BY <1>0, <1>1, RamSteps DEF WatchdogBegins, WatchdogSleeps
<1>2. CASE WatchdogStandsDown(w)
  <2>1. ram.out \in SUBSET {"committed", "disarmed"}
    BY DEF RamOK, Ram
  <2> QED BY <1>2, <2>1, RamSteps DEF WatchdogStandsDown, LeavesCommitMark
<1>3. CASE WatchdogFires(w) \/ WatchdogReloads(w)
  BY <1>3, RamSteps DEF WatchdogFires, WatchdogReloads, Marks
<1>4. CASE WatchdogRestores(w)
  BY <1>0, <1>4, RamSteps DEF WatchdogRestores
<1>5. CASE WatchdogCleansUp(w)
  BY <1>5, RamSteps DEF WatchdogCleansUp
<1> QED BY <1>0, <1>1, <1>2, <1>3, <1>4, <1>5 DEF WatchdogStep, WatchdogWakes, WatchdogDecides, WatchdogCopies,
      WatchdogSwaps, WatchdogRestoresPackages, WatchdogRestoresLinks, device
LEMMA WatchdogFlashOK ==
    ASSUME TypeOK, NEW w \in Watchdog, WatchdogStep(w)
    PROVE  FlashOK'
<1> USE DEF TypeOK, FlashOK, device
<1>1. CASE WatchdogStandsDown(w)
  BY <1>1 DEF WatchdogStandsDown, Flash
<1>2. CASE WatchdogCopies(w)
  BY <1>2 DEF WatchdogCopies, Flash
<1>3. CASE WatchdogSwaps(w)
  BY <1>3 DEF WatchdogSwaps, SwapOut, SwapIn, Flash, Settings
<1>4. CASE WatchdogRestores(w)
  BY <1>4 DEF WatchdogRestores, Flash
<1>5. CASE WatchdogRestoresPackages(w)
  BY <1>5 DEF WatchdogRestoresPackages, Flash
<1>6. CASE WatchdogRestoresLinks(w)
  BY <1>6 DEF WatchdogRestoresLinks, Flash
<1> QED
  BY <1>1, <1>2, <1>3, <1>4, <1>5, <1>6
  DEF WatchdogStep, WatchdogBegins, WatchdogSleeps, WatchdogWakes, WatchdogDecides, WatchdogFires,
      WatchdogReboots, WatchdogReloads, WatchdogCleansUp, WatchdogGivesUp

LEMMA RestartOK ==
    ASSUME TypeOK, Restart
    PROVE  RamOK' /\ up' \in UpAt /\ WdOK' /\ VerbOK' /\ past' \subseteq Events
<1>0. 0 \in 0..MaxWatchdogs
  BY BoundsAssumption DEF BoundsAssumption
<1>1. RamOK'
  <2>1. EmptyRam \in Ram
    BY <1>0 DEF EmptyRam, Ram
  <2>2. EmptyRam.marks = {} /\ EmptyRam.pid = 0 /\ EmptyRam.slept = 0
    BY DEF EmptyRam
  <2> QED BY <2>1, <2>2 DEF Restart, RamAfterRestart, RamOK
<1>2. up' \in UpAt /\ past' \subseteq Events
  BY DEF TypeOK, Restart, UpAt
<1>3. WdOK'
  BY DEF TypeOK, Restart, WdOK, WatchdogAt
<1>4. VerbOK'
  <2>1. Silent \in [at: VerbAt, p: 0..MaxWatchdogs, s: 0..MaxWatchdogs, answer: {"none", "yes", "kept", "no"}]
    BY <1>0 DEF Silent, VerbAt
  <2> QED BY <2>1 DEF Restart, VerbOK
<1> QED BY <1>1, <1>2, <1>3, <1>4

LEMMA WatchdogStepOK ==
    ASSUME TypeOK, NEW w \in Watchdog, WatchdogStep(w)
    PROVE  TypeOK'
<1>1. CASE WatchdogReboots(w) \/ WatchdogGivesUp(w)
  BY <1>1, RestartOK
  DEF WatchdogReboots, WatchdogGivesUp, TypeOK, FlashOK, ClientOK, LeftOK
<1>2. CASE ~WatchdogReboots(w) /\ ~WatchdogGivesUp(w)
  <2>1. up' \in UpAt /\ past' \subseteq Events /\ VerbOK' /\ ClientOK' /\ LeftOK'
    BY <1>2 DEF TypeOK, VerbOK, ClientOK, LeftOK, Events, OthersThanWatchdog, device, WatchdogStep,
        WatchdogBegins, WatchdogSleeps, WatchdogWakes, WatchdogDecides, WatchdogStandsDown, WatchdogFires,
        WatchdogCopies, WatchdogSwaps, WatchdogRestores, WatchdogRestoresPackages, WatchdogRestoresLinks,
        WatchdogReloads, WatchdogCleansUp
  <2> QED BY <1>2, <2>1, WatchdogWdOK, WatchdogRamOK, WatchdogFlashOK DEF TypeOK
<1> QED BY <1>1, <1>2

LEMMA MishapsOK ==
    ASSUME TypeOK, PowerCut \/ BootStep \/ \E w \in Watchdog : SleepEnds(w) \/ WatchdogKilled(w)
    PROVE  TypeOK'
<1>1. CASE PowerCut
  <2>1. LeftOK'
    <3>1. left.cuts - 1 \in 0..MaxCuts
      BY <1>1, BoundsAssumption DEF BoundsAssumption, PowerCut, TypeOK, LeftOK
    <3> QED BY <1>1, <3>1 DEF PowerCut, TypeOK, LeftOK
  <2> QED BY <1>1, <2>1, RestartOK DEF PowerCut, TypeOK, FlashOK, ClientOK
<1>2. CASE BootStep
  <2>1. FlashOK' /\ up' \in UpAt /\ past' \subseteq Events
    BY ZenonT(60), <1>2 DEF BootStep, SwapOut, SwapIn, TypeOK, FlashOK, Flash, Settings, UpAt, Events
  <2> QED BY <1>2, <2>1 DEF BootStep, TypeOK, RamOK, WdOK, VerbOK, ClientOK, LeftOK
<1>3. ASSUME NEW w \in Watchdog, SleepEnds(w) PROVE TypeOK'
  BY <1>3 DEF SleepEnds, TypeOK, device, OthersThanWatchdog, FlashOK, RamOK, WdOK, VerbOK, ClientOK, LeftOK
<1>4. ASSUME NEW w \in Watchdog, WatchdogKilled(w) PROVE TypeOK'
  <2>1. WdOK'
    BY <1>4 DEF WatchdogKilled, TypeOK, WdOK, WatchdogAt
  <2>2. left.kills - 1 \in 0..MaxKills
    BY <1>4, BoundsAssumption DEF BoundsAssumption, WatchdogKilled, TypeOK, LeftOK
  <2>3. LeftOK'
    BY <1>4, <2>2 DEF WatchdogKilled, TypeOK, LeftOK
  <2> QED BY <1>4, <2>1, <2>3 DEF WatchdogKilled, TypeOK, device, FlashOK, RamOK, VerbOK, ClientOK
<1> QED BY <1>1, <1>2, <1>3, <1>4
(* The verbs' steps. *)

VerbRecord == [at: VerbAt, p: 0..MaxWatchdogs, s: 0..MaxWatchdogs, answer: {"none", "yes", "kept", "no"}]

LEMMA ThenOK ==
    ASSUME VerbOK, NEW c \in Call, NEW from, NEW to \in VerbAt, Then(c, from, to)
    PROVE  VerbOK'
BY DEF VerbOK, Then

LEMMA SilentOK == Silent \in VerbRecord
<1>1. 0 \in 0..MaxWatchdogs
  BY BoundsAssumption DEF BoundsAssumption
<1> QED BY <1>1 DEF Silent, VerbRecord, VerbAt

LEMMA SaysOK ==
    ASSUME VerbOK, NEW c \in Call, NEW from, NEW answer \in {"yes", "kept", "no"}, Says(c, from, answer)
    PROVE  VerbOK'
<1>1. [Silent EXCEPT !.at = "said", !.answer = answer] \in VerbRecord
  BY SilentOK DEF VerbRecord, VerbAt
<1> QED BY <1>1 DEF VerbOK, VerbRecord, Says

LEMMA StartedOK ==
    ASSUME WdOK, wd' = Started
    PROVE  WdOK'
BY ZenonT(60) DEF WdOK, Started, WatchdogAt

LEMMA WokenOK ==
    ASSUME WdOK, NEW w, wd' = [wd EXCEPT ![w].sleeps = FALSE]
    PROVE  WdOK'
BY DEF WdOK

LEMMA ArmOK ==
    ASSUME TypeOK, NEW c \in Call, Arm(c)
    PROVE  TypeOK'
<1> FlashOK /\ RamOK /\ WdOK /\ VerbOK
  BY DEF TypeOK
<1>1. VerbOK'
  <2>1. \/ \E from \in VerbAt, to \in VerbAt : Then(c, from, to)
        \/ \E from \in VerbAt, answer \in {"yes", "no"} : Says(c, from, answer)
    BY DEF Arm, VerbAt
  <2> QED BY <2>1, ThenOK, SaysOK
<1>2. FlashOK'
  BY DEF Arm, FlashOK, Flash
<1>3. RamOK'
  BY RamSteps DEF Arm, Marks, RamOK
<1>4. WdOK'
  BY StartedOK DEF Arm, WdOK
<1> QED BY <1>1, <1>2, <1>3, <1>4 DEF Arm, TypeOK, OthersThanVerb, ClientOK, LeftOK

\* The step verbs only write to flash, stage, and mark.
LEMMA StepVerbOK ==
    ASSUME TypeOK, NEW c \in Call, Prepare(c) \/ Stage(c) \/ Finalise(c) \/ Services(c)
    PROVE  TypeOK'
<1> FlashOK /\ RamOK /\ WdOK /\ VerbOK
  BY DEF TypeOK
<1>1. VerbOK'
  <2>1. \/ \E from \in VerbAt, to \in VerbAt : Then(c, from, to)
        \/ \E from \in VerbAt, answer \in {"yes", "no"} : Says(c, from, answer)
    BY ZenonT(60) DEF Prepare, Stage, Finalise, Services, VerbAt
  <2> QED BY <2>1, ThenOK, SaysOK
<1>2. FlashOK'
  BY ZenonT(60) DEF Prepare, Stage, Finalise, Services, Committed, FlashOK, Flash, Settings
<1>3. RamOK'
  <2>1. \/ UNCHANGED ram
        \/ \E some \in BOOLEAN : ram' = [ram EXCEPT !.staged = some]
        \/ ram' = Touch("committed")
    BY DEF Prepare, Stage, Finalise, Services, RamOK, Ram
  <2> QED BY <2>1, RamSteps DEF RamOK, Marks
<1>4. past' \subseteq Events /\ WdOK' /\ up' \in UpAt /\ ClientOK' /\ LeftOK'
  BY DEF Prepare, Stage, Finalise, Services, NotesOverlap, Events, OthersThanVerb, TypeOK, WdOK, ClientOK, LeftOK
<1> QED BY <1>1, <1>2, <1>3, <1>4 DEF TypeOK

LEMMA ShortVerbOK ==
    ASSUME TypeOK, NEW c \in Call, ShortVerb(c)
    PROVE  TypeOK'
<1> RamOK /\ VerbOK
  BY DEF TypeOK
<1>1. VerbOK'
  <2>1. \E from \in VerbAt, answer \in {"yes", "kept", "no"} : Says(c, from, answer)
    BY DEF ShortVerb, Answered, VerbAt
  <2> QED BY <2>1, SaysOK
<1>2. RamOK'
  BY RamSteps DEF ShortVerb, Marks, RamOK
<1> QED BY <1>1, <1>2 DEF ShortVerb, TypeOK, OthersThanVerb, FlashOK, WdOK, ClientOK, LeftOK

LEMMA DisarmOK ==
    ASSUME TypeOK, NEW c \in Call, Disarm(c) \/ DisarmEnds(c)
    PROVE  TypeOK'
<1> FlashOK /\ RamOK /\ WdOK /\ VerbOK
  BY DEF TypeOK
<1>1. VerbOK'
  <2>1. CASE verb' = [verb EXCEPT ![c] = [@ EXCEPT !.at = "confirming", !.p = ram.pid, !.s = ram.slept]]
    <3>1. [verb[c] EXCEPT !.at = "confirming", !.p = ram.pid, !.s = ram.slept] \in VerbRecord
      <4>1. verb[c] \in VerbRecord
        BY DEF VerbOK, VerbRecord
      <4>2. ram.pid \in 0..MaxWatchdogs /\ ram.slept \in 0..MaxWatchdogs
        BY DEF RamOK, Ram
      <4>3. "confirming" \in VerbAt
        BY DEF VerbAt
      <4> QED BY <4>1, <4>2, <4>3 DEF VerbRecord
    <3> QED BY <2>1, <3>1 DEF VerbOK, VerbRecord
  <2>2. CASE \/ \E from \in VerbAt, to \in VerbAt : Then(c, from, to)
             \/ \E from \in VerbAt, answer \in {"yes", "no"} : Says(c, from, answer)
    BY <2>2, ThenOK, SaysOK
  <2> QED BY ZenonT(60), <2>1, <2>2 DEF Disarm, DisarmEnds, VerbAt
<1>2. RamOK'
  BY RamSteps DEF Disarm, DisarmEnds, Marks, RamOK
<1>3. FlashOK'
  BY DEF Disarm, DisarmEnds, FlashOK, Flash
<1>4. WdOK'
  BY WokenOK DEF Disarm, DisarmEnds, WdOK
<1> QED BY <1>1, <1>2, <1>3, <1>4 DEF Disarm, DisarmEnds, TypeOK, OthersThanVerb, ClientOK, LeftOK

LEMMA DropOK ==
    ASSUME TypeOK, NEW c \in Call, Drop(c)
    PROVE  TypeOK'
<1> FlashOK /\ RamOK /\ WdOK /\ VerbOK
  BY DEF TypeOK
<1>1. VerbOK'
  <2>1. CASE verb' = [verb EXCEPT ![c] = [@ EXCEPT !.at = "settling drop", !.p = ram.pid]]
    <3>1. [verb[c] EXCEPT !.at = "settling drop", !.p = ram.pid] \in VerbRecord
      <4>1. verb[c] \in VerbRecord
        BY DEF VerbOK, VerbRecord
      <4>2. ram.pid \in 0..MaxWatchdogs /\ ram.slept \in 0..MaxWatchdogs
        BY DEF RamOK, Ram
      <4>3. "settling drop" \in VerbAt
        BY DEF VerbAt
      <4> QED BY <4>1, <4>2, <4>3 DEF VerbRecord
    <3> QED BY <2>1, <3>1 DEF VerbOK, VerbRecord
  <2>2. CASE \/ \E from \in VerbAt, to \in VerbAt : Then(c, from, to)
             \/ \E from \in VerbAt, answer \in {"yes", "no"} : Says(c, from, answer)
    BY <2>2, ThenOK, SaysOK
  <2> QED BY <2>1, <2>2 DEF Drop, VerbAt
<1>2. RamOK'
  BY RamSteps DEF Drop, Marks, RamOK
<1>3. FlashOK'
  BY DEF Drop, FlashOK, Flash
<1>4. WdOK'
  BY WokenOK DEF Drop, WdOK
<1> QED BY <1>1, <1>2, <1>3, <1>4 DEF Drop, TypeOK, OthersThanVerb, ClientOK, LeftOK

LEMMA RollbackNowOK ==
    ASSUME TypeOK, NEW c \in Call, RollbackNow(c)
    PROVE  TypeOK'
<1> WdOK /\ VerbOK
  BY DEF TypeOK
<1>1. VerbOK'
  <2>1. \/ \E from \in VerbAt, to \in VerbAt : Then(c, from, to)
        \/ \E from \in VerbAt, answer \in {"yes", "no"} : Says(c, from, answer)
    BY DEF RollbackNow, VerbAt
  <2> QED BY <2>1, ThenOK, SaysOK
<1>2. WdOK'
  BY StartedOK, WokenOK DEF RollbackNow, WdOK
<1> QED BY <1>1, <1>2 DEF RollbackNow, TypeOK, OthersThanVerb, FlashOK, RamOK, ClientOK, LeftOK

(* The apply's side. *)

LEMMA FollowingOK ==
    ASSUME NEW phase \in Phase, NEW said, NEW next \in Following(phase, said)
    PROVE  next \in Phase
BY DEF Following, AfterRevert, Phase, PhaseVerb

LEMMA BeginsOK ==
    ASSUME NEW phase \in Phase, phase # "over"
    PROVE  Begins[PhaseVerb[phase]] \in VerbAt
<1>1. PhaseVerb[phase] \in DOMAIN Begins
  BY DEF Begins, PhaseVerb, Phase
<1>2. Begins \in [arm: VerbAt, prepare: VerbAt, stage: VerbAt, finalise: VerbAt, services: VerbAt,
                  commit_finished: VerbAt, asleep: VerbAt, disarm: VerbAt, done: VerbAt, rollback_now: VerbAt,
                  recovered: VerbAt, drop: VerbAt, revert: VerbAt]
  BY DEF Begins, VerbAt
<1> QED BY <1>1, <1>2

LEMMA HearsOK ==
    ASSUME ClientOK, NEW said, Hears(said)
    PROVE  ClientOK'
<1> PICK phase \in Following(client.phase, said) :
           client' = [client EXCEPT !.phase = phase, !.awaits = 0, !.told = Told(client.phase, said)]
  BY DEF Hears
<1>1. phase \in Phase
  BY FollowingOK DEF ClientOK, Client
<1>2. Told(client.phase, said) \in {"nothing", "kept", "untouched", "rolled back", "dropped"}
  BY DEF Told, ClientOK, Client
<1>3. 0 \in 0..MaxCalls
  BY BoundsAssumption DEF BoundsAssumption
<1> QED BY <1>1, <1>2, <1>3 DEF ClientOK, Client

LEMMA ClientStepOK ==
    ASSUME TypeOK, CallVerb \/ HearAnswer \/ LoseAnswer \/ Unreachable \/ ClientDies \/ \E c \in Call : VerbEnds(c)
    PROVE  TypeOK'
<1> RamOK /\ VerbOK /\ ClientOK /\ LeftOK
  BY DEF TypeOK
<1>1. CASE CallVerb
  <2> PICK c \in Call :
        /\ client' = [client EXCEPT !.awaits = c]
        /\ verb' = [verb EXCEPT ![c].at = IF ram.script THEN Begins[PhaseVerb[client.phase]] ELSE "said",
                                ![c].answer = IF ram.script THEN "none" ELSE "no"]
    BY <1>1 DEF CallVerb
  <2>1. ClientOK'
    <3>1. c \in 0..MaxCalls
      BY BoundsAssumption DEF BoundsAssumption, Call
    <3> QED BY <3>1 DEF ClientOK, Client
  <2>2. (IF ram.script THEN Begins[PhaseVerb[client.phase]] ELSE "said") \in VerbAt
    BY <1>1, BeginsOK DEF CallVerb, ClientOK, Client, VerbAt
  <2>3. VerbOK'
    <3>1. [verb[c] EXCEPT !.at = IF ram.script THEN Begins[PhaseVerb[client.phase]] ELSE "said",
                          !.answer = IF ram.script THEN "none" ELSE "no"] \in VerbRecord
      BY <2>2 DEF VerbOK, VerbRecord
    <3> QED BY <3>1 DEF VerbOK, VerbRecord
  <2> QED BY <1>1, <2>1, <2>3 DEF CallVerb, TypeOK, device, FlashOK, RamOK, WdOK, LeftOK
<1>2. CASE HearAnswer
  <2>2. ClientOK'
    BY <1>2, HearsOK DEF HearAnswer
  <2>3. VerbOK'
    BY <1>2, SilentOK DEF HearAnswer, VerbOK, VerbRecord
  <2> QED BY <1>2, <2>2, <2>3 DEF HearAnswer, TypeOK, device, FlashOK, RamOK, WdOK, LeftOK
<1>3. CASE LoseAnswer
  <2>1. left.losses - 1 \in 0..MaxLost
    BY <1>3, BoundsAssumption DEF BoundsAssumption, LoseAnswer, LeftOK
  <2>2. LeftOK' /\ ClientOK'
    BY <1>3, <2>1, HearsOK DEF LoseAnswer, LeftOK
  <2> QED BY <1>3, <2>2 DEF LoseAnswer, TypeOK, device, FlashOK, RamOK, WdOK, VerbOK
<1>4. CASE Unreachable
  BY <1>4, HearsOK DEF Unreachable, TypeOK, device, FlashOK, RamOK, WdOK, VerbOK, LeftOK
<1>5. CASE ClientDies
  <2>1. 0 \in 0..MaxCalls
    BY BoundsAssumption DEF BoundsAssumption
  <2>2. ClientOK'
    BY <1>5, <2>1 DEF ClientDies, ClientOK, Client, Phase
  <2> QED BY <1>5, <2>2 DEF ClientDies, TypeOK, device, FlashOK, RamOK, WdOK, VerbOK, LeftOK
<1>6. ASSUME NEW c \in Call, VerbEnds(c) PROVE TypeOK'
  <2>1. VerbOK'
    BY <1>6, SilentOK DEF VerbEnds, VerbOK, VerbRecord
  <2> QED BY <1>6, <2>1 DEF VerbEnds, TypeOK, device, FlashOK, RamOK, WdOK, ClientOK, LeftOK
<1> QED BY <1>1, <1>2, <1>3, <1>4, <1>5, <1>6

-----------------------------------------------------------------------------
LEMMA InitOK == Init => TypeOK
<1> SUFFICES ASSUME Init PROVE TypeOK
  OBVIOUS
<1>0. 0 \in 0..MaxWatchdogs /\ 0 \in 0..MaxCalls
  BY BoundsAssumption DEF BoundsAssumption
<1>1. FlashOK /\ up \in UpAt /\ past \subseteq Events
  BY DEF Init, FlashOK, Flash, Settings, UpAt
<1>2. RamOK
  BY <1>0 DEF Init, EmptyRam, RamOK, Ram
<1>3. WdOK /\ VerbOK
  BY SilentOK DEF Init, WdOK, WatchdogAt, VerbOK, VerbRecord
<1>4. ClientOK
  BY <1>0 DEF Init, ClientOK, Client, Phase, PhaseVerb
<1>5. LeftOK
  BY BoundsAssumption DEF BoundsAssumption, Init, LeftOK
<1> QED BY <1>1, <1>2, <1>3, <1>4, <1>5 DEF TypeOK

LEMMA StepOK == TypeOK /\ [Next]_vars => TypeOK'
<1> SUFFICES ASSUME TypeOK, [Next]_vars PROVE TypeOK'
  OBVIOUS
<1>1. ASSUME NEW w \in Watchdog, WatchdogStep(w) PROVE TypeOK'
  BY <1>1, WatchdogStepOK
<1>2. ASSUME NEW c \in Call, VerbStep(c) PROVE TypeOK'
  BY <1>2, ArmOK, StepVerbOK, ShortVerbOK, DisarmOK, DropOK, RollbackNowOK DEF VerbStep
<1>3. CASE PowerCut \/ BootStep \/ \E w \in Watchdog : SleepEnds(w) \/ WatchdogKilled(w)
  BY <1>3, MishapsOK
<1>4. CASE CallVerb \/ HearAnswer \/ LoseAnswer \/ Unreachable \/ ClientDies \/ \E c \in Call : VerbEnds(c)
  BY <1>4, ClientStepOK
<1>5. CASE UNCHANGED vars
  BY <1>5 DEF vars, TypeOK, FlashOK, RamOK, WdOK, VerbOK, ClientOK, LeftOK
<1> QED BY <1>1, <1>2, <1>3, <1>4, <1>5 DEF Next

\* Every variable holds what it holds in the code, and a run whose directory is
\* gone has left no marker or pid in it, whichever verbs and watchdogs interleave.
THEOREM TypeCorrect == Spec => []TypeOK
BY InitOK, StepOK, PTL DEF Spec

-----------------------------------------------------------------------------
(* What a disarm goes by. *)

\* A run's directory is made once, and its markers stay until it goes.
LEMMA MarksStay ==
    ASSUME TypeOK, [Next]_vars, ram'.dir
    PROVE  ram.dir /\ ram.marks \subseteq ram'.marks
<1> ram \in Ram
  BY DEF TypeOK, RamOK
<1>1. CASE UNCHANGED ram
  BY <1>1
<1>2. ASSUME Restart PROVE FALSE
  BY <1>2 DEF Restart, RamAfterRestart, EmptyRam
<1>3. ASSUME NEW w \in Watchdog, WatchdogStep(w) PROVE ram.dir /\ ram.marks \subseteq ram'.marks
  <2>1. CASE WatchdogBegins(w) \/ WatchdogSleeps(w) \/ WatchdogRestores(w)
    BY <1>1, <2>1 DEF WatchdogBegins, WatchdogSleeps, WatchdogRestores, Ram
  <2>2. CASE WatchdogStandsDown(w)
    BY <2>2 DEF WatchdogStandsDown, WithoutDir, Ram
  <2>3. CASE WatchdogFires(w) \/ WatchdogReloads(w)
    BY <2>3 DEF WatchdogFires, WatchdogReloads, Touch, Ram
  <2>4. CASE WatchdogCleansUp(w)
    BY <2>4 DEF WatchdogCleansUp, WithoutDir, Ram
  <2>5. CASE WatchdogReboots(w) \/ WatchdogGivesUp(w)
    BY <1>2, <2>5 DEF WatchdogReboots, WatchdogGivesUp
  <2> QED BY <1>1, <1>3, <2>1, <2>2, <2>3, <2>4, <2>5
      DEF WatchdogStep, WatchdogWakes, WatchdogDecides, WatchdogCopies, WatchdogSwaps,
          WatchdogRestoresPackages, WatchdogRestoresLinks, device
<1>4. ASSUME NEW c \in Call, VerbStep(c) PROVE ram.dir /\ ram.marks \subseteq ram'.marks
  <2>1. CASE Arm(c)
    BY <1>1, <2>1 DEF Arm, Touch, Ram
  <2>2. CASE Prepare(c) \/ Stage(c) \/ Services(c)
    BY <1>1, <2>2 DEF Prepare, Stage, Services, Ram
  <2>3. CASE Finalise(c)
    BY <1>1, <2>3 DEF Finalise, Touch, Ram
  <2>4. CASE ShortVerb(c)
    <3>1. CASE ram' = [IF Alive(ram.pid) THEN ram ELSE WithoutDir(ram) EXCEPT !.script = FALSE, !.out = {}]
      BY <3>1, WithoutDirOK DEF WithoutDir, Ram
    <3> QED BY <1>1, <2>4, <3>1 DEF ShortVerb, Touch, Ram
  <2>5. CASE Disarm(c) \/ DisarmEnds(c)
    BY <1>1, <2>5 DEF Disarm, DisarmEnds, Touch, Ram
  <2>6. CASE Drop(c)
    BY ZenonT(60), <1>1, <2>6 DEF Drop, Touch, WithoutDir, Ram
  <2>7. CASE RollbackNow(c)
    BY <1>1, <2>7 DEF RollbackNow
  <2> QED BY <1>4, <2>1, <2>2, <2>3, <2>4, <2>5, <2>6, <2>7 DEF VerbStep
<1> QED BY <1>1, <1>2, <1>3, <1>4
    DEF Next, vars, device, OthersThanWatchdog, PowerCut, BootStep, SleepEnds, WatchdogKilled,
        VerbEnds, CallVerb, HearAnswer, LoseAnswer, Unreachable, ClientDies


\* A watchdog starts to restore by its mark alone, and is about to only when
\* it found its run not confirmed.
LEMMA WatchdogTurns ==
    ASSUME TypeOK, [Next]_vars, NEW w \in Watchdog
    PROVE  /\ wd'[w].at \in RestoringAt => wd[w].at \in RestoringAt \/ WatchdogFires(w)
           /\ wd'[w].at = "unconfirmed" => wd[w].at = "unconfirmed" \/ (ram.dir /\ "confirmed" \notin ram.marks)
<1> WdOK
  BY DEF TypeOK
<1>1. CASE UNCHANGED wd
  BY <1>1
<1>2. CASE Restart
  BY <1>2 DEF Restart, WdOK, RestoringAt
<1>3. CASE \E v : wd' = [wd EXCEPT ![v].sleeps = FALSE]
  BY <1>3 DEF WdOK
<1>4. CASE wd' = Started
  BY <1>4 DEF Started, WdOK, RestoringAt
<1>5. ASSUME NEW v \in Watchdog, WatchdogStep(v), ~WatchdogReboots(v), ~WatchdogGivesUp(v)
      PROVE  /\ wd'[w].at \in RestoringAt => wd[w].at \in RestoringAt \/ WatchdogFires(w)
             /\ wd'[w].at = "unconfirmed" => wd[w].at = "unconfirmed" \/ (ram.dir /\ "confirmed" \notin ram.marks)
  <2>1. CASE v # w
    <3>1. wd'[w] = wd[w]
      BY <1>5, <2>1 DEF WdOK, WatchdogStep, Goes, WatchdogBegins, WatchdogSleeps, WatchdogWakes, WatchdogDecides,
          WatchdogStandsDown, WatchdogFires, WatchdogCopies, WatchdogSwaps, WatchdogRestores,
          WatchdogRestoresPackages, WatchdogRestoresLinks, WatchdogReloads, WatchdogCleansUp
    <3> QED BY <3>1
  <2>2. CASE WatchdogSleeps(w) \/ WatchdogBegins(w) \/ WatchdogWakes(w) \/ WatchdogStandsDown(w) \/ WatchdogCleansUp(w)
    <3>1. wd'[w].at \in {"asleep", "ended", "falling asleep", "deciding", "saying disarmed", "clearing"}
      <4>1. CASE WatchdogSleeps(w)
        BY <4>1 DEF WdOK, WatchdogSleeps
      <4>2. CASE \E from, to \in WatchdogAt : Goes(w, from, to) /\ to \in {"ended", "falling asleep", "deciding", "saying disarmed", "clearing"}
        BY <4>2 DEF WdOK, Goes
      <4>3. WatchdogSleeps(w) \/ \E from, to \in WatchdogAt :
               Goes(w, from, to) /\ to \in {"ended", "falling asleep", "deciding", "saying disarmed", "clearing"}
        BY <2>2 DEF WatchdogBegins, WatchdogWakes, WatchdogStandsDown, WatchdogCleansUp, WatchdogAt
      <4> QED BY <4>1, <4>2, <4>3
    <3> QED BY <3>1 DEF RestoringAt
  <2>3. CASE WatchdogDecides(w)
    <3>1. wd'[w].at \in {"ended", "standing down"} \/ (wd'[w].at = "unconfirmed" /\ ram.dir /\ "confirmed" \notin ram.marks)
      <4>1. \/ Goes(w, "deciding", "ended") \/ Goes(w, "deciding", "standing down")
            \/ Goes(w, "deciding", "unconfirmed") /\ ram.dir /\ "confirmed" \notin ram.marks
        BY <2>3 DEF WatchdogDecides
      <4> QED BY ZenonT(60), <4>1 DEF WdOK, Goes
    <3> QED BY <3>1 DEF RestoringAt
  <2>4. CASE WatchdogFires(w)
    BY <2>4 DEF WdOK, Goes, WatchdogFires
  <2>5. CASE WatchdogCopies(w) \/ WatchdogSwaps(w) \/ WatchdogRestores(w) \/ WatchdogRestoresPackages(w)
             \/ WatchdogRestoresLinks(w) \/ WatchdogReloads(w)
    <3>1. \E from, to \in RestoringAt : Goes(w, from, to)
      BY <2>5 DEF WatchdogCopies, WatchdogSwaps, WatchdogRestores, WatchdogRestoresPackages,
           WatchdogRestoresLinks, WatchdogReloads, RestoringAt
    <3>2. wd[w].at \in RestoringAt /\ wd'[w].at \in RestoringAt
      BY <3>1 DEF WdOK, Goes
    <3> QED BY <3>2 DEF RestoringAt
  <2> QED BY <1>5, <2>1, <2>2, <2>3, <2>4, <2>5 DEF WatchdogStep
<1>6. ASSUME NEW v \in Watchdog, WatchdogKilled(v) PROVE wd'[w].at \in {wd[w].at, "ended"}
  BY <1>6 DEF WatchdogKilled, WdOK
<1>7. CASE \E c \in Call : VerbStep(c)
  BY <1>1, <1>3, <1>4, <1>7
  DEF VerbStep, Arm, Prepare, Stage, Finalise, Services, ShortVerb, Disarm, DisarmEnds, Drop, RollbackNow
<1>8. CASE \E v \in Watchdog : WatchdogStep(v) \/ SleepEnds(v) \/ WatchdogKilled(v)
  BY <1>2, <1>3, <1>5, <1>6, <1>8 DEF SleepEnds, WatchdogReboots, WatchdogGivesUp, RestoringAt
<1> QED BY <1>1, <1>2, <1>7, <1>8
    DEF Next, vars, PowerCut, BootStep, VerbEnds, CallVerb, HearAnswer, LoseAnswer, Unreachable, ClientDies

\* The part of the inductive invariant about watchdogs.
LEMMA FiredStep ==
    ASSUME TypeOK, [Next]_vars, FiredIsMarked
    PROVE  FiredIsMarked'
<1> SUFFICES ASSUME ram'.dir, NEW w \in Watchdog, wd'[w].at \in RestoringAt
             PROVE  "restoring" \in ram'.marks
  BY DEF FiredIsMarked, Restoring
<1>1. ram.dir /\ ram.marks \subseteq ram'.marks
  BY MarksStay
<1>2. CASE wd[w].at \in RestoringAt
  BY <1>1, <1>2 DEF FiredIsMarked, Restoring
<1>3. CASE WatchdogFires(w)
  BY <1>1, <1>3 DEF WatchdogFires, Touch, TypeOK, RamOK, Ram
<1> QED BY <1>2, <1>3, WatchdogTurns

\* From a fired watchdog's mark until its run is gone, every later look finds it.
THEOREM FiredMarked == Spec => []FiredIsMarked
<1>1. Init => FiredIsMarked
  BY DEF Init, FiredIsMarked, Restoring, RestoringAt, EmptyRam
<1>2. TypeOK /\ FiredIsMarked /\ [Next]_vars => FiredIsMarked'
  BY FiredStep
<1> QED BY <1>1, <1>2, TypeCorrect, PTL DEF Spec

\* Between writing the flag and the evidence.
Flagged(c) == verb[c].at \in {"waking", "settling disarm", "still asleep?"}

\* A disarm past its first look names a watchdog; once it wrote the flag, the flag is
\* there while the run is; and once it settled, its watchdog is not about to fire.
DisarmInv ==
    \A c \in Call :
        /\ verb[c].at = "confirming" \/ Flagged(c) => verb[c].p \in Watchdog
        /\ Flagged(c) /\ ram.dir => "confirmed" \in ram.marks
        /\ SettleOutlasts /\ verb[c].at = "still asleep?" /\ ram.dir => wd[verb[c].p].at # "unconfirmed"

DisarmAt == {"confirming", "waking", "settling disarm", "still asleep?", "clearing copies"}

\* A verb starts elsewhere than inside its disarm.
LEMMA BeginsOutside ==
    ASSUME NEW phase \in Phase, phase # "over"
    PROVE  Begins[PhaseVerb[phase]] \notin DisarmAt
<1>1. PhaseVerb[phase] \in DOMAIN Begins
  BY DEF Begins, PhaseVerb, Phase
<1> DEFINE Outside == {"installing boot script", "discarding staged", "staging", "committing", "starting services", "finished?",
                       "asleep?", "disarm", "done", "rollback-now", "recovered?", "drop", "reverting"}
<1>2. Begins \in [arm: Outside, prepare: Outside, stage: Outside, finalise: Outside, services: Outside,
                  commit_finished: Outside, asleep: Outside, disarm: Outside, done: Outside, rollback_now: Outside,
                  recovered: Outside, drop: Outside, revert: Outside]
  BY DEF Begins
<1>3. Begins[PhaseVerb[phase]] \in Outside
  <2> HIDE DEF Outside
  <2> QED BY <1>1, <1>2
<1> QED BY <1>3 DEF DisarmAt

\* A disarm's record changes by its own steps alone, between its start and its answer.
LEMMA OwnSteps ==
    ASSUME TypeOK, [Next]_vars, NEW c \in Call, verb'[c].at \in DisarmAt
    PROVE  verb'[c] = verb[c] \/ Disarm(c) \/ DisarmEnds(c)
<1> VerbOK
  BY DEF TypeOK
<1>1. CASE UNCHANGED verb
  BY <1>1
<1>2. ASSUME NEW d \in Call, VerbStep(d) PROVE verb'[c] = verb[c] \/ Disarm(c) \/ DisarmEnds(c)
  <2>1. CASE d # c
    BY <1>2, <2>1 DEF VerbOK, VerbStep, Then, Says, Arm, Prepare, Stage, Finalise, Services, ShortVerb, Disarm, DisarmEnds,
        Drop, RollbackNow
  <2>2. ASSUME \E from \in VerbAt, to \in VerbAt \ DisarmAt : Then(c, from, to) PROVE FALSE
    BY <2>2 DEF Then, VerbOK
  <2>3. ASSUME \E from \in VerbAt, answer \in {"yes", "kept", "no"} : Says(c, from, answer) PROVE FALSE
    BY <2>3 DEF Says, Silent, VerbOK, DisarmAt
  <2>4. ~Arm(c) /\ ~Prepare(c) /\ ~Stage(c)
    BY ZenonT(60), <2>2, <2>3 DEF Arm, Prepare, Stage, DisarmAt, VerbAt
  <2>5. ~Finalise(c) /\ ~Services(c) /\ ~ShortVerb(c)
    BY ZenonT(60), <2>2, <2>3 DEF Finalise, Services, ShortVerb, Answered, DisarmAt, VerbAt
  <2>6. ~RollbackNow(c)
    BY <2>2, <2>3 DEF RollbackNow, DisarmAt, VerbAt
  <2>7. ~Drop(c)
    <3>1. ASSUME verb' = [verb EXCEPT ![c] = [@ EXCEPT !.at = "settling drop", !.p = ram.pid]] PROVE FALSE
      BY <3>1 DEF VerbOK, DisarmAt
    <3> QED BY <2>2, <2>3, <3>1 DEF Drop, DisarmAt, VerbAt
  <2> QED BY <1>2, <2>1, <2>4, <2>5, <2>6, <2>7 DEF VerbStep
<1>3. ASSUME Restart PROVE FALSE
  BY <1>3 DEF Restart, VerbOK, Silent, DisarmAt
<1>4. ASSUME NEW d \in Call, verb' = [verb EXCEPT ![d] = Silent] PROVE verb'[c] = verb[c]
  <2>1. d # c
    <3>1. d = c => verb'[c].at = "idle"
      BY <1>4 DEF VerbOK, Silent
    <3> QED BY <3>1 DEF DisarmAt
  <2> QED BY <1>4, <2>1 DEF VerbOK
<1>5. CASE CallVerb
  <2>1. PICK d \in Call : verb' = [verb EXCEPT ![d].at = IF ram.script THEN Begins[PhaseVerb[client.phase]] ELSE "said",
                                               ![d].answer = IF ram.script THEN "none" ELSE "no"]
    BY <1>5 DEF CallVerb
  <2>2. Begins[PhaseVerb[client.phase]] \notin DisarmAt
    BY <1>5, BeginsOutside DEF CallVerb, TypeOK, ClientOK, Client
  <2>3. d # c
    BY <2>1, <2>2 DEF VerbOK, DisarmAt
  <2> QED BY <2>1, <2>3 DEF VerbOK
<1>6. CASE HearAnswer
  <2>1. client.awaits \in 0..MaxCalls /\ client.awaits # 0
    BY <1>6 DEF HearAnswer, TypeOK, ClientOK, Client
  <2>2. client.awaits \in Call /\ verb' = [verb EXCEPT ![client.awaits] = Silent]
    BY <1>6, <2>1, BoundsAssumption DEF BoundsAssumption, HearAnswer, Call
  <2> QED BY <1>4, <2>2
<1>7. CASE \E w \in Watchdog : WatchdogStep(w)
  BY <1>1, <1>3, <1>7 DEF OthersThanWatchdog, WatchdogStep, WatchdogBegins, WatchdogSleeps, WatchdogWakes, WatchdogDecides,
        WatchdogStandsDown, WatchdogFires, WatchdogCopies, WatchdogSwaps, WatchdogRestores, WatchdogRestoresPackages,
        WatchdogRestoresLinks, WatchdogReboots, WatchdogReloads, WatchdogCleansUp, WatchdogGivesUp
<1> QED BY <1>1, <1>2, <1>3, <1>4, <1>5, <1>6, <1>7
    DEF Next, vars, PowerCut, BootStep, VerbEnds, LoseAnswer, Unreachable, ClientDies, SleepEnds, WatchdogKilled,
        OthersThanWatchdog

\* What the disarm's own steps leave of its record.
LEMMA DisarmTurns ==
    ASSUME TypeOK, NEW c \in Call, Disarm(c) \/ DisarmEnds(c)
    PROVE  \/ verb'[c].at \notin {"confirming", "waking", "settling disarm", "still asleep?"}
           \/ verb'[c].at = "confirming" /\ verb'[c].p = ram.pid /\ Alive(ram.pid)
           \/ /\ verb[c].at = "confirming" /\ verb'[c].at = "waking" /\ verb'[c].p = verb[c].p
              /\ ram' = Touch("confirmed")
           \/ verb[c].at = "waking" /\ verb'[c].at = "settling disarm" /\ verb'[c].p = verb[c].p /\ ram' = ram
           \/ /\ verb[c].at = "settling disarm" /\ verb'[c].at = "still asleep?" /\ verb'[c].p = verb[c].p
              /\ UNCHANGED <<ram, wd>>
              /\ SettleOutlasts => ~Alive(verb[c].p) \/ wd[verb[c].p].at \notin {"deciding", "unconfirmed"}
<1> VerbOK
  BY DEF TypeOK
<1>1. ASSUME NEW from, NEW to, Then(c, from, to) PROVE verb[c].at = from /\ verb'[c].at = to /\ verb'[c].p = verb[c].p
  BY <1>1 DEF Then, VerbOK
<1>2. ASSUME NEW from, NEW answer, Says(c, from, answer) PROVE verb'[c].at = "said"
  BY <1>2 DEF Says, Silent, VerbOK
<1>3. ASSUME verb' = [verb EXCEPT ![c] = [@ EXCEPT !.at = "confirming", !.p = ram.pid, !.s = ram.slept]]
      PROVE  verb'[c].at = "confirming" /\ verb'[c].p = ram.pid
  <2>1. verb'[c] = [verb[c] EXCEPT !.at = "confirming", !.p = ram.pid, !.s = ram.slept]
    BY <1>3 DEF VerbOK
  <2> QED BY <2>1 DEF VerbOK
<1>4. CASE Disarm(c)
  <2>1. CASE Then(c, "disarm", "clearing copies") \/ Says(c, "disarm", "no")
    BY <2>1 DEF Then, Says, Silent, VerbOK
  <2>2. CASE /\ Alive(ram.pid)
             /\ verb' = [verb EXCEPT ![c] = [@ EXCEPT !.at = "confirming", !.p = ram.pid, !.s = ram.slept]]
    BY <1>3, <2>2
  <2>3. CASE Then(c, "confirming", "waking") /\ ram' = Touch("confirmed")
    BY <1>1, <2>3
  <2>4. CASE Then(c, "waking", "settling disarm") /\ UNCHANGED ram
    BY <1>1, <2>4
  <2>5. CASE /\ Then(c, "settling disarm", "still asleep?")
             /\ SettleOutlasts => ~Alive(verb[c].p) \/ wd[verb[c].p].at \notin {"deciding", "unconfirmed"}
             /\ UNCHANGED <<ram, wd>>
    BY <1>1, <2>5
  <2> QED BY <1>4, <2>1, <2>2, <2>3, <2>4, <2>5 DEF Disarm
<1>5. CASE DisarmEnds(c)
  <2>1. \/ \E from \in VerbAt, to \in {"clearing copies", "stood down?", "was it committed?", "marking applied", "or before it left?"} :
             Then(c, from, to)
        \/ \E from \in VerbAt, answer \in {"yes", "no"} : Says(c, from, answer)
    BY <1>5 DEF DisarmEnds, VerbAt
  <2> QED BY <1>1, <1>2, <2>1
<1> QED BY <1>4, <1>5

LEMMA DisarmInvStep ==
    ASSUME TypeOK, [Next]_vars, DisarmInv
    PROVE  DisarmInv'
<1> SUFFICES ASSUME NEW c \in Call
             PROVE  /\ verb'[c].at = "confirming" \/ Flagged(c)' => verb'[c].p \in Watchdog
                    /\ Flagged(c)' /\ ram'.dir => "confirmed" \in ram'.marks
                    /\ SettleOutlasts /\ verb'[c].at = "still asleep?" /\ ram'.dir => wd'[verb'[c].p].at # "unconfirmed"
  BY DEF DisarmInv
<1>1. CASE verb'[c].at \notin {"confirming", "waking", "settling disarm", "still asleep?"}
  BY <1>1 DEF Flagged
<1>2. CASE verb'[c] = verb[c]
  <2>1. Flagged(c) <=> Flagged(c)'
    BY <1>2 DEF Flagged
  <2>2. verb'[c].at = "confirming" \/ Flagged(c)' => verb'[c].p \in Watchdog
    BY <1>2, <2>1 DEF DisarmInv
  <2>3. Flagged(c)' /\ ram'.dir => "confirmed" \in ram'.marks
    BY <2>1, MarksStay DEF DisarmInv
  <2>4. SettleOutlasts /\ verb'[c].at = "still asleep?" /\ ram'.dir => wd'[verb'[c].p].at # "unconfirmed"
    <3> SUFFICES ASSUME SettleOutlasts, verb[c].at = "still asleep?", ram'.dir PROVE wd'[verb[c].p].at # "unconfirmed"
      BY <1>2
    <3>1. ram.dir /\ "confirmed" \in ram.marks /\ verb[c].p \in Watchdog /\ wd[verb[c].p].at # "unconfirmed"
      BY MarksStay DEF DisarmInv, Flagged
    <3> QED BY <3>1, WatchdogTurns
  <2> QED BY <2>2, <2>3, <2>4
<1>3. CASE Disarm(c) \/ DisarmEnds(c)
  <2> USE DEF Flagged
  <2>1. CASE verb'[c].at = "confirming" /\ verb'[c].p = ram.pid /\ Alive(ram.pid)
    <3>1. ram.pid \in Watchdog
      BY <2>1, BoundsAssumption DEF BoundsAssumption, TypeOK, RamOK, Ram, Alive, Watchdog
    <3> QED BY <2>1, <3>1
  <2>2. CASE /\ verb[c].at = "confirming" /\ verb'[c].at = "waking" /\ verb'[c].p = verb[c].p
             /\ ram' = Touch("confirmed")
    BY <2>2 DEF DisarmInv, Touch, TypeOK, RamOK, Ram
  <2>3. CASE verb[c].at = "waking" /\ verb'[c].at = "settling disarm" /\ verb'[c].p = verb[c].p /\ ram' = ram
    BY <2>3 DEF DisarmInv
  <2>4. CASE /\ verb[c].at = "settling disarm" /\ verb'[c].at = "still asleep?" /\ verb'[c].p = verb[c].p
             /\ UNCHANGED <<ram, wd>>
             /\ SettleOutlasts => ~Alive(verb[c].p) \/ wd[verb[c].p].at \notin {"deciding", "unconfirmed"}
    <3>0. verb[c].p \in Watchdog
      BY <2>4 DEF DisarmInv
    <3>1. verb[c].p \in Watchdog /\ verb[c].p # 0
      BY <3>0, BoundsAssumption DEF BoundsAssumption, Watchdog
    <3>2. SettleOutlasts => wd[verb[c].p].at # "unconfirmed"
      BY <2>4, <3>1 DEF Alive
    <3> QED BY <2>4, <3>1, <3>2 DEF DisarmInv
  <2> QED BY <1>1, <1>3, <2>1, <2>2, <2>3, <2>4, DisarmTurns
<1>4. verb'[c].at \in {"confirming", "waking", "settling disarm", "still asleep?"} => verb'[c].at \in DisarmAt
  BY DEF DisarmAt
<1> QED BY <1>1, <1>2, <1>3, <1>4, OwnSteps

LEMMA EvidenceHolds ==
    ASSUME TypeOK, FiredIsMarked, DisarmInv, [Next]_vars, NEW c \in Call,
           verb[c].at = "still asleep?", verb'[c].at = "clearing copies"
    PROVE  /\ wd[verb[c].p].at \notin RestoringAt
           /\ SettleOutlasts => wd[verb[c].p].at # "unconfirmed"
<1>1. SleepsConfirmed(verb[c].p)
  <2>1. Disarm(c) \/ DisarmEnds(c)
    BY OwnSteps DEF DisarmAt
  <2>2. ASSUME NEW from, NEW answer, Says(c, from, answer) PROVE FALSE
    BY <2>2 DEF Says, Silent, TypeOK, VerbOK
  <2>3. ~Disarm(c)
    <3>1. ~Then(c, "disarm", "clearing copies") /\ ~Then(c, "confirming", "waking")
          /\ ~Then(c, "waking", "settling disarm") /\ ~Then(c, "settling disarm", "still asleep?")
      BY DEF Then
    <3>2. ~Says(c, "disarm", "no") /\ verb[c].at # "disarm"
      BY <2>2
    <3> QED BY <3>1, <3>2 DEF Disarm
  <2>4. SleepsConfirmed(verb[c].p) /\ Then(c, "still asleep?", "clearing copies")
    <3>1. ~Then(c, "still asleep?", "stood down?")
      BY DEF Then, TypeOK, VerbOK
    <3>2. ~Then(c, "stood down?", "clearing copies")
          /\ ~Then(c, "clearing copies", "was it committed?") /\ ~Then(c, "was it committed?", "marking applied")
          /\ ~Then(c, "was it committed?", "or before it left?") /\ ~Then(c, "or before it left?", "marking applied")
      BY DEF Then
    <3>3. ~Says(c, "stood down?", "no") /\ ~Says(c, "or before it left?", "yes") /\ ~Says(c, "marking applied", "yes")
      BY <2>2
    <3> QED BY <2>1, <2>3, <3>1, <3>2, <3>3 DEF DisarmEnds
  <2> QED BY <2>4
<1>2. ram.dir
  BY <1>1 DEF SleepsConfirmed, TypeOK, RamOK
<1>3. verb[c].p \in Watchdog /\ (SettleOutlasts => wd[verb[c].p].at # "unconfirmed")
  BY <1>2 DEF DisarmInv, Flagged
<1>4. wd[verb[c].p].at \notin RestoringAt
  BY <1>1, <1>2, <1>3 DEF FiredIsMarked, Restoring, SleepsConfirmed
<1> QED BY <1>3, <1>4

\* A disarm that finds its flagged watchdog alive and not marked as restoring
\* is right to stand the device down: that watchdog has not begun to restore
\* and, the settle having outlasted its next two commands, never will.
THEOREM DisarmOnEvidence == Spec => DisarmedOnEvidence
<1>1. Init => DisarmInv
  <2>1. Init => \A c \in Call : verb[c].at = "idle"
    BY DEF Init, Silent
  <2> QED BY <2>1 DEF DisarmInv, Flagged
<1>2. TypeOK /\ DisarmInv /\ [Next]_vars => DisarmInv'
  BY DisarmInvStep
<1>3. TypeOK /\ FiredIsMarked /\ DisarmInv /\ [Next]_vars =>
        [\A c \in Call :
            verb[c].at = "still asleep?" /\ verb'[c].at = "clearing copies" =>
              /\ wd[verb[c].p].at \notin RestoringAt
              /\ SettleOutlasts => wd[verb[c].p].at # "unconfirmed"]_vars
  BY EvidenceHolds
<1> QED BY <1>1, <1>2, <1>3, TypeCorrect, FiredMarked, PTL DEF Spec, DisarmedOnEvidence

-----------------------------------------------------------------------------
(* What a restart on the run's own copy brings back. *)

Restarted == past \cap {"restarted on part", "restarted on config", "restarted on whole"} # {}
OnCopy == past \cap {"restarted on config", "restarted on whole"} # {}

\* After a restart no process of the run is left, nor a file for one to start from.
NothingRuns ==
    /\ ~ram.dir /\ ~ram.script /\ ram.out = {}
    /\ \A w \in Watchdog : wd[w].at \in {"off", "ended"}
    /\ \A c \in Call : verb[c].at \in {"idle", "said"}

StillInv ==
    /\ up # "up" \/ Restarted => NothingRuns
    /\ up # "up" => \A c \in Call : verb[c].at = "idle"
    /\ up \notin {"up", "dead", "boot"} \/ (up = "boot" /\ flash.boot # "none") => Restarted /\ flash.boot # "none"
    /\ up = "dead" => "cut in a swap" \in past
    /\ Restarted => flash.init

\* Where the boot script is with the config it brings back.
ConfigBack ==
    OnCopy => flash.boot # "part" /\
    (past \cap {"config not copied", "cut in a swap"} = {} =>
        /\ up = "boot" => flash.config # "none"
        /\ flash.boot = "none" => flash.config = "old"
        /\ up = "boot swapping" => flash.aside /\ flash.config # "none"
        /\ up = "boot swapped" => flash.aside /\ flash.config = "none"
        /\ up \in {"up", "boot files", "boot links", "boot linked", "boot end"} => flash.config = "old")

FilesBack == flash.files = "old" \/ "files not back" \in past
LinksBack == flash.links = "old" \/ past \cap {"links not copied", "cut in a swap"} # {}

\* And, the copy whole, with the files and the boot links.
WholeBack ==
    "restarted on whole" \in past =>
        /\ flash.boot \in {"whole", "none"}
        /\ up \in {"up", "boot links", "boot linked", "boot end"} \/ flash.boot = "none" => FilesBack
        /\ up \in {"up", "boot end"} \/ flash.boot = "none" => LinksBack

RestartInv == StillInv /\ ConfigBack /\ WholeBack

\* With no process left, only the boot script, a power cut and the apply's own side move.
LEMMA OnlyBoots ==
    ASSUME TypeOK, NothingRuns, [Next]_vars
    PROVE  \/ BootStep
           \/ Restart /\ UNCHANGED flash
           \/ /\ UNCHANGED <<device, wd, past>> /\ NothingRuns'
              /\ up # "up" => \A c \in Call : verb'[c] = verb[c] \/ verb'[c].at = "idle"
<1> VerbOK /\ WdOK
  BY DEF TypeOK
<1>1. ASSUME NEW w \in Watchdog, WatchdogStep(w) \/ SleepEnds(w) \/ WatchdogKilled(w) PROVE FALSE
  <2>1. wd[w].at \in {"off", "ended"}
    BY DEF NothingRuns
  <2>2. ~SleepEnds(w) /\ ~WatchdogKilled(w)
    BY <2>1 DEF SleepEnds, WatchdogKilled, Alive
  <2>3. ~WatchdogStep(w)
    BY <2>1 DEF WatchdogStep, Goes, WatchdogBegins, WatchdogSleeps, WatchdogWakes, WatchdogDecides,
       WatchdogStandsDown, WatchdogFires, WatchdogCopies, WatchdogSwaps, WatchdogRestores,
       WatchdogRestoresPackages, WatchdogRestoresLinks, WatchdogReboots, WatchdogReloads, WatchdogCleansUp, WatchdogGivesUp
  <2> QED BY <1>1, <2>2, <2>3
<1>2. ASSUME NEW c \in Call, VerbStep(c) PROVE FALSE
  <2>1. verb[c].at \in {"idle", "said"}
    BY DEF NothingRuns
  <2>2. ~Arm(c) /\ ~Prepare(c) /\ ~Stage(c) /\ ~Finalise(c) /\ ~Services(c)
    BY <2>1 DEF Arm, Prepare, Stage, Finalise, Services, Then, Says
  <2>3. ~ShortVerb(c) /\ ~Disarm(c) /\ ~DisarmEnds(c) /\ ~Drop(c) /\ ~RollbackNow(c)
    BY <2>1 DEF ShortVerb, Disarm, DisarmEnds, Drop, RollbackNow, Then, Says
  <2> QED BY <1>2, <2>2, <2>3 DEF VerbStep
<1>3. ASSUME UNCHANGED <<device, wd>>, \A c \in Call : verb'[c].at \in {verb[c].at, "idle", "said"}
      PROVE  NothingRuns'
  BY <1>3 DEF NothingRuns, device
<1>4. CASE CallVerb
  <2>1. \A c \in Call : verb'[c].at \in {verb[c].at, "idle", "said"}
    BY <1>4 DEF CallVerb, NothingRuns, VerbOK
  <2> QED BY <1>3, <1>4, <2>1 DEF CallVerb
<1>5. CASE HearAnswer \/ \E c \in Call : VerbEnds(c)
  <2>1. \A c \in Call : verb'[c].at \in {verb[c].at, "idle", "said"}
    BY <1>5 DEF HearAnswer, VerbEnds, Silent, VerbOK
  <2>2. \A c \in Call : verb'[c] = verb[c] \/ verb'[c].at = "idle"
    BY <1>5 DEF HearAnswer, VerbEnds, Silent, VerbOK
  <2> QED BY <1>3, <1>5, <2>1, <2>2 DEF HearAnswer, VerbEnds
<1>6. CASE LoseAnswer \/ Unreachable \/ ClientDies \/ UNCHANGED vars
  BY <1>3, <1>6 DEF LoseAnswer, Unreachable, ClientDies, vars, device
<1>7. CASE PowerCut
  BY <1>7 DEF PowerCut
<1> QED BY <1>1, <1>2, <1>4, <1>5, <1>6, <1>7 DEF Next

\* While the device stays up, a step of the apply restarts it or leaves it up.
LEMMA StaysUp ==
    ASSUME TypeOK, up = "up", [Next]_vars
    PROVE  \/ Restart /\ UNCHANGED flash
           \/ UNCHANGED up /\ (Restarted' => Restarted)
<1>1. ASSUME NEW w \in Watchdog, WatchdogStep(w)
      PROVE  (Restart /\ UNCHANGED flash) \/ (UNCHANGED up /\ (Restarted' => Restarted))
  <2>1. CASE WatchdogReboots(w) \/ WatchdogGivesUp(w)
    <3>1. Restart
      BY <2>1 DEF WatchdogReboots, WatchdogGivesUp
    <3>2. UNCHANGED flash
      BY <2>1 DEF WatchdogReboots, WatchdogGivesUp
    <3> QED BY <3>1, <3>2
  <2>2. CASE WatchdogCopies(w) \/ WatchdogRestores(w) \/ WatchdogRestoresPackages(w) \/ WatchdogRestoresLinks(w)
    BY <2>2 DEF WatchdogCopies, WatchdogRestores, WatchdogRestoresPackages, WatchdogRestoresLinks, Restarted
  <2>3. CASE \/ WatchdogBegins(w) \/ WatchdogSleeps(w) \/ WatchdogWakes(w) \/ WatchdogDecides(w)
             \/ WatchdogStandsDown(w) \/ WatchdogFires(w) \/ WatchdogSwaps(w)
             \/ WatchdogReloads(w) \/ WatchdogCleansUp(w)
    BY <2>3 DEF WatchdogBegins, WatchdogSleeps, WatchdogWakes, WatchdogDecides, WatchdogStandsDown, WatchdogFires,
       WatchdogSwaps, WatchdogReloads, WatchdogCleansUp, Restarted, device
  <2> QED BY <1>1, <2>1, <2>2, <2>3 DEF WatchdogStep
<1>2. ASSUME NEW c \in Call, VerbStep(c) PROVE UNCHANGED up /\ (Restarted' => Restarted)
  BY <1>2 DEF VerbStep, Arm, Prepare, Stage, Finalise, Services, ShortVerb, Disarm, DisarmEnds, Drop, RollbackNow,
     NotesOverlap, OthersThanVerb, Restarted
<1>3. ~BootStep
  BY DEF BootStep
<1> QED BY <1>1, <1>2, <1>3 DEF Next, vars, device, PowerCut, SleepEnds, WatchdogKilled, VerbEnds, CallVerb,
      HearAnswer, LoseAnswer, Unreachable, ClientDies, Restarted

LEMMA RestartBack ==
    ASSUME TypeOK, RestartInv, Restart, UNCHANGED flash
    PROVE  RestartInv'
<1>1. /\ up' = IF flash.links = "none" THEN "dead" ELSE IF flash.init THEN "boot" ELSE "up"
      /\ "none" \in {flash.config, flash.links} => "cut in a swap" \in past'
      /\ flash.init /\ flash.boot = "part" => "restarted on part" \in past'
      /\ flash.init /\ flash.boot = "config" => "restarted on config" \in past'
      /\ flash.init /\ flash.boot = "whole" => "restarted on whole" \in past'
      /\ past \subseteq past'
  BY DEF Restart, Events
<1>2. /\ "restarted on whole" \in past' => "restarted on whole" \in past \/ (flash.init /\ flash.boot = "whole")
      /\ "restarted on config" \in past' => "restarted on config" \in past \/ (flash.init /\ flash.boot = "config")
      /\ "restarted on part" \in past' => "restarted on part" \in past \/ (flash.init /\ flash.boot = "part")
  BY DEF Restart, Events
<1>3. /\ Restarted' => flash.init
      /\ OnCopy' => flash.boot # "part" /\ flash.init
  BY <1>2 DEF RestartInv, StillInv, ConfigBack, Restarted, OnCopy
<1>4. flash.boot \in {"none", "part", "config", "whole"} /\ flash.init \in BOOLEAN
  BY DEF TypeOK, FlashOK, Flash
<1>5. NothingRuns'
  BY DEF Restart, RamAfterRestart, EmptyRam, Silent, NothingRuns
<1>6. StillInv'
  <2>1. \A c \in Call : verb'[c].at = "idle"
    BY DEF Restart, Silent
  <2> QED BY <1>1, <1>3, <1>4, <1>5, <2>1 DEF StillInv, Restarted
<1>7. ConfigBack'
  BY <1>1, <1>2, <1>3, <1>4 DEF RestartInv, ConfigBack, OnCopy
<1>8. WholeBack'
  BY <1>1, <1>2, <1>3, <1>4 DEF RestartInv, WholeBack, FilesBack, LinksBack, OnCopy
<1> QED BY <1>6, <1>7, <1>8 DEF RestartInv

LEMMA BootBack ==
    ASSUME TypeOK, RestartInv, BootStep
    PROVE  RestartInv'
<1> FlashOK /\ past \subseteq Events
  BY DEF TypeOK
<1>1. NothingRuns /\ UNCHANGED <<ram, wd, verb>>
  BY DEF BootStep, RestartInv, StillInv
<1>2. NothingRuns'
  BY <1>1 DEF NothingRuns
<1>3. past \subseteq past' /\ past' \subseteq past \cup {"config not copied", "files not back", "links not copied"}
  BY DEF BootStep
<1>4. /\ (Restarted' <=> Restarted) /\ (OnCopy' <=> OnCopy) /\ flash'.init = flash.init
      /\ "restarted on whole" \in past' <=> "restarted on whole" \in past
  <2>1. flash'.init = flash.init
    BY DEF BootStep, SwapOut, SwapIn, FlashOK, Flash
  <2> QED BY <1>3, <2>1 DEF Restarted, OnCopy
<1>5. StillInv'
  BY <1>2, <1>3, <1>4 DEF BootStep, SwapOut, SwapIn, RestartInv, StillInv, FlashOK, Flash
<1>6. ConfigBack'
  BY ZenonT(60), <1>3, <1>4 DEF BootStep, SwapOut, SwapIn, RestartInv, StillInv, ConfigBack, OnCopy, Restarted, FlashOK, Flash, Settings
<1>7. WholeBack'
  BY ZenonT(60), <1>3, <1>4 DEF BootStep, SwapOut, SwapIn, RestartInv, StillInv, WholeBack, FilesBack, LinksBack, FlashOK, Flash
<1> QED BY <1>5, <1>6, <1>7 DEF RestartInv

LEMMA RestartStep ==
    ASSUME TypeOK, RestartInv, [Next]_vars
    PROVE  RestartInv'
<1>1. CASE up # "up" \/ Restarted
  <2>1. NothingRuns
    BY <1>1 DEF RestartInv, StillInv
  <2>2. CASE /\ UNCHANGED <<device, wd, past>> /\ NothingRuns'
             /\ up # "up" => \A c \in Call : verb'[c] = verb[c] \/ verb'[c].at = "idle"
    <3>1. StillInv'
      BY <2>2 DEF device, RestartInv, StillInv, Restarted
    <3> QED BY <2>2, <3>1 DEF device, RestartInv, ConfigBack, OnCopy, WholeBack, FilesBack, LinksBack, Restarted
  <2> QED BY <2>1, <2>2, OnlyBoots, BootBack, RestartBack
<1>2. CASE up = "up" /\ ~Restarted
  <2>1. CASE UNCHANGED up /\ (Restarted' => Restarted)
    BY <1>2, <2>1 DEF RestartInv, StillInv, ConfigBack, OnCopy, WholeBack, Restarted
  <2> QED BY <1>2, <2>1, StaysUp, RestartBack
<1> QED BY <1>1, <1>2

\* A device restarted on the run's flash copy is back on what the copy held and
\* stays there: after a restart nothing of the run is left to change it, and
\* whatever the apply still calls finds no agent.
THEOREM RestartRestoresAlways == Spec => []RestartRestores
<1>1. Init => RestartInv
  BY DEF Init, RestartInv, StillInv, ConfigBack, OnCopy, WholeBack, Restarted
<1>2. TypeOK /\ RestartInv /\ [Next]_vars => RestartInv'
  BY RestartStep
<1>3. RestartInv => RestartRestores
  BY DEF RestartInv, ConfigBack, OnCopy, WholeBack, FilesBack, LinksBack, RestartRestores
<1> QED BY <1>1, <1>2, <1>3, TypeCorrect, PTL DEF Spec
=============================================================================
