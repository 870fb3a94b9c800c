------------------------- MODULE NetworkApplyProofs -------------------------
(***************************************************************************)
(* NetworkApply's type invariant; that a run counts on no more time than   *)
(* its devices give it; and two facts about each device: one that the run  *)
(* counts as kept keeps the whole change, and one that is changed always   *)
(* has its way back.  For any number of devices, windows, margins, losses  *)
(* and kills.                                                              *)
(*                                                                         *)
(* KeptHolds is not inductive by itself.  That the change is whole is      *)
(* known from the commit's marker, which confirming asked of every device  *)
(* before any was disarmed; that the disarming stays, from what the run    *)
(* still does once one is kept: it waits for others, and wakes or drops    *)
(* none.                                                                   *)
(*                                                                         *)
(* Nor is WayBack: a call that stands a watchdog down is one the run       *)
(* decided on earlier, from what it then knew of a device's change.  So    *)
(* the items left to undo are kept apart by what they may do, and each     *)
(* phase by the devices it has not come to.                                *)
(***************************************************************************)
EXTENDS NetworkApply, TLAPS

(* The parts of the type invariant. *)

DevState == [change: {"none", "steps", "part", "new"}, marker: BOOLEAN, wd: Watchdog, sleeps: 0..Window]
ClientState == [at: Phase, i: Device, took: 0..Window, answer: {"none", "yes", "no", "kept"}, seconds: 0..Window]
ToDo == [device: Device, how: Undoing]
Times == [Device -> 0..Window]
Verdict == {"nothing", "applied", "applied-with-problems", "rolled-back", "partial", "failed"}
Word == {"nothing", "untouched", "rolled back", "rolling back"}
PastState == [agreed: BOOLEAN, disarming: 0..Margin, cut: BOOLEAN, unrestored: SUBSET Device]
LeftState == [losses: 0..MaxLost, kills: 0..MaxKills]

LEMMA Sizes ==
    /\ N \in Nat /\ N >= 1 /\ 1 \in Device /\ N \in Device
    /\ Window \in Nat /\ Margin \in Nat /\ MaxLost \in Nat /\ MaxKills \in Nat
    /\ 0 \in 0..Window /\ Window \in 0..Window
BY SizesAssumption DEF SizesAssumption, Device

LEMMA LessOK ==
    ASSUME NEW n \in 0..Window, NEW by \in Nat
    PROVE  Less(n, by) \in 0..Window /\ Less(n, by) <= n
BY Sizes DEF Less

LEMMA NoTimesOK == NoTimes \in Times
BY Sizes DEF NoTimes, Times

LEMMA FromOK ==
    ASSUME NEW phase \in Phase, NEW i \in Device
    PROVE  /\ From(phase, i) \in ClientState
           /\ From(phase, i).at = phase /\ From(phase, i).i = i /\ From(phase, i).took = 0
           /\ From(phase, i).answer = "none"
<1>1. From(phase, i) = [at |-> phase, i |-> i, took |-> 0, answer |-> "none", seconds |-> 0]
  BY DEF From
<1>2. From(phase, i) \in ClientState
  BY <1>1, Sizes DEF ClientState
<1> QED BY <1>1, <1>2

(* What is left to undo. *)

LEMMA ItemOK ==
    ASSUME NEW d \in Device, NEW how \in Undoing
    PROVE  /\ Item(d, how) \in ToDo
           /\ <<Item(d, how)>> \in Seq(ToDo)
BY DEF Item, ToDo

\* Items laid out upwards or downwards are a sequence of them.
LEMMA UpwardOK ==
    ASSUME NEW from \in Nat, NEW to \in Nat, from >= 1, to <= N, from <= to + 1, NEW how \in Undoing
    PROVE  Upward(from, to, how) \in Seq(ToDo)
<1>1. to + 1 - from \in Nat
  OBVIOUS
<1>2. ASSUME NEW k \in 1..(to + 1 - from) PROVE Item(from + k - 1, how) \in ToDo
  <2>1. from + k - 1 \in Device
    BY <1>2, Sizes DEF Device
  <2> QED BY <2>1, ItemOK
<1>3. Upward(from, to, how) \in [1..(to + 1 - from) -> ToDo]
  BY <1>2 DEF Upward
<1> QED BY <1>1, <1>3

LEMMA DownwardOK ==
    ASSUME NEW from \in Nat, NEW to \in Nat, to >= 1, from <= N, to <= from + 1, NEW how \in Undoing
    PROVE  Downward(from, to, how) \in Seq(ToDo)
<1>1. from + 1 - to \in Nat
  OBVIOUS
<1>2. ASSUME NEW k \in 1..(from + 1 - to) PROVE Item(from + 1 - k, how) \in ToDo
  <2>1. from + 1 - k \in Device
    BY <1>2, Sizes DEF Device
  <2> QED BY <2>1, ItemOK
<1>3. Downward(from, to, how) \in [1..(from + 1 - to) -> ToDo]
  BY <1>2 DEF Downward
<1> QED BY <1>1, <1>3

LEMMA ConcatOK ==
    ASSUME NEW s \in Seq(ToDo), NEW t \in Seq(ToDo)
    PROVE  s \o t \in Seq(ToDo)
OBVIOUS

-----------------------------------------------------------------------------
(* A watchdog's own steps. *)

\* A restore adds nothing to the change, and what it leaves of it is noted.
LEMMA RestoreStep ==
    ASSUME TypeOK, NEW d \in Device, Restores(d)
    PROVE  /\ dev[d].wd = "restoring" /\ dev'[d].wd \in {"over", "restored"}
           /\ dev'[d].change \in {"none", "part"} /\ (dev[d].change = "none" => dev'[d].change = "none")
           /\ dev'[d].change = "none" \/ d \in past'.unrestored
           /\ dev'[d].marker = dev[d].marker /\ dev'[d].sleeps = dev[d].sleeps
           /\ dev' \in [Device -> DevState] /\ \A e \in Device : e # d => dev'[e] = dev[e]
<1>1. dev \in [Device -> DevState] /\ past \in PastState
  BY DEF TypeOK, DevState, PastState
<1>2. PICK change \in Leaves(d), w \in {"over", "restored"} :
          /\ dev' = [dev EXCEPT ![d].wd = w, ![d].change = change]
          /\ past' = IF change = "none" THEN past ELSE [past EXCEPT !.unrestored = @ \cup {d}]
  BY DEF Restores
<1>3. change \in {"none", "part"} /\ (dev[d].change = "none" => change = "none")
  BY <1>2 DEF Leaves
<1>4. /\ dev'[d].wd = w /\ dev'[d].change = change
      /\ dev'[d].marker = dev[d].marker /\ dev'[d].sleeps = dev[d].sleeps
      /\ dev' \in [Device -> DevState] /\ \A e \in Device : e # d => dev'[e] = dev[e]
  BY <1>1, <1>2, <1>3 DEF DevState, Watchdog
<1>5. change = "none" \/ d \in past'.unrestored
  BY <1>1, <1>2 DEF PastState
<1> QED BY <1>3, <1>4, <1>5 DEF Restores

LEMMA DevicePast ==
    ASSUME TypeOK, NEW d \in Device, Fires(d) \/ Restores(d) \/ GivesUp(d) \/ Killed(d)
    PROVE  /\ past' \in PastState /\ past.unrestored \subseteq past'.unrestored
           /\ past'.agreed = past.agreed /\ past'.disarming = past.disarming /\ past'.cut = past.cut
<1>1. past \in PastState
  BY DEF TypeOK, PastState
<1>2. past' = past \/ past' = [past EXCEPT !.unrestored = @ \cup {d}]
  BY DEF Fires, Restores, GivesUp, Killed
<1> QED BY <1>1, <1>2 DEF PastState

-----------------------------------------------------------------------------
(* Each variable's type is kept by a step. *)

LEMMA DevTyped ==
    ASSUME TypeOK, [Next]_vars
    PROVE  dev' \in [Device -> DevState]
<1>1. dev \in [Device -> DevState] /\ client \in ClientState
  BY DEF TypeOK, DevState, ClientState
<1>2. CASE UNCHANGED dev
  BY <1>1, <1>2
<1>3. ASSUME NEW d, NEW w \in Watchdog, dev' = Turns(d, w) PROVE dev' \in [Device -> DevState]
  BY <1>1, <1>3, Sizes DEF Turns, DevState
<1>4. ASSUME NEW d \in Device, Fires(d) \/ Restores(d) \/ GivesUp(d) \/ Killed(d)
      PROVE  dev' \in [Device -> DevState]
  <2>1. CASE Fires(d) \/ Killed(d)
    BY <2>1, <1>3 DEF Fires, Killed, Watchdog
  <2>2. CASE Restores(d)
    BY <2>2, RestoreStep
  <2>3. CASE GivesUp(d)
    BY <2>3, <1>1 DEF GivesUp, DevState, Watchdog
  <2> QED BY <1>4, <2>1, <2>2, <2>3
<1>5. CASE DeviceDoes
  <2>1. CASE Arms
    <3>1. PICK wd \in {"asleep", "none"}, t \in {Window, 0} : dev' = [dev EXCEPT ![client.i].wd = wd, ![client.i].sleeps = t]
      BY <2>1 DEF Arms
    <3>2. t \in 0..Window
      BY Sizes
    <3> QED BY <3>1, <3>2, <1>1 DEF DevState, Watchdog
  <2>2. CASE Configures
    BY <2>2, <1>1 DEF Configures, DevState, ClientState
  <2>3. CASE Commits
    BY <2>3, <1>1 DEF Commits, DevState, ClientState
  <2>4. CASE Disarms \/ Wakes \/ Drops
    BY <2>4, <1>2, <1>3 DEF Disarms, Wakes, Drops, Watchdog
  <2>5. CASE TellsRecovered
    BY <2>5, <1>1 DEF TellsRecovered, DevState, Watchdog
  <2> QED BY <1>5, <1>2, <2>1, <2>2, <2>3, <2>4, <2>5 DEF DeviceDoes, TellsFinished, TellsAsleep
<1>6. CASE Tick
  <2>1. dev' = [d \in Device |-> [dev[d] EXCEPT !.sleeps = Less(@, 1)]]
    BY <1>6 DEF Tick
  <2>2. ASSUME NEW d \in Device PROVE [dev[d] EXCEPT !.sleeps = Less(@, 1)] \in DevState
    <3>1. dev[d] \in DevState /\ dev[d].sleeps \in 0..Window
      BY <1>1 DEF DevState
    <3>2. Less(dev[d].sleeps, 1) \in 0..Window
      BY <3>1, LessOK
    <3> QED BY <3>1, <3>2 DEF DevState
  <2> QED BY <2>1, <2>2
<1> QED
  BY <1>2, <1>4, <1>5, <1>6
  DEF Next, vars, RunHears, RunGoesOn, HearArm, HearConfigured, HearCommitted, HearFinished, HearAsleep, HearDisarmed,
      HearWoken, HearReleased, HearRecovered, HearDropped, OthersThanUndoing, Stages, Confirmless, Waits, StopsAsking,
      Concludes, Unreached, Dies

LEMMA ClientTyped ==
    ASSUME TypeOK, [Next]_vars
    PROVE  client' \in ClientState
<1>1. client \in ClientState /\ dev \in [Device -> DevState] /\ client.i \in Device
  BY DEF TypeOK, DevState, ClientState
<1>2. CASE UNCHANGED client
  BY <1>1, <1>2
<1>3. ASSUME NEW phase \in Phase, NEW i \in Device, client' = From(phase, i) PROVE client' \in ClientState
  BY <1>3, FromOK
<1>4. ASSUME NEW said \in {"none", "yes", "no", "kept"}, Answers(said) PROVE client' \in ClientState
  BY <1>1, <1>4 DEF Answers, ClientState
<1>5. ASSUME NEW phase \in Phase, NEW i \in Device, Goes(phase, i) PROVE client' \in ClientState
  BY <1>3, <1>5 DEF Goes
<1>6. ASSUME NEW phase \in Phase, NEW then \in Phase, NextOr(phase, then) PROVE client' \in ClientState
  <2>1. CASE client.i < N
    <3>1. client.i + 1 \in Device
      BY <2>1, <1>1, Sizes DEF Device
    <3> QED BY <2>1, <3>1, <1>5, <1>6 DEF NextOr
  <2> QED BY <2>1, <1>5, <1>6, Sizes DEF NextOr
<1>7. ASSUME NEW items, NEW end, Undoes(items, end) PROVE client' \in ClientState
  BY <1>1, <1>3, <1>7 DEF Undoes, Phase
<1>8. ASSUME NEW how, Becomes(how) \/ Ends(how) PROVE client' \in ClientState
  BY <1>1, <1>3, <1>8 DEF Becomes, Ends, Phase
<1>9. CASE DeviceDoes
  <2>1. CASE TellsAsleep
    BY <2>1, <1>1 DEF TellsAsleep, ClientState, DevState
  <2> QED BY <1>9, <2>1, <1>4 DEF DeviceDoes, Arms, Configures, Commits, TellsFinished, Disarms, Wakes, TellsRecovered, Drops
<1>10. ASSUME NEW changed, FailsConfiguring(changed) PROVE client' \in ClientState
  BY <1>7, <1>10 DEF FailsConfiguring
<1>11. ASSUME NEW said \in Heard,
              HearArm(said) \/ HearConfigured(said) \/ HearCommitted(said) \/ HearFinished(said)
       PROVE  client' \in ClientState
  BY <1>1, <1>11, <1>5, <1>6, <1>7, <1>10 DEF HearArm, HearConfigured, HearCommitted, HearFinished, Phase
<1>12. ASSUME NEW said \in Heard, HearAsleep(said) PROVE client' \in ClientState
  <2>1. CASE said = "lost" /\ client.at = "asking"
    BY <2>1, <1>1, <1>12 DEF HearAsleep, ClientState, Phase
  <2>2. CASE (said = "lost" /\ client.at = "asking again") \/ said = "no"
    BY <2>2, <1>12, <1>7 DEF HearAsleep
  <2>3. CASE said \in {"yes", "kept"}
    <3>1. (\E items, end : Undoes(items, end)) \/ NextOr("asking", "disarming")
      BY <2>3, <1>12 DEF HearAsleep
    <3> QED BY <3>1, <1>6, <1>7 DEF Phase
  <2> QED BY <2>1, <2>2, <2>3, <1>12 DEF HearAsleep, Heard, Asking
<1>13. ASSUME NEW said \in Heard, HearDisarmed(said) PROVE client' \in ClientState
  <2>1. client.i < N => client.i + 1 \in Device
    BY <1>1, Sizes DEF Device
  <2> QED BY <2>1, <1>1, <1>3, <1>13 DEF HearDisarmed, Phase
<1>14. ASSUME NEW said \in Heard,
              HearWoken(said) \/ HearReleased(said) \/ HearRecovered(said) \/ HearDropped(said)
       PROVE  client' \in ClientState
  <2>1. CASE HearWoken(said) \/ HearReleased(said) \/ HearRecovered(said)
    <3>1. CASE HearWoken(said)
      <4>1. Becomes("recover") \/ Becomes("wake") \/ Becomes("wait")
        BY <3>1 DEF HearWoken
      <4> QED BY <4>1, <1>8
    <3>2. CASE HearReleased(said)
      <4>1. Ends("untouched") \/ Becomes("recover untouched") \/ Becomes("release again") \/ Becomes("wait untouched")
        BY <3>2 DEF HearReleased, Heard
      <4> QED BY <4>1, <1>8
    <3>3. CASE HearRecovered(said)
      BY <3>3, <1>8 DEF HearRecovered
    <3> QED BY <2>1, <3>1, <3>2, <3>3
  <2>2. CASE HearDropped(said)
    <3>1. (\E how : Becomes(how) \/ Ends(how)) \/ client' = From("undoing", client.i)
      BY <2>2 DEF HearDropped, Heard
    <3> QED BY <3>1, <1>1, <1>3, <1>8 DEF Phase
  <2> QED BY <1>14, <2>1, <2>2
<1>15. CASE RunGoesOn \/ Unreached \/ Dies
  BY <1>1, <1>3, <1>5, <1>7, <1>8, <1>10, <1>15, Sizes
  DEF RunGoesOn, Stages, Confirmless, Waits, StopsAsking, Concludes, Unreached, Dies, Phase
<1>16. CASE Tick
  <2>1. PICK t \in 0..Window : client' = [client EXCEPT !.took = t]
    <3>1. client.took \in 0..Window
      BY <1>1 DEF ClientState
    <3>2. (IF Timing /\ client.took < Window THEN client.took + 1 ELSE client.took) \in 0..Window
      BY <3>1, Sizes
    <3>3. client' = [client EXCEPT !.took = IF Timing /\ @ < Window THEN @ + 1 ELSE @]
      BY <1>16 DEF Tick
    <3> QED BY <3>2, <3>3
  <2> QED BY <2>1, <1>1 DEF ClientState
<1> QED
  BY <1>2, <1>9, <1>11, <1>12, <1>13, <1>14, <1>15, <1>16
  DEF Next, vars, RunHears, Fires, Restores, GivesUp, Killed

LEMMA LeftTyped ==
    ASSUME TypeOK, [Next]_vars
    PROVE  left' \in LeftState
<1>1. left \in LeftState
  BY DEF TypeOK, LeftState
<1>2. CASE UNCHANGED left
  BY <1>1, <1>2
<1>3. CASE left.losses > 0 /\ left' = [left EXCEPT !.losses = @ - 1]
  BY <1>1, <1>3, Sizes DEF LeftState
<1>4. CASE left.kills > 0 /\ left' = [left EXCEPT !.kills = @ - 1]
  BY <1>1, <1>4, Sizes DEF LeftState
<1>5. CASE RunHears
  BY <1>5, <1>2, <1>3
  DEF RunHears, HearArm, HearConfigured, HearCommitted, HearFinished, HearAsleep, HearDisarmed,
      HearWoken, HearReleased, HearRecovered, HearDropped, Hears
<1> QED
  BY <1>2, <1>3, <1>4, <1>5
  DEF Next, vars, Fires, Restores, GivesUp, Killed, DeviceDoes, OthersThanDevice, Arms, Configures, Commits, TellsFinished,
      TellsAsleep, Disarms, Wakes, TellsRecovered, Drops, RunGoesOn, Stages, Confirmless, Waits, StopsAsking, Concludes,
      OthersThanUndoing, Unreached, Dies, Tick

LEMMA PastTyped ==
    ASSUME TypeOK, [Next]_vars
    PROVE  past' \in PastState
<1>1. past \in PastState /\ client.i \in Device
  BY DEF TypeOK, PastState
<1>2. CASE UNCHANGED past
  BY <1>1, <1>2
<1>3. CASE Configures
  BY <1>1, <1>3 DEF Configures, PastState
<1>4. ASSUME NEW said \in Heard, HearAsleep(said) PROVE past' \in PastState
  <2>1. past' = [past EXCEPT !.agreed = client'.at = "disarming"]
    BY <1>4 DEF HearAsleep
  <2>2. (client'.at = "disarming") \in BOOLEAN
    OBVIOUS
  <2> QED BY <1>1, <2>1, <2>2 DEF PastState
<1>5. ASSUME NEW said \in Heard, HearDisarmed(said) PROVE past' \in PastState
  <2>1. past' = [past EXCEPT !.cut = @ \/ (said = "lost" /\ client.at = "disarming again")]
    BY <1>5 DEF HearDisarmed
  <2>2. (past.cut \/ (said = "lost" /\ client.at = "disarming again")) \in BOOLEAN
    OBVIOUS
  <2> QED BY <1>1, <2>1, <2>2 DEF PastState
<1>6. CASE Tick
  <2>1. past.disarming < Margin => past.disarming + 1 \in 0..Margin
    BY <1>1, Sizes DEF PastState
  <2> QED BY <1>1, <1>6, <2>1 DEF Tick, PastState
<1>7. CASE RunHears
  BY <1>7, <1>2, <1>4, <1>5
  DEF RunHears, HearArm, HearConfigured, HearCommitted, HearFinished, HearWoken, HearReleased, HearRecovered, HearDropped,
      OthersThanUndoing
<1>8. ASSUME NEW d \in Device, Fires(d) \/ Restores(d) \/ GivesUp(d) \/ Killed(d) PROVE past' \in PastState
  BY <1>8, DevicePast
<1> QED
  BY <1>2, <1>3, <1>6, <1>7, <1>8
  DEF Next, vars, DeviceDoes, Arms, Commits, TellsFinished,
      TellsAsleep, Disarms, Wakes, TellsRecovered, Drops, RunGoesOn, Stages, Confirmless, Waits, StopsAsking, Concludes,
      OthersThanUndoing, Unreached, Dies

\* hard is the plan's, and never changes.
LEMMA HardTyped ==
    ASSUME TypeOK, [Next]_vars
    PROVE  hard' \subseteq Device
<1>1. hard \subseteq Device
  BY DEF TypeOK
<1>2. CASE RunHears
  BY <1>2, <1>1
  DEF RunHears, HearArm, HearConfigured, HearCommitted, HearFinished, HearAsleep, HearDisarmed,
      HearWoken, HearReleased, HearRecovered, HearDropped, OthersThanUndoing
<1> QED
  BY <1>1, <1>2
  DEF Next, vars, Fires, Restores, GivesUp, Killed, DeviceDoes, OthersThanDevice, Arms, Configures, Commits, TellsFinished,
      TellsAsleep, Disarms, Wakes, TellsRecovered, Drops, RunGoesOn, Stages, Confirmless, Waits, StopsAsking, Concludes,
      OthersThanUndoing, Unreached, Dies, Tick

\* What the run counts on.
LEMMA RunTyped ==
    ASSUME TypeOK, [Next]_vars
    PROVE  deadline' \in Times /\ firesIn' \in Times /\ timed' \subseteq Device /\ kept' \subseteq Device
<1>1. /\ deadline \in Times /\ firesIn \in Times /\ timed \subseteq Device /\ kept \subseteq Device
      /\ client.i \in Device /\ client.took \in 0..Window /\ client.seconds \in 0..Window
  BY DEF TypeOK, Times
<1>2. CASE UNCHANGED run
  BY <1>1, <1>2 DEF run
<1>3. ASSUME NEW said \in Heard, HearArm(said)
      PROVE  deadline' \in Times /\ UNCHANGED <<firesIn, timed, kept>>
  <2>1. FromCall \in 0..Window
    <3>1. Window \in 0..Window /\ client.took \in Nat
      BY <1>1, Sizes
    <3> QED BY <3>1, LessOK DEF FromCall
  <2> QED BY <1>1, <1>3, <2>1 DEF HearArm, Times
<1>4. ASSUME NEW said \in Heard, HearAsleep(said)
      PROVE  firesIn' \in Times /\ timed' \subseteq Device /\ UNCHANGED <<deadline, kept>>
  <2>1. AsSaidWhenAsked \in 0..Window
    <3>1. client.took \in Nat
      BY <1>1, Sizes
    <3> QED BY <1>1, <3>1, LessOK DEF AsSaidWhenAsked
  <2>2. [firesIn EXCEPT ![client.i] = IF said = "yes" THEN AsSaidWhenAsked ELSE @] \in Times
    BY <1>1, <2>1 DEF Times
  <2> QED BY <1>1, <1>4, <2>2, NoTimesOK DEF HearAsleep
<1>5. ASSUME NEW said \in Heard, HearDisarmed(said)
      PROVE  kept' \subseteq Device /\ UNCHANGED <<deadline, firesIn, timed>>
  BY <1>1, <1>5 DEF HearDisarmed
<1>6. CASE Dies
  BY <1>6, NoTimesOK DEF Dies
<1>7. CASE Tick
  <2>1. ASSUME NEW f \in Times PROVE [d \in Device |-> Less(f[d], 1)] \in Times
    <3>1. ASSUME NEW d \in Device PROVE Less(f[d], 1) \in 0..Window
      <4>1. f[d] \in 0..Window
        BY DEF Times
      <4> QED BY <4>1, LessOK
    <3> QED BY <3>1 DEF Times
  <2> QED BY <1>1, <1>7, <2>1 DEF Tick
<1>8. CASE RunHears
  BY <1>1, <1>8, <1>2, <1>3, <1>4, <1>5
  DEF RunHears, HearConfigured, HearCommitted, HearFinished, HearWoken, HearReleased, HearRecovered, HearDropped,
      OthersThanUndoing
<1> QED
  BY <1>2, <1>6, <1>7, <1>8
  DEF Next, vars, run, Fires, Restores, GivesUp, Killed, DeviceDoes, OthersThanDevice, Arms, Configures, Commits,
      TellsFinished, TellsAsleep, Disarms, Wakes, TellsRecovered, Drops, RunGoesOn, Stages, Confirmless, Waits, StopsAsking,
      Concludes, OthersThanUndoing, Unreached

\* The items of each failure, as far as a run can have got.
LEMMA ItemsOK ==
    ASSUME NEW i \in Device, NEW how \in Undoing, NEW last \in Undoing
    PROVE  /\ Upward(1, i, how) \in Seq(ToDo) /\ Upward(1, i - 1, how) \in Seq(ToDo)
           /\ Upward(i, N, how) \in Seq(ToDo) /\ Upward(i + 1, N, how) \in Seq(ToDo)
           /\ Downward(i, 1, how) \in Seq(ToDo) /\ Downward(i - 1, 1, how) \in Seq(ToDo)
           /\ Downward(N, i, how) \in Seq(ToDo) /\ Downward(N, i + 1, how) \in Seq(ToDo)
           /\ Downward(N, 1, how) \in Seq(ToDo)
           /\ <<Item(i, last)>> \in Seq(ToDo)
<1>1. /\ 1 \in Nat /\ i \in Nat /\ N \in Nat /\ i - 1 \in Nat /\ i + 1 \in Nat
      /\ i >= 1 /\ i <= N /\ N >= 1
  BY Sizes DEF Device
<1>2. /\ i - 1 <= N /\ 1 <= (i - 1) + 1 /\ 1 <= i + 1 /\ i <= N + 1 /\ i + 1 >= 1 /\ i + 1 <= N + 1
      /\ 1 <= N + 1
  BY <1>1
<1> HIDE DEF Device
<1>3. /\ Upward(1, i, how) \in Seq(ToDo) /\ Upward(1, i - 1, how) \in Seq(ToDo)
      /\ Upward(i, N, how) \in Seq(ToDo) /\ Upward(i + 1, N, how) \in Seq(ToDo)
  BY <1>1, <1>2, UpwardOK
<1>4. /\ Downward(i, 1, how) \in Seq(ToDo) /\ Downward(i - 1, 1, how) \in Seq(ToDo)
      /\ Downward(N, i, how) \in Seq(ToDo) /\ Downward(N, i + 1, how) \in Seq(ToDo)
      /\ Downward(N, 1, how) \in Seq(ToDo)
  BY <1>1, <1>2, DownwardOK
<1> QED BY <1>3, <1>4, ItemOK

LEMMA TailOK ==
    ASSUME NEW s \in Seq(ToDo), s # <<>>
    PROVE  Head(s) \in ToDo /\ Head(s).device \in Device /\ Tail(s) \in Seq(ToDo)
<1>1. Head(s) \in ToDo /\ Tail(s) \in Seq(ToDo)
  OBVIOUS
<1> QED BY <1>1 DEF ToDo

\* The ways of undoing an item that becomes another.
LEMMA Ways ==
    /\ "recover" \in Undoing /\ "recover untouched" \in Undoing /\ "wake" \in Undoing
    /\ "wait" \in Undoing /\ "wait untouched" \in Undoing /\ "release again" \in Undoing
    /\ "discard again" \in Undoing /\ "discard stray again" \in Undoing
BY DEF Undoing

\* An item is worked on only in undoing, and while one is left.
LEMMA DoingOK ==
    ASSUME TypeOK, Doing \in Undoing
    PROVE  client.at = "undoing" /\ todo # <<>> /\ Called \in Device /\ Tail(todo) \in Seq(ToDo)
<1>1. client.at \in Phase /\ todo \in Seq(ToDo)
  BY DEF TypeOK, ToDo
<1>2. client.at = "undoing"
  BY <1>1 DEF Doing, Undoing, Phase
<1>3. todo # <<>>
  BY <1>2 DEF Doing, Undoing
<1> QED BY <1>1, <1>2, <1>3, TailOK DEF Called

LEMMA ToDoTyped ==
    ASSUME TypeOK, [Next]_vars
    PROVE  todo' \in Seq(ToDo)
<1>1. todo \in Seq(ToDo) /\ client.i \in Device
  BY DEF TypeOK, ToDo
<1>2. CASE UNCHANGED todo
  BY <1>1, <1>2
<1>3. ASSUME NEW items \in Seq(ToDo), NEW end, Undoes(items, end) PROVE todo' \in Seq(ToDo)
  BY <1>3 DEF Undoes
<1>4. ASSUME NEW how \in Undoing, Doing \in Undoing, Becomes(how) PROVE todo' \in Seq(ToDo)
  BY <1>4, DoingOK, ItemOK, ConcatOK DEF Becomes
<1>5. ASSUME NEW word, Doing \in Undoing, Ends(word) PROVE todo' \in Seq(ToDo)
  BY <1>5, DoingOK DEF Ends
<1>6. ASSUME NEW changed, FailsConfiguring(changed) PROVE todo' \in Seq(ToDo)
  <2> DEFINE i == client.i
  <2>1. CASE changed
    <3>1. Downward(i, 1, "wake") \o Upward(i + 1, N, "release") \in Seq(ToDo)
      BY <1>1, ItemsOK, ConcatOK DEF Undoing
    <3> QED BY <2>1, <3>1, <1>3, <1>6 DEF FailsConfiguring
  <2>2. CASE ~changed
    <3>1. Downward(i - 1, 1, "wake") \o Upward(i, N, "release") \in Seq(ToDo)
      BY <1>1, ItemsOK, ConcatOK DEF Undoing
    <3> QED BY <2>2, <3>1, <1>3, <1>6 DEF FailsConfiguring
  <2> QED BY <2>1, <2>2
<1>7. CASE Stages
  <2>1. CASE Goes("arming", 1)
    BY <2>1, <1>2 DEF Goes
  <2>2. CASE \E i \in Device : Undoes(Upward(1, i, "discard"), "failed")
    <3>1. PICK i \in Device : Undoes(Upward(1, i, "discard"), "failed")
      BY <2>2
    <3>2. Upward(1, i, "discard") \in Seq(ToDo)
      BY ItemsOK DEF Undoing
    <3> QED BY <3>1, <3>2, <1>3
  <2> QED BY <1>7, <2>1, <2>2 DEF Stages
<1>8. ASSUME NEW at, NEW then, NextOr(at, then) PROVE todo' \in Seq(ToDo)
  BY <1>2, <1>8 DEF NextOr, Goes
<1>9. ASSUME NEW said \in Heard, HearArm(said) PROVE todo' \in Seq(ToDo)
  <2> DEFINE i == client.i
             items == Upward(1, i - 1, "release") \o <<Item(i, "discard stray")>> \o Upward(i + 1, N, "discard")
  <2>1. items \in Seq(ToDo)
    BY <1>1, ItemsOK, ConcatOK DEF Undoing
  <2>2. NextOr("arming", "configuring") \/ Undoes(items, "failed")
    BY <1>9 DEF HearArm
  <2> QED BY <2>1, <2>2, <1>3, <1>8
<1>10. ASSUME NEW said \in Heard, HearConfigured(said) \/ HearCommitted(said) PROVE todo' \in Seq(ToDo)
  <2>1. (\E changed : FailsConfiguring(changed)) \/ UNCHANGED todo
    BY <1>10 DEF HearConfigured, HearCommitted, NextOr, Goes
  <2> QED BY <2>1, <1>2, <1>6
<1>11. Downward(N, client.i, "wake") \o Downward(client.i - 1, 1, "wake over session") \in Seq(ToDo)
  BY <1>1, ItemsOK, ConcatOK DEF Undoing
<1>12. ASSUME NEW said \in Heard, HearFinished(said) PROVE todo' \in Seq(ToDo)
  BY <1>12, <1>11, <1>3, <1>8 DEF HearFinished
<1>13. CASE Confirmless
  <2>1. Downward(N, client.i + 1, "wake") \o Downward(client.i - 1, 1, "wake over session") \o <<Item(client.i, "wait")>> \in Seq(ToDo)
    BY <1>1, ItemsOK, ConcatOK DEF Undoing
  <2> QED BY <2>1, <1>13, <1>3 DEF Confirmless
<1>14. ASSUME NEW said \in Heard, HearAsleep(said) PROVE todo' \in Seq(ToDo)
  <2> DEFINE others == Downward(N, client.i + 1, "wake over session") \o Downward(client.i - 1, 1, "wake over session")
  <2>1. others \in Seq(ToDo)
    BY <1>1, ItemsOK, ConcatOK DEF Undoing
  <2>2. others \o <<Item(client.i, "wait")>> \in Seq(ToDo) /\ others \o <<Item(client.i, "recover")>> \in Seq(ToDo)
    BY <1>1, <2>1, ItemsOK, ConcatOK DEF Undoing
  <2>3. Downward(N, 1, "wake over session") \in Seq(ToDo)
    BY <1>1, ItemsOK DEF Undoing
  <2>4. \/ UNCHANGED todo
        \/ Undoes(others \o <<Item(client.i, "wait")>>, "rolled-back")
        \/ Undoes(others \o <<Item(client.i, "recover")>>, "rolled-back")
        \/ Undoes(Downward(N, 1, "wake over session"), "rolled-back")
        \/ NextOr("asking", "disarming")
    BY <1>14 DEF HearAsleep, Heard, Asking
  <2> QED BY <2>2, <2>3, <2>4, <1>2, <1>3, <1>8
<1>15. ASSUME NEW said \in Heard, HearDisarmed(said) PROVE todo' \in Seq(ToDo)
  <2>1. ASSUME NEW how \in Undoing PROVE Append(todo, Item(client.i, how)) \in Seq(ToDo)
    BY <1>1, ItemOK
  <2>2. \/ UNCHANGED todo
        \/ todo' = Append(todo, Item(client.i, "recover")) \/ todo' = Append(todo, Item(client.i, "wait"))
    BY <1>15 DEF HearDisarmed
  <2> QED BY <2>1, <2>2, <1>2 DEF Undoing
<1>16. ASSUME NEW said \in Heard,
              HearWoken(said) \/ HearReleased(said) \/ HearRecovered(said)
       PROVE  todo' \in Seq(ToDo)
  <2>1. Doing \in Undoing
    BY <1>16 DEF HearWoken, HearReleased, HearRecovered, Undoing
  <2>2. ASSUME HearWoken(said) PROVE Becomes("recover") \/ Becomes("wake") \/ Becomes("wait")
    BY <2>2 DEF HearWoken
  <2>3. ASSUME HearReleased(said)
        PROVE Ends("untouched") \/ Becomes("recover untouched") \/ Becomes("release again") \/ Becomes("wait untouched")
    BY <2>3 DEF HearReleased, Heard
  <2>4. ASSUME HearRecovered(said)
        PROVE Ends("rolled back") \/ Ends("untouched") \/ Becomes("recover") \/ Becomes("recover untouched")
    BY <2>4 DEF HearRecovered
  <2> QED BY <1>16, <2>1, <2>2, <2>3, <2>4, <1>4, <1>5, Ways
<1>17. ASSUME NEW said \in Heard, HearDropped(said) PROVE todo' \in Seq(ToDo)
  <2>1. Doing \in Undoing
    BY <1>17 DEF HearDropped, Undoing
  <2>2. Tail(todo) \o <<Item(Called, "wait")>> \in Seq(ToDo)
    BY <2>1, DoingOK, ItemOK, ConcatOK DEF Undoing
  <2>3. Ends("nothing") \/ Becomes("discard again") \/ Becomes("discard stray again") \/ todo' = Tail(todo) \o <<Item(Called, "wait")>>
    BY <1>17 DEF HearDropped, Heard
  <2> QED BY <2>1, <2>2, <2>3, <1>4, <1>5, Ways
<1>18. CASE Waits \/ StopsAsking
  <2>1. Doing \in Undoing
    BY <1>18 DEF Waits, StopsAsking, Undoing
  <2>2. Becomes("recover") \/ Becomes("recover untouched") \/ Ends("rolling back")
    BY <1>18 DEF Waits, StopsAsking
  <2> QED BY <2>1, <2>2, <1>4, <1>5, Ways
<1>19. CASE Dies
  BY <1>19 DEF Dies
<1>20. CASE Unreached
  BY <1>20, <1>6 DEF Unreached
<1> QED
  BY <1>2, <1>7, <1>9, <1>10, <1>12, <1>13, <1>14, <1>15, <1>16, <1>17, <1>18, <1>19, <1>20
  DEF Next, vars, RunHears, RunGoesOn, Concludes, Fires, Restores, GivesUp, Killed, DeviceDoes, OthersThanDevice, Arms,
      Configures, Commits, TellsFinished, TellsAsleep, Disarms, Wakes, TellsRecovered, Drops, Tick

LEMMA VerdictTyped ==
    ASSUME TypeOK, [Next]_vars
    PROVE  verdict' \in Verdict
<1>1. verdict \in Verdict
  BY DEF TypeOK, Verdict
<1>2. CASE UNCHANGED verdict
  BY <1>1, <1>2
<1>3. ASSUME NEW items, NEW end \in {"failed", "rolled-back"}, Undoes(items, end) PROVE verdict' \in Verdict
  BY <1>3 DEF Undoes, Verdict
<1>4. ASSUME NEW changed, FailsConfiguring(changed) PROVE verdict' \in Verdict
  BY <1>3, <1>4 DEF FailsConfiguring
<1>5. ASSUME NEW at, NEW then, NextOr(at, then) \/ Goes(at, then) PROVE verdict' \in Verdict
  BY <1>2, <1>5 DEF NextOr, Goes
<1>6. ASSUME NEW said \in Heard,
             HearArm(said) \/ HearConfigured(said) \/ HearCommitted(said) \/ HearFinished(said)
      PROVE  verdict' \in Verdict
  BY <1>3, <1>4, <1>5, <1>6 DEF HearArm, HearConfigured, HearCommitted, HearFinished
<1>7. ASSUME NEW said \in Heard, HearAsleep(said) PROVE verdict' \in Verdict
  <2>1. \/ UNCHANGED verdict
        \/ \E items : Undoes(items, "rolled-back")
        \/ NextOr("asking", "disarming")
    BY <1>7 DEF HearAsleep, Heard, Asking
  <2> QED BY <2>1, <1>2, <1>3, <1>5
<1>8. ASSUME NEW said \in Heard, HearDisarmed(said) PROVE verdict' \in Verdict
  <2>1. UNCHANGED verdict \/ verdict' \in {"applied", "applied-with-problems"} \/ verdict' \in {"partial"} \/ verdict' \in {"rolled-back"}
    BY <1>8 DEF HearDisarmed
  <2> QED BY <2>1, <1>2 DEF Verdict
<1>9. ASSUME NEW said \in Heard, HearWoken(said) \/ HearReleased(said) \/ HearRecovered(said) \/ HearDropped(said)
      PROVE  UNCHANGED verdict
  <2>1. CASE HearWoken(said)
    BY <2>1 DEF HearWoken, Becomes
  <2>2. CASE HearReleased(said)
    BY <2>2 DEF HearReleased, Becomes, Ends, Heard
  <2>3. CASE HearRecovered(said)
    BY <2>3 DEF HearRecovered, Becomes, Ends
  <2>4. CASE HearDropped(said)
    BY <2>4 DEF HearDropped, Becomes, Ends, Heard
  <2> QED BY <1>9, <2>1, <2>2, <2>3, <2>4
<1>10. CASE RunGoesOn
  <2>1. UNCHANGED verdict \/ \E items, end : end \in {"failed", "rolled-back"} /\ Undoes(items, end)
    BY <1>10 DEF RunGoesOn, Stages, Goes, Confirmless, Waits, StopsAsking, Concludes, Becomes, Ends
  <2> QED BY <2>1, <1>2, <1>3
<1>11. CASE Unreached
  BY <1>11, <1>4 DEF Unreached
<1>12. CASE Dies
  BY <1>12 DEF Dies, Verdict
<1> QED
  BY <1>2, <1>6, <1>7, <1>8, <1>9, <1>10, <1>11, <1>12
  DEF Next, vars, RunHears, Fires, Restores, GivesUp, Killed, DeviceDoes, OthersThanDevice, Arms,
      Configures, Commits, TellsFinished, TellsAsleep, Disarms, Wakes, TellsRecovered, Drops, Tick

LEMMA ToldTyped ==
    ASSUME TypeOK, [Next]_vars
    PROVE  told' \in [Device -> Word]
<1>1. told \in [Device -> Word]
  BY DEF TypeOK, Word
<1>2. CASE UNCHANGED told
  BY <1>1, <1>2
<1>3. ASSUME NEW word \in Word, Ends(word) PROVE told' \in [Device -> Word]
  BY <1>1, <1>3 DEF Ends
<1>4. ASSUME NEW at, NEW then, NextOr(at, then) \/ Goes(at, then) PROVE UNCHANGED told
  BY <1>4 DEF NextOr, Goes
<1>5. ASSUME NEW items, NEW end, Undoes(items, end) PROVE UNCHANGED told
  BY <1>5 DEF Undoes
<1>6. ASSUME NEW changed, FailsConfiguring(changed) PROVE UNCHANGED told
  BY <1>5, <1>6 DEF FailsConfiguring
<1>7. ASSUME NEW said \in Heard,
             HearArm(said) \/ HearConfigured(said) \/ HearCommitted(said) \/ HearFinished(said) \/ HearDisarmed(said)
      PROVE  UNCHANGED told
  BY <1>4, <1>5, <1>6, <1>7 DEF HearArm, HearConfigured, HearCommitted, HearFinished, HearDisarmed
<1>8. ASSUME NEW said \in Heard, HearAsleep(said) PROVE UNCHANGED told
  <2>1. UNCHANGED told \/ (\E items, end : Undoes(items, end)) \/ NextOr("asking", "disarming")
    BY <1>8 DEF HearAsleep, Heard, Asking
  <2> QED BY <2>1, <1>4, <1>5
<1>9. ASSUME NEW said \in Heard, HearWoken(said) \/ HearReleased(said) \/ HearRecovered(said) \/ HearDropped(said)
      PROVE  told' \in [Device -> Word]
  <2>1. CASE HearWoken(said)
    BY <2>1, <1>2 DEF HearWoken, Becomes
  <2>2. CASE HearReleased(said)
    <3>1. UNCHANGED told \/ Ends("untouched")
      BY <2>2 DEF HearReleased, Becomes, Heard
    <3> QED BY <3>1, <1>2, <1>3 DEF Word
  <2>3. CASE HearRecovered(said)
    <3>1. UNCHANGED told \/ Ends("rolled back") \/ Ends("untouched")
      BY <2>3 DEF HearRecovered, Becomes
    <3> QED BY <3>1, <1>2, <1>3 DEF Word
  <2>4. CASE HearDropped(said)
    <3>1. UNCHANGED told \/ Ends("nothing")
      BY <2>4 DEF HearDropped, Becomes, Heard
    <3> QED BY <3>1, <1>2, <1>3 DEF Word
  <2> QED BY <1>9, <2>1, <2>2, <2>3, <2>4
<1>10. CASE RunGoesOn
  <2>1. UNCHANGED told \/ Ends("rolling back")
    BY <1>10, <1>4, <1>5 DEF RunGoesOn, Stages, Confirmless, Waits, StopsAsking, Concludes, Becomes
  <2> QED BY <2>1, <1>2, <1>3 DEF Word
<1>11. CASE Unreached
  BY <1>11, <1>2, <1>6 DEF Unreached
<1>12. CASE Dies
  BY <1>12 DEF Dies, Word
<1> QED
  BY <1>2, <1>7, <1>8, <1>9, <1>10, <1>11, <1>12
  DEF Next, vars, RunHears, Fires, Restores, GivesUp, Killed, DeviceDoes, OthersThanDevice, Arms,
      Configures, Commits, TellsFinished, TellsAsleep, Disarms, Wakes, TellsRecovered, Drops, Tick

-----------------------------------------------------------------------------
LEMMA InitTyped == Init => TypeOK
<1> SUFFICES ASSUME Init PROVE TypeOK
  OBVIOUS
<1>1. dev \in [Device -> DevState]
  BY Sizes DEF Init, DevState, Watchdog
<1>2. client \in ClientState
  BY FromOK, Sizes DEF Init, Phase
<1>3. deadline \in Times /\ firesIn \in Times
  BY NoTimesOK DEF Init
<1>4. past \in PastState /\ left \in LeftState
  BY Sizes DEF Init, PastState, LeftState
<1>5. todo \in Seq(ToDo)
  BY DEF Init
<1>6. hard \subseteq Device
  BY PlansAssumption DEF PlansAssumption, Init, Device
<1> QED
  BY <1>1, <1>2, <1>3, <1>4, <1>5, <1>6
  DEF Init, TypeOK, DevState, ClientState, Times, PastState, LeftState, ToDo

LEMMA StepTyped == TypeOK /\ [Next]_vars => TypeOK'
<1> SUFFICES ASSUME TypeOK, [Next]_vars PROVE TypeOK'
  OBVIOUS
<1> QED
  BY DevTyped, ClientTyped, HardTyped, RunTyped, ToDoTyped, VerdictTyped, ToldTyped, PastTyped, LeftTyped
  DEF TypeOK, DevState, ClientState, Times, ToDo, Verdict, Word, PastState, LeftState

\* Every variable of an apply keeps its type: every call's answer, however it
\* is lost, leaves the run at a phase of its own and with items it can undo.
THEOREM TypeCorrect == Spec => []TypeOK
BY InitTyped, StepTyped, PTL DEF Spec

-----------------------------------------------------------------------------
(* The run counts on no more time than a device gives it.                  *)
(*                                                                         *)
(* By itself CountsOnNoMore is not inductive: what HearArm and HearAsleep  *)
(* write down rests on how long the call took, which the run counts while  *)
(* the watchdog sleeps.  And an arm lost before it was done leaves no      *)
(* watchdog that sleeps on an earlier window.                              *)

\* Nothing is armed before arming, nor on a device whose turn has not come.
NotYetArmed ==
    \A d \in Device :
        \/ client.at = "staging"
        \/ client.at = "arming" /\ (d > client.i \/ (d = client.i /\ client.answer = "none"))
        => dev[d].wd = "none"

\* The watchdog being armed has slept no longer than the call has taken.
ArmedDuringCall ==
    client.at = "arming" /\ dev[client.i].wd = "asleep" => dev[client.i].sleeps + client.took >= Window

\* Nor has the one that said what it still sleeps, since it said so.
SaidDuringCall ==
    Asking /\ client.answer = "yes" /\ dev[client.i].wd = "asleep" => dev[client.i].sleeps + client.took >= client.seconds

CountInv == CountsOnNoMore /\ NotYetArmed /\ ArmedDuringCall /\ SaidDuringCall

\* No watchdog starts to sleep, sleeps on, or has its window counted anew.
Calmer ==
    \A d \in Device :
        /\ dev'[d].wd = "asleep" => dev[d].wd = "asleep" /\ dev'[d].sleeps = dev[d].sleeps
        /\ dev[d].wd = "none" => dev'[d].wd = "none"

\* The run is not arming, and has heard nothing of a watchdog asleep.
Unhurried ==
    \/ UNCHANGED client
    \/ client'.at \notin {"staging", "arming"} /\ client'.answer = "none"
    \/ client'.at \notin {"staging", "arming", "asking", "asking again"}

LEMMA QuietStep ==
    ASSUME TypeOK, CountInv, Calmer, Unhurried, UNCHANGED <<deadline, firesIn, timed>>
    PROVE  CountInv'
<1>1. CountsOnNoMore'
  BY DEF CountInv, CountsOnNoMore, Calmer
<1>2. NotYetArmed'
  BY DEF CountInv, NotYetArmed, Calmer, Unhurried
<1>3. client.i \in Device
  BY DEF TypeOK
<1>4. ArmedDuringCall'
  BY <1>3 DEF CountInv, ArmedDuringCall, Calmer, Unhurried
<1>5. SaidDuringCall'
  BY <1>3 DEF CountInv, SaidDuringCall, Calmer, Unhurried, Asking
<1> QED BY <1>1, <1>2, <1>4, <1>5 DEF CountInv

LEMMA CalmerDevice ==
    ASSUME TypeOK, NEW d \in Device, Fires(d) \/ Restores(d) \/ GivesUp(d) \/ Killed(d)
    PROVE  Calmer
<1>1. dev \in [Device -> DevState]
  BY DEF TypeOK, DevState
<1>2. CASE Fires(d) \/ Killed(d)
  BY <1>1, <1>2 DEF Fires, Killed, Turns, Calmer, DevState
<1>3. CASE Restores(d)
  BY <1>3, RestoreStep DEF Calmer
<1>4. CASE GivesUp(d)
  BY <1>1, <1>4 DEF GivesUp, Calmer, DevState
<1> QED BY <1>2, <1>3, <1>4

\* What a device does when called, but for arming.
LEMMA CalmerCall ==
    ASSUME TypeOK, Configures \/ Commits \/ TellsFinished \/ Disarms \/ Wakes \/ TellsRecovered \/ Drops
    PROVE  Calmer /\ Unhurried
<1>1. dev \in [Device -> DevState] /\ client \in ClientState
  BY DEF TypeOK, DevState, ClientState
<1>2. Calmer
  <2>1. CASE UNCHANGED dev
    BY <2>1 DEF Calmer
  <2>2. ASSUME NEW d, NEW w \in {"disarmed", "restoring", "none"}, dev' = Turns(d, w), dev[d].wd # "none" \/ w = "none"
        PROVE  Calmer
    BY <1>1, <2>2 DEF Turns, Calmer, DevState
  <2>3. CASE Configures
    BY <1>1, <2>3 DEF Configures, Calmer, DevState
  <2>4. CASE Commits
    <3>1. ASSUME NEW c, \/ dev' = [dev EXCEPT ![client.i].change = c, ![client.i].marker = TRUE]
                        \/ dev' = [dev EXCEPT ![client.i].change = c]
          PROVE  Calmer
      BY <1>1, <3>1 DEF Calmer, DevState
    <3>2. \/ \E c : dev' = [dev EXCEPT ![client.i].change = c, ![client.i].marker = TRUE]
          \/ \E c : dev' = [dev EXCEPT ![client.i].change = c]
      BY <2>4 DEF Commits
    <3> QED BY <3>1, <3>2
  <2>5. CASE Disarms \/ Wakes \/ Drops
    BY <2>1, <2>2, <2>5 DEF Disarms, Disarmable, Wakes, Drops
  <2>6. CASE TellsRecovered
    BY <1>1, <2>1, <2>6 DEF TellsRecovered, Recoverable, Calmer, DevState
  <2> QED BY <2>1, <2>3, <2>4, <2>5, <2>6 DEF TellsFinished
<1>3. Unhurried
  <2>1. client.at \notin {"staging", "arming", "asking", "asking again"}
    BY DEF Configures, Commits, TellsFinished, Disarms, Wakes, TellsRecovered, Drops, Asked, Doing
  <2>2. client'.at = client.at
    BY <1>1 DEF Configures, Commits, TellsFinished, Disarms, Wakes, TellsRecovered, Drops, Answers, ClientState
  <2> QED BY <2>1, <2>2 DEF Unhurried
<1> QED BY <1>2, <1>3

\* What the run does when it hears, but for an arm's and an asleep's answer.
LEMMA CalmHearing ==
    ASSUME TypeOK, NEW said \in Heard,
           \/ HearConfigured(said) \/ HearCommitted(said) \/ HearFinished(said) \/ HearDisarmed(said)
           \/ HearWoken(said) \/ HearReleased(said) \/ HearRecovered(said) \/ HearDropped(said)
    PROVE  Unhurried /\ UNCHANGED <<dev, deadline, firesIn, timed>>
<1>1. ASSUME NEW phase \in Phase \ {"staging", "arming"}, NEW i, client' = From(phase, i) PROVE Unhurried
  BY <1>1 DEF From, Unhurried
<1>2. ASSUME NEW items, NEW end, Undoes(items, end) PROVE Unhurried
  BY <1>2, <1>1 DEF Undoes, Phase
<1>3. ASSUME NEW changed, FailsConfiguring(changed) PROVE Unhurried
  BY <1>2, <1>3 DEF FailsConfiguring
<1>4. ASSUME NEW at \in Phase \ {"staging", "arming"}, NEW then \in Phase \ {"staging", "arming"}, NextOr(at, then) PROVE Unhurried
  BY <1>1, <1>4 DEF NextOr, Goes
<1>5. ASSUME NEW how, Becomes(how) \/ Ends(how) PROVE Unhurried
  BY <1>1, <1>5 DEF Becomes, Ends, Phase
<1>6. CASE HearConfigured(said)
  <2>1. Goes("committing", client.i) \/ \E changed : FailsConfiguring(changed)
    BY <1>6 DEF HearConfigured
  <2> QED BY <2>1, <1>6, <1>1, <1>3 DEF HearConfigured, Goes, Phase, run
<1>7. CASE HearCommitted(said)
  BY <1>7, <1>3, <1>4 DEF HearCommitted, Phase, run
<1>8. CASE HearFinished(said)
  BY <1>8, <1>2, <1>4 DEF HearFinished, Phase, run
<1>9. CASE HearDisarmed(said)
  BY <1>9, <1>1 DEF HearDisarmed, Phase
<1>10. CASE HearWoken(said) \/ HearReleased(said) \/ HearRecovered(said) \/ HearDropped(said)
  <2>1. (\E how : Becomes(how)) \/ (\E how : Ends(how)) \/ client' = From("undoing", client.i)
    <3>1. ASSUME HearWoken(said) PROVE Becomes("recover") \/ Becomes("wake") \/ Becomes("wait")
      BY <3>1 DEF HearWoken
    <3>2. ASSUME HearReleased(said)
          PROVE Ends("untouched") \/ Becomes("recover untouched") \/ Becomes("release again") \/ Becomes("wait untouched")
      BY <3>2 DEF HearReleased, Heard
    <3>3. ASSUME HearRecovered(said)
          PROVE Ends("rolled back") \/ Ends("untouched") \/ Becomes("recover") \/ Becomes("recover untouched")
      BY <3>3 DEF HearRecovered
    <3>4. ASSUME HearDropped(said)
          PROVE Ends("nothing") \/ Becomes("discard again") \/ Becomes("discard stray again") \/ client' = From("undoing", client.i)
      BY <3>4 DEF HearDropped, Heard
    <3> QED BY <1>10, <3>1, <3>2, <3>3, <3>4
  <2>2. UNCHANGED <<dev, deadline, firesIn, timed>>
    BY <1>10 DEF HearWoken, HearReleased, HearRecovered, HearDropped, OthersThanUndoing, run
  <2> QED BY <2>1, <2>2, <1>1, <1>5 DEF Phase
<1> QED BY <1>6, <1>7, <1>8, <1>9, <1>10

\* And what it does of itself, but for arming and dying.
LEMMA CalmGoingOn ==
    ASSUME TypeOK, (Stages /\ client'.at # "arming") \/ Confirmless \/ Waits \/ StopsAsking \/ Concludes \/ Unreached
    PROVE  Unhurried /\ UNCHANGED <<dev, deadline, firesIn, timed>>
<1>1. ASSUME NEW phase \in Phase \ {"staging", "arming"}, NEW i, client' = From(phase, i) PROVE Unhurried
  BY <1>1 DEF From, Unhurried
<1>2. ASSUME NEW items, NEW end, Undoes(items, end) PROVE Unhurried
  BY <1>2, <1>1 DEF Undoes, Phase
<1>3. CASE Stages /\ client'.at # "arming"
  BY <1>3, <1>2 DEF Stages, Goes, From, run
<1>4. CASE Confirmless
  BY <1>4, <1>2 DEF Confirmless, run
<1>5. CASE Waits \/ StopsAsking \/ Concludes
  BY <1>5, <1>1 DEF Waits, StopsAsking, Concludes, Becomes, Ends, OthersThanUndoing, run, Phase
<1>6. CASE Unreached
  BY <1>6, <1>2 DEF Unreached, FailsConfiguring, run
<1> QED BY <1>3, <1>4, <1>5, <1>6

LEMMA CountArming ==
    ASSUME TypeOK, CountInv, Stages, client'.at = "arming"
    PROVE  CountInv'
<1>1. client' = From("arming", 1) /\ UNCHANGED <<dev, deadline, firesIn, timed>>
  BY DEF Stages, Goes, Undoes, From, run
<1>2. client.at = "staging"
  BY DEF Stages
<1>3. \A d \in Device : dev[d].wd = "none"
  BY <1>2 DEF CountInv, NotYetArmed
<1> QED
  BY <1>1, <1>3, Sizes
  DEF CountInv, CountsOnNoMore, NotYetArmed, ArmedDuringCall, SaidDuringCall, Asking, From

\* A phase that is not undoing is where the run is, when it is what it does.
LEMMA PhaseDone ==
    ASSUME TypeOK, Doing \in {"arming", "asking", "asking again"}
    PROVE  client.at = Doing
<1>1. CASE client.at = "undoing"
  <2>1. todo \in Seq(ToDo)
    BY DEF TypeOK, ToDo
  <2>2. todo # <<>> => Head(todo).how \in Undoing
    BY <2>1, TailOK DEF ToDo
  <2> QED BY <1>1, <2>2 DEF Doing, Undoing
<1> QED BY <1>1 DEF Doing

LEMMA CountArms ==
    ASSUME TypeOK, CountInv, Arms
    PROVE  CountInv'
<1>1. dev \in [Device -> DevState] /\ client \in ClientState /\ deadline \in Times /\ firesIn \in Times
  BY DEF TypeOK, DevState, ClientState, Times
<1>2. client.at = "arming" /\ client.answer = "none"
  BY PhaseDone DEF Arms, Asked
<1>3. PICK said \in {"yes", "no"}, wd \in {"asleep", "none"} :
          /\ client' = [client EXCEPT !.answer = said]
          /\ dev' = [dev EXCEPT ![client.i].wd = wd, ![client.i].sleeps = IF wd = "asleep" THEN Window ELSE 0]
  BY DEF Arms, Answers
<1>4. /\ client'.at = "arming" /\ client'.i = client.i /\ client'.took = client.took /\ client'.answer = said
      /\ client.i \in Device /\ client.took \in Nat
  BY <1>1, <1>2, <1>3, Sizes DEF ClientState
<1>5. UNCHANGED <<deadline, firesIn, timed>>
  BY DEF Arms, OthersThanDevice, run
<1>6. /\ \A d \in Device \ {client.i} : dev'[d] = dev[d]
      /\ dev'[client.i].wd = wd
      /\ wd = "asleep" => dev'[client.i].sleeps = Window
  BY <1>1, <1>3, <1>4 DEF DevState
<1>7. \A d \in Device : deadline[d] \in 0..Window /\ firesIn[d] \in 0..Window
  BY <1>1 DEF Times
<1>8. CountsOnNoMore'
  BY <1>4, <1>5, <1>6, <1>7, Sizes DEF CountInv, CountsOnNoMore
<1>9. NotYetArmed'
  <2> SUFFICES ASSUME NEW d \in Device, d > client.i PROVE dev'[d].wd = "none"
    BY <1>3, <1>4 DEF NotYetArmed
  <2>1. d # client.i
    BY <1>4 DEF Device
  <2> QED BY <2>1, <1>2, <1>6 DEF CountInv, NotYetArmed
<1>10. ArmedDuringCall'
  BY <1>4, <1>6, Sizes DEF ArmedDuringCall
<1>11. SaidDuringCall'
  BY <1>4 DEF SaidDuringCall, Asking
<1> QED BY <1>8, <1>9, <1>10, <1>11 DEF CountInv

LEMMA CountHearArm ==
    ASSUME TypeOK, TypeOK', CountInv, NEW said \in Heard, HearArm(said)
    PROVE  CountInv'
<1>1. dev \in [Device -> DevState] /\ client \in ClientState /\ deadline \in Times /\ firesIn \in Times
  BY DEF TypeOK, DevState, ClientState, Times
<1>2. client.at = "arming" /\ client.i \in Device /\ client.took \in 0..Window
  BY <1>1 DEF HearArm, ClientState
<1>3. deadline' = [deadline EXCEPT ![client.i] = FromCall] /\ UNCHANGED <<dev, firesIn, timed>>
  BY DEF HearArm
<1>4. dev[client.i].wd = "asleep" => FromCall <= dev[client.i].sleeps
  <2> SUFFICES ASSUME dev[client.i].wd = "asleep" PROVE FromCall <= dev[client.i].sleeps
    OBVIOUS
  <2>1. dev[client.i].sleeps + client.took >= Window /\ dev[client.i].sleeps \in 0..Window
    BY <1>1, <1>2 DEF CountInv, ArmedDuringCall, DevState
  <2> QED BY <2>1, <1>2, Sizes DEF FromCall, Less
<1>5. CountsOnNoMore'
  BY <1>1, <1>2, <1>3, <1>4 DEF CountInv, CountsOnNoMore, Times
<1>6. /\ client'.answer = "none" /\ client'.at \in {"arming", "configuring", "undoing"}
      /\ client'.at = "arming" => client'.i = client.i + 1
  <2>1. NextOr("arming", "configuring") \/ \E items, end : Undoes(items, end)
    BY DEF HearArm
  <2> QED BY <2>1 DEF NextOr, Goes, Undoes, From
<1>7. NotYetArmed'
  <2> SUFFICES ASSUME NEW d \in Device, client'.at = "arming", d >= client.i + 1 PROVE dev[d].wd = "none"
    BY <1>2, <1>3, <1>6 DEF NotYetArmed, Device
  <2>1. d > client.i
    BY <1>2 DEF Device
  <2> QED BY <2>1, <1>2 DEF CountInv, NotYetArmed
<1>8. ArmedDuringCall'
  <2> SUFFICES ASSUME client'.at = "arming" PROVE dev'[client'.i].wd # "asleep"
    BY DEF ArmedDuringCall
  <2>1. client'.i \in Device
    BY DEF TypeOK
  <2> QED BY <1>6, <1>7, <2>1 DEF NotYetArmed
<1>9. SaidDuringCall'
  BY <1>6 DEF SaidDuringCall, Asking
<1> QED BY <1>5, <1>7, <1>8, <1>9 DEF CountInv

LEMMA CountTells ==
    ASSUME TypeOK, CountInv, TellsAsleep
    PROVE  CountInv'
<1>1. dev \in [Device -> DevState] /\ client \in ClientState
  BY DEF TypeOK, DevState, ClientState
<1>2. Asking
  BY PhaseDone DEF TellsAsleep, Asked, Asking
<1>3. /\ client'.at = client.at /\ client'.i = client.i /\ client'.took = client.took
      /\ client'.seconds = dev[client.i].sleeps /\ dev[client.i].sleeps \in Nat /\ client.took \in Nat
      /\ UNCHANGED <<dev, deadline, firesIn, timed>>
  <2>1. client.i \in Device /\ client.took \in 0..Window
    BY <1>1 DEF ClientState
  <2>2. dev[client.i].sleeps \in 0..Window
    BY <1>1, <2>1 DEF DevState
  <2>3. UNCHANGED <<dev, deadline, firesIn, timed>>
    BY DEF TellsAsleep, OthersThanDevice, run
  <2>4. PICK said \in {"yes", "no", "kept"} : client' = [client EXCEPT !.answer = said, !.seconds = dev[client.i].sleeps]
    BY DEF TellsAsleep
  <2> QED BY <1>1, <2>1, <2>2, <2>3, <2>4, Sizes DEF ClientState
<1>4. CountsOnNoMore' /\ NotYetArmed' /\ ArmedDuringCall'
  BY <1>2, <1>3 DEF CountInv, CountsOnNoMore, NotYetArmed, ArmedDuringCall, Asking
<1>5. SaidDuringCall'
  BY <1>3 DEF SaidDuringCall
<1> QED BY <1>4, <1>5 DEF CountInv

LEMMA CountHearAsleep ==
    ASSUME TypeOK, CountInv, NEW said \in Heard, HearAsleep(said)
    PROVE  CountInv'
<1>1. /\ dev \in [Device -> DevState] /\ client \in ClientState /\ deadline \in Times /\ firesIn \in Times
      /\ client.i \in Device /\ client.took \in 0..Window /\ client.seconds \in 0..Window
  BY DEF TypeOK, DevState, ClientState, Times
<1> DEFINE ins == [firesIn EXCEPT ![client.i] = IF said = "yes" THEN AsSaidWhenAsked ELSE @]
           among == IF said = "yes" THEN timed \cup {client.i} ELSE timed
<1>2. UNCHANGED <<dev, deadline>>
  BY DEF HearAsleep
<1>3. client'.answer = "none" /\ client'.at \notin {"staging", "arming"}
  <2>1. CASE said = "lost" /\ client.at = "asking"
    BY <2>1, <1>1 DEF HearAsleep, ClientState
  <2>2. CASE ~(said = "lost" /\ client.at = "asking")
    <3>1. (\E items : Undoes(items, "rolled-back")) \/ NextOr("asking", "disarming")
      BY <2>2 DEF HearAsleep, Heard, Asking
    <3> QED BY <3>1 DEF Undoes, NextOr, Goes, From
  <2> QED BY <2>1, <2>2
<1>4. said = "yes" /\ dev[client.i].wd = "asleep" => AsSaidWhenAsked <= dev[client.i].sleeps
  <2> SUFFICES ASSUME said = "yes", dev[client.i].wd = "asleep" PROVE AsSaidWhenAsked <= dev[client.i].sleeps
    OBVIOUS
  <2>1. Asking /\ client.answer = "yes"
    BY DEF HearAsleep, Hears
  <2>2. dev[client.i].sleeps + client.took >= client.seconds /\ dev[client.i].sleeps \in 0..Window
    BY <1>1, <2>1 DEF CountInv, SaidDuringCall, DevState
  <2> QED BY <2>2, <1>1, Sizes DEF AsSaidWhenAsked, Less
<1>5. \A d \in among : dev[d].wd = "asleep" => ins[d] <= dev[d].sleeps
  <2> SUFFICES ASSUME NEW d \in among, dev[d].wd = "asleep" PROVE ins[d] <= dev[d].sleeps
    OBVIOUS
  <2>1. timed \subseteq Device
    BY DEF TypeOK
  <2>2. d \in Device
    BY <1>1, <2>1
  <2>3. CASE said = "yes" /\ d = client.i
    BY <2>3, <1>1, <1>4 DEF Times
  <2>4. CASE ~(said = "yes" /\ d = client.i)
    <3>1. d \in timed /\ ins[d] = firesIn[d]
      BY <2>2, <2>4, <1>1 DEF Times
    <3> QED BY <3>1, <2>2 DEF CountInv, CountsOnNoMore
  <2> QED BY <2>3, <2>4
<1>6. (firesIn' = ins /\ timed' = among) \/ timed' = {}
  BY DEF HearAsleep
<1>7. CountsOnNoMore'
  BY <1>2, <1>5, <1>6 DEF CountInv, CountsOnNoMore
<1>8. NotYetArmed' /\ ArmedDuringCall' /\ SaidDuringCall'
  BY <1>3 DEF NotYetArmed, ArmedDuringCall, SaidDuringCall
<1> QED BY <1>7, <1>8 DEF CountInv

LEMMA CountDies ==
    ASSUME TypeOK, CountInv, Dies
    PROVE  CountInv'
<1>1. \A d \in Device : dev[d].sleeps \in 0..Window
  BY DEF TypeOK, DevState
<1>2. deadline' = NoTimes /\ timed' = {} /\ UNCHANGED dev /\ client'.at = "gone"
  BY DEF Dies, From
<1>3. \A d \in Device : deadline'[d] = 0
  BY <1>2 DEF NoTimes
<1>4. CountsOnNoMore'
  BY <1>1, <1>2, <1>3, Sizes DEF CountsOnNoMore
<1>5. NotYetArmed' /\ ArmedDuringCall' /\ SaidDuringCall'
  BY <1>2 DEF NotYetArmed, ArmedDuringCall, SaidDuringCall, Asking
<1> QED BY <1>4, <1>5 DEF CountInv

LEMMA LessMonotone ==
    ASSUME NEW n \in 0..Window, NEW m \in 0..Window, n <= m
    PROVE  Less(n, 1) <= Less(m, 1)
BY Sizes DEF Less

\* A tick is a tick everywhere: on the watchdogs, on what the run counts on,
\* and on the call it is making.
LEMMA CountTick ==
    ASSUME TypeOK, CountInv, Tick
    PROVE  CountInv'
<1>1. /\ dev \in [Device -> DevState] /\ client \in ClientState /\ deadline \in Times /\ firesIn \in Times
      /\ client.i \in Device /\ client.took \in 0..Window /\ client.seconds \in 0..Window
  BY DEF TypeOK, DevState, ClientState, Times
<1>2. \A d \in Device :
         /\ dev'[d].wd = dev[d].wd /\ dev'[d].sleeps = Less(dev[d].sleeps, 1)
         /\ deadline'[d] = Less(deadline[d], 1) /\ firesIn'[d] = Less(firesIn[d], 1)
         /\ dev[d].sleeps \in 0..Window /\ deadline[d] \in 0..Window /\ firesIn[d] \in 0..Window
  BY <1>1 DEF Tick, DevState, Times
<1>3. UNCHANGED timed
  BY DEF Tick
<1>4. /\ client'.at = client.at /\ client'.i = client.i /\ client'.answer = client.answer /\ client'.seconds = client.seconds
      /\ client'.took = IF Timing /\ client.took < Window THEN client.took + 1 ELSE client.took
  BY <1>1 DEF Tick, ClientState
<1>5. CountsOnNoMore'
  BY <1>2, <1>3, LessMonotone DEF CountInv, CountsOnNoMore
<1>6. NotYetArmed'
  BY <1>2, <1>4 DEF CountInv, NotYetArmed
<1>7. ASSUME Timing, NEW n \in 0..Window, dev[client.i].sleeps + client.took >= n
      PROVE  dev'[client.i].sleeps + client'.took >= n
  <2> DEFINE s == dev[client.i].sleeps
  <2>1. s \in Nat /\ client.took \in Nat /\ client.took <= Window /\ n \in Nat /\ n <= Window
    <3>1. s \in 0..Window /\ client.took \in 0..Window /\ n \in 0..Window
      BY <1>1, <1>2
    <3> QED BY <3>1, Sizes
  <2>2. s + client.took >= n
    BY <1>7
  <2>3. dev'[client.i].sleeps = IF s > 1 THEN s - 1 ELSE 0
    BY <1>1, <1>2 DEF Less
  <2>4. client'.took = IF client.took < Window THEN client.took + 1 ELSE client.took
    BY <1>4, <1>7
  <2> HIDE DEF s
  <2> QED BY <2>1, <2>2, <2>3, <2>4, Sizes
<1>8. ArmedDuringCall'
  BY <1>1, <1>2, <1>4, <1>7, Sizes DEF CountInv, ArmedDuringCall, Timing
<1>9. SaidDuringCall'
  BY <1>1, <1>2, <1>4, <1>7 DEF CountInv, SaidDuringCall, Asking, Timing
<1> QED BY <1>5, <1>6, <1>8, <1>9 DEF CountInv

-----------------------------------------------------------------------------
LEMMA InitCounts == Init => CountInv
BY DEF Init, CountInv, CountsOnNoMore, NotYetArmed, ArmedDuringCall, SaidDuringCall, Asking, From

LEMMA StepCounts == TypeOK /\ TypeOK' /\ CountInv /\ [Next]_vars => CountInv'
<1> SUFFICES ASSUME TypeOK, TypeOK', CountInv, [Next]_vars PROVE CountInv'
  OBVIOUS
<1>1. ASSUME UNCHANGED <<dev, deadline, firesIn, timed>>, Unhurried PROVE CountInv'
  <2>1. Calmer
    BY <1>1 DEF Calmer
  <2> QED BY <1>1, <2>1, QuietStep
<1>2. ASSUME NEW d \in Device, Fires(d) \/ Restores(d) \/ GivesUp(d) \/ Killed(d) PROVE CountInv'
  <2>1. Unhurried /\ UNCHANGED <<deadline, firesIn, timed>>
    BY <1>2 DEF Fires, Restores, GivesUp, Killed, Unhurried, run
  <2> QED BY <1>2, <2>1, CalmerDevice, QuietStep
<1>3. CASE DeviceDoes
  <2>1. CASE Configures \/ Commits \/ TellsFinished \/ Disarms \/ Wakes \/ TellsRecovered \/ Drops
    <3>1. UNCHANGED <<deadline, firesIn, timed>>
      BY <2>1 DEF Configures, Commits, TellsFinished, Disarms, Wakes, TellsRecovered, Drops, OthersThanDevice, run
    <3> QED BY <2>1, <3>1, CalmerCall, QuietStep
  <2> QED BY <1>3, <2>1, CountArms, CountTells DEF DeviceDoes
<1>4. CASE RunHears
  BY <1>4, <1>1, CalmHearing, CountHearArm, CountHearAsleep DEF RunHears
<1>5. CASE RunGoesOn \/ Unreached
  BY <1>5, <1>1, CalmGoingOn, CountArming DEF RunGoesOn
<1>6. CASE UNCHANGED vars
  BY <1>6, <1>1 DEF vars, run, Unhurried
<1> QED BY <1>2, <1>3, <1>4, <1>5, <1>6, CountDies, CountTick DEF Next

\* The run never counts on time a device does not give (timing.ts's deadlines
\* and readyToDisarm's margins), however long a call takes, is lost or is
\* answered after the watchdog was killed: for any number of devices.
THEOREM CountsCorrect == Spec => []CountsOnNoMore
<1>1. CountInv => CountsOnNoMore
  BY DEF CountInv
<1> QED BY <1>1, InitCounts, StepCounts, TypeCorrect, PTL DEF Spec

-----------------------------------------------------------------------------
(* A device counted as kept keeps the whole change. *)

Committing == {"staging", "arming", "configuring", "committing"}
Disarming == {"disarming", "disarming again"}
Standing == {"asleep", "dead", "disarmed"}
Later == [device: Device, how: {"recover", "wait"}]

\* A marked device has the whole change, while no watchdog restores it.
MarkedIsWhole ==
    \A d \in Device : dev[d].marker /\ dev[d].wd \in Standing => dev[d].change = "new"

\* Nothing is marked before its commit, and nothing disarmed until all are committed.
MarkedInTurn ==
    \A d \in Device :
        \/ client.at \in {"staging", "arming"}
        \/ client.at \in {"configuring", "committing"} /\ d > client.i
        \/ client.at = "configuring" /\ d = client.i
        \/ client.at = "committing" /\ d = client.i /\ client.answer = "none"
        => ~dev[d].marker
DisarmedInTurn == client.at \in Committing => \A d \in Device : dev[d].wd # "disarmed"

\* Each confirmed device is marked: all, once it is asked when they fire.
ConfirmedIsMarked ==
    \A d \in Device :
        \/ client.at = "confirming" /\ (d < client.i \/ (d = client.i /\ client.answer = "yes"))
        \/ client.at \in {"asking", "asking again"} \cup Disarming
        => dev[d].marker

\* One that said it is disarmed is, and stays so.
SaidDisarmed == client.at \in Disarming /\ client.answer = "yes" => dev[client.i].wd = "disarmed"
KeptIsDisarmed == \A d \in kept : dev[d].wd = "disarmed" /\ dev[d].marker

\* Once any may be kept, the rest are only waited for.
OnlyWaits ==
    /\ client.at \in Committing \cup {"confirming", "asking", "asking again"} => todo = <<>>
    /\ kept # {} => client.at \in Disarming \cup {"undoing", "ended"}
    /\ client.at \in Disarming \/ kept # {} => todo \in Seq(Later)

HoldInv ==
    /\ MarkedIsWhole /\ MarkedInTurn /\ DisarmedInTurn /\ ConfirmedIsMarked
    /\ SaidDisarmed /\ KeptIsDisarmed /\ OnlyWaits

LEMMA InitHolds == Init => HoldInv
BY Sizes
DEF Init, HoldInv, MarkedIsWhole, MarkedInTurn, DisarmedInTurn, ConfirmedIsMarked, SaidDisarmed, KeptIsDisarmed, OnlyWaits,
    From, Committing, Disarming, Standing

-----------------------------------------------------------------------------
(* Steps of the devices. *)

\* What no step but a commit does to a device: mark it, make its change another
\* while it stands, disarm it early, or arm it again once it is kept.
Firm(d) ==
    /\ dev'[d].marker = dev[d].marker
    /\ dev'[d].wd \in Standing /\ dev[d].marker => dev[d].wd \in Standing /\ dev'[d].change = dev[d].change
    /\ dev'[d].wd = "disarmed" => dev[d].wd = "disarmed" \/ client.at \notin Committing
    /\ dev[d].wd = "disarmed" /\ (d \in kept \/ client.at \in Disarming) => dev'[d].wd = "disarmed"

\* The run is where it was, but for an answer, which is true.
Same ==
    /\ UNCHANGED <<kept, todo>>
    /\ client'.at = client.at /\ client'.i = client.i
    /\ \/ client'.answer = client.answer
       \/ /\ client'.answer # "none"
          /\ client'.answer = "yes" =>
                /\ client.at = "confirming" => dev[client.i].marker
                /\ client.at \in Disarming => dev'[client.i].wd = "disarmed"

LEMMA FirmStep ==
    ASSUME TypeOK, HoldInv, \A d \in Device : Firm(d), Same
    PROVE  HoldInv'
<1>1. client.i \in Device /\ kept \subseteq Device
  BY DEF TypeOK
<1>2. MarkedIsWhole'
  BY DEF HoldInv, MarkedIsWhole, Firm
<1>3. MarkedInTurn' /\ DisarmedInTurn'
  BY DEF HoldInv, MarkedInTurn, DisarmedInTurn, Firm, Same
<1>4. ConfirmedIsMarked'
  BY DEF HoldInv, ConfirmedIsMarked, Firm, Same, Disarming
<1>5. SaidDisarmed'
  BY <1>1 DEF HoldInv, SaidDisarmed, Firm, Same
<1>6. KeptIsDisarmed'
  BY <1>1 DEF HoldInv, KeptIsDisarmed, Firm, Same
<1>7. OnlyWaits'
  BY DEF HoldInv, OnlyWaits, Same
<1> QED BY <1>2, <1>3, <1>4, <1>5, <1>6, <1>7 DEF HoldInv

LEMMA FirmDevice ==
    ASSUME TypeOK, NEW e \in Device, Fires(e) \/ Restores(e) \/ GivesUp(e) \/ Killed(e)
    PROVE  (\A d \in Device : Firm(d)) /\ Same
<1>1. dev \in [Device -> DevState]
  BY DEF TypeOK, DevState
<1>2. Same
  BY DEF Same, Fires, Restores, GivesUp, Killed, run
<1>3. CASE Fires(e) \/ Killed(e)
  BY <1>1, <1>2, <1>3 DEF Fires, Killed, Turns, Firm, Standing, DevState
<1>4. CASE Restores(e)
  BY <1>2, <1>4, RestoreStep DEF Firm, Standing
<1>5. CASE GivesUp(e)
  BY <1>1, <1>2, <1>5 DEF GivesUp, Firm, Standing, DevState
<1> QED BY <1>2, <1>3, <1>4, <1>5

LEMMA FirmTick ==
    ASSUME TypeOK, Tick
    PROVE  (\A d \in Device : Firm(d)) /\ Same
<1>1. dev \in [Device -> DevState] /\ client \in ClientState
  BY DEF TypeOK, DevState, ClientState
<1>2. \A d \in Device : dev'[d].wd = dev[d].wd /\ dev'[d].marker = dev[d].marker /\ dev'[d].change = dev[d].change
  BY <1>1 DEF Tick, DevState
<1>3. client'.at = client.at /\ client'.i = client.i /\ client'.answer = client.answer
  BY <1>1 DEF Tick, ClientState
<1> QED BY <1>2, <1>3 DEF Firm, Same, Tick

\* Which phase each call is made in.
LEMMA CalledIn ==
    ASSUME TypeOK, NEW doing, Asked({doing}), doing \in Phase \ {"undoing", "ended", "gone"}
    PROVE  client.at = doing
<1>1. client.at # "undoing" \/ todo = <<>> \/ Head(todo).how \in Undoing
  BY TailOK DEF TypeOK, ToDo
<1> QED BY <1>1 DEF Asked, Doing, Phase, Undoing

-----------------------------------------------------------------------------
(* What a device does when called. *)

\* An answer leaves the run where it is.
LEMMA AnswerSame ==
    ASSUME TypeOK, NEW said \in {"yes", "no", "kept"}, UNCHANGED <<kept, todo>>,
           Answers(said) \/ client' = [client EXCEPT !.answer = said, !.seconds = dev[client.i].sleeps],
           said = "yes" => /\ client.at = "confirming" => dev[client.i].marker
                           /\ client.at \in Disarming => dev'[client.i].wd = "disarmed"
    PROVE  Same
<1>1. client \in ClientState
  BY DEF TypeOK, ClientState
<1> QED BY <1>1 DEF Same, Answers, ClientState

LEMMA FirmArms ==
    ASSUME TypeOK, HoldInv, Arms
    PROVE  (\A d \in Device : Firm(d)) /\ Same
<1>1. dev \in [Device -> DevState] /\ client.i \in Device
  BY DEF TypeOK, DevState
<1>2. client.at = "arming"
  BY CalledIn DEF Arms, Phase
<1>3. \A d \in Device : ~dev[d].marker /\ dev[d].wd # "disarmed" /\ kept = {}
  BY <1>2 DEF HoldInv, MarkedInTurn, DisarmedInTurn, OnlyWaits, Committing, Disarming
<1>4. PICK said \in {"yes", "no"}, wd \in {"asleep", "none"} : \E sleeps :
          Answers(said) /\ dev' = [dev EXCEPT ![client.i].wd = wd, ![client.i].sleeps = sleeps]
  BY DEF Arms
<1>5. \A d \in Device : Firm(d)
  BY <1>1, <1>2, <1>3, <1>4 DEF Firm, DevState, Disarming
<1>6. Same
  BY <1>2, <1>4, AnswerSame DEF Arms, OthersThanDevice, run, Disarming
<1> QED BY <1>5, <1>6

LEMMA FirmConfigures ==
    ASSUME TypeOK, HoldInv, Configures
    PROVE  (\A d \in Device : Firm(d)) /\ Same
<1>1. dev \in [Device -> DevState] /\ client.i \in Device
  BY DEF TypeOK, DevState
<1>2. client.at = "configuring"
  BY CalledIn DEF Configures, Phase
<1>3. ~dev[client.i].marker
  BY <1>1, <1>2 DEF HoldInv, MarkedInTurn
<1>4. PICK said \in {"yes", "no"} : \E change : Answers(said) /\ dev' = [dev EXCEPT ![client.i].change = change]
  BY DEF Configures
<1>5. \A d \in Device : Firm(d)
  BY <1>1, <1>3, <1>4 DEF Firm, DevState
<1>6. Same
  BY <1>2, <1>4, AnswerSame DEF Configures, OthersThanDevice, run, Disarming
<1> QED BY <1>5, <1>6

LEMMA FirmTells ==
    ASSUME TypeOK, HoldInv, TellsFinished \/ TellsAsleep
    PROVE  (\A d \in Device : Firm(d)) /\ Same
<1>1. \A d \in Device : Firm(d)
  BY DEF TellsFinished, TellsAsleep, Firm
<1>2. CASE TellsFinished
  <2>1. client.at = "confirming"
    BY <1>2, CalledIn DEF TellsFinished, Phase
  <2>2. PICK said \in {"yes", "no"} : Answers(said) /\ (said = "yes" => dev[client.i].marker)
    BY <1>2 DEF TellsFinished
  <2> QED BY <1>1, <1>2, <2>1, <2>2, AnswerSame DEF TellsFinished, OthersThanDevice, run, Disarming
<1>3. CASE TellsAsleep
  <2>1. client.at \in {"asking", "asking again"}
    BY <1>3, PhaseDone DEF TellsAsleep, Asked
  <2>2. PICK said \in {"yes", "no", "kept"} : client' = [client EXCEPT !.answer = said, !.seconds = dev[client.i].sleeps]
    BY <1>3 DEF TellsAsleep
  <2> QED BY <1>1, <1>3, <2>1, <2>2, AnswerSame DEF TellsAsleep, OthersThanDevice, run, Disarming
<1> QED BY <1>2, <1>3

\* What is done while undoing: a device that is kept is only waited for.
LEMMA UndoesOthers ==
    ASSUME TypeOK, HoldInv, Doing \in Undoing, kept # {}
    PROVE  Doing \in {"recover", "wait"} /\ client.at = "undoing"
<1>1. client.at = "undoing" /\ todo # <<>>
  BY DoingOK
<1>2. todo \in Seq(Later)
  BY DEF HoldInv, OnlyWaits
<1>3. Head(todo) \in Later
  BY <1>1, <1>2
<1> QED BY <1>1, <1>3 DEF Doing, Later

LEMMA FirmDisarms ==
    ASSUME TypeOK, HoldInv, Disarms
    PROVE  (\A d \in Device : Firm(d)) /\ Same
<1>1. dev \in [Device -> DevState]
  BY DEF TypeOK, DevState
<1>2. client.at \in Disarming \/ client.at = "undoing"
  <2>1. CASE Doing \in Disarming
    BY <2>1, CalledIn DEF Disarms, Asked, Disarming, Phase
  <2>2. CASE Doing \in Undoing
    BY <2>2, DoingOK
  <2> QED BY <2>1, <2>2 DEF Disarms, Asked, Disarming, Undoing
<1>3. client.at \in Disarming => Called = client.i
  BY DEF Called, Disarming
<1>4. (Answers("yes") /\ dev' = Turns(Called, "disarmed") /\ Disarmable(Called)) \/ (Answers("no") /\ UNCHANGED dev)
  BY DEF Disarms
<1>5. \A d \in Device : Firm(d)
  <2>1. CASE UNCHANGED dev
    BY <2>1 DEF Firm
  <2>2. CASE dev' = Turns(Called, "disarmed") /\ Disarmable(Called)
    <3> SUFFICES ASSUME NEW d \in Device PROVE Firm(d)
      OBVIOUS
    <3>1. CASE d # Called
      BY <1>1, <2>2, <3>1 DEF Firm, Turns, DevState
    <3>2. CASE d = Called
      <4>1. dev'[d] = [dev[d] EXCEPT !.wd = "disarmed", !.sleeps = 0]
        BY <1>1, <2>2, <3>2 DEF Turns
      <4>2. dev'[d].wd = "disarmed" /\ dev'[d].marker = dev[d].marker /\ dev'[d].change = dev[d].change
        BY <1>1, <4>1 DEF DevState
      <4>3. dev[d].wd \in Standing /\ client.at \notin Committing
        BY <1>2, <2>2, <3>2 DEF Disarmable, Standing, Committing, Disarming
      <4> QED BY <4>2, <4>3 DEF Firm
    <3> QED BY <3>1, <3>2
  <2> QED BY <1>4, <2>1, <2>2
<1>6. client.i \in Device
  BY DEF TypeOK
<1>7. Same
  BY ZenonT(60), <1>1, <1>2, <1>3, <1>4, <1>6, AnswerSame DEF Disarms, OthersThanDevice, run, Turns, Disarming, DevState
<1> QED BY <1>5, <1>7

LEMMA FirmUndoing ==
    ASSUME TypeOK, HoldInv, Wakes \/ TellsRecovered \/ Drops
    PROVE  (\A d \in Device : Firm(d)) /\ Same
<1>1. dev \in [Device -> DevState]
  BY DEF TypeOK, DevState
<1>2. Doing \in Undoing
  BY DEF Wakes, TellsRecovered, Drops, Asked, Undoing
<1>3. client.at = "undoing"
  BY <1>2, DoingOK
<1>4. PICK said \in {"yes", "no"} : Answers(said)
  BY DEF Wakes, TellsRecovered, Drops
<1>5. Same
  BY <1>3, <1>4, AnswerSame DEF Wakes, TellsRecovered, Drops, OthersThanDevice, run, Disarming
<1>6. CASE UNCHANGED dev
  BY <1>5, <1>6 DEF Firm
<1>7. CASE Wakes
  <2>1. UNCHANGED dev \/ (dev[Called].wd \in {"asleep", "dead"} /\ dev' = Turns(Called, "restoring"))
    BY <1>7 DEF Wakes
  <2>2. \A d \in Device : Firm(d)
    BY <1>1, <1>6, <2>1 DEF Firm, Turns, Standing, DevState
  <2> QED BY <1>5, <2>2
<1>8. CASE TellsRecovered
  <2>1. UNCHANGED dev \/ (dev[Called].wd = "restored" /\ dev' = [dev EXCEPT ![Called].wd = "over"])
    BY <1>8 DEF TellsRecovered, Recoverable
  <2>2. \A d \in Device : Firm(d)
    BY <1>1, <1>6, <2>1 DEF Firm, Standing, DevState
  <2> QED BY <1>5, <2>2
<1>9. CASE Drops
  <2>1. kept = {}
    BY <1>2, <1>9, UndoesOthers DEF Drops, Asked
  <2>2. UNCHANGED dev \/ dev' = Turns(Called, "none")
    BY <1>9 DEF Drops
  <2>3. \A d \in Device : Firm(d)
    BY <1>1, <1>3, <1>6, <2>1, <2>2 DEF Firm, Turns, Standing, DevState, Disarming
  <2> QED BY <1>5, <2>3
<1> QED BY <1>7, <1>8, <1>9

\* finalise marks its device, whose change is then whole, or leaves it unmarked.
LEMMA HoldCommits ==
    ASSUME TypeOK, HoldInv, Commits
    PROVE  HoldInv'
<1>1. dev \in [Device -> DevState] /\ client \in ClientState /\ client.i \in Device
  BY DEF TypeOK, DevState, ClientState
<1>2. client.at = "committing" /\ client.answer = "none"
  BY CalledIn DEF Commits, Asked, Phase
<1>3. ~dev[client.i].marker /\ dev[client.i].wd # "disarmed"
  BY <1>1, <1>2 DEF HoldInv, MarkedInTurn, DisarmedInTurn, Committing
<1>4. /\ client'.at = "committing" /\ client'.i = client.i /\ client'.answer # "none"
      /\ UNCHANGED <<kept, todo>>
  BY <1>1, <1>2 DEF Commits, Answers, ClientState, OthersThanDevice, run
<1>5. \/ /\ dev[client.i].wd \in {"asleep", "dead"}
         /\ dev' = [dev EXCEPT ![client.i].change = "new", ![client.i].marker = TRUE]
      \/ /\ dev[client.i].wd \notin {"asleep", "dead"}
         /\ dev' = [dev EXCEPT ![client.i].change = @, ![client.i].marker = TRUE]
      \/ \E change : dev' = [dev EXCEPT ![client.i].change = change]
  BY DEF Commits
<1>6. \A d \in Device : /\ dev'[d].wd = dev[d].wd
                        /\ d # client.i => dev'[d] = dev[d]
                        /\ d = client.i /\ dev'[d].marker /\ dev[d].wd \in Standing => dev'[d].change = "new"
  <2>1. CASE dev' = [dev EXCEPT ![client.i].change = "new", ![client.i].marker = TRUE]
    BY <1>1, <2>1 DEF DevState
  <2>2. CASE /\ dev[client.i].wd \notin {"asleep", "dead"}
             /\ dev' = [dev EXCEPT ![client.i].change = @, ![client.i].marker = TRUE]
    BY <1>1, <1>3, <2>2 DEF DevState, Standing
  <2>3. CASE \E change : dev' = [dev EXCEPT ![client.i].change = change]
    <3>1. PICK change : dev' = [dev EXCEPT ![client.i].change = change]
      BY <2>3
    <3> QED BY <1>1, <1>3, <3>1 DEF DevState
  <2> QED BY <1>5, <2>1, <2>2, <2>3
<1>7. MarkedIsWhole'
  BY <1>6 DEF HoldInv, MarkedIsWhole
<1>8. MarkedInTurn'
  <2> SUFFICES ASSUME NEW d \in Device, d > client.i PROVE ~dev'[d].marker
    BY <1>4 DEF MarkedInTurn
  <2>1. d # client.i
    BY <1>1 DEF Device
  <2> QED BY <1>2, <1>6, <2>1 DEF HoldInv, MarkedInTurn
<1>9. DisarmedInTurn' /\ ConfirmedIsMarked' /\ SaidDisarmed'
  BY <1>2, <1>4, <1>6 DEF HoldInv, DisarmedInTurn, ConfirmedIsMarked, SaidDisarmed, Committing, Disarming
<1>10. kept = {}
  BY <1>2 DEF HoldInv, OnlyWaits, Disarming
<1>11. KeptIsDisarmed' /\ OnlyWaits'
  BY <1>2, <1>4, <1>10 DEF HoldInv, KeptIsDisarmed, OnlyWaits, Disarming, Committing
<1> QED BY <1>7, <1>8, <1>9, <1>11 DEF HoldInv

-----------------------------------------------------------------------------
(* What the run does when it hears, and of itself. *)

\* It goes on to undoing, to its end, or is gone.
LEMMA HoldAfter ==
    ASSUME TypeOK, HoldInv, UNCHANGED dev,
           client'.at \in {"undoing", "ended", "gone"},
           \A d \in kept' : dev[d].wd = "disarmed" /\ dev[d].marker,
           kept' # {} => client'.at # "gone" /\ todo' \in Seq(Later)
    PROVE  HoldInv'
<1>1. MarkedIsWhole' /\ MarkedInTurn' /\ DisarmedInTurn' /\ ConfirmedIsMarked' /\ SaidDisarmed'
  BY DEF HoldInv, MarkedIsWhole, MarkedInTurn, DisarmedInTurn, ConfirmedIsMarked, SaidDisarmed, Committing, Disarming
<1>2. KeptIsDisarmed' /\ OnlyWaits'
  BY DEF KeptIsDisarmed, OnlyWaits, Committing, Disarming
<1> QED BY <1>1, <1>2 DEF HoldInv

\* A failure before any was disarmed.
LEMMA HoldUndoes ==
    ASSUME TypeOK, HoldInv, UNCHANGED <<dev, kept>>, client.at \in Committing \cup {"confirming", "asking", "asking again"},
           NEW items, NEW end, Undoes(items, end)
    PROVE  HoldInv'
<1>1. kept' = {} /\ client'.at = "undoing"
  BY DEF HoldInv, OnlyWaits, Undoes, From, Committing, Disarming
<1> QED BY <1>1, HoldAfter

LEMMA HoldFails ==
    ASSUME TypeOK, HoldInv, UNCHANGED <<dev, kept>>, client.at \in Committing,
           NEW changed, FailsConfiguring(changed)
    PROVE  HoldInv'
BY HoldUndoes DEF FailsConfiguring

LEMMA NothingLater == <<>> \in Seq(Later)
BY DEF Later

\* On to the next device or phase, nothing left to undo.
LEMMA HoldGoes ==
    ASSUME TypeOK, HoldInv, UNCHANGED <<dev, kept, todo>>,
           client.at \in Committing \cup {"confirming", "asking", "asking again"},
           client'.at \in Committing \cup {"confirming", "asking", "asking again", "disarming"},
           client'.answer = "none",
           client'.at \in Committing => client.at \in Committing,
           MarkedInTurn', ConfirmedIsMarked'
    PROVE  HoldInv'
<1>1. kept = {} /\ todo = <<>>
  BY DEF HoldInv, OnlyWaits, Committing, Disarming
<1>2. MarkedIsWhole' /\ DisarmedInTurn'
  BY DEF HoldInv, MarkedIsWhole, DisarmedInTurn
<1>3. SaidDisarmed' /\ KeptIsDisarmed'
  BY <1>1 DEF SaidDisarmed, KeptIsDisarmed
<1>4. OnlyWaits'
  <2>1. kept' = {} /\ todo' = <<>>
    BY <1>1
  <2> QED BY <2>1, NothingLater DEF OnlyWaits
<1> QED BY <1>2, <1>3, <1>4 DEF HoldInv

LEMMA HoldStages ==
    ASSUME TypeOK, HoldInv, Stages
    PROVE  HoldInv'
<1>1. client.at = "staging" /\ UNCHANGED <<dev, kept>>
  BY DEF Stages, run
<1>2. CASE Goes("arming", 1)
  <2>1. client' = From("arming", 1) /\ UNCHANGED todo
    BY <1>2 DEF Goes
  <2>2. MarkedInTurn' /\ ConfirmedIsMarked'
    BY <1>1, <2>1 DEF HoldInv, MarkedInTurn, ConfirmedIsMarked, From, Disarming
  <2> QED BY <1>1, <2>1, <2>2, HoldGoes DEF From, Committing
<1>3. CASE \E i \in Device : Undoes(Upward(1, i, "discard"), "failed")
  BY <1>1, <1>3, HoldUndoes DEF Committing
<1> QED BY <1>2, <1>3 DEF Stages

LEMMA HoldHearArm ==
    ASSUME TypeOK, HoldInv, NEW said \in Heard, HearArm(said)
    PROVE  HoldInv'
<1>1. client.at = "arming" /\ UNCHANGED <<dev, kept>> /\ client.i \in Device
  BY DEF HearArm, TypeOK
<1>2. NextOr("arming", "configuring") \/ \E items : Undoes(items, "failed")
  BY DEF HearArm
<1>3. CASE NextOr("arming", "configuring")
  <2>1. client'.at \in {"arming", "configuring"} /\ client'.answer = "none"
    BY <1>3 DEF NextOr, Goes, From
  <2>2. UNCHANGED todo
    BY <1>3 DEF NextOr, Goes
  <2>3. \A d \in Device : ~dev[d].marker
    BY <1>1 DEF HoldInv, MarkedInTurn
  <2>4. MarkedInTurn' /\ ConfirmedIsMarked'
    BY <1>1, <2>1, <2>3 DEF MarkedInTurn, ConfirmedIsMarked, Disarming
  <2> QED BY <1>1, <2>1, <2>2, <2>4, HoldGoes DEF Committing
<1> QED BY <1>1, <1>2, <1>3, HoldUndoes DEF Committing

LEMMA HoldHearConfigured ==
    ASSUME TypeOK, HoldInv, NEW said \in Heard, HearConfigured(said)
    PROVE  HoldInv'
<1>1. client.at = "configuring" /\ UNCHANGED <<dev, kept>>
  BY DEF HearConfigured, run
<1>2. Goes("committing", client.i) \/ \E changed : FailsConfiguring(changed)
  BY DEF HearConfigured
<1>3. CASE Goes("committing", client.i)
  <2>1. client' = From("committing", client.i) /\ UNCHANGED todo
    BY <1>3 DEF Goes
  <2>2. MarkedInTurn' /\ ConfirmedIsMarked'
    BY <1>1, <2>1 DEF HoldInv, MarkedInTurn, ConfirmedIsMarked, From, Disarming
  <2> QED BY <1>1, <2>1, <2>2, HoldGoes DEF From, Committing
<1> QED BY <1>1, <1>2, <1>3, HoldFails DEF Committing

LEMMA HoldHearCommitted ==
    ASSUME TypeOK, HoldInv, NEW said \in Heard, HearCommitted(said)
    PROVE  HoldInv'
<1>1. client.at = "committing" /\ UNCHANGED <<dev, kept>> /\ client.i \in Device
  BY DEF HearCommitted, run, TypeOK
<1>2. FailsConfiguring(TRUE) \/ NextOr("configuring", "confirming")
  BY DEF HearCommitted
<1>3. CASE NextOr("configuring", "confirming")
  <2>1. client' = IF client.i < N THEN From("configuring", client.i + 1) ELSE From("confirming", 1)
    BY <1>3 DEF NextOr, Goes
  <2>2. UNCHANGED todo
    BY <1>3 DEF NextOr, Goes
  <2>3. MarkedInTurn'
    <3> SUFFICES ASSUME NEW d \in Device, client.i < N, d >= client.i + 1 PROVE ~dev[d].marker
      BY <1>1, <2>1 DEF MarkedInTurn, From, Device
    <3>1. d > client.i
      BY <1>1 DEF Device
    <3> QED BY <1>1, <3>1 DEF HoldInv, MarkedInTurn
  <2>4. ConfirmedIsMarked'
    BY <2>1 DEF ConfirmedIsMarked, From, Disarming, Device
  <2> QED BY <1>1, <2>1, <2>2, <2>3, <2>4, HoldGoes DEF From, Committing
<1> QED BY <1>1, <1>2, <1>3, HoldFails DEF Committing

LEMMA HoldHearFinished ==
    ASSUME TypeOK, HoldInv, NEW said \in Heard, HearFinished(said)
    PROVE  HoldInv'
<1>1. client.at = "confirming" /\ UNCHANGED <<dev, kept>> /\ client.i \in Device
  BY DEF HearFinished, run, TypeOK
<1>2. CASE said = "yes"
  <2>1. client.answer = "yes" /\ NextOr("confirming", "asking")
    BY <1>2 DEF HearFinished, Hears
  <2>2. client' = IF client.i < N THEN From("confirming", client.i + 1) ELSE From("asking", 1)
    BY <2>1 DEF NextOr, Goes
  <2>3. UNCHANGED todo
    BY <2>1 DEF NextOr, Goes
  <2>4. \A d \in Device : d <= client.i => dev[d].marker
    <3> SUFFICES ASSUME NEW d \in Device, d <= client.i PROVE dev[d].marker
      OBVIOUS
    <3>1. d < client.i \/ d = client.i
      BY <1>1 DEF Device
    <3> QED BY <1>1, <2>1, <3>1 DEF HoldInv, ConfirmedIsMarked
  <2>5. ConfirmedIsMarked'
    BY <1>1, <2>2, <2>4, Sizes DEF ConfirmedIsMarked, From, Disarming, Device
  <2>6. MarkedInTurn'
    BY <2>2 DEF MarkedInTurn, From
  <2> QED BY <1>1, <2>2, <2>3, <2>5, <2>6, HoldGoes DEF From, Committing
<1>3. CASE said # "yes"
  BY <1>1, <1>3, HoldUndoes DEF HearFinished
<1> QED BY <1>2, <1>3

LEMMA HoldHearAsleep ==
    ASSUME TypeOK, HoldInv, NEW said \in Heard, HearAsleep(said)
    PROVE  HoldInv'
<1>1. client.at \in {"asking", "asking again"} /\ UNCHANGED <<dev, kept>> /\ client \in ClientState
  BY DEF HearAsleep, Asking, TypeOK, ClientState
<1>2. \/ client' = [client EXCEPT !.at = "asking again", !.answer = "none"] /\ UNCHANGED todo
      \/ \E items : Undoes(items, "rolled-back")
      \/ NextOr("asking", "disarming")
  BY DEF HearAsleep, Heard, Asking
<1>3. CASE \E items : Undoes(items, "rolled-back")
  BY <1>1, <1>3, HoldUndoes
<1>4. CASE \/ client' = [client EXCEPT !.at = "asking again", !.answer = "none"] /\ UNCHANGED todo
           \/ NextOr("asking", "disarming")
  <2>1. client'.at \in {"asking", "asking again", "disarming"} /\ client'.answer = "none" /\ UNCHANGED todo
    <3>1. CASE NextOr("asking", "disarming")
      <4>1. UNCHANGED todo
        BY <3>1 DEF NextOr, Goes
      <4>2. PICK at \in {"asking", "disarming"} : \E i : client' = From(at, i)
        BY <3>1 DEF NextOr, Goes
      <4>3. PICK i : client' = From(at, i)
        BY <4>2
      <4> QED BY <4>1, <4>3 DEF From
    <3>2. CASE client' = [client EXCEPT !.at = "asking again", !.answer = "none"] /\ UNCHANGED todo
      BY <1>1, <3>2 DEF ClientState
    <3> QED BY <1>4, <3>1, <3>2
  <2>2. \A d \in Device : dev[d].marker
    BY <1>1 DEF HoldInv, ConfirmedIsMarked
  <2>3. MarkedInTurn' /\ ConfirmedIsMarked'
    BY <1>1, <2>1, <2>2 DEF MarkedInTurn, ConfirmedIsMarked
  <2> QED BY <1>1, <2>1, <2>3, HoldGoes DEF Committing
<1> QED BY <1>2, <1>3, <1>4

\* One kept said it is disarmed; of another that said no, or was lost, the run
\* has to hear that it recovered.
LEMMA HoldHearDisarmed ==
    ASSUME TypeOK, HoldInv, NEW said \in Heard, HearDisarmed(said)
    PROVE  HoldInv'
<1>1. client.at \in Disarming /\ UNCHANGED dev /\ client.i \in Device /\ kept \subseteq Device
  BY DEF HearDisarmed, TypeOK, Disarming
<1>2. \A d \in Device : dev[d].marker
  BY <1>1 DEF HoldInv, ConfirmedIsMarked
<1>3. kept' = kept \/ (kept' = kept \cup {client.i} /\ said = "yes")
  BY DEF HearDisarmed
<1>4. \A d \in kept' : dev[d].wd = "disarmed" /\ dev[d].marker
  <2>1. said = "yes" => dev[client.i].wd = "disarmed"
    BY <1>1 DEF HearDisarmed, Hears, HoldInv, SaidDisarmed
  <2> QED BY <1>1, <1>2, <1>3, <2>1 DEF HoldInv, KeptIsDisarmed
<1>5. todo' \in Seq(Later)
  <2>1. todo \in Seq(Later)
    BY <1>1 DEF HoldInv, OnlyWaits
  <2>2. ASSUME NEW how \in {"recover", "wait"} PROVE Append(todo, Item(client.i, how)) \in Seq(Later)
    <3>1. Item(client.i, how) \in Later
      BY <1>1 DEF Item, Later
    <3> QED BY <2>1, <3>1
  <2>3. UNCHANGED todo \/ \E how \in {"recover", "wait"} : todo' = Append(todo, Item(client.i, how))
    BY DEF HearDisarmed
  <2> QED BY <2>1, <2>2, <2>3
<1>6. PICK at \in Disarming \cup {"undoing"} : \E i : client' = From(at, i)
  BY DEF HearDisarmed, Disarming
<1>7. CASE at = "undoing"
  BY <1>1, <1>4, <1>5, <1>6, <1>7, HoldAfter DEF From
<1>8. CASE at \in Disarming
  <2>1. client'.at \in Disarming /\ client'.answer = "none"
    BY <1>6, <1>8 DEF From
  <2>2. MarkedIsWhole' /\ MarkedInTurn' /\ DisarmedInTurn' /\ ConfirmedIsMarked' /\ SaidDisarmed'
    BY <1>1, <1>2, <2>1
    DEF HoldInv, MarkedIsWhole, MarkedInTurn, DisarmedInTurn, ConfirmedIsMarked, SaidDisarmed, Committing, Disarming
  <2>3. KeptIsDisarmed' /\ OnlyWaits'
    BY <1>1, <1>4, <1>5, <2>1 DEF KeptIsDisarmed, OnlyWaits, Committing, Disarming
  <2> QED BY <2>2, <2>3 DEF HoldInv
<1> QED BY <1>6, <1>7, <1>8

\* An item of the undoing becomes another, or is done.
LEMMA HoldUndoing ==
    ASSUME TypeOK, HoldInv, UNCHANGED <<dev, kept>>, Doing \in Undoing, client'.at = "undoing",
           kept # {} => (\E how \in {"recover", "wait"} : Becomes(how)) \/ \E word : Ends(word)
    PROVE  HoldInv'
<1>1. \A d \in kept : dev[d].wd = "disarmed" /\ dev[d].marker
  BY DEF HoldInv, KeptIsDisarmed
<1>2. ASSUME kept # {} PROVE todo' \in Seq(Later)
  <2>1. todo \in Seq(Later) /\ todo # <<>> /\ Called \in Device
    BY <1>2, DoingOK DEF HoldInv, OnlyWaits
  <2>2. Tail(todo) \in Seq(Later)
    BY <2>1
  <2>3. ASSUME NEW how \in {"recover", "wait"}, Becomes(how) PROVE todo' \in Seq(Later)
    <3>1. Item(Called, how) \in Later
      BY <2>1 DEF Item, Later
    <3>2. <<Item(Called, how)>> \in Seq(Later)
      BY <3>1
    <3> QED BY <2>2, <2>3, <3>2 DEF Becomes
  <2> QED BY <1>2, <2>2, <2>3 DEF Ends
<1> QED BY <1>1, <1>2, HoldAfter

LEMMA HoldHearUndoing ==
    ASSUME TypeOK, HoldInv, NEW said \in Heard,
           HearWoken(said) \/ HearReleased(said) \/ HearRecovered(said) \/ HearDropped(said)
    PROVE  HoldInv'
<1>1. Doing \in Undoing /\ UNCHANGED <<dev, kept>>
  BY DEF HearWoken, HearReleased, HearRecovered, HearDropped, OthersThanUndoing, run, Undoing
<1>2. client'.at = "undoing"
  <2>1. (\E how : Becomes(how)) \/ (\E word : Ends(word)) \/ client' = From("undoing", client.i)
    <3>1. ASSUME HearWoken(said) PROVE Becomes("recover") \/ Becomes("wake") \/ Becomes("wait")
      BY <3>1 DEF HearWoken
    <3>2. ASSUME HearReleased(said)
          PROVE Ends("untouched") \/ Becomes("recover untouched") \/ Becomes("release again") \/ Becomes("wait untouched")
      BY <3>2 DEF HearReleased, Heard
    <3>3. ASSUME HearRecovered(said)
          PROVE Ends("rolled back") \/ Ends("untouched") \/ Becomes("recover") \/ Becomes("recover untouched")
      BY <3>3 DEF HearRecovered
    <3>4. ASSUME HearDropped(said)
          PROVE Ends("nothing") \/ Becomes("discard again") \/ Becomes("discard stray again") \/ client' = From("undoing", client.i)
      BY <3>4 DEF HearDropped, Heard
    <3> QED BY <3>1, <3>2, <3>3, <3>4
  <2>2. ASSUME NEW how, Becomes(how) PROVE client'.at = "undoing"
    BY <2>2 DEF Becomes, From
  <2>3. ASSUME NEW word, Ends(word) PROVE client'.at = "undoing"
    BY <2>3 DEF Ends, From
  <2> QED BY <2>1, <2>2, <2>3 DEF From
<1>3. kept # {} => Doing \in {"recover", "wait"}
  BY <1>1, UndoesOthers
<1>4. ASSUME kept # {} PROVE (\E how \in {"recover", "wait"} : Becomes(how)) \/ \E word : Ends(word)
  <2>1. HearRecovered(said) /\ Doing = "recover"
    BY <1>3, <1>4 DEF HearWoken, HearReleased, HearRecovered, HearDropped
  <2>2. Ends("rolled back") \/ Becomes("recover")
    BY <2>1 DEF HearRecovered
  <2> QED BY <2>2
<1> QED BY <1>1, <1>2, <1>4, HoldUndoing

LEMMA HoldGoesOn ==
    ASSUME TypeOK, HoldInv, Confirmless \/ Waits \/ StopsAsking \/ Concludes \/ Unreached \/ Dies
    PROVE  HoldInv'
<1>1. CASE Confirmless
  BY <1>1, HoldUndoes DEF Confirmless, run
<1>2. CASE Unreached
  BY <1>2, HoldFails DEF Unreached, run, Committing
<1>3. CASE Waits \/ StopsAsking
  <2>1. Doing \in Undoing /\ UNCHANGED <<dev, kept>> /\ client'.at = "undoing"
    <3>1. Doing \in Undoing /\ UNCHANGED <<dev, kept>>
      BY <1>3 DEF Waits, StopsAsking, OthersThanUndoing, run, Undoing
    <3>2. Becomes("recover") \/ Becomes("recover untouched") \/ Ends("rolling back")
      BY <1>3 DEF Waits, StopsAsking
    <3>3. client' = From("undoing", client.i)
      BY <3>2 DEF Becomes, Ends
    <3> QED BY <3>1, <3>3 DEF From
  <2>2. kept # {} => Doing \in {"recover", "wait"}
    BY <2>1, UndoesOthers
  <2>3. kept # {} => Becomes("recover") \/ Ends("rolling back")
    BY <1>3, <2>2 DEF Waits, StopsAsking
  <2> QED BY <2>1, <2>3, HoldUndoing
<1>4. CASE Concludes
  <2>1. client'.at = "ended" /\ todo' = <<>> /\ UNCHANGED <<dev, kept>>
    BY <1>4 DEF Concludes, OthersThanUndoing, run, From
  <2>2. \A d \in kept : dev[d].wd = "disarmed" /\ dev[d].marker
    BY DEF HoldInv, KeptIsDisarmed
  <2> QED BY <2>1, <2>2, HoldAfter
<1>5. CASE Dies
  <2>1. client'.at = "gone" /\ kept' = {} /\ UNCHANGED dev
    BY <1>5 DEF Dies, From
  <2> QED BY <2>1, HoldAfter
<1> QED BY <1>1, <1>2, <1>3, <1>4, <1>5

-----------------------------------------------------------------------------
LEMMA StepHolds == TypeOK /\ HoldInv /\ [Next]_vars => HoldInv'
<1> SUFFICES ASSUME TypeOK, HoldInv, [Next]_vars PROVE HoldInv'
  OBVIOUS
<1>1. ASSUME NEW e \in Device, Fires(e) \/ Restores(e) \/ GivesUp(e) \/ Killed(e) PROVE HoldInv'
  BY <1>1, FirmDevice, FirmStep
<1>2. CASE DeviceDoes
  BY <1>2, FirmArms, FirmConfigures, FirmTells, FirmDisarms, FirmUndoing, FirmStep, HoldCommits DEF DeviceDoes
<1>3. CASE RunHears
  BY <1>3, HoldHearArm, HoldHearConfigured, HoldHearCommitted, HoldHearFinished, HoldHearAsleep, HoldHearDisarmed,
     HoldHearUndoing DEF RunHears
<1>4. CASE RunGoesOn \/ Unreached \/ Dies
  BY <1>4, HoldStages, HoldGoesOn DEF RunGoesOn
<1>5. CASE Tick
  BY <1>5, FirmTick, FirmStep
<1>6. CASE UNCHANGED vars
  <2>1. (\A d \in Device : Firm(d)) /\ Same
    BY <1>6 DEF vars, run, Firm, Same
  <2> QED BY <2>1, FirmStep
<1> QED BY <1>1, <1>2, <1>3, <1>4, <1>5, <1>6 DEF Next

\* A device that the run counts as kept (provisionNetwork.ts's "keeping the
\* change") has the whole change and no watchdog to take it away, whatever was
\* lost, killed or slow, and however many devices there are.
THEOREM KeptKeeps == Spec => []KeptHolds
<1>1. TypeOK /\ HoldInv => KeptHolds
  BY DEF TypeOK, HoldInv, KeptIsDisarmed, MarkedIsWhole, KeptHolds, Standing
<1> QED BY <1>1, InitHolds, StepHolds, TypeCorrect, PTL DEF Spec

(* A changed device has its way back. *)

\* The calls that take a device's watchdog away.
StandDown == {"release", "release again", "discard", "discard again", "discard stray", "discard stray again"}

Unchanged == {d \in Device : dev[d].change = "none"}
SafeItem == [device: Device, how: Undoing \ StandDown] \cup [device: Unchanged, how: StandDown]

\* Nothing is changed before its turn; one without packages or files is not until it is committed.
ChangedInTurn ==
    \A d \in Device :
        \/ client.at \in {"staging", "arming"}
        \/ client.at \in {"configuring", "committing"} /\ d > client.i
        \/ client.at = "configuring" /\ d = client.i /\ (client.answer = "none" \/ d \notin hard)
        => d \in Unchanged

\* Disarming begins only when all were found ready, and that is not forgotten.
AgreedInTurn ==
    /\ client.at \in Disarming => past.agreed
    /\ past.agreed => client.at \in Disarming \cup {"undoing", "ended", "gone"}

\* Only unchanged devices are to be stood down.
StandsDownUnchanged == todo \in Seq(SafeItem)

HasWayBack(d) ==
    \/ d \in past.unrestored
    \/ dev[d].change = "none"
    \/ dev[d].wd \in {"asleep", "dead", "restoring"}
    \/ past.agreed /\ dev[d].wd = "disarmed"

WayInv == (\A d \in Device : HasWayBack(d)) /\ ChangedInTurn /\ AgreedInTurn /\ StandsDownUnchanged

LEMMA InitWay == Init => WayInv
<1> SUFFICES ASSUME Init PROVE WayInv
  OBVIOUS
<1>1. \A d \in Device : HasWayBack(d) /\ d \in Unchanged
  BY DEF Init, HasWayBack, Unchanged
<1>2. ChangedInTurn /\ AgreedInTurn
  BY <1>1 DEF Init, ChangedInTurn, AgreedInTurn, From, Disarming
<1>3. todo = <<>>
  BY DEF Init
<1>4. <<>> \in Seq(SafeItem)
  BY DEF SafeItem
<1> QED BY <1>1, <1>2, <1>3, <1>4 DEF WayInv, StandsDownUnchanged

\* A sequence of what is safe stays one as more becomes safe.
LEMMA SeqOfMore ==
    ASSUME NEW S, NEW T, S \subseteq T, NEW s \in Seq(S)
    PROVE  s \in Seq(T)
OBVIOUS

-----------------------------------------------------------------------------
(* Steps of the devices. *)

\* A device that was not changed still is not; the run is where it was.
LEMMA WayStep ==
    ASSUME TypeOK, WayInv, UNCHANGED <<todo, hard>>, past'.agreed = past.agreed,
           client'.at = client.at, client'.i = client.i, client'.answer = "none" => client.answer = "none",
           \A d \in Device : dev[d].change = "none" => dev'[d].change = "none",
           \A d \in Device : HasWayBack(d)'
    PROVE  WayInv'
<1>1. Unchanged \subseteq Unchanged'
  BY DEF Unchanged
<1>2. ChangedInTurn'
  BY <1>1 DEF WayInv, ChangedInTurn
<1>3. AgreedInTurn'
  BY DEF WayInv, AgreedInTurn
<1>4. StandsDownUnchanged'
  <2>1. SafeItem \subseteq SafeItem'
    BY <1>1 DEF SafeItem
  <2> QED BY <2>1, SeqOfMore DEF WayInv, StandsDownUnchanged
<1> QED BY <1>2, <1>3, <1>4 DEF WayInv

LEMMA WayDevice ==
    ASSUME TypeOK, WayInv, NEW e \in Device, Fires(e) \/ Restores(e) \/ GivesUp(e) \/ Killed(e)
    PROVE  WayInv'
<1>1. dev \in [Device -> DevState]
  BY DEF TypeOK, DevState
<1>2. UNCHANGED <<client, hard, todo>>
  BY DEF Fires, Restores, GivesUp, Killed
<1>4. past'.agreed = past.agreed /\ past.unrestored \subseteq past'.unrestored
  BY DevicePast
<1>3. \A d \in Device : (dev[d].change = "none" => dev'[d].change = "none") /\ HasWayBack(d)'
  <2>1. CASE Fires(e) \/ Killed(e)
    BY <1>1, <1>4, <2>1 DEF WayInv, HasWayBack, Fires, Killed, Turns, DevState
  <2>2. CASE Restores(e)
    BY <1>4, <2>2, RestoreStep DEF WayInv, HasWayBack
  <2>3. CASE GivesUp(e)
    BY <1>1, <1>4, <2>3 DEF WayInv, HasWayBack, GivesUp, DevState
  <2> QED BY <2>1, <2>2, <2>3
<1> QED BY <1>2, <1>3, <1>4, WayStep

LEMMA WayTick ==
    ASSUME TypeOK, WayInv, Tick
    PROVE  WayInv'
<1>1. dev \in [Device -> DevState] /\ client \in ClientState /\ past \in PastState
  BY DEF TypeOK, DevState, ClientState, PastState
<1>2. \A d \in Device : dev'[d].wd = dev[d].wd /\ dev'[d].change = dev[d].change
  BY <1>1 DEF Tick, DevState
<1>3. client'.at = client.at /\ client'.i = client.i /\ client'.answer = client.answer
  BY <1>1 DEF Tick, ClientState
<1>4. past'.agreed = past.agreed /\ past'.unrestored = past.unrestored /\ UNCHANGED <<todo, hard>>
  BY <1>1 DEF Tick, PastState
<1>5. \A d \in Device : HasWayBack(d)'
  BY <1>2, <1>4 DEF WayInv, HasWayBack
<1> QED BY <1>2, <1>3, <1>4, <1>5, WayStep

\* Whatever a device is called for, its answer is none of "none".
LEMMA AnswersNow ==
    ASSUME TypeOK, DeviceDoes
    PROVE  /\ client'.at = client.at /\ client'.i = client.i /\ client'.answer # "none"
           /\ UNCHANGED <<todo, hard>>
<1>1. client \in ClientState
  BY DEF TypeOK, ClientState
<1>2. \/ \E said \in {"yes", "no", "kept"} : Answers(said)
      \/ \E said \in {"yes", "no", "kept"} : client' = [client EXCEPT !.answer = said, !.seconds = dev[client.i].sleeps]
  BY DEF DeviceDoes, Arms, Configures, Commits, TellsFinished, TellsAsleep, Disarms, Wakes, TellsRecovered, Drops
<1>3. client'.at = client.at /\ client'.i = client.i /\ client'.answer # "none"
  <2>1. CASE \E said \in {"yes", "no", "kept"} : Answers(said)
    <3>1. PICK said \in {"yes", "no", "kept"} : Answers(said)
      BY <2>1
    <3> QED BY <1>1, <3>1 DEF Answers, ClientState
  <2>2. CASE \E said \in {"yes", "no", "kept"} : client' = [client EXCEPT !.answer = said, !.seconds = dev[client.i].sleeps]
    <3>1. PICK said \in {"yes", "no", "kept"} : client' = [client EXCEPT !.answer = said, !.seconds = dev[client.i].sleeps]
      BY <2>2
    <3> QED BY <1>1, <3>1 DEF ClientState
  <2> QED BY <1>2, <2>1, <2>2
<1>4. UNCHANGED <<todo, hard>>
  BY DEF DeviceDoes, Arms, Configures, Commits, TellsFinished, TellsAsleep, Disarms, Wakes, TellsRecovered, Drops,
         OthersThanDevice
<1> QED BY <1>3, <1>4

\* A device's own part of prepare, stage and finalise: only the one whose turn
\* it is changes, and while its watchdog can still restore it, or else it is told beside.
LEMMA WayChanges ==
    ASSUME TypeOK, HoldInv, WayInv, Configures \/ Commits
    PROVE  WayInv'
<1>1. dev \in [Device -> DevState] /\ client \in ClientState /\ past \in PastState /\ client.i \in Device
  BY DEF TypeOK, DevState, ClientState, PastState
<1>2. client.at \in {"configuring", "committing"}
  BY CalledIn DEF Configures, Commits, Asked, Phase
<1>3. /\ client'.at = client.at /\ client'.i = client.i /\ client'.answer # "none"
      /\ UNCHANGED <<todo, hard>>
  BY AnswersNow DEF DeviceDoes
<1>4. \A d \in Device : d # client.i => dev'[d] = dev[d]
  BY <1>1 DEF Configures, Commits
<1>5. past'.agreed = past.agreed /\ past.unrestored \subseteq past'.unrestored
  <2>1. past' = past \/ past' = [past EXCEPT !.unrestored = @ \cup {client.i}]
    BY DEF Configures, Commits
  <2> QED BY <1>1, <2>1 DEF PastState
<1>6. ASSUME NEW i \in Device, i = client.i PROVE HasWayBack(i)'
  <2>1. CASE Configures
    <3>1. PICK change : /\ dev' = [dev EXCEPT ![i].change = change]
                        /\ past' = IF change = "steps" /\ dev[i].wd \notin {"asleep", "dead"}
                                     THEN [past EXCEPT !.unrestored = @ \cup {i}] ELSE past
                        /\ change \in {dev[i].change, "steps"}
      BY <1>6, <2>1 DEF Configures
    <3>2. dev'[i].wd = dev[i].wd /\ dev'[i].change = change
      BY <1>1, <3>1 DEF DevState
    <3>3. CASE change = "steps"
      <4>1. CASE dev[i].wd \in {"asleep", "dead"}
        BY <3>2, <4>1 DEF HasWayBack
      <4>2. CASE dev[i].wd \notin {"asleep", "dead"}
        <5>1. i \in past'.unrestored
          BY <1>1, <3>1, <3>3, <4>2 DEF PastState
        <5> QED BY <5>1 DEF HasWayBack
      <4> QED BY <4>1, <4>2
    <3>4. CASE change # "steps"
      <4>1. past' = past /\ dev'[i].change = dev[i].change /\ HasWayBack(i)
        BY <1>1, <3>1, <3>2, <3>4 DEF WayInv
      <4> QED BY <3>2, <4>1 DEF HasWayBack
    <3> QED BY <3>3, <3>4
  <2>2. CASE Commits
    <3>1. UNCHANGED past
      BY <1>6, <2>2 DEF Commits
    <3>2. /\ dev'[i].wd = dev[i].wd
          /\ dev[i].wd \in {"asleep", "dead"} \/ dev'[i].change = dev[i].change
      <4>1. CASE dev[i].wd \in {"asleep", "dead"}
        <5>1. \/ \E change : dev' = [dev EXCEPT ![i].change = change, ![i].marker = TRUE]
              \/ \E change : dev' = [dev EXCEPT ![i].change = change]
          BY <1>6, <2>2 DEF Commits
        <5> QED BY <1>1, <4>1, <5>1 DEF DevState
      <4>2. CASE dev[i].wd \notin {"asleep", "dead"}
        <5>1. \/ dev' = [dev EXCEPT ![i].change = @, ![i].marker = TRUE]
              \/ dev' = [dev EXCEPT ![i].change = dev[i].change]
          BY <1>6, <2>2, <4>2 DEF Commits
        <5> QED BY <1>1, <5>1 DEF DevState
      <4> QED BY <4>1, <4>2
    <3>3. HasWayBack(i)
      BY <1>1 DEF WayInv
    <3> QED BY <3>1, <3>2, <3>3 DEF HasWayBack
  <2> QED BY <2>1, <2>2
<1>7. \A d \in Device : HasWayBack(d)'
  <2> SUFFICES ASSUME NEW d \in Device, d # client.i PROVE HasWayBack(d)'
    BY <1>6
  <2>1. dev'[d] = dev[d] /\ HasWayBack(d)
    BY <1>4 DEF WayInv
  <2> QED BY <1>5, <2>1 DEF HasWayBack
<1>8. ChangedInTurn'
  <2>1. ASSUME NEW d \in Device, d > client.i PROVE d \in Unchanged'
    <3>1. d # client.i /\ d \in Unchanged
      BY <1>1, <1>2, <2>1 DEF WayInv, ChangedInTurn, Device
    <3> QED BY <1>4, <3>1 DEF Unchanged
  <2>2. ASSUME client.at = "configuring", client.i \notin hard PROVE client.i \in Unchanged'
    <3>1. client.i \in Unchanged
      BY <1>1, <2>2 DEF WayInv, ChangedInTurn
    <3>2. Configures
      BY <2>2, CalledIn DEF Commits, Asked, Phase
    <3>3. PICK change \in {dev[client.i].change, "steps"} :
             dev' = [dev EXCEPT ![client.i].change = change] /\ (change = "steps" => client.i \in hard)
      BY <3>2 DEF Configures
    <3> QED BY <1>1, <2>2, <3>1, <3>3 DEF Unchanged, DevState
  <2> QED BY <1>2, <1>3, <2>1, <2>2 DEF ChangedInTurn
<1>9. AgreedInTurn'
  BY <1>3, <1>5 DEF WayInv, AgreedInTurn
<1>10. StandsDownUnchanged'
  <2>1. todo = <<>>
    BY <1>2 DEF HoldInv, OnlyWaits, Committing
  <2>2. <<>> \in Seq(SafeItem')
    OBVIOUS
  <2> QED BY <1>3, <2>1, <2>2 DEF StandsDownUnchanged
<1> QED BY <1>7, <1>8, <1>9, <1>10 DEF WayInv

\* Any other call: one that stands a watchdog down is of an unchanged device, or all agreed.
LEMMA WayCalls ==
    ASSUME TypeOK, WayInv, Arms \/ TellsFinished \/ TellsAsleep \/ Disarms \/ Wakes \/ TellsRecovered \/ Drops
    PROVE  WayInv'
<1>1. dev \in [Device -> DevState] /\ client.i \in Device
  BY DEF TypeOK, DevState
<1>2. /\ client'.at = client.at /\ client'.i = client.i /\ client'.answer # "none"
      /\ UNCHANGED <<todo, hard>>
  BY AnswersNow DEF DeviceDoes
<1>3. UNCHANGED past
  BY DEF Arms, TellsFinished, TellsAsleep, Disarms, Wakes, TellsRecovered, Drops
<1>4. ASSUME Doing \in StandDown PROVE Called \in Unchanged
  <2>1. client.at = "undoing" /\ todo # <<>>
    BY <1>4, DoingOK DEF StandDown, Undoing
  <2>2. Head(todo) \in SafeItem
    BY <2>1 DEF WayInv, StandsDownUnchanged
  <2>3. Head(todo).how \in StandDown
    BY <1>4, <2>1 DEF Doing
  <2> QED BY <2>1, <2>2, <2>3 DEF SafeItem, Called
<1>5. \A d \in Device : dev'[d].change = dev[d].change /\ HasWayBack(d)'
  <2>1. CASE UNCHANGED dev
    BY <1>3, <2>1 DEF WayInv, HasWayBack
  <2>2. ASSUME NEW e, NEW w, dev' = Turns(e, w), e \in Unchanged \/ w = "restoring" \/ (w = "disarmed" /\ past.agreed)
        PROVE  \A d \in Device : dev'[d].change = dev[d].change /\ HasWayBack(d)'
    BY <1>1, <1>3, <2>2 DEF WayInv, HasWayBack, Turns, Unchanged, DevState
  <2>3. CASE Arms
    <3>1. PICK wd, sleeps : dev' = [dev EXCEPT ![client.i].wd = wd, ![client.i].sleeps = sleeps]
      BY <2>3 DEF Arms
    <3>2. client.at = "arming"
      BY <2>3, CalledIn DEF Arms, Phase
    <3>3. client.i \in Unchanged
      BY <1>1, <3>2 DEF WayInv, ChangedInTurn
    <3> QED BY <1>1, <1>3, <3>1, <3>3 DEF WayInv, HasWayBack, Unchanged, DevState
  <2>4. CASE Disarms
    <3>1. UNCHANGED dev \/ dev' = Turns(Called, "disarmed")
      BY <2>4 DEF Disarms
    <3>2. CASE Doing \in Disarming
      <4>1. client.at \in Disarming
        BY <2>4, <3>2, CalledIn DEF Disarms, Asked, Disarming, Phase
      <4> QED BY <2>1, <2>2, <3>1, <4>1 DEF WayInv, AgreedInTurn
    <3>3. CASE Doing \in StandDown
      BY <1>4, <2>1, <2>2, <3>1, <3>3
    <3> QED BY <2>4, <3>2, <3>3 DEF Disarms, Asked, Disarming, StandDown
  <2>5. CASE Wakes
    BY <2>1, <2>2, <2>5 DEF Wakes
  <2>6. CASE TellsRecovered
    <3>1. UNCHANGED dev \/ (dev[Called].wd = "restored" /\ dev' = [dev EXCEPT ![Called].wd = "over"])
      BY <2>6 DEF TellsRecovered, Recoverable
    <3> QED BY <1>1, <1>3, <2>1, <3>1 DEF WayInv, HasWayBack, DevState
  <2>7. CASE Drops
    <3>1. UNCHANGED dev \/ dev' = Turns(Called, "none")
      BY <2>7 DEF Drops
    <3>2. Called \in Unchanged
      BY <1>4, <2>7 DEF Drops, Asked, StandDown
    <3> QED BY <2>1, <2>2, <3>1, <3>2
  <2> QED BY <2>1, <2>3, <2>4, <2>5, <2>6, <2>7 DEF TellsFinished, TellsAsleep
<1> QED BY <1>2, <1>3, <1>5, WayStep

-----------------------------------------------------------------------------
(* What is left to undo. *)

LEMMA UpwardSafe ==
    ASSUME NEW from \in Nat, NEW to \in Nat, from >= 1, to <= N, from <= to + 1, NEW how \in StandDown,
           \A d \in Device : d >= from /\ d <= to => d \in Unchanged
    PROVE  Upward(from, to, how) \in Seq(SafeItem)
<1>1. to + 1 - from \in Nat
  OBVIOUS
<1>2. ASSUME NEW k \in 1..(to + 1 - from) PROVE Item(from + k - 1, how) \in SafeItem
  <2>1. from + k - 1 \in Device /\ from + k - 1 >= from /\ from + k - 1 <= to
    BY <1>2, Sizes DEF Device
  <2>2. from + k - 1 \in Unchanged
    BY <2>1
  <2> QED BY <2>2 DEF Item, SafeItem
<1>3. Upward(from, to, how) \in [1..(to + 1 - from) -> SafeItem]
  BY <1>2 DEF Upward
<1> QED BY <1>1, <1>3

LEMMA ItemSafe ==
    ASSUME NEW d \in Device, NEW how \in Undoing, how \notin StandDown \/ d \in Unchanged
    PROVE  Item(d, how) \in SafeItem /\ <<Item(d, how)>> \in Seq(SafeItem)
<1>1. Item(d, how) \in SafeItem
  BY DEF Item, SafeItem
<1> QED BY <1>1

LEMMA DownwardSafe ==
    ASSUME NEW from \in Nat, NEW to \in Nat, to >= 1, from <= N, to <= from + 1, NEW how \in Undoing \ StandDown
    PROVE  Downward(from, to, how) \in Seq(SafeItem)
<1>1. from + 1 - to \in Nat
  OBVIOUS
<1>2. ASSUME NEW k \in 1..(from + 1 - to) PROVE Item(from + 1 - k, how) \in SafeItem
  <2>1. from + 1 - k \in Device
    BY <1>2, Sizes DEF Device
  <2> QED BY <2>1, ItemSafe
<1>3. Downward(from, to, how) \in [1..(from + 1 - to) -> SafeItem]
  BY <1>2 DEF Downward
<1> QED BY <1>1, <1>3

LEMMA ConcatSafe ==
    ASSUME NEW s \in Seq(SafeItem), NEW t \in Seq(SafeItem)
    PROVE  s \o t \in Seq(SafeItem)
OBVIOUS

\* The items of each failure: what changed is woken, the rest stood down.
LEMMA ItemsSafe ==
    ASSUME NEW i \in Device, NEW how \in Undoing \ StandDown
    PROVE  /\ Downward(i, 1, how) \in Seq(SafeItem) /\ Downward(i - 1, 1, how) \in Seq(SafeItem)
           /\ Downward(N, i, how) \in Seq(SafeItem) /\ Downward(N, i + 1, how) \in Seq(SafeItem)
           /\ Downward(N, 1, how) \in Seq(SafeItem)
<1>1. /\ 1 \in Nat /\ i \in Nat /\ N \in Nat /\ i - 1 \in Nat /\ i + 1 \in Nat
      /\ i >= 1 /\ i <= N /\ N >= 1
  BY Sizes DEF Device
<1>2. i - 1 <= N /\ 1 <= (i - 1) + 1 /\ 1 <= i + 1 /\ i <= N + 1 /\ i + 1 >= 1 /\ i + 1 <= N + 1 /\ 1 <= N + 1
  BY <1>1
<1> HIDE DEF Device
<1> QED BY <1>1, <1>2, DownwardSafe

LEMMA StandDownSafe ==
    ASSUME NEW i \in Device, NEW how \in StandDown
    PROVE  /\ (\A d \in Device : d > i => d \in Unchanged) => Upward(i + 1, N, how) \in Seq(SafeItem)
           /\ (\A d \in Device : d >= i => d \in Unchanged) => Upward(i, N, how) \in Seq(SafeItem)
           /\ (\A d \in Device : d \in Unchanged) =>
                 Upward(1, i - 1, how) \in Seq(SafeItem) /\ Upward(1, i, how) \in Seq(SafeItem)
<1>1. /\ 1 \in Nat /\ i \in Nat /\ N \in Nat /\ i - 1 \in Nat /\ i + 1 \in Nat
      /\ i >= 1 /\ i <= N /\ N >= 1 /\ i - 1 <= N /\ 1 <= (i - 1) + 1 /\ 1 <= i + 1 /\ i <= N + 1 /\ i + 1 <= N + 1
      /\ N <= N /\ i + 1 >= 1
  BY Sizes DEF Device
<1>2. ASSUME \A d \in Device : d > i => d \in Unchanged PROVE Upward(i + 1, N, how) \in Seq(SafeItem)
  <2>1. \A d \in Device : d >= i + 1 /\ d <= N => d \in Unchanged
    BY <1>2 DEF Device
  <2> QED BY <1>1, <2>1, UpwardSafe
<1>3. ASSUME \A d \in Device : d >= i => d \in Unchanged PROVE Upward(i, N, how) \in Seq(SafeItem)
  BY <1>1, <1>3, UpwardSafe
<1>4. ASSUME \A d \in Device : d \in Unchanged
      PROVE  Upward(1, i - 1, how) \in Seq(SafeItem) /\ Upward(1, i, how) \in Seq(SafeItem)
  BY <1>1, <1>4, UpwardSafe
<1> QED BY <1>2, <1>3, <1>4

-----------------------------------------------------------------------------
(* What the run does when it hears, and of itself. *)

LEMMA WayRun ==
    ASSUME TypeOK, WayInv, UNCHANGED <<dev, hard>>, past'.unrestored = past.unrestored, past.agreed => past'.agreed,
           ChangedInTurn', AgreedInTurn', todo' \in Seq(SafeItem)
    PROVE  WayInv'
<1>1. \A d \in Device : HasWayBack(d)'
  BY DEF WayInv, HasWayBack
<1>2. SafeItem' = SafeItem
  BY DEF SafeItem, Unchanged
<1> QED BY <1>1, <1>2 DEF WayInv, StandsDownUnchanged

\* On to where nothing more is changed.
LEMMA WayAfter ==
    ASSUME TypeOK, WayInv, UNCHANGED <<dev, hard, past>>, client'.at \in {"undoing", "ended", "gone"}, todo' \in Seq(SafeItem)
    PROVE  WayInv'
<1>1. ChangedInTurn' /\ AgreedInTurn'
  BY DEF ChangedInTurn, AgreedInTurn, Disarming
<1> QED BY <1>1, WayRun

LEMMA WayUndoes ==
    ASSUME TypeOK, WayInv, UNCHANGED <<dev, hard, past>>, NEW items \in Seq(SafeItem), NEW end, Undoes(items, end)
    PROVE  WayInv'
<1>1. client'.at = "undoing" /\ todo' = items
  BY DEF Undoes, From
<1> QED BY <1>1, WayAfter

\* A failure while configuring or committing: what the run takes for unchanged is.
LEMMA WayFails ==
    ASSUME TypeOK, WayInv, UNCHANGED <<dev, hard, past>>, client.at \in {"configuring", "committing"},
           NEW changed \in BOOLEAN, FailsConfiguring(changed), ~changed => client.i \in Unchanged
    PROVE  WayInv'
<1> DEFINE i == client.i
<1>1. i \in Device /\ "wake" \in Undoing \ StandDown /\ "release" \in StandDown
  BY DEF TypeOK, Undoing, StandDown
<1>2. \A d \in Device : d > i => d \in Unchanged
  BY DEF WayInv, ChangedInTurn
<1>3. CASE changed
  <2>1. Downward(i, 1, "wake") \o Upward(i + 1, N, "release") \in Seq(SafeItem)
    BY <1>1, <1>2, ItemsSafe, StandDownSafe, ConcatSafe
  <2> QED BY <1>3, <2>1, WayUndoes DEF FailsConfiguring
<1>4. CASE ~changed
  <2>1. \A d \in Device : d >= i => d \in Unchanged
    <3> SUFFICES ASSUME NEW d \in Device, d >= i PROVE d \in Unchanged
      OBVIOUS
    <3>1. d > i \/ d = i
      BY <1>1 DEF Device
    <3> QED BY <1>2, <1>4, <3>1
  <2>2. Downward(i - 1, 1, "wake") \o Upward(i, N, "release") \in Seq(SafeItem)
    BY <1>1, <2>1, ItemsSafe, StandDownSafe, ConcatSafe
  <2> QED BY <1>4, <2>2, WayUndoes DEF FailsConfiguring
<1> QED BY <1>3, <1>4

LEMMA WayStages ==
    ASSUME TypeOK, WayInv, Stages
    PROVE  WayInv'
<1>1. client.at = "staging" /\ UNCHANGED <<dev, hard, past>>
  BY DEF Stages
<1>2. \A d \in Device : d \in Unchanged
  BY <1>1 DEF WayInv, ChangedInTurn
<1>3. CASE Goes("arming", 1)
  <2>1. client'.at = "arming" /\ UNCHANGED todo
    BY <1>3 DEF Goes, From
  <2>2. ChangedInTurn'
    BY <1>1, <1>2 DEF ChangedInTurn, Unchanged
  <2>3. AgreedInTurn'
    BY <1>1, <2>1 DEF WayInv, AgreedInTurn, Disarming
  <2> QED BY <1>1, <2>1, <2>2, <2>3, WayRun DEF WayInv, StandsDownUnchanged
<1>4. CASE \E i \in Device : Undoes(Upward(1, i, "discard"), "failed")
  <2>1. PICK i \in Device : Undoes(Upward(1, i, "discard"), "failed")
    BY <1>4
  <2>2. Upward(1, i, "discard") \in Seq(SafeItem)
    BY <1>2, StandDownSafe DEF StandDown
  <2> QED BY <1>1, <2>1, <2>2, WayUndoes
<1> QED BY <1>3, <1>4 DEF Stages

\* On to another phase before any is disarmed.
LEMMA WayGoes ==
    ASSUME TypeOK, WayInv, UNCHANGED <<dev, hard, past, todo>>, client.at \notin Disarming \cup {"undoing", "ended", "gone"},
           client'.at \notin Disarming, ChangedInTurn'
    PROVE  WayInv'
<1>1. ~past.agreed
  BY DEF WayInv, AgreedInTurn
<1>2. AgreedInTurn'
  BY <1>1 DEF AgreedInTurn
<1> QED BY <1>2, WayRun DEF WayInv, StandsDownUnchanged

LEMMA WayHearArm ==
    ASSUME TypeOK, WayInv, NEW said \in Heard, HearArm(said)
    PROVE  WayInv'
<1> DEFINE i == client.i
           items == Upward(1, i - 1, "release") \o <<Item(i, "discard stray")>> \o Upward(i + 1, N, "discard")
<1>1. client.at = "arming" /\ UNCHANGED <<dev, hard, past>> /\ i \in Device
  BY DEF HearArm, TypeOK
<1>2. \A d \in Device : d \in Unchanged
  BY <1>1 DEF WayInv, ChangedInTurn
<1>3. items \in Seq(SafeItem)
  <2>1. "release" \in StandDown /\ "discard" \in StandDown /\ "discard stray" \in Undoing
    BY DEF StandDown, Undoing
  <2>2. Upward(1, i - 1, "release") \in Seq(SafeItem) /\ Upward(i + 1, N, "discard") \in Seq(SafeItem)
    BY <1>1, <1>2, <2>1, StandDownSafe
  <2>3. <<Item(i, "discard stray")>> \in Seq(SafeItem)
    BY <1>1, <1>2, <2>1, ItemSafe
  <2> QED BY <2>2, <2>3, ConcatSafe
<1>4. NextOr("arming", "configuring") \/ Undoes(items, "failed")
  BY DEF HearArm
<1>5. CASE NextOr("arming", "configuring")
  <2>1. client'.at \in {"arming", "configuring"} /\ UNCHANGED todo
    BY <1>5 DEF NextOr, Goes, From
  <2>2. ChangedInTurn'
    BY <1>1, <1>2 DEF ChangedInTurn, Unchanged
  <2> QED BY <1>1, <2>1, <2>2, WayGoes DEF Disarming
<1> QED BY <1>1, <1>3, <1>4, <1>5, WayUndoes

LEMMA WayHearConfigured ==
    ASSUME TypeOK, WayInv, NEW said \in Heard, HearConfigured(said)
    PROVE  WayInv'
<1>1. client.at = "configuring" /\ UNCHANGED <<dev, hard, past>> /\ client.i \in Device
  BY DEF HearConfigured, TypeOK
<1>2. CASE Goes("committing", client.i)
  <2>1. client' = From("committing", client.i) /\ UNCHANGED todo
    BY <1>2 DEF Goes
  <2>2. client'.at = "committing" /\ client'.i = client.i
    BY <2>1 DEF From
  <2>3. ChangedInTurn'
    BY <1>1, <2>2 DEF WayInv, ChangedInTurn, Unchanged
  <2> QED BY <1>1, <2>1, <2>2, <2>3, WayGoes DEF Disarming
<1>3. CASE FailsConfiguring(LeftArmed(said))
  <2>1. ~LeftArmed(said) => client.i \in Unchanged
    BY <1>1 DEF LeftArmed, WayInv, ChangedInTurn
  <2>2. LeftArmed(said) \in BOOLEAN
    BY DEF LeftArmed
  <2> QED BY <1>1, <1>3, <2>1, <2>2, WayFails
<1> QED BY <1>2, <1>3 DEF HearConfigured

LEMMA WayHearCommitted ==
    ASSUME TypeOK, WayInv, NEW said \in Heard, HearCommitted(said)
    PROVE  WayInv'
<1>1. client.at = "committing" /\ UNCHANGED <<dev, hard, past>> /\ client.i \in Device
  BY DEF HearCommitted, TypeOK
<1>2. CASE FailsConfiguring(TRUE)
  BY <1>1, <1>2, WayFails
<1>3. CASE NextOr("configuring", "confirming")
  <2>1. client' = IF client.i < N THEN From("configuring", client.i + 1) ELSE From("confirming", 1)
    BY <1>3 DEF NextOr, Goes
  <2>2. UNCHANGED todo /\ client'.at \in {"configuring", "confirming"}
    BY <1>3 DEF NextOr, Goes, From
  <2>3. ChangedInTurn'
    <3> SUFFICES ASSUME NEW d \in Device, client.i < N, d >= client.i + 1 PROVE d \in Unchanged
      BY <1>1, <2>1 DEF ChangedInTurn, Unchanged, From, Device
    <3>1. d > client.i
      BY <1>1 DEF Device
    <3> QED BY <1>1, <3>1 DEF WayInv, ChangedInTurn
  <2> QED BY <1>1, <2>2, <2>3, WayGoes DEF Disarming
<1> QED BY <1>2, <1>3 DEF HearCommitted

LEMMA WayHearFinished ==
    ASSUME TypeOK, WayInv, NEW said \in Heard, HearFinished(said)
    PROVE  WayInv'
<1>1. client.at = "confirming" /\ UNCHANGED <<dev, hard, past>> /\ client.i \in Device
  BY DEF HearFinished, TypeOK
<1>2. CASE NextOr("confirming", "asking")
  <2>1. UNCHANGED todo /\ client'.at \in {"confirming", "asking"}
    BY <1>2 DEF NextOr, Goes, From
  <2>2. ChangedInTurn'
    BY <2>1 DEF ChangedInTurn
  <2> QED BY <1>1, <2>1, <2>2, WayGoes DEF Disarming
<1>3. CASE Undoes(Downward(N, client.i, "wake") \o Downward(client.i - 1, 1, "wake over session"), "rolled-back")
  <2>1. Downward(N, client.i, "wake") \o Downward(client.i - 1, 1, "wake over session") \in Seq(SafeItem)
    BY <1>1, ItemsSafe, ConcatSafe DEF Undoing, StandDown
  <2> QED BY <1>1, <1>3, <2>1, WayUndoes
<1> QED BY <1>2, <1>3 DEF HearFinished

LEMMA WayHearAsleep ==
    ASSUME TypeOK, WayInv, NEW said \in Heard, HearAsleep(said)
    PROVE  WayInv'
<1> DEFINE others == Downward(N, client.i + 1, "wake over session") \o Downward(client.i - 1, 1, "wake over session")
<1>1. /\ client.at \in {"asking", "asking again"} /\ UNCHANGED <<dev, hard>> /\ client.i \in Device
      /\ client \in ClientState /\ past \in PastState
  BY DEF HearAsleep, Asking, TypeOK, ClientState, PastState
<1>2. ~past.agreed
  BY <1>1 DEF WayInv, AgreedInTurn, Disarming
<1>3. past'.unrestored = past.unrestored /\ (past'.agreed <=> client'.at = "disarming")
  BY <1>1 DEF HearAsleep, PastState
<1>4. /\ others \o <<Item(client.i, "wait")>> \in Seq(SafeItem)
      /\ others \o <<Item(client.i, "recover")>> \in Seq(SafeItem)
      /\ Downward(N, 1, "wake over session") \in Seq(SafeItem)
  <2>1. {"wake over session", "wait", "recover"} \subseteq Undoing \ StandDown
    BY DEF Undoing, StandDown
  <2>2. others \in Seq(SafeItem) /\ Downward(N, 1, "wake over session") \in Seq(SafeItem)
    BY <1>1, <2>1, ItemsSafe, ConcatSafe
  <2>3. <<Item(client.i, "wait")>> \in Seq(SafeItem) /\ <<Item(client.i, "recover")>> \in Seq(SafeItem)
    BY <1>1, <2>1, ItemSafe
  <2> HIDE DEF others
  <2> QED BY <2>2, <2>3, ConcatSafe
<1>5. \/ client' = [client EXCEPT !.at = "asking again", !.answer = "none"] /\ UNCHANGED todo
      \/ Undoes(others \o <<Item(client.i, "wait")>>, "rolled-back")
      \/ Undoes(others \o <<Item(client.i, "recover")>>, "rolled-back")
      \/ Undoes(Downward(N, 1, "wake over session"), "rolled-back")
      \/ NextOr("asking", "disarming")
  BY DEF HearAsleep, Heard, Asking
<1>6. client'.at \in {"asking", "asking again", "disarming", "undoing"} /\ todo' \in Seq(SafeItem)
  <2>1. todo \in Seq(SafeItem)
    BY DEF WayInv, StandsDownUnchanged
  <2>2. ASSUME NEW items \in Seq(SafeItem), Undoes(items, "rolled-back")
        PROVE  client'.at = "undoing" /\ todo' \in Seq(SafeItem)
    BY <2>2 DEF Undoes, From
  <2>3. CASE NextOr("asking", "disarming")
    <3>1. client'.at \in {"asking", "disarming"} /\ UNCHANGED todo
      BY <2>3 DEF NextOr, Goes, From
    <3> QED BY <2>1, <3>1
  <2>4. CASE client' = [client EXCEPT !.at = "asking again", !.answer = "none"] /\ UNCHANGED todo
    BY <1>1, <2>1, <2>4 DEF ClientState
  <2> HIDE DEF others
  <2> QED BY <1>4, <1>5, <2>2, <2>3, <2>4
<1>7. ChangedInTurn' /\ AgreedInTurn'
  BY <1>3, <1>6 DEF ChangedInTurn, AgreedInTurn, Disarming
<1> QED BY <1>1, <1>2, <1>3, <1>6, <1>7, WayRun

LEMMA WayHearDisarmed ==
    ASSUME TypeOK, WayInv, NEW said \in Heard, HearDisarmed(said)
    PROVE  WayInv'
<1>1. client.at \in Disarming /\ UNCHANGED <<dev, hard>> /\ client.i \in Device /\ past \in PastState
  BY DEF HearDisarmed, TypeOK, Disarming, PastState
<1>2. past'.unrestored = past.unrestored /\ past'.agreed = past.agreed /\ past.agreed
  BY <1>1 DEF HearDisarmed, PastState, WayInv, AgreedInTurn
<1>3. todo' \in Seq(SafeItem)
  <2>1. todo \in Seq(SafeItem)
    BY DEF WayInv, StandsDownUnchanged
  <2>2. ASSUME NEW how \in {"recover", "wait"} PROVE Append(todo, Item(client.i, how)) \in Seq(SafeItem)
    <3>1. Item(client.i, how) \in SafeItem
      BY <1>1, <2>2, ItemSafe DEF Undoing, StandDown
    <3> QED BY <2>1, <3>1
  <2>3. UNCHANGED todo \/ \E how \in {"recover", "wait"} : todo' = Append(todo, Item(client.i, how))
    BY DEF HearDisarmed
  <2> QED BY <2>1, <2>2, <2>3
<1>4. PICK at \in Disarming \cup {"undoing"} : \E i : client' = From(at, i)
  BY DEF HearDisarmed, Disarming
<1>5. client'.at \in Disarming \cup {"undoing"}
  BY <1>4 DEF From
<1>6. ChangedInTurn' /\ AgreedInTurn'
  BY <1>2, <1>5 DEF ChangedInTurn, AgreedInTurn, Disarming
<1> QED BY <1>1, <1>2, <1>3, <1>6, WayRun

\* An item that becomes another stands down what it already did, or nothing.
LEMMA WayUndoing ==
    ASSUME TypeOK, WayInv, UNCHANGED <<dev, hard, past>>, Doing \in Undoing,
           \/ \E how \in Undoing : Becomes(how) /\ (how \in StandDown => Doing \in StandDown)
           \/ \E word : Ends(word)
           \/ client' = From("undoing", client.i) /\ todo' = Tail(todo) \o <<Item(Called, "wait")>>
    PROVE  WayInv'
<1>1. client.at = "undoing" /\ todo # <<>> /\ Called \in Device /\ todo \in Seq(SafeItem)
  BY DoingOK DEF WayInv, StandsDownUnchanged
<1>2. Tail(todo) \in Seq(SafeItem) /\ Head(todo) \in SafeItem
  BY <1>1
<1>3. Doing = Head(todo).how /\ Called = Head(todo).device
  BY <1>1 DEF Doing, Called
<1>4. Doing \in StandDown => Called \in Unchanged
  BY <1>2, <1>3 DEF SafeItem
<1>5. CASE \E how \in Undoing : Becomes(how) /\ (how \in StandDown => Doing \in StandDown)
  <2>1. PICK how \in Undoing : Becomes(how) /\ (how \in StandDown => Doing \in StandDown)
    BY <1>5
  <2>2. <<Item(Called, how)>> \in Seq(SafeItem)
    BY <1>1, <1>4, <2>1, ItemSafe
  <2>3. client'.at = "undoing" /\ todo' \in Seq(SafeItem)
    BY <1>2, <2>1, <2>2, ConcatSafe DEF Becomes, From
  <2> QED BY <2>3, WayAfter
<1>6. CASE \E word : Ends(word)
  <2>1. client'.at = "undoing" /\ todo' = Tail(todo)
    BY <1>6 DEF Ends, From
  <2> QED BY <1>2, <2>1, WayAfter
<1>7. CASE client' = From("undoing", client.i) /\ todo' = Tail(todo) \o <<Item(Called, "wait")>>
  <2>1. <<Item(Called, "wait")>> \in Seq(SafeItem)
    BY <1>1, ItemSafe DEF Undoing, StandDown
  <2>2. client'.at = "undoing" /\ todo' \in Seq(SafeItem)
    BY <1>2, <1>7, <2>1, ConcatSafe DEF From
  <2> QED BY <2>2, WayAfter
<1> QED BY <1>5, <1>6, <1>7

LEMMA WayHearUndoing ==
    ASSUME TypeOK, WayInv, NEW said \in Heard,
           HearWoken(said) \/ HearReleased(said) \/ HearRecovered(said) \/ HearDropped(said)
    PROVE  WayInv'
<1>1. Doing \in Undoing /\ UNCHANGED <<dev, hard, past>>
  BY DEF HearWoken, HearReleased, HearRecovered, HearDropped, OthersThanUndoing, Undoing
<1>2. /\ {"recover", "wake", "wait", "recover untouched", "wait untouched"} \subseteq Undoing \ StandDown
      /\ {"release again", "discard again", "discard stray again"} \subseteq Undoing
  BY DEF Undoing, StandDown
<1>3. CASE HearWoken(said)
  <2>1. Becomes("recover") \/ Becomes("wake") \/ Becomes("wait")
    BY <1>3 DEF HearWoken
  <2> QED BY <1>1, <1>2, <2>1, WayUndoing
<1>4. CASE HearReleased(said)
  <2>1. Ends("untouched") \/ Becomes("recover untouched") \/ Becomes("release again") \/ Becomes("wait untouched")
    BY <1>4 DEF HearReleased, Heard
  <2>2. Doing \in StandDown
    BY <1>4 DEF HearReleased, StandDown
  <2> QED BY <1>1, <1>2, <2>1, <2>2, WayUndoing
<1>5. CASE HearRecovered(said)
  <2>1. Ends("rolled back") \/ Ends("untouched") \/ Becomes("recover") \/ Becomes("recover untouched")
    BY <1>5 DEF HearRecovered
  <2> QED BY <1>1, <1>2, <2>1, WayUndoing
<1>6. CASE HearDropped(said)
  <2>1. \/ Ends("nothing") \/ Becomes("discard again") \/ Becomes("discard stray again")
        \/ client' = From("undoing", client.i) /\ todo' = Tail(todo) \o <<Item(Called, "wait")>>
    BY <1>6 DEF HearDropped, Heard
  <2>2. Doing \in StandDown
    BY <1>6 DEF HearDropped, StandDown
  <2> QED BY <1>1, <1>2, <2>1, <2>2, WayUndoing
<1> QED BY <1>3, <1>4, <1>5, <1>6

LEMMA WayGoesOn ==
    ASSUME TypeOK, WayInv, Confirmless \/ Waits \/ StopsAsking \/ Concludes \/ Unreached \/ Dies
    PROVE  WayInv'
<1>1. CASE Confirmless
  <2> DEFINE items == Downward(N, client.i + 1, "wake") \o Downward(client.i - 1, 1, "wake over session") \o <<Item(client.i, "wait")>>
  <2>1. {"wake over session", "wait", "wake"} \subseteq Undoing \ StandDown /\ client.i \in Device
    BY DEF Undoing, StandDown, TypeOK
  <2>2. items \in Seq(SafeItem)
    <3>1. Downward(N, client.i + 1, "wake") \in Seq(SafeItem) /\ Downward(client.i - 1, 1, "wake over session") \in Seq(SafeItem)
      BY <2>1, ItemsSafe
    <3>2. <<Item(client.i, "wait")>> \in Seq(SafeItem)
      BY <2>1, ItemSafe
    <3> QED BY <3>1, <3>2, ConcatSafe
  <2>3. Undoes(items, "rolled-back") /\ UNCHANGED <<dev, hard, past>>
    BY <1>1 DEF Confirmless
  <2> QED BY <2>2, <2>3, WayUndoes
<1>2. CASE Unreached
  <2>1. client.i \in Unchanged /\ client.at = "configuring" /\ FailsConfiguring(FALSE) /\ UNCHANGED <<dev, hard, past>>
    BY <1>2 DEF Unreached, WayInv, ChangedInTurn, TypeOK
  <2> QED BY <2>1, WayFails
<1>3. CASE Waits \/ StopsAsking
  <2>1. Doing \in Undoing /\ UNCHANGED <<dev, hard, past>>
    BY <1>3 DEF Waits, StopsAsking, OthersThanUndoing, Undoing
  <2>2. Becomes("recover") \/ Becomes("recover untouched") \/ Ends("rolling back")
    BY <1>3 DEF Waits, StopsAsking
  <2>3. {"recover", "recover untouched"} \subseteq Undoing \ StandDown
    BY DEF Undoing, StandDown
  <2> QED BY <2>1, <2>2, <2>3, WayUndoing
<1>4. CASE Concludes
  <2>1. client'.at = "ended" /\ UNCHANGED <<dev, hard, past, todo>>
    BY <1>4 DEF Concludes, OthersThanUndoing, From
  <2> QED BY <2>1, WayAfter DEF WayInv, StandsDownUnchanged
<1>5. CASE Dies
  <2>1. client'.at = "gone" /\ todo' = <<>> /\ UNCHANGED <<dev, hard, past>>
    BY <1>5 DEF Dies, From
  <2>2. <<>> \in Seq(SafeItem)
    BY DEF SafeItem
  <2> QED BY <2>1, <2>2, WayAfter
<1> QED BY <1>1, <1>2, <1>3, <1>4, <1>5

-----------------------------------------------------------------------------
LEMMA StepWay == TypeOK /\ HoldInv /\ WayInv /\ [Next]_vars => WayInv'
<1> SUFFICES ASSUME TypeOK, HoldInv, WayInv, [Next]_vars PROVE WayInv'
  OBVIOUS
<1>1. ASSUME NEW e \in Device, Fires(e) \/ Restores(e) \/ GivesUp(e) \/ Killed(e) PROVE WayInv'
  BY <1>1, WayDevice
<1>2. CASE DeviceDoes
  BY <1>2, WayChanges, WayCalls DEF DeviceDoes
<1>3. CASE RunHears
  BY <1>3, WayHearArm, WayHearConfigured, WayHearCommitted, WayHearFinished, WayHearAsleep, WayHearDisarmed,
     WayHearUndoing DEF RunHears
<1>4. CASE RunGoesOn \/ Unreached \/ Dies
  BY <1>4, WayStages, WayGoesOn DEF RunGoesOn
<1>5. CASE Tick
  BY <1>5, WayTick
<1>6. CASE UNCHANGED vars
  <2>1. UNCHANGED <<dev, hard, client, todo, past>>
    BY <1>6 DEF vars
  <2> QED BY <2>1
      DEF WayInv, HasWayBack, ChangedInTurn, AgreedInTurn, StandsDownUnchanged, SafeItem, Unchanged
<1> QED BY <1>1, <1>2, <1>3, <1>4, <1>5, <1>6 DEF Next

\* A device with some of the change has a watchdog to take it back, until all
\* were found ready and it was disarmed: neither abort, nor the release of the
\* devices not yet reached, nor a discard stands down one that changed
\* (provisionNetwork.ts, recover.ts), for any number of devices.
THEOREM WayBackStays == Spec => []WayBack
<1>1. WayInv => WayBack
  BY DEF WayInv, HasWayBack, WayBack
<1> QED BY <1>1, InitHolds, StepHolds, InitWay, StepWay, TypeCorrect, PTL DEF Spec
=============================================================================
