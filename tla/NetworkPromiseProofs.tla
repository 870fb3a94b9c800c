------------------------ MODULE NetworkPromiseProofs ------------------------
(***************************************************************************)
(* NetworkApply keeps AllOrNothing's promise: for any number of devices,   *)
(* windows, losses and kills, each of its steps is a step of that          *)
(* specification or leaves it where it is; and what its run says at its    *)
(* end is so: a partial outcome has a cause outside the run, and what is   *)
(* said of each device is true of it.                                      *)
(*                                                                         *)
(* For the promise four facts are needed beside what the run counts on,    *)
(* what is kept and what has its way back: that a device asked and not     *)
(* late still sleeps, that nothing is stood down once all agreed, that     *)
(* none is both stood down and dropped, and what each verdict rests on.    *)
(*                                                                         *)
(* That a cut link or a slow disarming is the only cause of a partial      *)
(* outcome rests on the margin: all had at least that left when they were  *)
(* asked, and the time a watchdog still sleeps and the time disarming has  *)
(* taken never add up to less.  What is said of a device rests on what it  *)
(* answered and on nothing being called of it afterwards.                  *)
(***************************************************************************)
EXTENDS NetworkApplyProofs

\* One already asked still sleeps, or the time it gave is over; one that said
\* its watchdog is dead has it dead.
AskedReady ==
    Asking =>
        /\ \A d \in Device : d < client.i =>
              \/ dev[d].wd = "dead"
              \/ d \in timed /\ (dev[d].wd = "asleep" \/ firesIn[d] = 0)
        /\ client.answer = "yes" => dev[client.i].wd \in {"asleep", "dead"} \/ client.took >= client.seconds
        /\ client.answer = "kept" => dev[client.i].wd = "dead"

\* Once all agreed, the run only waits for those that did not keep it.
AgreedWaits == past.agreed => todo \in Seq(Later)

\* The devices to drop are others than those to release, and none is disarmed.
Drop == {"discard", "discard again", "discard stray", "discard stray again"}
SplitItem(dropped) ==
    [device: Device, how: Undoing \ StandDown] \cup [device: dropped, how: Drop]
        \cup [device: Device \ dropped, how: StandDown \ Drop]
Apart(dropped) == todo \in Seq(SplitItem(dropped)) /\ \A d \in dropped : dev[d].wd # "disarmed"
DropsApart == \E dropped \in SUBSET Device : Apart(dropped)

\* What the run will say rests on who agreed and who is kept.
VerdictHasGround ==
    /\ client.at \in {"undoing", "ended"} <=> verdict # "nothing"
    /\ verdict \in {"applied", "applied-with-problems"} => past.agreed /\ kept = Device
    /\ verdict = "partial" => past.agreed /\ kept # {}
    /\ verdict = "failed" => ~past.agreed
    /\ client.at \in Disarming /\ todo = <<>> => \A d \in Device : d < client.i => d \in kept

PromiseInv == AskedReady /\ AgreedWaits /\ DropsApart /\ VerdictHasGround

LEMMA InitPromise == Init => PromiseInv
<1> SUFFICES ASSUME Init PROVE PromiseInv
  OBVIOUS
<1>1. client.at = "staging" /\ todo = <<>> /\ verdict = "nothing" /\ ~past.agreed
  BY DEF Init, From
<1>2. AskedReady /\ AgreedWaits /\ VerdictHasGround
  BY <1>1 DEF AskedReady, AgreedWaits, VerdictHasGround, Asking, Disarming
<1>3. Apart({})
  BY <1>1 DEF Apart, SplitItem
<1> QED BY <1>2, <1>3 DEF PromiseInv, DropsApart

-----------------------------------------------------------------------------
(* A device asked and not late still sleeps. *)

\* The clocks and answers a step leaves alone.
LEMMA ReadyStep ==
    ASSUME TypeOK, CountInv, AskedReady, UNCHANGED <<firesIn, timed, client>>,
           \A d \in Device : \/ dev'[d].wd = dev[d].wd
                             \/ dev[d].wd = "asleep" /\ dev'[d].wd = "dead"
                             \/ dev[d].wd = "asleep" /\ dev[d].sleeps = 0
                             \/ dev[d].wd \notin {"asleep", "dead"} /\ dev'[d].wd # "asleep"
    PROVE  AskedReady'
<1> SUFFICES ASSUME Asking PROVE AskedReady'
  BY DEF AskedReady, Asking
<1>1. /\ client.i \in Device /\ client.took \in Nat /\ client.seconds \in Nat
      /\ \A d \in Device : firesIn[d] \in Nat
  <2>1. client \in ClientState /\ firesIn \in Times
    BY DEF TypeOK, ClientState, Times
  <2>2. 0..Window \subseteq Nat
    BY Sizes
  <2> QED BY <2>1, <2>2 DEF ClientState, Times
<1>2. ASSUME NEW d \in Device, d < client.i
      PROVE  dev'[d].wd = "dead" \/ (d \in timed /\ (dev'[d].wd = "asleep" \/ firesIn[d] = 0))
  <2>1. dev[d].wd = "dead" \/ (d \in timed /\ (dev[d].wd = "asleep" \/ firesIn[d] = 0))
    BY <1>2 DEF AskedReady
  <2>2. d \in timed /\ dev[d].wd = "asleep" /\ dev[d].sleeps = 0 => firesIn[d] = 0
    <3> SUFFICES ASSUME d \in timed, dev[d].wd = "asleep", dev[d].sleeps = 0 PROVE firesIn[d] = 0
      OBVIOUS
    <3>1. firesIn[d] <= 0
      BY DEF CountInv, CountsOnNoMore
    <3> QED BY <1>1, <3>1
  <2> QED BY <2>1, <2>2
<1>3. ASSUME client.answer = "yes" PROVE dev'[client.i].wd \in {"asleep", "dead"} \/ client.took >= client.seconds
  <2>1. dev[client.i].wd \in {"asleep", "dead"} \/ client.took >= client.seconds
    BY <1>3 DEF AskedReady
  <2>2. dev[client.i].wd = "asleep" /\ dev[client.i].sleeps = 0 => client.took >= client.seconds
    <3> SUFFICES ASSUME dev[client.i].wd = "asleep", dev[client.i].sleeps = 0 PROVE client.took >= client.seconds
      OBVIOUS
    <3>1. 0 + client.took >= client.seconds
      BY <1>3 DEF CountInv, SaidDuringCall
    <3> QED BY <1>1, <3>1
  <2> QED BY <1>1, <2>1, <2>2
<1>4. client.answer = "kept" => dev'[client.i].wd = "dead"
  BY <1>1 DEF AskedReady
<1> QED BY <1>2, <1>3, <1>4 DEF AskedReady

LEMMA ReadyDevice ==
    ASSUME TypeOK, CountInv, AskedReady, NEW e \in Device, Fires(e) \/ Restores(e) \/ GivesUp(e) \/ Killed(e)
    PROVE  AskedReady'
<1>1. dev \in [Device -> DevState]
  BY DEF TypeOK, DevState
<1>2. \A d \in Device : d # e => dev'[d] = dev[d]
  BY <1>1 DEF Fires, Restores, GivesUp, Killed, Turns
<1>3. \/ dev[e].wd = "asleep" /\ dev'[e].wd = "dead"
      \/ dev[e].wd = "asleep" /\ dev[e].sleeps = 0
      \/ dev[e].wd \notin {"asleep", "dead"} /\ dev'[e].wd # "asleep"
  <2>1. CASE Fires(e)
    BY <2>1 DEF Fires
  <2>2. CASE Killed(e)
    BY <1>1, <2>2 DEF Killed, Turns, DevState
  <2>3. CASE Restores(e)
    BY <2>3, RestoreStep
  <2>4. CASE GivesUp(e)
    BY <1>1, <2>4 DEF GivesUp, DevState
  <2> QED BY <2>1, <2>2, <2>3, <2>4
<1>4. UNCHANGED <<firesIn, timed, client>>
  BY DEF Fires, Restores, GivesUp, Killed, run
<1> QED BY <1>2, <1>3, <1>4, ReadyStep

LEMMA ReadyCall ==
    ASSUME TypeOK, AskedReady, DeviceDoes
    PROVE  AskedReady'
<1>1. client'.at = client.at /\ client'.i = client.i
  BY AnswersNow
<1>2. CASE TellsAsleep
  <2>1. Asking /\ client \in ClientState /\ UNCHANGED <<dev, firesIn, timed>>
    BY <1>2, PhaseDone DEF TellsAsleep, Asked, Asking, TypeOK, ClientState, OthersThanDevice, run
  <2>2. PICK said \in {"yes", "no", "kept"} :
           /\ client' = [client EXCEPT !.answer = said, !.seconds = dev[client.i].sleeps]
           /\ said = "yes" => dev[client.i].wd = "asleep"
           /\ said = "kept" => dev[client.i].wd = "dead"
    BY <1>2 DEF TellsAsleep
  <2>3. client'.answer = said
    BY <2>1, <2>2 DEF ClientState
  <2> QED BY <1>1, <2>1, <2>2, <2>3 DEF AskedReady
<1>3. CASE ~TellsAsleep
  <2>1. ~Asking
    BY <1>3 DEF DeviceDoes, Arms, Configures, Commits, TellsFinished, Disarms, Wakes, TellsRecovered, Drops,
                Asked, Doing, Asking
  <2> QED BY <1>1, <2>1 DEF AskedReady, Asking
<1> QED BY <1>2, <1>3

LEMMA ReadyTick ==
    ASSUME TypeOK, AskedReady, Tick
    PROVE  AskedReady'
<1> SUFFICES ASSUME Asking PROVE AskedReady'
  <2>1. client'.at = client.at
    BY DEF Tick, TypeOK
  <2> QED BY <2>1 DEF AskedReady, Asking
<1>1. dev \in [Device -> DevState] /\ client \in ClientState /\ firesIn \in Times
  BY DEF TypeOK, DevState, ClientState, Times
<1>2. \A d \in Device : dev'[d].wd = dev[d].wd /\ firesIn'[d] = Less(firesIn[d], 1)
  BY <1>1 DEF Tick, DevState
<1>3. /\ client'.at = client.at /\ client'.i = client.i /\ client'.answer = client.answer /\ client'.seconds = client.seconds
      /\ client'.took = IF client.took < Window THEN client.took + 1 ELSE client.took
  BY <1>1 DEF Tick, ClientState, Timing
<1>4. UNCHANGED timed /\ Less(0, 1) = 0
  <2>1. UNCHANGED timed
    BY DEF Tick
  <2>2. Less(0, 1) = 0
    BY DEF Less
  <2> QED BY <2>1, <2>2
<1>5. client.took >= client.seconds => client'.took >= client'.seconds
  <2>1. client.took \in Nat /\ client.seconds \in Nat
    <3>1. client.took \in 0..Window /\ client.seconds \in 0..Window
      BY <1>1 DEF ClientState
    <3> QED BY <3>1, Sizes
  <2> QED BY <1>3, <2>1
<1>6. client.i \in Device
  BY DEF TypeOK
<1> QED BY <1>2, <1>3, <1>4, <1>5, <1>6 DEF AskedReady

\* What the run makes of an answer to asleep.
LEMMA HeardAsleep ==
    ASSUME NEW said \in Heard, HearAsleep(said),
           NEW ins, NEW among,
           ins = [firesIn EXCEPT ![client.i] = IF said = "yes" THEN AsSaidWhenAsked ELSE @],
           among = IF said = "yes" THEN timed \cup {client.i} ELSE timed
    PROVE  /\ said = "lost" => \/ client.at = "asking" /\ client' = [client EXCEPT !.at = "asking again", !.answer = "none"]
                               \/ client'.at = "undoing"
           /\ said = "no" => client'.at = "undoing"
           /\ said \in {"yes", "kept"} => /\ said = client.answer
                                          /\ Late(ins, among) => client'.at = "undoing"
                                          /\ ~Late(ins, among) => NextOr("asking", "disarming")
<1>1. ASSUME NEW items, NEW end, Undoes(items, end) PROVE client'.at = "undoing"
  BY <1>1 DEF Undoes, From
<1>2. ASSUME said = "lost" PROVE \/ client.at = "asking" /\ client' = [client EXCEPT !.at = "asking again", !.answer = "none"]
                                 \/ \E items, end : Undoes(items, end)
  BY <1>2 DEF HearAsleep, Asking
<1>3. ASSUME said = "no" PROVE \E items, end : Undoes(items, end)
  BY <1>3 DEF HearAsleep
<1>4. ASSUME said \in {"yes", "kept"}
      PROVE  IF Late(ins, among) THEN \E items, end : Undoes(items, end) ELSE NextOr("asking", "disarming")
  BY <1>4 DEF HearAsleep
<1>5. said # "lost" => said = client.answer
  BY DEF HearAsleep, Hears
<1> QED BY <1>1, <1>2, <1>3, <1>4, <1>5

LEMMA ReadyHears ==
    ASSUME TypeOK, AskedReady, NEW said \in Heard, HearAsleep(said)
    PROVE  AskedReady'
<1> DEFINE i == client.i
           ins == [firesIn EXCEPT ![i] = IF said = "yes" THEN AsSaidWhenAsked ELSE @]
           among == IF said = "yes" THEN timed \cup {i} ELSE timed
<1>1. /\ dev \in [Device -> DevState] /\ client \in ClientState /\ firesIn \in Times /\ timed \subseteq Device
      /\ i \in Device /\ Asking /\ UNCHANGED dev
  BY DEF HearAsleep, TypeOK, DevState, ClientState, Times
<1> SUFFICES ASSUME Asking' PROVE AskedReady'
  BY DEF AskedReady
<1>2. firesIn' = ins /\ timed' = among
  BY DEF HearAsleep
<1>3. \A d \in Device : d # i => firesIn'[d] = firesIn[d] /\ (d \in timed => d \in timed')
  BY <1>1, <1>2 DEF Times
<1>4. CASE said = "lost"
  <2>1. /\ client'.at = "asking again" /\ client'.i = i /\ client'.answer = "none"
    <3>1. client' = [client EXCEPT !.at = "asking again", !.answer = "none"]
      BY <1>1, <1>4, HeardAsleep DEF Asking
    <3> QED BY <1>1, <3>1 DEF ClientState
  <2>2. \A d \in Device : d < i => d # i
    BY <1>1 DEF Device
  <2> QED BY <1>1, <1>3, <2>1, <2>2 DEF AskedReady
<1>5. CASE said = "no"
  <2>1. client'.at = "undoing"
    BY <1>5, HeardAsleep
  <2> QED BY <2>1 DEF Asking
<1>6. CASE said \in {"yes", "kept"}
  <2>1. NextOr("asking", "disarming") /\ said = client.answer
    <3>1. client'.at # "undoing"
      BY DEF Asking
    <3> QED BY <1>6, <3>1, HeardAsleep
  <2>2. client' = From("asking", i + 1)
    <3>1. client' = From("asking", i + 1) \/ client' = From("disarming", 1)
      BY <2>1 DEF NextOr, Goes
    <3>2. client'.at # "disarming"
      BY DEF Asking
    <3> QED BY <3>1, <3>2 DEF From
  <2>3. client'.at = "asking" /\ client'.i = i + 1 /\ client'.answer = "none"
    BY <2>2 DEF From
  <2>4. ASSUME NEW d \in Device, d < i + 1
        PROVE  dev[d].wd = "dead" \/ (d \in timed' /\ (dev[d].wd = "asleep" \/ firesIn'[d] = 0))
    <3>1. CASE d # i
      <4>1. d < i
        BY <1>1, <2>4, <3>1 DEF Device
      <4> QED BY <1>1, <1>3, <3>1, <4>1 DEF AskedReady
    <3>2. CASE d = i /\ said = "kept"
      BY <1>1, <2>1, <3>2 DEF AskedReady
    <3>3. CASE d = i /\ said = "yes"
      <4>1. dev[i].wd \in {"asleep", "dead"} \/ client.took >= client.seconds
        BY <1>1, <2>1, <3>3 DEF AskedReady
      <4>2. i \in timed' /\ firesIn'[i] = AsSaidWhenAsked
        BY <1>1, <1>2, <3>3 DEF Times
      <4>3. client.took >= client.seconds => AsSaidWhenAsked = 0
        <5>1. client.took \in Nat /\ client.seconds \in Nat
          <6>1. client.took \in 0..Window /\ client.seconds \in 0..Window
            BY <1>1 DEF ClientState
          <6> QED BY <6>1, Sizes
        <5> QED BY <5>1 DEF AsSaidWhenAsked, Less
      <4> QED BY <3>3, <4>1, <4>2, <4>3
    <3> QED BY <1>6, <3>1, <3>2, <3>3
  <2> QED BY <1>1, <2>3, <2>4 DEF AskedReady
<1> QED BY <1>4, <1>5, <1>6 DEF Heard

\* Where the run agrees, all are open still.
LEMMA AgreeReady ==
    ASSUME TypeOK, AskedReady, NEW said \in Heard, HearAsleep(said), client'.at = "disarming"
    PROVE  \A d \in Device : dev[d].wd \in {"asleep", "dead"}
<1> DEFINE i == client.i
           ins == [firesIn EXCEPT ![i] = IF said = "yes" THEN AsSaidWhenAsked ELSE @]
           among == IF said = "yes" THEN timed \cup {i} ELSE timed
<1>1. client \in ClientState /\ firesIn \in Times /\ timed \subseteq Device /\ i \in Device /\ Asking /\ Margin >= 1
  <2>1. Margin \in Nat \ {0}
    BY SizesAssumption DEF SizesAssumption
  <2>2. /\ client \in ClientState /\ firesIn \in Times /\ timed \subseteq Device /\ i \in Device /\ Asking
    BY DEF HearAsleep, TypeOK, ClientState, Times
  <2> QED BY <2>1, <2>2
<1>2. said \in {"yes", "kept"} /\ said = client.answer /\ ~Late(ins, among) /\ NextOr("asking", "disarming")
  <2>1. client'.at # "undoing" /\ client'.at # "asking again"
    OBVIOUS
  <2>2. said # "lost"
    <3>1. said = "lost" => client'.at \in {"asking again", "undoing"}
      BY <1>1, HeardAsleep DEF ClientState
    <3> QED BY <2>1, <3>1
  <2> QED BY <2>1, <2>2, HeardAsleep DEF Heard
<1>3. i = N
  <2>1. client' = IF i < N THEN From("asking", i + 1) ELSE From("disarming", 1)
    BY <1>2 DEF NextOr, Goes
  <2>2. ~(i < N)
    BY <2>1 DEF From
  <2> QED BY <1>1, <2>2, Sizes DEF Device
<1> SUFFICES ASSUME NEW d \in Device PROVE dev[d].wd \in {"asleep", "dead"}
  OBVIOUS
<1>4. d \in among => ins[d] # 0
  BY <1>1, <1>2, Sizes DEF Late
<1>5. CASE d = i
  <2>1. CASE said = "kept"
    BY <1>1, <1>2, <1>5, <2>1 DEF AskedReady
  <2>2. CASE said = "yes"
    <3>1. dev[i].wd \in {"asleep", "dead"} \/ client.took >= client.seconds
      BY <1>1, <1>2, <2>2 DEF AskedReady
    <3>2. AsSaidWhenAsked # 0
      BY <1>1, <1>4, <1>5, <2>2 DEF Times
    <3>3. client.took >= client.seconds => AsSaidWhenAsked = 0
      <4>1. client.took \in Nat /\ client.seconds \in Nat
        <5>1. client.took \in 0..Window /\ client.seconds \in 0..Window
          BY <1>1 DEF ClientState
        <5> QED BY <5>1, Sizes
      <4> QED BY <4>1 DEF AsSaidWhenAsked, Less
    <3> QED BY <1>5, <3>1, <3>2, <3>3
  <2> QED BY <1>2, <2>1, <2>2
<1>6. CASE d # i
  <2>1. d < i
    BY <1>1, <1>3, <1>6, Sizes DEF Device
  <2>2. dev[d].wd = "dead" \/ (d \in timed /\ (dev[d].wd = "asleep" \/ firesIn[d] = 0))
    BY <1>1, <2>1 DEF AskedReady
  <2>3. d \in timed => firesIn[d] # 0
    BY <1>1, <1>4, <1>6 DEF Times
  <2> QED BY <2>2, <2>3
<1> QED BY <1>5, <1>6

\* What an item of the undoing becomes: never one that stands down what it did
\* not, nor one that drops what it only released.
LEMMA UndoingSteps ==
    ASSUME TypeOK, NEW said \in Heard,
           \/ HearWoken(said) \/ HearReleased(said) \/ HearRecovered(said) \/ HearDropped(said)
           \/ Waits \/ StopsAsking
    PROVE  /\ Doing \in Undoing /\ UNCHANGED <<dev, hard, kept, firesIn, timed, past, verdict>> /\ client' = From("undoing", client.i)
           /\ \/ \E how \in Undoing \ StandDown : Becomes(how) /\ (Doing \in {"recover", "wait"} => how = "recover")
              \/ \E how \in StandDown \ Drop : Becomes(how) /\ Doing \in StandDown \ Drop
              \/ \E how \in Drop : Becomes(how) /\ Doing \in Drop
              \/ \E word : Ends(word)
              \/ Doing \in Drop /\ todo' = Tail(todo) \o <<Item(Called, "wait")>>
<1>1. Doing \in Undoing /\ UNCHANGED <<dev, hard, kept, firesIn, timed, past>>
  BY DEF HearWoken, HearReleased, HearRecovered, HearDropped, Waits, StopsAsking, OthersThanUndoing, run, Undoing
<1>2. /\ {"recover", "wake", "wait", "recover untouched", "wait untouched"} \subseteq Undoing \ StandDown
      /\ "release again" \in StandDown \ Drop /\ {"discard again", "discard stray again"} \subseteq Drop
  BY DEF Undoing, StandDown, Drop
<1> DEFINE Turn == \/ \E how \in Undoing \ StandDown : Becomes(how) /\ (Doing \in {"recover", "wait"} => how = "recover")
                   \/ \E how \in StandDown \ Drop : Becomes(how) /\ Doing \in StandDown \ Drop
                   \/ \E how \in Drop : Becomes(how) /\ Doing \in Drop
                   \/ \E word : Ends(word)
                   \/ /\ Doing \in Drop /\ todo' = Tail(todo) \o <<Item(Called, "wait")>>
                      /\ client' = From("undoing", client.i) /\ UNCHANGED verdict
<1>3. ASSUME HearWoken(said) PROVE Turn
  <2>1. (Becomes("recover") \/ Becomes("wake") \/ Becomes("wait")) /\ Doing \in {"wake over session", "wake"}
    BY <1>3 DEF HearWoken
  <2> QED BY <1>2, <2>1
<1>4. ASSUME HearReleased(said) PROVE Turn
  <2>1. Ends("untouched") \/ Becomes("recover untouched") \/ Becomes("release again") \/ Becomes("wait untouched")
    BY <1>4 DEF HearReleased, Heard
  <2>2. Doing \in StandDown \ Drop
    BY <1>4 DEF HearReleased, StandDown, Drop
  <2>3. Doing \notin {"recover", "wait"}
    BY <2>2 DEF StandDown
  <2> QED BY <1>2, <2>1, <2>2, <2>3
<1>5. ASSUME HearRecovered(said) PROVE Turn
  <2>1. Ends("rolled back") \/ Ends("untouched") \/ (Becomes(Doing) /\ Doing \in {"recover", "recover untouched"})
    BY <1>5 DEF HearRecovered
  <2> QED BY <1>2, <2>1
<1>6. ASSUME HearDropped(said) PROVE Turn
  <2>1. \/ Ends("nothing") \/ Becomes("discard again") \/ Becomes("discard stray again")
        \/ client' = From("undoing", client.i) /\ todo' = Tail(todo) \o <<Item(Called, "wait")>> /\ UNCHANGED verdict
    BY <1>6 DEF HearDropped, Heard
  <2>2. Doing \in Drop
    BY <1>6 DEF HearDropped, Drop
  <2> QED BY <1>2, <2>1, <2>2
<1>7. ASSUME Waits PROVE Turn
  <2>1. \/ Doing = "wait" /\ Becomes("recover")
        \/ Doing = "wait untouched" /\ Becomes("recover untouched")
    BY <1>7 DEF Waits
  <2> QED BY <1>2, <2>1
<1>8. ASSUME StopsAsking PROVE Turn
  BY <1>8 DEF StopsAsking
<1>9. Turn
  <2> HIDE DEF Turn
  <2> QED BY <1>3, <1>4, <1>5, <1>6, <1>7, <1>8
<1>10. client' = From("undoing", client.i) /\ UNCHANGED verdict
  BY <1>9 DEF Becomes, Ends
<1> QED BY <1>1, <1>9, <1>10

LEMMA StepReady ==
    ASSUME TypeOK, CountInv, AskedReady, [Next]_vars
    PROVE  AskedReady'
<1>1. ASSUME NEW e \in Device, Fires(e) \/ Restores(e) \/ GivesUp(e) \/ Killed(e) PROVE AskedReady'
  BY <1>1, ReadyDevice
<1>2. ASSUME client'.at \notin {"asking", "asking again"} PROVE AskedReady'
  BY <1>2 DEF AskedReady, Asking
<1>3. ASSUME NEW items, NEW end, Undoes(items, end) PROVE AskedReady'
  BY <1>2, <1>3 DEF Undoes, From
<1>4. ASSUME NEW at \in Phase \ {"asking", "asking again"}, NEW i, client' = From(at, i) PROVE AskedReady'
  BY <1>2, <1>4 DEF From
<1>5. ASSUME NEW said \in Heard, HearFinished(said) PROVE AskedReady'
  <2>1. CASE NextOr("confirming", "asking")
    <3>1. client' = From("confirming", client.i + 1) \/ client' = From("asking", 1)
      BY <2>1 DEF NextOr, Goes
    <3>2. ASSUME client' = From("asking", 1) PROVE AskedReady'
      <4>1. client'.i = 1 /\ client'.answer = "none"
        BY <3>2 DEF From
      <4>2. \A d \in Device : ~(d < 1)
        BY DEF Device
      <4> QED BY <4>1, <4>2 DEF AskedReady
    <3> QED BY <1>4, <3>1, <3>2 DEF Phase
  <2> QED BY <1>3, <1>5, <2>1 DEF HearFinished
<1>6. ASSUME NEW changed, FailsConfiguring(changed) PROVE AskedReady'
  BY <1>3, <1>6 DEF FailsConfiguring
<1>7. ASSUME NEW said \in Heard, HearArm(said) \/ HearConfigured(said) \/ HearCommitted(said) \/ HearDisarmed(said)
      PROVE  AskedReady'
  <2>1. CASE HearArm(said)
    BY <1>3, <1>4, <2>1 DEF HearArm, NextOr, Goes, Phase
  <2>2. CASE HearConfigured(said)
    BY <1>4, <1>6, <2>2 DEF HearConfigured, Goes, Phase
  <2>3. CASE HearCommitted(said)
    BY <1>4, <1>6, <2>3 DEF HearCommitted, NextOr, Goes, Phase
  <2>4. CASE HearDisarmed(said)
    BY <1>4, <2>4 DEF HearDisarmed, Phase
  <2> QED BY <1>7, <2>1, <2>2, <2>3, <2>4
<1>8. ASSUME NEW said \in Heard,
             \/ HearWoken(said) \/ HearReleased(said) \/ HearRecovered(said) \/ HearDropped(said)
             \/ Waits \/ StopsAsking
      PROVE  AskedReady'
  BY <1>4, <1>8, UndoingSteps DEF Phase
<1>9. CASE RunHears
  BY <1>5, <1>7, <1>8, <1>9, ReadyHears DEF RunHears
<1>10. CASE RunGoesOn
  BY <1>3, <1>4, <1>8, <1>10 DEF RunGoesOn, Stages, Goes, Confirmless, Concludes, Phase, Heard
<1>11. CASE Unreached \/ Dies
  BY <1>4, <1>6, <1>11 DEF Unreached, Dies, Phase
<1>12. CASE UNCHANGED vars
  BY <1>12 DEF vars, run, AskedReady, Asking
<1> QED BY <1>1, <1>9, <1>10, <1>11, <1>12, ReadyCall, ReadyTick DEF Next

-----------------------------------------------------------------------------
(* What is left to undo, and what the verdict rests on. *)

Ground == AgreedWaits /\ DropsApart /\ VerdictHasGround

\* The run is where it was.
LEMMA GroundStill ==
    ASSUME TypeOK, Ground, UNCHANGED <<todo, kept, verdict>>, past'.agreed = past.agreed,
           client'.at = client.at, client'.i = client.i,
           \A d \in Device : dev'[d].wd = "disarmed" => dev[d].wd = "disarmed"
    PROVE  Ground'
<1>1. AgreedWaits' /\ VerdictHasGround'
  BY DEF Ground, AgreedWaits, VerdictHasGround
<1>2. PICK S \in SUBSET Device : Apart(S)
  BY DEF Ground, DropsApart
<1>3. Apart(S)'
  BY <1>2 DEF Apart, SplitItem
<1> QED BY <1>1, <1>2, <1>3 DEF Ground, DropsApart

LEMMA GroundDevice ==
    ASSUME TypeOK, Ground, NEW e \in Device, Fires(e) \/ Restores(e) \/ GivesUp(e) \/ Killed(e)
    PROVE  Ground'
<1>1. /\ \A d \in Device : dev'[d].wd = "disarmed" => dev[d].wd = "disarmed"
      /\ UNCHANGED <<todo, kept, client, verdict>> /\ past'.agreed = past.agreed
  <2>1. dev \in [Device -> DevState]
    BY DEF TypeOK, DevState
  <2>2. UNCHANGED <<todo, kept, client, verdict>> /\ past'.agreed = past.agreed
    BY DevicePast DEF Fires, Restores, GivesUp, Killed, run
  <2>3. CASE Restores(e)
    BY <2>2, <2>3, RestoreStep
  <2> QED BY <2>1, <2>2, <2>3 DEF Fires, GivesUp, Killed, Turns, DevState
<1> QED BY <1>1, GroundStill

LEMMA GroundTick ==
    ASSUME TypeOK, Ground, Tick
    PROVE  Ground'
<1>1. dev \in [Device -> DevState] /\ client \in ClientState /\ past \in PastState
  BY DEF TypeOK, DevState, ClientState, PastState
<1>2. \A d \in Device : dev'[d].wd = dev[d].wd
  BY <1>1 DEF Tick, DevState
<1>3. client'.at = client.at /\ client'.i = client.i /\ past'.agreed = past.agreed /\ UNCHANGED <<todo, kept, verdict>>
  BY <1>1 DEF Tick, ClientState, PastState
<1> QED BY <1>2, <1>3, GroundStill

\* A release is of a device that is not to be dropped.
LEMMA ReleasesOthers ==
    ASSUME TypeOK, NEW S \in SUBSET Device, Apart(S), Doing \in Undoing
    PROVE  /\ Doing \in StandDown \ Drop => Called \notin S
           /\ Doing \in Drop => Called \in S
<1>1. client.at = "undoing" /\ todo # <<>>
  BY DoingOK
<1>2. Head(todo) \in SplitItem(S)
  BY <1>1 DEF Apart
<1>3. Doing = Head(todo).how /\ Called = Head(todo).device
  BY <1>1 DEF Doing, Called
<1> QED BY <1>2, <1>3 DEF SplitItem, StandDown, Drop

LEMMA GroundCall ==
    ASSUME TypeOK, HoldInv, Ground, DeviceDoes
    PROVE  Ground'
<1>1. dev \in [Device -> DevState] /\ past \in PastState
  BY DEF TypeOK, DevState, PastState
<1>2. client'.at = client.at /\ client'.i = client.i /\ UNCHANGED <<todo, kept, verdict>>
  <2>1. UNCHANGED <<todo, kept, verdict>>
    BY DEF DeviceDoes, Arms, Configures, Commits, TellsFinished, TellsAsleep, Disarms, Wakes, TellsRecovered, Drops,
           OthersThanDevice, run
  <2> QED BY <2>1, AnswersNow
<1>3. past'.agreed = past.agreed
  <2>1. CASE Configures
    <3>1. past' = past \/ past' = [past EXCEPT !.unrestored = @ \cup {client.i}]
      BY <2>1 DEF Configures
    <3> QED BY <1>1, <3>1 DEF PastState
  <2> QED BY <2>1 DEF DeviceDoes, Arms, Commits, TellsFinished, TellsAsleep, Disarms, Wakes, TellsRecovered, Drops
<1>4. CASE Disarms
  <2>1. UNCHANGED dev \/ dev' = Turns(Called, "disarmed")
    BY <1>4 DEF Disarms
  <2>2. AgreedWaits' /\ VerdictHasGround'
    BY <1>2, <1>3 DEF Ground, AgreedWaits, VerdictHasGround
  <2>3. \E S \in SUBSET Device : Apart(S)'
    <3>1. CASE Doing \in Disarming
      <4>1. client.at \in Disarming
        BY <1>4, <3>1, CalledIn DEF Disarms, Asked, Disarming, Phase
      <4>2. todo' \in Seq(Later)
        BY <1>2, <4>1 DEF HoldInv, OnlyWaits
      <4>3. Later \subseteq SplitItem({})
        BY DEF Later, SplitItem, Undoing, StandDown
      <4>4. todo' \in Seq(SplitItem({}))
        BY <4>2, <4>3, SeqOfMore
      <4>5. Apart({})'
        BY <4>4 DEF Apart, SplitItem
      <4> QED BY <4>5
    <3>2. CASE Doing \in StandDown \ Drop
      <4>1. PICK S \in SUBSET Device : Apart(S)
        BY DEF Ground, DropsApart
      <4>2. Called \notin S
        BY <3>2, <4>1, ReleasesOthers DEF StandDown, Undoing
      <4>3. \A d \in S : dev'[d].wd = dev[d].wd
        BY <1>1, <2>1, <4>1, <4>2 DEF Turns
      <4> QED BY <1>2, <4>1, <4>3 DEF Apart, SplitItem
    <3> QED BY <1>4, <3>1, <3>2 DEF Disarms, Asked, Disarming, StandDown, Drop
  <2> QED BY <2>2, <2>3 DEF Ground, DropsApart
<1>5. CASE Arms \/ Configures \/ Commits \/ TellsFinished \/ TellsAsleep \/ Wakes \/ TellsRecovered \/ Drops
  <2>1. \A d \in Device : dev'[d].wd = "disarmed" => dev[d].wd = "disarmed"
    <3>1. CASE UNCHANGED dev
      BY <3>1
    <3>2. CASE Arms
      <4>1. PICK wd \in {"asleep", "none"} : \E sleeps : dev' = [dev EXCEPT ![client.i].wd = wd, ![client.i].sleeps = sleeps]
        BY <3>2 DEF Arms
      <4> QED BY <1>1, <4>1 DEF DevState
    <3>3. CASE Configures \/ Commits
      <4>1. \/ \E change : dev' = [dev EXCEPT ![client.i].change = change]
            \/ \E change : dev' = [dev EXCEPT ![client.i].change = change, ![client.i].marker = TRUE]
            \/ dev' = [dev EXCEPT ![client.i].change = @, ![client.i].marker = TRUE]
        BY <3>3 DEF Configures, Commits
      <4>2. ASSUME NEW change, dev' = [dev EXCEPT ![client.i].change = change]
            PROVE  \A d \in Device : dev'[d].wd = dev[d].wd
        BY <1>1, <4>2 DEF DevState
      <4>3. ASSUME NEW change, dev' = [dev EXCEPT ![client.i].change = change, ![client.i].marker = TRUE]
            PROVE  \A d \in Device : dev'[d].wd = dev[d].wd
        BY <1>1, <4>3 DEF DevState
      <4>4. ASSUME dev' = [dev EXCEPT ![client.i].change = @, ![client.i].marker = TRUE]
            PROVE  \A d \in Device : dev'[d].wd = dev[d].wd
        BY <1>1, <4>4 DEF DevState
      <4> QED BY <4>1, <4>2, <4>3, <4>4
    <3>4. CASE Wakes \/ Drops
      <4>1. UNCHANGED dev \/ dev' = Turns(Called, "restoring") \/ dev' = Turns(Called, "none")
        BY <3>4 DEF Wakes, Drops
      <4> QED BY <1>1, <4>1 DEF Turns, DevState
    <3>5. CASE TellsRecovered
      <4>1. UNCHANGED dev \/ dev' = [dev EXCEPT ![Called].wd = "over"]
        BY <3>5 DEF TellsRecovered
      <4> QED BY <1>1, <4>1 DEF DevState
    <3> QED BY <1>5, <3>1, <3>2, <3>3, <3>4, <3>5 DEF TellsFinished, TellsAsleep
  <2> QED BY <1>2, <1>3, <2>1, GroundStill
<1> QED BY <1>4, <1>5 DEF DeviceDoes

-----------------------------------------------------------------------------
(* A run that fails, or goes on, before any is disarmed. *)

\* Where the run is before it undoes anything.
Forward == Committing \cup {"confirming", "asking", "asking again"}

LEMMA SplitUpward ==
    ASSUME NEW S \in SUBSET Device, NEW from \in Nat, NEW to \in Nat, from >= 1, to <= N, from <= to + 1, NEW how,
           \A d \in Device : d >= from /\ d <= to => Item(d, how) \in SplitItem(S)
    PROVE  Upward(from, to, how) \in Seq(SplitItem(S))
<1>1. to + 1 - from \in Nat
  OBVIOUS
<1>2. ASSUME NEW k \in 1..(to + 1 - from) PROVE Item(from + k - 1, how) \in SplitItem(S)
  <2>1. from + k - 1 \in Device /\ from + k - 1 >= from /\ from + k - 1 <= to
    BY <1>2, Sizes DEF Device
  <2> QED BY <2>1
<1>3. Upward(from, to, how) \in [1..(to + 1 - from) -> SplitItem(S)]
  BY <1>2 DEF Upward
<1> QED BY <1>1, <1>3

LEMMA SplitDownward ==
    ASSUME NEW S \in SUBSET Device, NEW from \in Nat, NEW to \in Nat, to >= 1, from <= N, to <= from + 1,
           NEW how \in Undoing \ StandDown
    PROVE  Downward(from, to, how) \in Seq(SplitItem(S))
<1>1. from + 1 - to \in Nat
  OBVIOUS
<1>2. ASSUME NEW k \in 1..(from + 1 - to) PROVE Item(from + 1 - k, how) \in SplitItem(S)
  <2>1. from + 1 - k \in Device
    BY <1>2, Sizes DEF Device
  <2> QED BY <2>1 DEF Item, SplitItem
<1>3. Downward(from, to, how) \in [1..(from + 1 - to) -> SplitItem(S)]
  BY <1>2 DEF Downward
<1> QED BY <1>1, <1>3

LEMMA OneOf == ASSUME NEW S, NEW x \in S PROVE <<x>> \in Seq(S)
OBVIOUS

LEMMA SplitConcat ==
    ASSUME NEW S \in SUBSET Device, NEW s \in Seq(SplitItem(S)), NEW t \in Seq(SplitItem(S))
    PROVE  s \o t \in Seq(SplitItem(S))
OBVIOUS

\* The items of each failure, at device i: none is dropped by one that wakes.
LEMMA SplitWakes ==
    ASSUME NEW i \in Device, NEW how \in Undoing \ StandDown
    PROVE  /\ Downward(i, 1, how) \in Seq(SplitItem({})) /\ Downward(i - 1, 1, how) \in Seq(SplitItem({}))
           /\ Downward(N, i, how) \in Seq(SplitItem({})) /\ Downward(N, i + 1, how) \in Seq(SplitItem({}))
           /\ Downward(N, 1, how) \in Seq(SplitItem({}))
           /\ <<Item(i, how)>> \in Seq(SplitItem({}))
<1>1. /\ 1 \in Nat /\ i \in Nat /\ N \in Nat /\ i - 1 \in Nat /\ i + 1 \in Nat
      /\ i >= 1 /\ i <= N /\ N >= 1
  BY Sizes DEF Device
<1>2. i - 1 <= N /\ 1 <= (i - 1) + 1 /\ 1 <= i + 1 /\ i <= N + 1 /\ i + 1 >= 1 /\ i + 1 <= N + 1 /\ 1 <= N + 1
  BY <1>1
<1>3. Item(i, how) \in SplitItem({})
  BY DEF Item, SplitItem
<1> HIDE DEF Device
<1> QED BY <1>1, <1>2, <1>3, SplitDownward

LEMMA SplitReleases ==
    ASSUME NEW i \in Device
    PROVE  /\ Upward(i, N, "release") \in Seq(SplitItem({})) /\ Upward(i + 1, N, "release") \in Seq(SplitItem({}))
<1>1. /\ i \in Nat /\ N \in Nat /\ i + 1 \in Nat /\ i >= 1 /\ i <= N /\ i <= N + 1 /\ i + 1 <= N + 1 /\ N <= N /\ i + 1 >= 1
  BY Sizes DEF Device
<1>2. \A d \in Device : Item(d, "release") \in SplitItem({})
  BY DEF Item, SplitItem, StandDown, Drop
<1> QED BY <1>1, <1>2, SplitUpward

\* Before any is disarmed nothing is agreed, kept, said or left to undo.
LEMMA NothingYet ==
    ASSUME TypeOK, HoldInv, WayInv, Ground, client.at \in Forward
    PROVE  ~past.agreed /\ kept = {} /\ verdict = "nothing" /\ todo = <<>>
BY DEF HoldInv, OnlyWaits, WayInv, AgreedInTurn, Ground, VerdictHasGround, Forward, Committing, Disarming

\* One fails: none of those it drops is disarmed.
LEMMA GroundUndoes ==
    ASSUME TypeOK, HoldInv, WayInv, Ground, client.at \in Forward, UNCHANGED <<dev, kept>>, past'.agreed = FALSE,
           NEW S \in SUBSET Device, NEW items \in Seq(SplitItem(S)), S = {} \/ client.at \in Committing,
           NEW end \in {"failed", "rolled-back"}, Undoes(items, end)
    PROVE  Ground'
<1>1. client'.at = "undoing" /\ todo' = items /\ verdict' = end
  BY DEF Undoes, From
<1>2. AgreedWaits' /\ VerdictHasGround'
  BY <1>1 DEF AgreedWaits, VerdictHasGround, Disarming
<1>3. \A d \in S : dev'[d].wd # "disarmed"
  BY DEF HoldInv, DisarmedInTurn
<1>4. Apart(S)'
  BY <1>1, <1>3 DEF Apart, SplitItem
<1> QED BY <1>2, <1>4 DEF Ground, DropsApart

\* One that wakes or waits, and drops none.
LEMMA GroundWakes ==
    ASSUME TypeOK, HoldInv, WayInv, Ground, client.at \in Forward, UNCHANGED <<dev, kept>>, past'.agreed = FALSE,
           NEW items \in Seq(SplitItem({})), Undoes(items, "rolled-back")
    PROVE  Ground'
BY GroundUndoes

LEMMA NothingSplit == ASSUME NEW S \in SUBSET Device PROVE <<>> \in Seq(SplitItem(S))
BY DEF SplitItem

\* On to the next device or phase.
LEMMA GroundGoes ==
    ASSUME TypeOK, HoldInv, WayInv, Ground, client.at \in Forward, UNCHANGED <<dev, kept, todo, verdict>>,
           client'.at \in Forward \/ (client'.at = "disarming" /\ client'.i = 1)
    PROVE  Ground'
<1>1. kept = {} /\ verdict = "nothing" /\ todo = <<>>
  BY NothingYet
<1>2. AgreedWaits'
  BY <1>1, NothingLater DEF AgreedWaits
<1>3. VerdictHasGround'
  <2>1. client'.at \in Disarming => client'.i = 1
    BY DEF Forward, Committing, Disarming
  <2>2. \A d \in Device : ~(d < 1)
    BY DEF Device
  <2> QED BY <1>1, <2>1, <2>2 DEF VerdictHasGround, Forward, Committing
<1>4. Apart({})'
  BY <1>1, NothingSplit DEF Apart, SplitItem
<1> QED BY <1>2, <1>3, <1>4 DEF Ground, DropsApart

LEMMA GroundFails ==
    ASSUME TypeOK, HoldInv, WayInv, Ground, client.at \in {"configuring", "committing"}, UNCHANGED <<dev, kept, past>>,
           NEW changed \in BOOLEAN, FailsConfiguring(changed)
    PROVE  Ground'
<1> DEFINE i == client.i
<1>1. i \in Device /\ client.at \in Forward /\ "wake" \in Undoing \ StandDown
  BY DEF TypeOK, Forward, Committing, Undoing, StandDown
<1>2. past'.agreed = FALSE
  <2>1. past' \in PastState /\ ~past'.agreed
    BY <1>1, NothingYet DEF TypeOK, PastState
  <2> QED BY <2>1 DEF PastState
<1>3. /\ Downward(i, 1, "wake") \o Upward(i + 1, N, "release") \in Seq(SplitItem({}))
      /\ Downward(i - 1, 1, "wake") \o Upward(i, N, "release") \in Seq(SplitItem({}))
  BY <1>1, SplitWakes, SplitReleases, SplitConcat
<1>4. PICK end \in {"failed", "rolled-back"} :
         \/ Undoes(Downward(i, 1, "wake") \o Upward(i + 1, N, "release"), end)
         \/ Undoes(Downward(i - 1, 1, "wake") \o Upward(i, N, "release"), end)
  BY DEF FailsConfiguring
<1> QED BY <1>1, <1>2, <1>3, <1>4, GroundUndoes

LEMMA GroundStages ==
    ASSUME TypeOK, HoldInv, WayInv, Ground, Stages
    PROVE  Ground'
<1>1. client.at = "staging" /\ UNCHANGED <<dev, kept, past>> /\ client.at \in Forward /\ client.at \in Committing
  BY DEF Stages, run, Forward, Committing
<1>2. past'.agreed = FALSE
  <2>1. past' \in PastState /\ ~past'.agreed
    BY <1>1, NothingYet DEF TypeOK, PastState
  <2> QED BY <2>1 DEF PastState
<1>3. CASE Goes("arming", 1)
  BY <1>1, <1>3, GroundGoes DEF Goes, From, Forward, Committing
<1>4. CASE \E i \in Device : Undoes(Upward(1, i, "discard"), "failed")
  <2>1. PICK i \in Device : Undoes(Upward(1, i, "discard"), "failed")
    BY <1>4
  <2>2. \A d \in Device : Item(d, "discard") \in SplitItem(Device)
    BY DEF Item, SplitItem, Drop
  <2>3. 1 \in Nat /\ i \in Nat /\ 1 >= 1 /\ i <= N /\ 1 <= i + 1
    BY Sizes DEF Device
  <2>4. Upward(1, i, "discard") \in Seq(SplitItem(Device))
    BY <2>2, <2>3, SplitUpward
  <2> QED BY <1>1, <1>2, <2>1, <2>4, GroundUndoes
<1> QED BY <1>3, <1>4 DEF Stages

LEMMA GroundHearArm ==
    ASSUME TypeOK, HoldInv, WayInv, Ground, NEW said \in Heard, HearArm(said)
    PROVE  Ground'
<1> DEFINE i == client.i
           S == {d \in Device : d >= i}
<1>1. client.at = "arming" /\ UNCHANGED <<dev, kept, past>> /\ i \in Device /\ client.at \in Forward /\ client.at \in Committing
  BY DEF HearArm, TypeOK, Forward, Committing
<1>2. past'.agreed = FALSE
  <2>1. past' \in PastState /\ ~past'.agreed
    BY <1>1, NothingYet DEF TypeOK, PastState
  <2> QED BY <2>1 DEF PastState
<1>3. CASE NextOr("arming", "configuring")
  <2>1. client'.at \in {"arming", "configuring"} /\ UNCHANGED <<todo, verdict>>
    BY <1>3 DEF NextOr, Goes, From
  <2> QED BY <1>1, <2>1, GroundGoes DEF Forward, Committing
<1>4. CASE Undoes(Upward(1, i - 1, "release") \o <<Item(i, "discard stray")>> \o Upward(i + 1, N, "discard"), "failed")
  <2>1. /\ 1 \in Nat /\ i \in Nat /\ N \in Nat /\ i - 1 \in Nat /\ i + 1 \in Nat /\ 1 >= 1 /\ i - 1 <= N
        /\ 1 <= (i - 1) + 1 /\ i + 1 >= 1 /\ N <= N /\ i + 1 <= N + 1
    BY <1>1, Sizes DEF Device
  <2>2. ASSUME NEW d \in Device, d >= 1 /\ d <= i - 1 PROVE Item(d, "release") \in SplitItem(S)
    <3>1. d \notin S
      BY <1>1, <2>2 DEF Device
    <3> HIDE DEF S
    <3> QED BY <3>1 DEF Item, SplitItem, StandDown, Drop
  <2>3. ASSUME NEW d \in Device, d >= i + 1 /\ d <= N PROVE Item(d, "discard") \in SplitItem(S)
    <3>1. d \in S
      BY <1>1, <2>3 DEF Device
    <3> HIDE DEF S
    <3> QED BY <3>1 DEF Item, SplitItem, Drop
  <2>4. Item(i, "discard stray") \in SplitItem(S)
    <3>1. i \in S
      BY <1>1 DEF Device
    <3> HIDE DEF S
    <3> QED BY <3>1 DEF Item, SplitItem, Drop
  <2>5. S \in SUBSET Device
    OBVIOUS
  <2> HIDE DEF S, Device
  <2>6. Upward(1, i - 1, "release") \in Seq(SplitItem(S))
    BY <2>1, <2>2, <2>5, SplitUpward
  <2>7. Upward(i + 1, N, "discard") \in Seq(SplitItem(S))
    BY <2>1, <2>3, <2>5, SplitUpward
  <2>8. <<Item(i, "discard stray")>> \in Seq(SplitItem(S))
    BY <2>4, OneOf
  <2>9. Upward(1, i - 1, "release") \o <<Item(i, "discard stray")>> \o Upward(i + 1, N, "discard") \in Seq(SplitItem(S))
    BY <2>5, <2>6, <2>7, <2>8, SplitConcat
  <2> QED BY <1>1, <1>2, <1>4, <2>5, <2>9, GroundUndoes
<1> QED BY <1>3, <1>4 DEF HearArm

LEMMA GroundHearChanged ==
    ASSUME TypeOK, HoldInv, WayInv, Ground, NEW said \in Heard,
           HearConfigured(said) \/ HearCommitted(said) \/ Unreached
    PROVE  Ground'
<1>1. client.at \in {"configuring", "committing"} /\ UNCHANGED <<dev, kept, past>> /\ client.at \in Forward
  BY DEF HearConfigured, HearCommitted, Unreached, run, Forward, Committing
<1>2. \/ Goes("committing", client.i) \/ NextOr("configuring", "confirming")
      \/ \E changed \in BOOLEAN : FailsConfiguring(changed)
  BY DEF HearConfigured, HearCommitted, Unreached, LeftArmed
<1>3. CASE Goes("committing", client.i) \/ NextOr("configuring", "confirming")
  <2>1. client'.at \in {"committing", "configuring", "confirming"} /\ UNCHANGED <<todo, verdict>>
    BY <1>3 DEF NextOr, Goes, From
  <2> QED BY <1>1, <2>1, GroundGoes DEF Forward, Committing
<1> QED BY <1>1, <1>2, <1>3, GroundFails

LEMMA GroundConfirms ==
    ASSUME TypeOK, HoldInv, WayInv, Ground, NEW said \in Heard, HearFinished(said) \/ Confirmless
    PROVE  Ground'
<1> DEFINE i == client.i
           others == Downward(i - 1, 1, "wake over session")
<1>1. client.at = "confirming" /\ UNCHANGED <<dev, kept, past>> /\ client.at \in Forward /\ i \in Device
  BY DEF HearFinished, Confirmless, run, Forward, TypeOK
<1>2. past'.agreed = FALSE
  <2>1. past' \in PastState /\ ~past'.agreed
    BY <1>1, NothingYet DEF TypeOK, PastState
  <2> QED BY <2>1 DEF PastState
<1>3. CASE NextOr("confirming", "asking")
  <2>1. client'.at \in {"confirming", "asking"} /\ UNCHANGED <<todo, verdict>>
    BY <1>3 DEF NextOr, Goes, From
  <2> QED BY <1>1, <2>1, GroundGoes DEF Forward
<1>4. {"wake", "wake over session", "wait"} \subseteq Undoing \ StandDown
  BY DEF Undoing, StandDown
<1>5. ASSUME NEW items, Undoes(items, "rolled-back"),
             \/ items = Downward(N, i, "wake") \o others
             \/ items = Downward(N, i + 1, "wake") \o others \o <<Item(i, "wait")>>
      PROVE  Ground'
  <2>1. /\ Downward(N, i, "wake") \in Seq(SplitItem({})) /\ Downward(N, i + 1, "wake") \in Seq(SplitItem({}))
        /\ others \in Seq(SplitItem({})) /\ <<Item(i, "wait")>> \in Seq(SplitItem({}))
    BY <1>1, <1>4, SplitWakes
  <2>2. items \in Seq(SplitItem({}))
    <3> HIDE DEF others, i
    <3> QED BY <1>5, <2>1, SplitConcat
  <2> QED BY <1>1, <1>2, <1>5, <2>2, GroundWakes
<1> QED BY <1>3, <1>5 DEF HearFinished, Confirmless

LEMMA GroundHearAsleep ==
    ASSUME TypeOK, HoldInv, WayInv, Ground, NEW said \in Heard, HearAsleep(said)
    PROVE  Ground'
<1> DEFINE i == client.i
           others == Downward(N, i + 1, "wake over session") \o Downward(i - 1, 1, "wake over session")
<1>1. client.at \in {"asking", "asking again"} /\ UNCHANGED <<dev, kept>> /\ client.at \in Forward /\ i \in Device
  BY DEF HearAsleep, Asking, Forward, TypeOK
<1>2. client'.at # "disarming" => past'.agreed = FALSE
  <2>1. past \in PastState /\ past' = [past EXCEPT !.agreed = client'.at = "disarming"]
    BY DEF HearAsleep, TypeOK, PastState
  <2> QED BY <2>1 DEF PastState
<1>3. \/ client' = [client EXCEPT !.at = "asking again", !.answer = "none"] /\ UNCHANGED <<todo, verdict>>
      \/ Undoes(others \o <<Item(i, "wait")>>, "rolled-back")
      \/ Undoes(others \o <<Item(i, "recover")>>, "rolled-back")
      \/ Undoes(Downward(N, 1, "wake over session"), "rolled-back")
      \/ NextOr("asking", "disarming")
  BY DEF HearAsleep, Heard, Asking
<1>4. CASE client' = [client EXCEPT !.at = "asking again", !.answer = "none"] /\ UNCHANGED <<todo, verdict>>
  <2>1. client'.at = "asking again"
    BY <1>4 DEF TypeOK
  <2> QED BY <1>1, <1>4, <2>1, GroundGoes DEF Forward
<1>5. CASE NextOr("asking", "disarming")
  <2>1. (client'.at = "asking" \/ (client'.at = "disarming" /\ client'.i = 1)) /\ UNCHANGED <<todo, verdict>>
    BY <1>5 DEF NextOr, Goes, From
  <2> QED BY <1>1, <2>1, GroundGoes DEF Forward
<1>6. ASSUME NEW items, Undoes(items, "rolled-back"),
             \/ items = others \o <<Item(i, "wait")>>
             \/ items = others \o <<Item(i, "recover")>>
             \/ items = Downward(N, 1, "wake over session")
      PROVE  Ground'
  <2>1. {"wake over session", "wait", "recover"} \subseteq Undoing \ StandDown
    BY DEF Undoing, StandDown
  <2>2. /\ others \in Seq(SplitItem({})) /\ Downward(N, 1, "wake over session") \in Seq(SplitItem({}))
        /\ <<Item(i, "wait")>> \in Seq(SplitItem({})) /\ <<Item(i, "recover")>> \in Seq(SplitItem({}))
    BY <1>1, <2>1, SplitWakes, SplitConcat
  <2>3. items \in Seq(SplitItem({}))
    <3> HIDE DEF others, i
    <3> QED BY <1>6, <2>2, SplitConcat
  <2>4. past'.agreed = FALSE
    BY <1>2, <1>6 DEF Undoes, From
  <2> QED BY <1>1, <1>6, <2>3, <2>4, GroundWakes
<1> QED BY <1>3, <1>4, <1>5, <1>6

-----------------------------------------------------------------------------
(* A run that disarms, undoes and ends. *)

LEMMA GroundHearDisarmed ==
    ASSUME TypeOK, HoldInv, WayInv, Ground, NEW said \in Heard, HearDisarmed(said)
    PROVE  Ground'
<1> DEFINE i == client.i
           keeping == IF said = "yes" THEN kept \cup {i} ELSE kept
           undoing == IF said = "yes" THEN todo ELSE Append(todo, Item(i, IF said = "no" THEN "recover" ELSE "wait"))
<1>1. client.at \in Disarming /\ UNCHANGED dev /\ i \in Device /\ past \in PastState /\ todo \in Seq(Later) /\ kept \subseteq Device
  BY DEF HearDisarmed, TypeOK, Disarming, PastState, HoldInv, OnlyWaits
<1>2. past'.agreed = past.agreed /\ past.agreed /\ verdict = "nothing"
  BY <1>1 DEF HearDisarmed, PastState, WayInv, AgreedInTurn, Ground, VerdictHasGround, Disarming
<1>3. undoing \in Seq(Later) /\ (undoing = <<>> => said = "yes" /\ todo = <<>>)
  <2>1. \A how \in {"recover", "wait"} : Item(i, how) \in Later
    BY <1>1 DEF Item, Later
  <2>2. \A how \in {"recover", "wait"} : Append(todo, Item(i, how)) \in Seq(Later) /\ Append(todo, Item(i, how)) # <<>>
    BY <1>1, <2>1
  <2> QED BY <1>1, <2>2
<1>4. \/ client' = From("disarming again", i) /\ UNCHANGED <<todo, verdict, kept>>
      \/ kept' = keeping /\ todo' = undoing /\ i < N /\ client' = From("disarming", i + 1) /\ UNCHANGED verdict
      \/ /\ kept' = keeping /\ todo' = undoing /\ ~(i < N) /\ client' = From("undoing", i)
         /\ verdict' \in IF undoing = <<>> THEN {"applied", "applied-with-problems"}
                         ELSE IF keeping # {} THEN {"partial"} ELSE {"rolled-back"}
  BY DEF HearDisarmed
<1>5. todo' \in Seq(Later)
  BY <1>1, <1>3, <1>4
<1>6. undoing = <<>> => \A d \in Device : d <= i => d \in keeping
  <2> SUFFICES ASSUME undoing = <<>>, NEW d \in Device, d <= i PROVE d \in keeping
    OBVIOUS
  <2>1. said = "yes" /\ todo = <<>>
    BY <1>3
  <2>2. d < i \/ d = i
    BY <1>1 DEF Device
  <2>3. d < i => d \in kept
    BY <1>1, <2>1 DEF Ground, VerdictHasGround
  <2> QED BY <2>1, <2>2, <2>3
<1>7. VerdictHasGround'
  <2> HIDE DEF keeping, undoing
  <2>1. CASE client' = From("disarming again", i) /\ UNCHANGED <<todo, verdict, kept>>
    <3>1. client'.at = "disarming again" /\ client'.i = i
      BY <2>1 DEF From
    <3> QED BY <1>1, <1>2, <2>1, <3>1 DEF Ground, VerdictHasGround, Disarming
  <2>2. CASE kept' = keeping /\ todo' = undoing /\ i < N /\ client' = From("disarming", i + 1) /\ UNCHANGED verdict
    <3>1. client'.at = "disarming" /\ client'.i = i + 1
      BY <2>2 DEF From
    <3>2. \A d \in Device : d < i + 1 => d <= i
      BY <1>1 DEF Device
    <3> QED BY <1>2, <1>6, <2>2, <3>1, <3>2 DEF VerdictHasGround
  <2>3. CASE /\ kept' = keeping /\ todo' = undoing /\ ~(i < N) /\ client' = From("undoing", i)
             /\ verdict' \in IF undoing = <<>> THEN {"applied", "applied-with-problems"}
                             ELSE IF keeping # {} THEN {"partial"} ELSE {"rolled-back"}
    <3>1. client'.at = "undoing" /\ kept' = keeping /\ past'.agreed
      BY <1>2, <2>3 DEF From
    <3>2. undoing = <<>> => keeping = Device
      <4>1. \A d \in Device : d <= i
        BY <1>1, <2>3, Sizes DEF Device
      <4>2. keeping \subseteq Device
        BY <1>1 DEF keeping
      <4> QED BY <1>6, <4>1, <4>2
    <3>3. CASE undoing = <<>>
      BY <2>3, <3>1, <3>2, <3>3 DEF VerdictHasGround, Disarming
    <3>4. CASE undoing # <<>>
      <4>1. verdict' \in {"partial", "rolled-back"} /\ (verdict' = "partial" => keeping # {})
        BY <2>3, <3>4
      <4> QED BY <3>1, <4>1 DEF VerdictHasGround, Disarming
    <3> QED BY <3>3, <3>4
  <2> QED BY <1>4, <2>1, <2>2, <2>3
<1>8. AgreedWaits'
  BY <1>5 DEF AgreedWaits
<1>9. Apart({})'
  <2>1. Later \subseteq SplitItem({})
    BY DEF Later, SplitItem, Undoing, StandDown
  <2>2. todo' \in Seq(SplitItem({}))
    BY <1>5, <2>1, SeqOfMore
  <2> QED BY <2>2 DEF Apart, SplitItem
<1> QED BY <1>7, <1>8, <1>9 DEF Ground, DropsApart

LEMMA GroundUndoing ==
    ASSUME TypeOK, HoldInv, WayInv, Ground, NEW said \in Heard,
           \/ HearWoken(said) \/ HearReleased(said) \/ HearRecovered(said) \/ HearDropped(said)
           \/ Waits \/ StopsAsking
    PROVE  Ground'
<1>1. /\ Doing \in Undoing /\ UNCHANGED <<dev, kept, past, verdict>> /\ client'.at = "undoing"
      /\ client.at = "undoing" /\ todo # <<>> /\ Called \in Device /\ Doing = Head(todo).how
  BY UndoingSteps, DoingOK DEF From, Doing
<1>2. VerdictHasGround'
  BY <1>1 DEF Ground, VerdictHasGround, Disarming
<1>3. ASSUME past.agreed PROVE todo' \in Seq(Later)
  <2>1. todo \in Seq(Later)
    BY <1>3 DEF Ground, AgreedWaits
  <2>2. Tail(todo) \in Seq(Later) /\ Head(todo) \in Later
    BY <1>1, <2>1
  <2>3. Doing \in {"recover", "wait"}
    BY <1>1, <2>2 DEF Later
  <2>4. Becomes("recover") \/ \E word : Ends(word)
    BY <2>3, UndoingSteps DEF StandDown, Drop
  <2>5. ASSUME Becomes("recover") PROVE todo' \in Seq(Later)
    <3>1. Item(Called, "recover") \in Later
      BY <1>1 DEF Item, Later
    <3>2. <<Item(Called, "recover")>> \in Seq(Later)
      BY <3>1
    <3> QED BY <2>2, <2>5, <3>2 DEF Becomes
  <2> QED BY <2>2, <2>4, <2>5 DEF Ends
<1>4. AgreedWaits'
  BY <1>1, <1>3 DEF AgreedWaits
<1>5. PICK S \in SUBSET Device : Apart(S)
  BY DEF Ground, DropsApart
<1>6. Tail(todo) \in Seq(SplitItem(S)) /\ (Doing \in StandDown \ Drop => Called \notin S) /\ (Doing \in Drop => Called \in S)
  <2>1. Tail(todo) \in Seq(SplitItem(S))
    BY <1>1, <1>5 DEF Apart
  <2> QED BY <1>1, <1>5, <2>1, ReleasesOthers
<1>7. ASSUME NEW how \in Undoing, how \in StandDown \ Drop => Called \notin S, how \in Drop => Called \in S
      PROVE  <<Item(Called, how)>> \in Seq(SplitItem(S))
  <2>1. Item(Called, how) \in SplitItem(S)
    BY <1>1, <1>7 DEF Item, SplitItem
  <2> QED BY <2>1, OneOf
<1>8. todo' \in Seq(SplitItem(S))
  <2>1. ASSUME NEW how \in Undoing, Becomes(how), how \in StandDown \ Drop => Called \notin S, how \in Drop => Called \in S
        PROVE  todo' \in Seq(SplitItem(S))
    BY <1>6, <1>7, <2>1, SplitConcat DEF Becomes
  <2>2. Drop \subseteq StandDown /\ StandDown \subseteq Undoing
    BY DEF Drop, StandDown, Undoing
  <2>3. ASSUME NEW word, Ends(word) PROVE todo' \in Seq(SplitItem(S))
    BY <1>6, <2>3 DEF Ends
  <2>4. Tail(todo) \o <<Item(Called, "wait")>> \in Seq(SplitItem(S))
    BY <1>6, <1>7, SplitConcat DEF Undoing, StandDown, Drop
  <2> QED BY <1>6, <2>1, <2>2, <2>3, <2>4, UndoingSteps
<1>9. Apart(S)'
  BY <1>1, <1>5, <1>8 DEF Apart, SplitItem
<1> QED BY <1>2, <1>4, <1>9 DEF Ground, DropsApart

LEMMA GroundEnds ==
    ASSUME TypeOK, HoldInv, WayInv, Ground, Concludes \/ Dies
    PROVE  Ground'
<1>1. /\ todo' = <<>> /\ UNCHANGED <<dev, past>>
      /\ \/ client.at = "undoing" /\ client'.at = "ended" /\ UNCHANGED <<verdict, kept>>
         \/ client'.at = "gone" /\ verdict' = "nothing"
  BY DEF Concludes, Dies, OthersThanUndoing, run, From
<1>2. AgreedWaits'
  BY <1>1, NothingLater DEF AgreedWaits
<1>3. VerdictHasGround'
  BY <1>1 DEF Ground, VerdictHasGround, Disarming
<1>4. Apart({})'
  BY <1>1, NothingSplit DEF Apart, SplitItem
<1> QED BY <1>2, <1>3, <1>4 DEF Ground, DropsApart

LEMMA StepPromise ==
    ASSUME TypeOK, CountInv, HoldInv, WayInv, PromiseInv, [Next]_vars
    PROVE  PromiseInv'
<1>1. AskedReady /\ Ground
  BY DEF PromiseInv, Ground
<1>2. Ground'
  <2>1. ASSUME NEW e \in Device, Fires(e) \/ Restores(e) \/ GivesUp(e) \/ Killed(e) PROVE Ground'
    BY <1>1, <2>1, GroundDevice
  <2>2. CASE DeviceDoes
    BY <1>1, <2>2, GroundCall
  <2>3. CASE RunHears
    BY <1>1, <2>3, GroundHearArm, GroundHearChanged, GroundConfirms, GroundHearAsleep, GroundHearDisarmed, GroundUndoing
    DEF RunHears
  <2>4. CASE RunGoesOn \/ Unreached \/ Dies
    BY <1>1, <2>4, GroundStages, GroundConfirms, GroundUndoing, GroundEnds, GroundHearChanged DEF RunGoesOn, Heard
  <2>5. CASE Tick
    BY <1>1, <2>5, GroundTick
  <2>6. CASE UNCHANGED vars
    <3>1. UNCHANGED <<dev, client, kept, todo, verdict, past>>
      BY <2>6 DEF vars, run
    <3> QED BY <1>1, <3>1, GroundStill
  <2> QED BY <2>1, <2>2, <2>3, <2>4, <2>5, <2>6 DEF Next
<1>3. AskedReady'
  BY <1>1, StepReady
<1> QED BY <1>2, <1>3 DEF PromiseInv, Ground

-----------------------------------------------------------------------------
(* Each step is one of the promise's, or leaves it where it is. *)

Fates == [d \in Device |-> Fate(d)]

\* Fate, by cases that leave none out.
FateOf(wd, change, agreed) ==
    IF wd = "disarmed" THEN IF ~agreed THEN "undone" ELSE IF change = "new" THEN "kept" ELSE "in part"
    ELSE IF wd \in {"restoring", "restored", "over"} THEN "undone" ELSE "open"

LEMMA FateIs ==
    ASSUME TypeOK, NEW d \in Device
    PROVE  Fate(d) = FateOf(dev[d].wd, dev[d].change, past.agreed)
<1>1. dev[d].wd \in Watchdog /\ past.agreed \in BOOLEAN
  BY DEF TypeOK
<1> QED BY <1>1 DEF Fate, FateOf, Watchdog

LEMMA FateBecomes ==
    ASSUME TypeOK', NEW d \in Device
    PROVE  Fate(d)' = FateOf(dev'[d].wd, dev'[d].change, past'.agreed)
<1>1. dev'[d].wd \in Watchdog /\ past'.agreed \in BOOLEAN
  BY DEF TypeOK
<1> QED BY <1>1 DEF Fate, FateOf, Watchdog

\* A device whose fate a step leaves as it is.
SameFate(d) == FateOf(dev'[d].wd, dev'[d].change, past'.agreed) = FateOf(dev[d].wd, dev[d].change, past.agreed)

LEMMA Stutters ==
    ASSUME TypeOK, TypeOK', \A d \in Device : SameFate(d), past'.agreed = past.agreed, Said' = Said
    PROVE  UNCHANGED <<Fates, past.agreed, Said>>
<1>1. \A d \in Device : Fate(d)' = Fate(d)
  BY FateIs, FateBecomes DEF SameFate
<1> QED BY <1>1 DEF Fates

LEMMA OneFate ==
    ASSUME TypeOK, TypeOK', NEW e \in Device, \A d \in Device : d # e => SameFate(d),
           NEW becomes, FateOf(dev'[e].wd, dev'[e].change, past'.agreed) = becomes
    PROVE  Fates' = [Fates EXCEPT ![e] = becomes]
<1>1. \A d \in Device : Fate(d)' = IF d = e THEN becomes ELSE Fate(d)
  BY FateIs, FateBecomes DEF SameFate
<1> QED BY <1>1 DEF Fates

LEMMA Undoes1 ==
    ASSUME TypeOK, TypeOK', past'.agreed = past.agreed, Said' = Said,
           NEW e \in Device, \A d \in Device : d # e => SameFate(d),
           FateOf(dev[e].wd, dev[e].change, past.agreed) = "open",
           FateOf(dev'[e].wd, dev'[e].change, past'.agreed) = "undone"
    PROVE  Promise!Undo(e)
<1>1. Fates' = [Fates EXCEPT ![e] = "undone"]
  BY OneFate
<1>2. Fates[e] = "open"
  BY FateIs DEF Fates
<1> QED BY <1>1, <1>2 DEF Promise!Undo, Fates

LEMMA Keeps1 ==
    ASSUME TypeOK, TypeOK', past'.agreed = past.agreed, past.agreed, Said' = Said,
           NEW e \in Device, \A d \in Device : d # e => SameFate(d),
           FateOf(dev[e].wd, dev[e].change, past.agreed) = "open",
           FateOf(dev'[e].wd, dev'[e].change, past'.agreed) = "kept"
    PROVE  Promise!Keep(e)
<1>1. Fates' = [Fates EXCEPT ![e] = "kept"]
  BY OneFate
<1>2. Fates[e] = "open"
  BY FateIs DEF Fates
<1> QED BY <1>1, <1>2 DEF Promise!Keep, Fates

\* A step as the promise has it.
Keeping == [Promise!Next]_<<Fates, past.agreed, Said>>

LEMMA KeepingDevice ==
    ASSUME TypeOK, TypeOK', NEW e \in Device, Fires(e) \/ Restores(e) \/ GivesUp(e) \/ Killed(e)
    PROVE  Keeping
<1>1. dev \in [Device -> DevState]
  BY DEF TypeOK, DevState
<1>2. Said' = Said /\ past'.agreed = past.agreed
  BY DevicePast DEF Fires, Restores, GivesUp, Killed, Said
<1>3. \A d \in Device : d # e => SameFate(d)
  BY <1>1, <1>2 DEF Fires, Restores, GivesUp, Killed, Turns, SameFate
<1>4. ASSUME SameFate(e) PROVE Keeping
  BY <1>2, <1>3, <1>4, Stutters DEF Keeping
<1>5. CASE Fires(e)
  <2>1. dev[e].wd = "asleep" /\ dev'[e].wd = "restoring"
    BY <1>1, <1>5 DEF Fires, Turns, DevState
  <2>2. Promise!Undo(e)
    BY <1>2, <1>3, <2>1, Undoes1 DEF FateOf
  <2> QED BY <2>2 DEF Keeping, Promise!Next
<1>6. CASE Killed(e)
  <2>1. dev[e].wd = "asleep" /\ dev'[e].wd = "dead"
    BY <1>1, <1>6 DEF Killed, Turns, DevState
  <2>2. SameFate(e)
    BY <2>1 DEF SameFate, FateOf
  <2> QED BY <1>4, <2>2
<1>7. CASE Restores(e) \/ GivesUp(e)
  <2>1. dev[e].wd \in {"restoring", "restored"} /\ dev'[e].wd \in {"restored", "over"}
    <3>1. CASE Restores(e)
      BY <3>1, RestoreStep
    <3>2. CASE GivesUp(e)
      BY <1>1, <3>2 DEF GivesUp, DevState
    <3> QED BY <1>7, <3>1, <3>2
  <2>2. SameFate(e)
    BY <2>1 DEF SameFate, FateOf
  <2> QED BY <1>4, <2>2
<1> QED BY <1>5, <1>6, <1>7

LEMMA KeepingTick ==
    ASSUME TypeOK, TypeOK', Tick
    PROVE  Keeping
<1>1. dev \in [Device -> DevState] /\ client \in ClientState /\ past \in PastState
  BY DEF TypeOK, DevState, ClientState, PastState
<1>2. \A d \in Device : dev'[d].wd = dev[d].wd /\ dev'[d].change = dev[d].change
  BY <1>1 DEF Tick, DevState
<1>3. client'.at = client.at /\ past'.agreed = past.agreed /\ UNCHANGED verdict
  BY <1>1 DEF Tick, ClientState, PastState
<1>4. \A d \in Device : SameFate(d)
  BY <1>2, <1>3 DEF SameFate
<1>5. Said' = Said
  BY <1>3 DEF Said
<1> QED BY <1>3, <1>4, <1>5, Stutters DEF Keeping

\* A device's own part: only a disarming after all agreed keeps it, and none is
\* opened again.
LEMMA KeepingCall ==
    ASSUME TypeOK, TypeOK', CountInv, HoldInv, WayInv, PromiseInv, DeviceDoes
    PROVE  Keeping
<1>1. dev \in [Device -> DevState] /\ client.i \in Device /\ past \in PastState
  BY DEF TypeOK, DevState, PastState
<1>2. client'.at = client.at /\ UNCHANGED verdict
  <2>1. UNCHANGED verdict
    BY DEF DeviceDoes, Arms, Configures, Commits, TellsFinished, TellsAsleep, Disarms, Wakes, TellsRecovered, Drops,
           OthersThanDevice
  <2> QED BY <2>1, AnswersNow
<1>3. Said' = Said
  BY <1>2 DEF Said
<1>4. ASSUME past'.agreed = past.agreed, \A d \in Device : SameFate(d) PROVE Keeping
  BY <1>3, <1>4, Stutters DEF Keeping
<1>5. CASE Arms
  <2>1. client.at = "arming" /\ client.answer = "none"
    BY <1>5, CalledIn DEF Arms, Asked, Phase
  <2>2. dev[client.i].wd = "none"
    BY <1>1, <2>1 DEF CountInv, NotYetArmed
  <2>3. PICK wd \in {"asleep", "none"} : \E sleeps : dev' = [dev EXCEPT ![client.i].wd = wd, ![client.i].sleeps = sleeps]
    BY <1>5 DEF Arms
  <2>4. \A d \in Device : dev'[d] = dev[d] \/ (d = client.i /\ dev'[d].wd \in {"asleep", "none"})
    BY <1>1, <2>3 DEF DevState
  <2>5. past' = past /\ past'.agreed = past.agreed
    BY <1>5 DEF Arms
  <2>6. \A d \in Device : SameFate(d)
    BY <2>2, <2>4, <2>5 DEF SameFate, FateOf
  <2> QED BY <1>4, <2>5, <2>6
<1>6. CASE Configures \/ Commits
  <2>1. client.at \in {"configuring", "committing"}
    BY <1>6, CalledIn DEF Configures, Commits, Asked, Phase
  <2>2. ~past.agreed
    BY <2>1 DEF WayInv, AgreedInTurn, Disarming
  <2>3. past'.agreed = past.agreed
    <3>1. past' = past \/ past' = [past EXCEPT !.unrestored = @ \cup {client.i}]
      BY <1>6 DEF Configures, Commits
    <3> QED BY <1>1, <3>1 DEF PastState
  <2>4. \A d \in Device : dev'[d].wd = dev[d].wd
    <3>1. \/ \E change : dev' = [dev EXCEPT ![client.i].change = change]
          \/ \E change : dev' = [dev EXCEPT ![client.i].change = change, ![client.i].marker = TRUE]
          \/ dev' = [dev EXCEPT ![client.i].change = @, ![client.i].marker = TRUE]
      BY <1>6 DEF Configures, Commits
    <3>2. ASSUME NEW change, dev' = [dev EXCEPT ![client.i].change = change]
          PROVE  \A d \in Device : dev'[d].wd = dev[d].wd
      BY <1>1, <3>2 DEF DevState
    <3>3. ASSUME NEW change, dev' = [dev EXCEPT ![client.i].change = change, ![client.i].marker = TRUE]
          PROVE  \A d \in Device : dev'[d].wd = dev[d].wd
      BY <1>1, <3>3 DEF DevState
    <3>4. ASSUME dev' = [dev EXCEPT ![client.i].change = @, ![client.i].marker = TRUE]
          PROVE  \A d \in Device : dev'[d].wd = dev[d].wd
      BY <1>1, <3>4 DEF DevState
    <3> QED BY <3>1, <3>2, <3>3, <3>4
  <2>5. \A d \in Device : SameFate(d)
    BY <2>2, <2>3, <2>4 DEF SameFate, FateOf
  <2> QED BY <1>4, <2>3, <2>5
<1>7. CASE TellsFinished \/ TellsAsleep
  <2>1. UNCHANGED <<dev, past>>
    BY <1>7 DEF TellsFinished, TellsAsleep
  <2> QED BY <1>4, <2>1 DEF SameFate
\* The rest call a device of which the phase or the item says what its change is.
<1>8. Doing \in Undoing => client.at = "undoing" /\ todo # <<>> /\ Called \in Device /\ Doing = Head(todo).how
  BY DoingOK DEF Doing
<1>9. ASSUME NEW w, dev' = Turns(Called, w)
      PROVE  /\ \A d \in Device : d # Called => dev'[d] = dev[d]
             /\ Called \in Device => dev'[Called].wd = w /\ dev'[Called].change = dev[Called].change
  BY <1>1, <1>9 DEF Turns, DevState
<1>10. CASE Disarms
  <2>1. past' = past /\ past'.agreed = past.agreed
    BY <1>10 DEF Disarms
  <2>2. CASE UNCHANGED dev
    BY <1>4, <2>1, <2>2 DEF SameFate
  <2>3. CASE dev' = Turns(Called, "disarmed") /\ dev[Called].wd \in {"asleep", "dead", "disarmed"}
    <3>1. Called \in Device
      <4>1. Doing \in Disarming => client.at \in Disarming
        BY <1>10, CalledIn DEF Disarms, Asked, Disarming, Phase
      <4>2. Doing \in Disarming => Called = client.i
        BY <4>1 DEF Called, Disarming
      <4> QED BY <1>1, <1>8, <1>10, <4>2 DEF Disarms, Asked, Disarming, Undoing
    <3>2. /\ \A d \in Device : d # Called => SameFate(d)
          /\ dev'[Called].wd = "disarmed" /\ dev'[Called].change = dev[Called].change
      BY <1>9, <2>1, <2>3, <3>1 DEF SameFate
    <3>3. CASE dev[Called].wd = "disarmed"
      BY <1>4, <2>1, <3>2, <3>3 DEF SameFate
    <3>4. CASE dev[Called].wd \in {"asleep", "dead"} /\ Doing \in Disarming
      <4>1. client.at \in Disarming
        BY <1>10, <3>4, CalledIn DEF Disarms, Asked, Disarming, Phase
      <4>2. past.agreed
        BY <4>1 DEF WayInv, AgreedInTurn
      <4>3. dev[Called].change = "new"
        BY <3>1, <3>4, <4>1 DEF HoldInv, ConfirmedIsMarked, MarkedIsWhole, Standing
      <4>4. Promise!Keep(Called)
        BY <1>3, <2>1, <3>1, <3>2, <3>4, <4>2, <4>3, Keeps1 DEF FateOf
      <4> QED BY <3>1, <4>4 DEF Keeping, Promise!Next
    <3>5. CASE dev[Called].wd \in {"asleep", "dead"} /\ Doing \in {"release", "release again"}
      <4>1. ~past.agreed
        <5> SUFFICES ASSUME past.agreed PROVE FALSE
          OBVIOUS
        <5>1. todo \in Seq(Later) /\ todo # <<>> /\ Doing = Head(todo).how
          BY <1>8, <3>5 DEF PromiseInv, AgreedWaits, Undoing
        <5>2. Head(todo) \in Later
          BY <5>1
        <5> QED BY <3>5, <5>1, <5>2 DEF Later
      <4>2. Promise!Undo(Called)
        BY <1>3, <2>1, <3>1, <3>2, <3>5, <4>1, Undoes1 DEF FateOf
      <4> QED BY <3>1, <4>2 DEF Keeping, Promise!Next
    <3> QED BY <1>10, <2>3, <3>3, <3>4, <3>5 DEF Disarms, Asked, Disarming
  <2> QED BY <1>10, <2>2, <2>3 DEF Disarms, Disarmable
<1>11. CASE Wakes
  <2>1. past' = past /\ past'.agreed = past.agreed /\ Called \in Device
    BY <1>8, <1>11 DEF Wakes, Asked, Undoing
  <2>2. CASE UNCHANGED dev
    BY <1>4, <2>1, <2>2 DEF SameFate
  <2>3. CASE dev' = Turns(Called, "restoring") /\ dev[Called].wd \in {"asleep", "dead"}
    <3>1. (\A d \in Device : d # Called => SameFate(d)) /\ dev'[Called].wd = "restoring"
      BY <1>9, <2>1, <2>3 DEF SameFate
    <3>2. Promise!Undo(Called)
      BY <1>3, <2>1, <2>3, <3>1, Undoes1 DEF FateOf
    <3> QED BY <2>1, <3>2 DEF Keeping, Promise!Next
  <2> QED BY <1>11, <2>2, <2>3 DEF Wakes
<1>12. CASE TellsRecovered
  <2>1. past' = past /\ past'.agreed = past.agreed
    BY <1>12 DEF TellsRecovered
  <2>2. UNCHANGED dev \/ (dev[Called].wd = "restored" /\ dev' = [dev EXCEPT ![Called].wd = "over"])
    BY <1>12 DEF TellsRecovered, Recoverable
  <2>3. \A d \in Device : dev'[d] = dev[d] \/ (dev[d].wd = "restored" /\ dev'[d].wd = "over")
    BY <1>1, <2>2 DEF DevState
  <2>4. \A d \in Device : SameFate(d)
    BY <2>1, <2>3 DEF SameFate, FateOf
  <2> QED BY <1>4, <2>1, <2>4
<1>13. CASE Drops
  <2>1. past' = past /\ past'.agreed = past.agreed /\ Called \in Device /\ Doing \in Drop
    BY <1>8, <1>13 DEF Drops, Asked, Undoing, Drop
  <2>2. dev[Called].wd # "disarmed"
    <3>1. PICK S \in SUBSET Device : Apart(S)
      BY DEF PromiseInv, DropsApart
    <3>2. Called \in S
      BY <2>1, <3>1, ReleasesOthers DEF Drop, Undoing
    <3> QED BY <3>1, <3>2 DEF Apart
  <2>3. UNCHANGED dev \/ (dev' = Turns(Called, "none") /\ dev[Called].wd \in {"none", "asleep", "dead"})
    BY <1>13, <2>2 DEF Drops
  <2>4. \A d \in Device : dev'[d] = dev[d] \/ (dev[d].wd \in {"none", "asleep", "dead"} /\ dev'[d].wd = "none")
    BY <1>9, <2>1, <2>3
  <2>5. \A d \in Device : SameFate(d)
    BY <2>1, <2>4 DEF SameFate, FateOf
  <2> QED BY <1>4, <2>1, <2>5
<1> QED BY <1>5, <1>6, <1>7, <1>10, <1>11, <1>12, <1>13 DEF DeviceDoes

\* The run is heard of only at its end.
LEMMA NotEnded ==
    ASSUME TypeOK, RunHears \/ Stages \/ Confirmless \/ Waits \/ StopsAsking \/ Unreached \/ Dies
    PROVE  client.at # "ended" /\ client'.at # "ended"
<1>1. ASSUME NEW items, NEW end, Undoes(items, end) PROVE client'.at # "ended"
  BY <1>1 DEF Undoes, From
<1>2. ASSUME NEW at \in Phase \ {"ended"}, NEW i, client' = From(at, i) PROVE client'.at # "ended"
  BY <1>2 DEF From
<1>3. ASSUME NEW said \in Heard,
             \/ HearWoken(said) \/ HearReleased(said) \/ HearRecovered(said) \/ HearDropped(said)
             \/ Waits \/ StopsAsking
      PROVE  client.at # "ended" /\ client'.at # "ended"
  BY <1>2, <1>3, UndoingSteps, DoingOK DEF Phase
<1>4. ASSUME NEW changed, FailsConfiguring(changed) PROVE client'.at # "ended"
  BY <1>1, <1>4 DEF FailsConfiguring
<1>5. ASSUME NEW said \in Heard, HearArm(said) \/ HearConfigured(said) \/ HearCommitted(said)
      PROVE  client.at # "ended" /\ client'.at # "ended"
  <2>1. CASE HearArm(said)
    BY <1>1, <1>2, <2>1 DEF HearArm, NextOr, Goes, Phase
  <2>2. CASE HearConfigured(said)
    BY <1>2, <1>4, <2>2 DEF HearConfigured, Goes, Phase
  <2>3. CASE HearCommitted(said)
    BY <1>2, <1>4, <2>3 DEF HearCommitted, NextOr, Goes, Phase
  <2> QED BY <1>5, <2>1, <2>2, <2>3
<1>6. ASSUME NEW said \in Heard, HearFinished(said) PROVE client.at # "ended" /\ client'.at # "ended"
  BY <1>1, <1>2, <1>6 DEF HearFinished, NextOr, Goes, Phase
<1>7. ASSUME NEW said \in Heard, HearAsleep(said) PROVE client.at # "ended" /\ client'.at # "ended"
  <2>1. client.at \in {"asking", "asking again"} /\ client \in ClientState
    BY <1>7 DEF HearAsleep, Asking, TypeOK, ClientState
  <2>2. ASSUME NextOr("asking", "disarming") PROVE client'.at # "ended"
    BY <1>2, <2>2 DEF NextOr, Goes, Phase
  <2>3. client' = [client EXCEPT !.at = "asking again", !.answer = "none"] => client'.at # "ended"
    BY <2>1 DEF ClientState
  <2> QED BY <1>7, <2>1, <2>2, <2>3, HeardAsleep DEF Heard
<1>8. ASSUME NEW said \in Heard, HearDisarmed(said) PROVE client.at # "ended" /\ client'.at # "ended"
  BY <1>2, <1>8 DEF HearDisarmed, Phase
<1>9. CASE RunHears
  BY <1>3, <1>5, <1>6, <1>7, <1>8, <1>9 DEF RunHears
<1>10. CASE Stages \/ Confirmless
  BY <1>1, <1>2, <1>10 DEF Stages, Goes, Confirmless, Phase
<1>11. CASE Waits \/ StopsAsking
  BY <1>3, <1>11 DEF Heard
<1>12. CASE Unreached \/ Dies
  BY <1>2, <1>4, <1>12 DEF Unreached, Dies, Phase
<1> QED BY <1>9, <1>10, <1>11, <1>12

\* The run agrees once every device is found open.
LEMMA KeepingAsleep ==
    ASSUME TypeOK, TypeOK', WayInv, PromiseInv, NEW said \in Heard, HearAsleep(said)
    PROVE  Keeping
<1>1. /\ past \in PastState /\ UNCHANGED dev /\ past' = [past EXCEPT !.agreed = client'.at = "disarming"]
      /\ client.at \in {"asking", "asking again"}
  BY DEF HearAsleep, Asking, TypeOK, PastState
<1>2. ~past.agreed /\ (past'.agreed <=> client'.at = "disarming")
  BY <1>1 DEF WayInv, AgreedInTurn, Disarming, PastState
<1>3. past.agreed = FALSE /\ past'.agreed = (client'.at = "disarming")
  BY <1>1, <1>2 DEF PastState
<1>4. Said = "nothing" /\ Said' = "nothing"
  <2>1. client.at # "ended" /\ client'.at # "ended"
    BY NotEnded DEF RunHears
  <2> QED BY <2>1 DEF Said
<1>5. CASE client'.at = "disarming"
  <2>1. \A d \in Device : dev[d].wd \in {"asleep", "dead"}
    BY <1>5, AgreeReady DEF PromiseInv
  <2>2. \A d \in Device : Fate(d) = "open" /\ Fate(d)' = "open"
    BY <1>1, <2>1, FateIs, FateBecomes DEF FateOf
  <2>3. Fates' = Fates /\ \A d \in Device : Fates[d] = "open"
    BY <2>2 DEF Fates
  <2>4. past'.agreed = TRUE
    BY <1>3, <1>5
  <2>5. Promise!Agree
    BY <1>2, <1>4, <2>3, <2>4 DEF Promise!Agree, Fates
  <2> QED BY <2>5 DEF Keeping, Promise!Next
<1>6. CASE client'.at # "disarming"
  <2>1. past'.agreed = past.agreed
    BY <1>3, <1>6
  <2>2. \A d \in Device : SameFate(d)
    BY <1>1, <2>1 DEF SameFate
  <2> QED BY <1>4, <2>1, <2>2, Stutters DEF Keeping
<1> QED BY <1>5, <1>6

\* What the run says at its end is so.
LEMMA KeepingEnd ==
    ASSUME TypeOK, TypeOK', HoldInv, PromiseInv, Concludes
    PROVE  Keeping
<1>1. client.at = "undoing" /\ client'.at = "ended" /\ UNCHANGED <<dev, past, verdict>>
  BY DEF Concludes, OthersThanUndoing, From
<1>2. \A d \in Device : Fate(d)' = Fate(d)
  BY <1>1, FateIs, FateBecomes
<1>3. Fates' = Fates
  BY <1>2 DEF Fates
<1>4. Said = "nothing" /\ Said' = IF verdict = "applied-with-problems" THEN "applied" ELSE verdict
  BY <1>1 DEF Said
<1>5. verdict # "nothing" /\ Said' \in Promise!Says \ {"nothing"}
  <2>1. verdict # "nothing" /\ verdict \in {"nothing", "applied", "applied-with-problems", "rolled-back", "partial", "failed"}
    BY <1>1 DEF PromiseInv, VerdictHasGround, TypeOK
  <2> QED BY <1>4, <2>1 DEF Promise!Says
<1>6. ASSUME past.agreed, NEW d \in kept PROVE d \in Device /\ Fates[d] = "kept"
  <2>1. d \in Device /\ dev[d].wd = "disarmed" /\ dev[d].change = "new"
    BY <1>6 DEF TypeOK, HoldInv, KeptIsDisarmed, MarkedIsWhole, Standing
  <2> QED BY <1>6, <2>1, FateIs DEF Fates, FateOf
<1>7. Said' = "applied" => \A d \in Device : Fates[d] = "kept"
  BY <1>4, <1>6 DEF PromiseInv, VerdictHasGround
<1>8. Said' = "partial" => past.agreed /\ \E d \in Device : Fates[d] = "kept"
  BY <1>4, <1>6 DEF PromiseInv, VerdictHasGround
<1>9. Said' = "failed" => ~past.agreed
  BY <1>4 DEF PromiseInv, VerdictHasGround
<1>10. Promise!Say(Said')
  BY <1>1, <1>3, <1>4, <1>7, <1>8, <1>9 DEF Promise!Say, Fates
<1> QED BY <1>5, <1>10 DEF Keeping, Promise!Next

\* Any other step of the run alone changes nothing that is promised.
LEMMA KeepingRun ==
    ASSUME TypeOK, TypeOK', UNCHANGED dev, past'.agreed = past.agreed, client.at # "ended", client'.at # "ended"
    PROVE  Keeping
<1>1. (\A d \in Device : SameFate(d)) /\ Said' = Said
  BY DEF SameFate, Said
<1> QED BY <1>1, Stutters DEF Keeping

LEMMA StepKeeps ==
    ASSUME TypeOK, TypeOK', CountInv, HoldInv, WayInv, PromiseInv, [Next]_vars
    PROVE  Keeping
<1>1. ASSUME NEW e \in Device, Fires(e) \/ Restores(e) \/ GivesUp(e) \/ Killed(e) PROVE Keeping
  BY <1>1, KeepingDevice
<1>2. ASSUME NEW said \in Heard,
             \/ HearArm(said) \/ HearConfigured(said) \/ HearCommitted(said) \/ HearFinished(said) \/ HearDisarmed(said)
             \/ HearWoken(said) \/ HearReleased(said) \/ HearRecovered(said) \/ HearDropped(said)
      PROVE  UNCHANGED dev /\ past'.agreed = past.agreed
  <2>1. CASE HearDisarmed(said)
    <3>1. past \in PastState
      BY DEF TypeOK, PastState
    <3> QED BY <2>1, <3>1 DEF HearDisarmed, PastState
  <2> QED BY <1>2, <2>1 DEF HearArm, HearConfigured, HearCommitted, HearFinished, HearWoken, HearReleased,
                            HearRecovered, HearDropped, OthersThanUndoing
<1>3. CASE RunHears
  BY <1>2, <1>3, KeepingAsleep, KeepingRun, NotEnded DEF RunHears
<1>4. CASE Stages \/ Confirmless \/ Waits \/ StopsAsking \/ Unreached \/ Dies
  <2>1. UNCHANGED <<dev, past>>
    BY <1>4 DEF Stages, Confirmless, Waits, StopsAsking, Unreached, Dies, OthersThanUndoing
  <2> QED BY <1>4, <2>1, KeepingRun, NotEnded
<1>5. CASE UNCHANGED vars
  <2>1. UNCHANGED <<dev, past, client, verdict>>
    BY <1>5 DEF vars
  <2>2. (\A d \in Device : SameFate(d)) /\ Said' = Said /\ past'.agreed = past.agreed
    BY <2>1 DEF SameFate, Said
  <2> QED BY <2>2, Stutters DEF Keeping
<1> QED BY <1>1, <1>3, <1>4, <1>5, KeepingCall, KeepingEnd, KeepingTick DEF Next, RunGoesOn

LEMMA InitKeeps == ASSUME Init PROVE Promise!Init
<1>1. \A d \in Device : Fate(d) = "open"
  BY DEF Init, Fate
<1>2. past.agreed = FALSE /\ Said = "nothing"
  BY DEF Init, Said, From
<1> QED BY <1>1, <1>2 DEF Promise!Init

\* A run over any number of devices keeps the promise at the head of
\* provisionNetwork.ts: none keeps the change before all were found ready, none
\* that was undone or kept becomes anything else, and what the run says at its
\* end (applied, partial, failed) is so.
THEOREM KeepsPromise == Spec => Implements
<1>1. Init => Promise!Init
  BY InitKeeps
<1>2. TypeOK /\ TypeOK' /\ CountInv /\ HoldInv /\ WayInv /\ PromiseInv /\ [Next]_vars
      => [Promise!Next]_<<Fates, past.agreed, Said>>
  BY StepKeeps DEF Keeping
<1>3. TypeOK /\ TypeOK' /\ CountInv /\ HoldInv /\ WayInv /\ PromiseInv /\ [Next]_vars
      => CountInv' /\ HoldInv' /\ WayInv' /\ PromiseInv'
  BY StepCounts, StepHolds, StepWay, StepPromise
<1>4. Init => CountInv /\ HoldInv /\ WayInv /\ PromiseInv
  BY InitCounts, InitHolds, InitWay, InitPromise
<1> QED BY <1>1, <1>2, <1>3, <1>4, TypeCorrect, PTL DEF Spec, Implements, Promise!Spec, Fates

-----------------------------------------------------------------------------
(* What the run says at its end. *)

\* Disarming has taken the whole margin, or a device was out of reach twice.
TookMargin == past.disarming = Margin
Cause == past.cut \/ TookMargin

\* Until then no watchdog has fired, and none will before.
StandsForMargin ==
    client.at \in Disarming => \A d \in Device :
        \/ TookMargin
        \/ dev[d].wd \in {"dead", "disarmed"}
        \/ dev[d].wd = "asleep" /\ dev[d].sleeps + past.disarming >= Margin

\* So one refuses to be disarmed only then, and one is left to undo only with a cause.
RefusesLate == client.at \in Disarming /\ client.answer \notin {"none", "yes"} => TookMargin
LeftWithCause == client.at \in Disarming /\ todo # <<>> => Cause

MarginInv == StandsForMargin /\ RefusesLate /\ LeftWithCause /\ PartialHasCause

LEMMA InitMargin == Init => MarginInv
BY DEF Init, From, MarginInv, StandsForMargin, RefusesLate, LeftWithCause, PartialHasCause, Disarming

\* The run is not disarming, or no more.
LEMMA MarginApart ==
    ASSUME client'.at \notin Disarming, verdict' = "partial" => Cause'
    PROVE  MarginInv'
BY DEF MarginInv, StandsForMargin, RefusesLate, LeftWithCause, PartialHasCause, Cause, TookMargin

\* The margin, once taken, stays so.
LEMMA CauseStays ==
    ASSUME TypeOK, [Next]_vars
    PROVE  (TookMargin => TookMargin') /\ (Cause => Cause')
<1>1. past \in PastState
  BY DEF TypeOK, PastState
<1>2. CASE Tick
  <2>1. past' = past \/ (past.disarming < Margin /\ past' = [past EXCEPT !.disarming = @ + 1])
    BY <1>2 DEF Tick
  <2> QED BY <1>1, <2>1, Sizes DEF Cause, TookMargin, PastState
<1>3. CASE Configures
  <2>1. past' = past \/ past' = [past EXCEPT !.unrestored = @ \cup {client.i}]
    BY <1>3 DEF Configures
  <2> QED BY <1>1, <2>1 DEF Cause, TookMargin, PastState
<1>4. ASSUME NEW said \in Heard, HearAsleep(said) PROVE (TookMargin => TookMargin') /\ (Cause => Cause')
  BY <1>1, <1>4 DEF HearAsleep, Cause, TookMargin, PastState
<1>5. ASSUME NEW said \in Heard, HearDisarmed(said) PROVE (TookMargin => TookMargin') /\ (Cause => Cause')
  BY <1>1, <1>5 DEF HearDisarmed, Cause, TookMargin, PastState
<1>6. ASSUME UNCHANGED past PROVE (TookMargin => TookMargin') /\ (Cause => Cause')
  BY <1>6 DEF Cause, TookMargin
<1>7. CASE DeviceDoes
  BY <1>3, <1>6, <1>7 DEF DeviceDoes, Arms, Commits, TellsFinished, TellsAsleep, Disarms, Wakes, TellsRecovered, Drops
<1>8. CASE RunHears
  BY <1>4, <1>5, <1>6, <1>8
  DEF RunHears, HearArm, HearConfigured, HearCommitted, HearFinished, HearWoken, HearReleased, HearRecovered, HearDropped,
      OthersThanUndoing
<1>10. ASSUME NEW d \in Device, Fires(d) \/ Restores(d) \/ GivesUp(d) \/ Killed(d)
       PROVE  (TookMargin => TookMargin') /\ (Cause => Cause')
  BY <1>10, DevicePast DEF Cause, TookMargin
<1>9. ASSUME RunGoesOn \/ Unreached \/ Dies \/ UNCHANGED vars PROVE UNCHANGED past
  BY <1>9 DEF RunGoesOn, Stages, Confirmless, Waits, StopsAsking, Concludes, Unreached, Dies,
              OthersThanUndoing, vars
<1> QED BY <1>2, <1>6, <1>7, <1>8, <1>9, <1>10 DEF Next

\* The run is where it was: each device stands as long as it did.
LEMMA MarginStill ==
    ASSUME TypeOK, MarginInv, TookMargin => TookMargin', Cause => Cause', UNCHANGED <<todo, verdict>>, client'.at = client.at,
           \/ client'.answer = client.answer
           \/ client'.answer = "yes"
           \/ client.at \in Disarming => TookMargin,
           client.at \in Disarming => \A d \in Device :
               \/ TookMargin'
               \/ dev'[d].wd \in {"dead", "disarmed"}
               \/ dev'[d].wd = "asleep" /\ dev'[d].sleeps + past'.disarming >= Margin
    PROVE  MarginInv'
BY DEF MarginInv, StandsForMargin, RefusesLate, LeftWithCause, PartialHasCause, Cause, TookMargin

LEMMA MarginDevice ==
    ASSUME TypeOK, MarginInv, NEW e \in Device, Fires(e) \/ Restores(e) \/ GivesUp(e) \/ Killed(e)
    PROVE  MarginInv'
<1>1. dev \in [Device -> DevState] /\ past \in PastState
  BY DEF TypeOK, DevState, PastState
<1>2. UNCHANGED <<todo, verdict, client>> /\ past'.disarming = past.disarming /\ past'.cut = past.cut
  BY DevicePast DEF Fires, Restores, GivesUp, Killed, run
<1>3. \A d \in Device : d # e => dev'[d] = dev[d]
  BY <1>1 DEF Fires, Restores, GivesUp, Killed, Turns
<1>4. ASSUME client.at \in Disarming PROVE TookMargin \/ dev'[e].wd = "dead"
  <2>1. CASE Fires(e)
    <3>1. dev[e].wd = "asleep" /\ dev[e].sleeps = 0
      BY <2>1 DEF Fires
    <3>2. TookMargin \/ 0 + past.disarming >= Margin
      BY <1>4, <3>1 DEF MarginInv, StandsForMargin
    <3> QED BY <1>1, <3>2, Sizes DEF PastState, TookMargin
  <2>2. CASE Killed(e)
    BY <1>1, <2>2 DEF Killed, Turns, DevState
  <2>3. CASE Restores(e) \/ GivesUp(e)
    <3>1. dev[e].wd \in {"restoring", "restored"}
      BY <2>3 DEF Restores, GivesUp
    <3> QED BY <1>4, <3>1 DEF MarginInv, StandsForMargin
  <2> QED BY <2>1, <2>2, <2>3
<1>5. client.at \in Disarming => \A d \in Device :
          \/ TookMargin'
          \/ dev'[d].wd \in {"dead", "disarmed"}
          \/ dev'[d].wd = "asleep" /\ dev'[d].sleeps + past'.disarming >= Margin
  BY <1>2, <1>3, <1>4 DEF MarginInv, StandsForMargin, TookMargin
<1>6. (TookMargin => TookMargin') /\ (Cause => Cause')
  BY <1>2 DEF TookMargin, Cause
<1> QED BY <1>2, <1>5, <1>6, MarginStill

\* A tick on a watchdog is a tick of the disarming.
LEMMA MarginTick ==
    ASSUME TypeOK, MarginInv, Tick
    PROVE  MarginInv'
<1>1. dev \in [Device -> DevState] /\ client \in ClientState /\ past \in PastState
  BY DEF TypeOK, DevState, ClientState, PastState
<1>2. (TookMargin => TookMargin') /\ (Cause => Cause')
  BY CauseStays DEF Next
<1>3. client'.at = client.at /\ client'.answer = client.answer /\ UNCHANGED <<todo, verdict>>
  BY <1>1 DEF Tick, ClientState
<1>4. ASSUME client.at \in Disarming, NEW d \in Device
      PROVE  \/ TookMargin'
             \/ dev'[d].wd \in {"dead", "disarmed"}
             \/ dev'[d].wd = "asleep" /\ dev'[d].sleeps + past'.disarming >= Margin
  <2> SUFFICES ASSUME ~TookMargin, ~TookMargin', dev[d].wd = "asleep" PROVE dev'[d].wd = "asleep" /\ dev'[d].sleeps + past'.disarming >= Margin
    <3>1. dev'[d].wd = dev[d].wd
      BY <1>1 DEF Tick, DevState
    <3> QED BY <1>2, <1>4, <3>1 DEF MarginInv, StandsForMargin
  <2>1. past'.disarming = past.disarming + 1
    <3>1. past.disarming < Margin
      <4>1. past.disarming \in 0..Margin
        BY <1>1 DEF PastState
      <4> QED BY <4>1, Sizes DEF TookMargin
    <3>2. past' = [past EXCEPT !.disarming = @ + 1]
      BY <1>4, <3>1 DEF Tick, Disarming
    <3> QED BY <1>1, <3>2 DEF PastState
  <2>2. dev'[d].wd = "asleep" /\ dev'[d].sleeps = Less(dev[d].sleeps, 1)
    BY <1>1 DEF Tick, DevState
  <2>3. dev[d].sleeps + past.disarming >= Margin
    BY <1>4 DEF MarginInv, StandsForMargin
  <2>4. dev[d].sleeps \in Nat /\ past.disarming \in Nat /\ Margin \in Nat
    <3>1. dev[d].sleeps \in 0..Window /\ past.disarming \in 0..Margin
      BY <1>1 DEF DevState, PastState
    <3> QED BY <3>1, Sizes
  <2>5. Less(dev[d].sleeps, 1) + 1 >= dev[d].sleeps /\ Less(dev[d].sleeps, 1) \in Nat
    BY <2>4 DEF Less
  <2> QED BY <2>1, <2>2, <2>3, <2>4, <2>5
<1> QED BY <1>2, <1>3, <1>4, MarginStill

LEMMA MarginCall ==
    ASSUME TypeOK, MarginInv, DeviceDoes
    PROVE  MarginInv'
<1>1. dev \in [Device -> DevState] /\ client \in ClientState /\ past \in PastState
  BY DEF TypeOK, DevState, ClientState, PastState
<1>2. (TookMargin => TookMargin') /\ (Cause => Cause')
  BY CauseStays DEF Next
<1>3. client'.at = client.at /\ UNCHANGED <<todo, verdict>>
  <2>1. UNCHANGED verdict
    BY DEF DeviceDoes, Arms, Configures, Commits, TellsFinished, TellsAsleep, Disarms, Wakes, TellsRecovered, Drops,
           OthersThanDevice
  <2> QED BY <2>1, AnswersNow
<1>4. CASE client.at \notin Disarming
  BY <1>2, <1>3, <1>4, MarginStill
<1>5. CASE client.at \in Disarming
  <2>1. Doing = client.at /\ Called = client.i /\ Called \in Device
    BY <1>1, <1>5 DEF Doing, Called, Disarming, ClientState
  <2>2. Disarms
    BY <1>5, <2>1 DEF DeviceDoes, Arms, Configures, Commits, TellsFinished, TellsAsleep, Wakes, TellsRecovered, Drops,
                      Asked, Disarming
  <2>3. UNCHANGED past
    BY <2>2 DEF Disarms
  <2>4. CASE Disarmable(Called)
    <3>1. Answers("yes") /\ dev' = Turns(Called, "disarmed")
      BY <2>2, <2>4 DEF Disarms
    <3>2. client'.answer = "yes" /\ dev'[Called].wd = "disarmed" /\ \A d \in Device : d # Called => dev'[d] = dev[d]
      BY <1>1, <2>1, <3>1 DEF Answers, Turns, ClientState, DevState
    <3> QED BY <1>2, <1>3, <1>5, <2>3, <3>2, MarginStill DEF MarginInv, StandsForMargin, TookMargin
  <2>5. CASE ~Disarmable(Called)
    <3>1. UNCHANGED dev
      BY <2>2, <2>5 DEF Disarms
    <3>2. TookMargin
      BY <1>5, <2>1, <2>5 DEF Disarmable, MarginInv, StandsForMargin
    <3> QED BY <1>2, <1>3, <3>2, MarginStill
  <2> QED BY <2>4, <2>5
<1> QED BY <1>4, <1>5

\* Where the run agrees, each has its margin left.
LEMMA AgreeInTime ==
    ASSUME TypeOK, CountInv, AskedReady, NEW said \in Heard, HearAsleep(said), client'.at = "disarming"
    PROVE  \A d \in Device : dev[d].wd = "dead" \/ (dev[d].wd = "asleep" /\ dev[d].sleeps >= Margin)
<1> DEFINE i == client.i
           ins == [firesIn EXCEPT ![i] = IF said = "yes" THEN AsSaidWhenAsked ELSE @]
           among == IF said = "yes" THEN timed \cup {i} ELSE timed
<1>1. /\ client \in ClientState /\ firesIn \in Times /\ timed \subseteq Device /\ i \in Device /\ Asking
      /\ Margin \in Nat /\ Margin >= 1 /\ \A d \in Device : dev[d].sleeps \in Nat /\ firesIn[d] \in Nat
  <2>1. Margin \in Nat \ {0}
    BY SizesAssumption DEF SizesAssumption
  <2>2. /\ client \in ClientState /\ firesIn \in Times /\ timed \subseteq Device /\ i \in Device /\ Asking
        /\ dev \in [Device -> DevState]
    BY DEF HearAsleep, TypeOK, ClientState, Times, DevState
  <2>3. 0..Window \subseteq Nat
    BY Sizes
  <2> QED BY <2>1, <2>2, <2>3 DEF DevState, Times
<1>2. said \in {"yes", "kept"} /\ said = client.answer /\ ~Late(ins, among) /\ NextOr("asking", "disarming")
  <2>1. client'.at # "undoing" /\ client'.at # "asking again"
    OBVIOUS
  <2>2. said # "lost"
    <3>1. said = "lost" => client'.at \in {"asking again", "undoing"}
      BY <1>1, HeardAsleep DEF ClientState
    <3> QED BY <2>1, <3>1
  <2> QED BY <2>1, <2>2, HeardAsleep DEF Heard
<1>3. i = N
  <2>1. client' = IF i < N THEN From("asking", i + 1) ELSE From("disarming", 1)
    BY <1>2 DEF NextOr, Goes
  <2>2. ~(i < N)
    BY <2>1 DEF From
  <2> QED BY <1>1, <2>2, Sizes DEF Device
<1> SUFFICES ASSUME NEW d \in Device, dev[d].wd = "asleep" PROVE dev[d].sleeps >= Margin
  BY AgreeReady
<1>4. d \in among /\ ins[d] \in Nat => ins[d] >= Margin
  BY <1>1, <1>2 DEF Late
<1>5. CASE d = i
  <2>1. said = "yes"
    BY <1>1, <1>2, <1>5 DEF AskedReady
  <2>2. dev[d].sleeps + client.took >= client.seconds
    BY <1>1, <1>2, <1>5, <2>1 DEF CountInv, SaidDuringCall
  <2>3. client.took \in Nat /\ client.seconds \in Nat
    <3>1. client.took \in 0..Window /\ client.seconds \in 0..Window
      BY <1>1 DEF ClientState
    <3> QED BY <3>1, Sizes
  <2>4. AsSaidWhenAsked \in Nat /\ dev[d].sleeps >= AsSaidWhenAsked
    BY <1>1, <2>2, <2>3 DEF AsSaidWhenAsked, Less
  <2>5. d \in among /\ ins[d] = AsSaidWhenAsked
    BY <1>1, <1>5, <2>1 DEF Times
  <2>6. AsSaidWhenAsked >= Margin
    BY <1>4, <2>4, <2>5
  <2> QED BY <1>1, <2>4, <2>6
<1>6. CASE d # i
  <2>1. d < i
    BY <1>1, <1>3, <1>6, Sizes DEF Device
  <2>2. d \in timed
    BY <1>1, <2>1 DEF AskedReady
  <2>3. d \in among /\ ins[d] = firesIn[d]
    BY <1>1, <1>6, <2>2 DEF Times
  <2>4. firesIn[d] <= dev[d].sleeps
    BY <2>2 DEF CountInv, CountsOnNoMore
  <2>5. firesIn[d] >= Margin
    BY <1>1, <1>4, <2>3
  <2> QED BY <1>1, <2>4, <2>5
<1> QED BY <1>5, <1>6

LEMMA MarginAgrees ==
    ASSUME TypeOK, CountInv, HoldInv, WayInv, PromiseInv, MarginInv, NEW said \in Heard, HearAsleep(said)
    PROVE  MarginInv'
<1>1. Asking /\ UNCHANGED dev /\ past \in PastState /\ past' = [past EXCEPT !.agreed = client'.at = "disarming"]
  BY DEF HearAsleep, TypeOK, PastState
<1>2. verdict = "nothing" /\ todo = <<>>
  BY <1>1, NothingYet DEF PromiseInv, Ground, Asking, Forward
<1>3. CASE client'.at = "disarming"
  <2>1. \A d \in Device : dev[d].wd = "dead" \/ (dev[d].wd = "asleep" /\ dev[d].sleeps >= Margin)
    BY <1>3, AgreeInTime DEF PromiseInv
  <2>2. \A d \in Device : dev[d].sleeps \in Nat
    <3>1. dev \in [Device -> DevState]
      BY DEF TypeOK, DevState
    <3>2. 0..Window \subseteq Nat
      BY Sizes
    <3> QED BY <3>1, <3>2 DEF DevState
  <2>3. past'.disarming \in Nat /\ Margin \in Nat
    BY <1>1, Sizes DEF PastState
  <2>4. StandsForMargin'
    <3> SUFFICES ASSUME NEW d \in Device
                 PROVE  dev'[d].wd = "dead" \/ (dev'[d].wd = "asleep" /\ dev'[d].sleeps + past'.disarming >= Margin)
      BY DEF StandsForMargin
    <3>1. dev[d].sleeps >= Margin => dev[d].sleeps + past'.disarming >= Margin
      BY <2>2, <2>3
    <3> QED BY <1>1, <2>1, <3>1
  <2>5. client'.answer = "none" /\ UNCHANGED <<todo, verdict>>
    <3>1. NextOr("asking", "disarming")
      <4>1. said = "lost" => client'.at \in {"asking again", "undoing"}
        <5>1. client \in ClientState
          BY DEF TypeOK, ClientState
        <5> QED BY <5>1, HeardAsleep DEF ClientState
      <4> QED BY <1>3, <4>1, HeardAsleep DEF Heard
    <3> QED BY <3>1 DEF NextOr, Goes, From
  <2> QED BY <1>2, <2>4, <2>5 DEF MarginInv, RefusesLate, LeftWithCause, PartialHasCause
<1>4. CASE client'.at # "disarming"
  <2>1. client'.at \notin Disarming
    <3>1. client'.at \in {"undoing", "asking again", "asking"}
      <4>1. client \in ClientState
        BY DEF TypeOK, ClientState
      <4>2. NextOr("asking", "disarming") => client'.at = "asking"
        BY <1>4 DEF NextOr, Goes, From
      <4> QED BY <4>1, <4>2, HeardAsleep DEF Heard, ClientState
    <3> QED BY <3>1 DEF Disarming
  <2>2. verdict' # "partial"
    <3>1. UNCHANGED verdict \/ verdict' = "rolled-back"
      <4>1. CASE said = "lost"
        BY <1>1, <4>1 DEF HearAsleep, Undoes, Asking
      <4>2. CASE said = "no"
        BY <4>2 DEF HearAsleep, Undoes
      <4>3. CASE said \in {"yes", "kept"}
        BY <4>3 DEF HearAsleep, Undoes, NextOr, Goes
      <4> QED BY <4>1, <4>2, <4>3 DEF Heard
    <3> QED BY <1>2, <3>1
  <2> QED BY <2>1, <2>2, MarginApart
<1> QED BY <1>3, <1>4

\* One not disarmed is left to undo: it was out of reach twice, or refused.
LEMMA MarginDisarms ==
    ASSUME TypeOK, HoldInv, WayInv, PromiseInv, MarginInv, NEW said \in Heard, HearDisarmed(said)
    PROVE  MarginInv'
<1> DEFINE i == client.i
           keeping == IF said = "yes" THEN kept \cup {i} ELSE kept
           undoing == IF said = "yes" THEN todo ELSE Append(todo, Item(i, IF said = "no" THEN "recover" ELSE "wait"))
<1>1. client.at \in Disarming /\ UNCHANGED dev /\ past \in PastState /\ todo \in Seq(ToDo) /\ verdict = "nothing"
  BY DEF HearDisarmed, TypeOK, Disarming, PastState, ToDo, PromiseInv, VerdictHasGround
<1>2. (TookMargin => TookMargin') /\ (Cause => Cause') /\ past'.disarming = past.disarming
  <2>1. past'.disarming = past.disarming
    BY <1>1 DEF HearDisarmed, PastState
  <2> QED BY <2>1, CauseStays DEF Next, RunHears
<1>3. \/ client' = From("disarming again", i) /\ UNCHANGED <<todo, verdict>>
      \/ said # "lost" \/ client.at = "disarming again"
  BY <1>1 DEF HearDisarmed, Disarming
<1>4. said = "lost" /\ client.at = "disarming again" => Cause'
  BY <1>1 DEF HearDisarmed, PastState, Cause
<1>5. said \in {"no", "kept"} => Cause'
  <2> SUFFICES ASSUME said \in {"no", "kept"} PROVE Cause'
    OBVIOUS
  <2>1. said = client.answer
    BY DEF HearDisarmed, Hears
  <2>2. TookMargin
    BY <1>1, <2>1 DEF MarginInv, RefusesLate
  <2> QED BY <1>2, <2>2 DEF Cause
<1>6. CASE client' = From("disarming again", i) /\ UNCHANGED <<todo, verdict>>
  <2>1. client'.at = "disarming again" /\ client'.answer = "none"
    BY <1>6 DEF From
  <2>2. StandsForMargin'
    BY <1>1, <1>2 DEF MarginInv, StandsForMargin, TookMargin
  <2> QED BY <1>1, <1>2, <1>6, <2>1, <2>2 DEF MarginInv, RefusesLate, LeftWithCause, PartialHasCause
<1>7. CASE said # "lost" \/ client.at = "disarming again"
  <2>1. undoing # <<>> => Cause'
    <3>1. CASE said = "yes"
      <4>1. todo # <<>> => Cause
        BY <1>1 DEF MarginInv, LeftWithCause
      <4> QED BY <1>2, <3>1, <4>1
    <3>2. CASE said # "yes"
      BY <1>4, <1>5, <1>7, <3>2 DEF Heard
    <3> QED BY <3>1, <3>2
  <2>2. /\ ~(said = "lost" /\ client.at = "disarming")
        /\ todo' = undoing
        /\ \/ client' = From("disarming", i + 1) /\ UNCHANGED verdict
           \/ /\ client' = From("undoing", i)
              /\ verdict' \in IF undoing = <<>> THEN {"applied", "applied-with-problems"}
                              ELSE IF keeping # {} THEN {"partial"} ELSE {"rolled-back"}
    BY <1>7 DEF HearDisarmed
  <2> HIDE DEF undoing, keeping
  <2>3. CASE client' = From("disarming", i + 1) /\ UNCHANGED verdict
    <3>1. client'.at = "disarming" /\ client'.answer = "none"
      BY <2>3 DEF From
    <3>2. StandsForMargin'
      BY <1>1, <1>2 DEF MarginInv, StandsForMargin, TookMargin
    <3> QED BY <1>1, <2>1, <2>2, <2>3, <3>1, <3>2 DEF MarginInv, RefusesLate, LeftWithCause, PartialHasCause
  <2>4. CASE client' = From("undoing", i) /\ verdict' \in IF undoing = <<>> THEN {"applied", "applied-with-problems"}
                                                            ELSE IF keeping # {} THEN {"partial"} ELSE {"rolled-back"}
    <3>1. client'.at \notin Disarming
      BY <2>4 DEF From, Disarming
    <3>2. verdict' = "partial" => undoing # <<>>
      BY <2>4
    <3> QED BY <2>1, <3>1, <3>2, MarginApart
  <2> QED BY <2>2, <2>3, <2>4
<1> QED BY <1>3, <1>6, <1>7

LEMMA StepMargin ==
    ASSUME TypeOK, CountInv, HoldInv, WayInv, PromiseInv, MarginInv, [Next]_vars
    PROVE  MarginInv'
<1>1. (TookMargin => TookMargin') /\ (Cause => Cause') /\ (verdict = "partial" => Cause)
  BY CauseStays DEF MarginInv, PartialHasCause, Cause, TookMargin
<1>2. ASSUME NEW items, NEW end \in {"failed", "rolled-back"}, Undoes(items, end) PROVE MarginInv'
  BY <1>2, MarginApart DEF Undoes, From, Disarming
<1>3. ASSUME NEW at \in Phase \ Disarming, NEW i, client' = From(at, i), verdict' = verdict \/ verdict' = "nothing" PROVE MarginInv'
  BY <1>1, <1>3, MarginApart DEF From
<1>4. ASSUME NEW changed, FailsConfiguring(changed) PROVE MarginInv'
  BY <1>2, <1>4 DEF FailsConfiguring
<1>5. ASSUME NEW said \in Heard, HearArm(said) \/ HearConfigured(said) \/ HearCommitted(said) \/ HearFinished(said)
      PROVE  MarginInv'
  <2>1. CASE HearArm(said)
    BY <1>2, <1>3, <2>1 DEF HearArm, NextOr, Goes, Phase, Disarming
  <2>2. CASE HearConfigured(said)
    BY <1>3, <1>4, <2>2 DEF HearConfigured, Goes, Phase, Disarming
  <2>3. CASE HearCommitted(said)
    BY <1>3, <1>4, <2>3 DEF HearCommitted, NextOr, Goes, Phase, Disarming
  <2>4. CASE HearFinished(said)
    BY <1>2, <1>3, <2>4 DEF HearFinished, NextOr, Goes, Phase, Disarming
  <2> QED BY <1>5, <2>1, <2>2, <2>3, <2>4
<1>6. ASSUME NEW said \in Heard,
             \/ HearWoken(said) \/ HearReleased(said) \/ HearRecovered(said) \/ HearDropped(said)
             \/ Waits \/ StopsAsking
      PROVE  MarginInv'
  BY <1>3, <1>6, UndoingSteps DEF Phase, Disarming
<1>7. CASE RunHears
  BY <1>5, <1>6, <1>7, MarginAgrees, MarginDisarms DEF RunHears
<1>8. CASE RunGoesOn
  BY <1>2, <1>3, <1>6, <1>8 DEF RunGoesOn, Stages, Goes, Confirmless, Concludes, Phase, Heard, Disarming
<1>9. CASE Unreached \/ Dies
  BY <1>3, <1>4, <1>9 DEF Unreached, Dies, Phase, Disarming
<1>10. CASE UNCHANGED vars
  BY <1>10 DEF vars, MarginInv, StandsForMargin, RefusesLate, LeftWithCause, PartialHasCause, Cause, TookMargin
<1> QED BY <1>7, <1>8, <1>9, <1>10, MarginDevice, MarginCall, MarginTick DEF Next

\* Once every device was found ready, some keep the change and some do not only
\* if one could not be reached twice as it was disarmed, or disarming took
\* longer than the margin provisionNetwork.ts asked for: for any number of
\* devices and any times.
THEOREM PartialAlwaysHasCause == Spec => []PartialHasCause
<1>1. Init => CountInv /\ HoldInv /\ WayInv /\ PromiseInv /\ MarginInv
  BY InitCounts, InitHolds, InitWay, InitPromise, InitMargin
<1>2. TypeOK /\ TypeOK' /\ CountInv /\ HoldInv /\ WayInv /\ PromiseInv /\ MarginInv /\ [Next]_vars
      => CountInv' /\ HoldInv' /\ WayInv' /\ PromiseInv' /\ MarginInv'
  BY StepCounts, StepHolds, StepWay, StepPromise, StepMargin
<1>3. MarginInv => PartialHasCause
  BY DEF MarginInv
<1> QED BY <1>1, <1>2, <1>3, TypeCorrect, PTL DEF Spec

-----------------------------------------------------------------------------
(* What the run says of each device is so. *)

Quiet == {"disarmed", "over"}

\* Nothing is said before the undoing; an answer heard is still so.
ToldAtEnd == client.at \notin {"undoing", "ended"} => \A d \in Device : told[d] = "nothing"
ReleasedIsSo == Doing \in {"release", "release again"} /\ client.answer = "yes" => dev[Called].wd = "disarmed"
RecoveredIsSo == Doing \in {"recover", "recover untouched"} /\ client.answer = "yes" => dev[Called].wd = "over"

ToldInv == ToldTruly /\ ToldAtEnd /\ ReleasedIsSo /\ RecoveredIsSo

LEMMA InitTold == Init => ToldInv
<1> SUFFICES ASSUME Init PROVE ToldInv
  OBVIOUS
<1>1. (\A d \in Device : told[d] = "nothing") /\ client.answer = "none"
  BY DEF Init, From
<1> QED BY <1>1 DEF ToldInv, ToldTruly, ToldAtEnd, ReleasedIsSo, RecoveredIsSo

\* No step rouses a watchdog that is disarmed or over, nor changes its device.
Rests ==
    \A d \in Device : dev[d].wd \in Quiet =>
        dev'[d].wd = dev[d].wd /\ (dev[d].change = "none" => dev'[d].change = "none")

\* The run is where it was.
LEMMA ToldStill ==
    ASSUME TypeOK, ToldInv, Rests, UNCHANGED <<todo, told>>, past.unrestored \subseteq past'.unrestored,
           client'.at = client.at, client'.i = client.i, client'.answer = client.answer
    PROVE  ToldInv'
<1>1. Doing' = Doing /\ Called' = Called
  BY DEF Doing, Called
<1>2. Doing \in Undoing => Called \in Device
  BY DoingOK
<1>3. ToldTruly'
  BY DEF ToldInv, ToldTruly, Rests, Quiet
<1>4. ReleasedIsSo' /\ RecoveredIsSo'
  BY <1>1, <1>2 DEF ToldInv, ReleasedIsSo, RecoveredIsSo, Rests, Quiet, Undoing
<1> QED BY <1>3, <1>4 DEF ToldInv, ToldAtEnd

LEMMA ToldDevice ==
    ASSUME TypeOK, ToldInv, NEW e \in Device, Fires(e) \/ Restores(e) \/ GivesUp(e) \/ Killed(e)
    PROVE  ToldInv'
<1>1. UNCHANGED <<client, todo, told>> /\ past.unrestored \subseteq past'.unrestored
  BY DevicePast DEF Fires, Restores, GivesUp, Killed, run
<1>2. dev[e].wd \notin Quiet /\ \A d \in Device : d # e => dev'[d] = dev[d]
  <2>1. dev \in [Device -> DevState]
    BY DEF TypeOK, DevState
  <2> QED BY <2>1 DEF Fires, Restores, GivesUp, Killed, Turns, Quiet
<1>3. Rests
  BY <1>2 DEF Rests
<1> QED BY <1>1, <1>3, ToldStill

LEMMA ToldTick ==
    ASSUME TypeOK, ToldInv, Tick
    PROVE  ToldInv'
<1>1. dev \in [Device -> DevState] /\ client \in ClientState /\ past \in PastState
  BY DEF TypeOK, DevState, ClientState, PastState
<1>2. Rests
  BY <1>1 DEF Tick, Rests, DevState
<1>3. client'.at = client.at /\ client'.i = client.i /\ client'.answer = client.answer /\ past'.unrestored = past.unrestored
  BY <1>1 DEF Tick, ClientState, PastState
<1> QED BY <1>2, <1>3, ToldStill DEF Tick

\* A call of a phase: nothing is said yet.
LEMMA ToldPhase ==
    ASSUME TypeOK, ToldInv, DeviceDoes, client.at \notin {"undoing", "ended"}
    PROVE  ToldInv'
<1>1. UNCHANGED told /\ client'.at = client.at
  <2>1. UNCHANGED told
    BY DEF DeviceDoes, Arms, Configures, Commits, TellsFinished, TellsAsleep, Disarms, Wakes, TellsRecovered, Drops,
           OthersThanDevice
  <2> QED BY <2>1, AnswersNow
<1>2. Doing' \notin Undoing
  <2>1. Doing' = client.at /\ client.at \in Phase
    BY <1>1 DEF Doing, TypeOK
  <2> QED BY <2>1 DEF Phase, Undoing
<1>3. ReleasedIsSo' /\ RecoveredIsSo'
  BY <1>2 DEF ReleasedIsSo, RecoveredIsSo, Undoing
<1>4. ToldTruly' /\ ToldAtEnd'
  BY <1>1 DEF ToldInv, ToldAtEnd, ToldTruly
<1> QED BY <1>3, <1>4 DEF ToldInv

\* A call of the undoing: none is of a device said to be released, and a drop
\* is of none disarmed.
LEMMA ToldCall ==
    ASSUME TypeOK, PromiseInv, ToldInv, DeviceDoes
    PROVE  ToldInv'
<1>1. dev \in [Device -> DevState] /\ client \in ClientState
  BY DEF TypeOK, DevState, ClientState
<1> SUFFICES ASSUME client.at = "undoing" \/ client.at = "ended" PROVE ToldInv'
  BY ToldPhase
<1>2. Disarms \/ Wakes \/ TellsRecovered \/ Drops
  <2>1. ASSUME NEW phase \in {"arming", "configuring", "committing", "confirming", "asking", "asking again"}
        PROVE  ~Asked({phase})
    BY <2>1, CalledIn DEF Phase
  <2> QED BY <2>1 DEF DeviceDoes, Arms, Configures, Commits, TellsFinished, TellsAsleep, Asked
<1>3. Doing \in Undoing /\ UNCHANGED <<past, told>>
  <2>1. Doing \in Undoing
    <3>1. ~Asked({"disarming"}) /\ ~Asked({"disarming again"})
      BY CalledIn DEF Phase
    <3> QED BY <1>2, <3>1 DEF Disarms, Wakes, TellsRecovered, Drops, Asked, Undoing
  <2> QED BY <1>2, <2>1 DEF Disarms, Wakes, TellsRecovered, Drops, OthersThanDevice
<1>4. Called \in Device /\ client.at = "undoing"
  BY <1>3, DoingOK
<1>5. client'.at = client.at /\ client'.i = client.i /\ UNCHANGED todo
  BY AnswersNow
<1>6. Doing' = Doing /\ Called' = Called
  BY <1>5 DEF Doing, Called
<1>7. Rests
  <2>1. CASE UNCHANGED dev
    BY <2>1 DEF Rests
  <2>2. ASSUME NEW wd, dev' = Turns(Called, wd), dev[Called].wd \in Quiet => dev[Called].wd = wd PROVE Rests
    BY <1>1, <1>4, <2>2 DEF Rests, Turns, DevState
  <2>3. CASE Disarms
    BY <2>1, <2>2, <2>3 DEF Disarms, Disarmable, Quiet
  <2>4. CASE Wakes
    BY <2>1, <2>2, <2>4 DEF Wakes, Quiet
  <2>5. CASE TellsRecovered
    <3>1. UNCHANGED dev \/ (dev[Called].wd = "restored" /\ dev' = [dev EXCEPT ![Called].wd = "over"])
      BY <2>5 DEF TellsRecovered, Recoverable
    <3> QED BY <1>1, <1>4, <3>1 DEF Rests, Quiet
  <2>6. CASE Drops
    <3>1. dev[Called].wd # "disarmed"
      <4>1. PICK S \in SUBSET Device : Apart(S)
        BY DEF PromiseInv, DropsApart
      <4>2. Called \in S
        BY <1>3, <2>6, <4>1, ReleasesOthers DEF Drops, Asked, Drop
      <4> QED BY <4>1, <4>2 DEF Apart
    <3> QED BY <2>1, <2>2, <2>6, <3>1 DEF Drops, Quiet
  <2> QED BY <1>2, <2>3, <2>4, <2>5, <2>6
<1>8. ReleasedIsSo'
  <2> SUFFICES ASSUME Doing \in {"release", "release again"}, client'.answer = "yes" PROVE dev'[Called].wd = "disarmed"
    BY <1>6 DEF ReleasedIsSo
  <2>1. Disarms
    BY <1>2 DEF Wakes, TellsRecovered, Drops, Asked
  <2>2. Answers("no") => client'.answer = "no"
    BY <1>1 DEF Answers, ClientState
  <2>3. dev' = Turns(Called, "disarmed")
    BY <2>1, <2>2 DEF Disarms
  <2> QED BY <1>1, <1>4, <2>3 DEF Turns, DevState
<1>9. RecoveredIsSo'
  <2> SUFFICES ASSUME Doing \in {"recover", "recover untouched"}, client'.answer = "yes" PROVE dev'[Called].wd = "over"
    BY <1>6 DEF RecoveredIsSo
  <2>1. TellsRecovered
    BY <1>2 DEF Disarms, Wakes, Drops, Asked
  <2>2. Answers("no") => client'.answer = "no"
    BY <1>1 DEF Answers, ClientState
  <2>3. dev' = [dev EXCEPT ![Called].wd = "over"]
    BY <2>1, <2>2 DEF TellsRecovered
  <2> QED BY <1>1, <1>4, <2>3 DEF DevState
<1>10. ToldTruly' /\ ToldAtEnd'
  BY <1>3, <1>5, <1>7 DEF ToldInv, ToldTruly, ToldAtEnd, Rests, Quiet
<1> QED BY <1>8, <1>9, <1>10 DEF ToldInv

\* The run goes on without a word of any device.
LEMMA ToldGoes ==
    ASSUME ToldInv, UNCHANGED <<dev, told>>, past'.unrestored = past.unrestored,
           client'.answer = "none", client'.at \in {"undoing", "ended"} \/ client.at \notin {"undoing", "ended"}
    PROVE  ToldInv'
BY DEF ToldInv, ToldTruly, ToldAtEnd, ReleasedIsSo, RecoveredIsSo

\* A word is said of one device.
LEMMA ToldEnds ==
    ASSUME TypeOK, ToldInv, UNCHANGED <<dev, past>>, Called \in Device, NEW word, Ends(word),
           word \in {"rolled back", "untouched"} /\ Called \notin past.unrestored => dev[Called].change = "none" /\ dev[Called].wd \in Quiet
    PROVE  ToldInv'
<1>1. client'.at = "undoing" /\ client'.answer = "none"
  BY DEF Ends, From
<1>2. told' = [told EXCEPT ![Called] = word]
  BY DEF Ends
<1>3. told \in [Device -> Word]
  BY DEF TypeOK, Word
<1>4. ToldTruly'
  BY <1>2, <1>3 DEF ToldInv, ToldTruly, Quiet
<1> QED BY <1>1, <1>4 DEF ToldInv, ToldAtEnd, ReleasedIsSo, RecoveredIsSo

LEMMA ToldUndoing ==
    ASSUME TypeOK, WayInv, ToldInv, NEW said \in Heard,
           \/ HearWoken(said) \/ HearReleased(said) \/ HearRecovered(said) \/ HearDropped(said)
           \/ Waits \/ StopsAsking
    PROVE  ToldInv'
<1>1. Doing \in Undoing /\ UNCHANGED <<dev, past>> /\ client' = From("undoing", client.i)
  BY UndoingSteps
<1>2. client.at = "undoing" /\ todo # <<>> /\ Called \in Device
  BY <1>1, DoingOK
<1>3. client'.at = "undoing" /\ client'.answer = "none"
  BY <1>1 DEF From
<1>4. ASSUME UNCHANGED told PROVE ToldInv'
  BY <1>1, <1>3, <1>4, ToldGoes
<1>5. ASSUME NEW how, Becomes(how) PROVE ToldInv'
  BY <1>4, <1>5 DEF Becomes
<1>6. ASSUME NEW word, word \notin {"rolled back", "untouched"}, Ends(word) PROVE ToldInv'
  BY <1>1, <1>2, <1>6, ToldEnds
<1>7. CASE HearReleased(said)
  <2>1. CASE said = "yes"
    <3>1. Ends("untouched") /\ client.answer = "yes" /\ Doing \in {"release", "release again"}
      BY <1>7, <2>1 DEF HearReleased, Hears
    <3>2. dev[Called].wd = "disarmed"
      BY <3>1 DEF ToldInv, ReleasedIsSo
    <3>3. dev[Called].change = "none"
      <4>1. Head(todo) \in SafeItem
        BY <1>2 DEF WayInv, StandsDownUnchanged
      <4>2. Doing = Head(todo).how /\ Called = Head(todo).device
        BY <1>2 DEF Doing, Called
      <4> QED BY <3>1, <4>1, <4>2 DEF SafeItem, StandDown, Unchanged
    <3> QED BY <1>1, <1>2, <3>1, <3>2, <3>3, ToldEnds DEF Quiet
  <2>2. CASE said # "yes"
    BY <1>5, <1>7, <2>2 DEF HearReleased, Heard
  <2> QED BY <2>1, <2>2
<1>8. CASE HearRecovered(said)
  <2>1. CASE said = "yes"
    <3>1. client.answer = "yes" /\ Doing \in {"recover", "recover untouched"} /\ \E word : Ends(word)
      BY <1>8, <2>1 DEF HearRecovered, Hears
    <3>2. dev[Called].wd = "over"
      BY <3>1 DEF ToldInv, RecoveredIsSo
    <3>3. Called \notin past.unrestored => dev[Called].change = "none"
      BY <1>2, <3>2 DEF WayInv, HasWayBack
    <3> QED BY <1>1, <1>2, <3>1, <3>2, <3>3, ToldEnds DEF Quiet
  <2>2. CASE said # "yes"
    BY <1>5, <1>8, <2>2 DEF HearRecovered
  <2> QED BY <2>1, <2>2
<1>9. CASE HearWoken(said)
  BY <1>5, <1>9 DEF HearWoken
<1>10. CASE HearDropped(said)
  BY <1>4, <1>5, <1>6, <1>10 DEF HearDropped, Heard
<1>11. CASE Waits
  BY <1>5, <1>11 DEF Waits
<1>12. CASE StopsAsking
  BY <1>6, <1>12 DEF StopsAsking
<1> QED BY <1>7, <1>8, <1>9, <1>10, <1>11, <1>12

LEMMA StepTold ==
    ASSUME TypeOK, WayInv, PromiseInv, ToldInv, [Next]_vars
    PROVE  ToldInv'
<1>1. ASSUME NEW at \in Phase, NEW i, client' = From(at, i), UNCHANGED <<dev, told>>, past'.unrestored = past.unrestored,
             client.at \notin {"undoing", "ended"} \/ at \in {"undoing", "ended"}
      PROVE  ToldInv'
  BY <1>1, ToldGoes DEF From
<1>2. ASSUME NEW items, NEW end, Undoes(items, end), UNCHANGED dev, past'.unrestored = past.unrestored PROVE ToldInv'
  BY <1>1, <1>2 DEF Undoes, Phase
<1>3. ASSUME NEW changed, FailsConfiguring(changed), UNCHANGED dev, past'.unrestored = past.unrestored PROVE ToldInv'
  BY <1>2, <1>3 DEF FailsConfiguring
<1>4. ASSUME NEW said \in Heard, HearArm(said) \/ HearConfigured(said) \/ HearCommitted(said) \/ HearFinished(said)
      PROVE  ToldInv'
  <2>1. UNCHANGED <<dev, past>> /\ past'.unrestored = past.unrestored
    BY <1>4 DEF HearArm, HearConfigured, HearCommitted, HearFinished
  <2>2. CASE HearArm(said)
    BY <1>1, <1>2, <2>1, <2>2 DEF HearArm, NextOr, Goes, Phase
  <2>3. CASE HearConfigured(said)
    BY <1>1, <1>3, <2>1, <2>3 DEF HearConfigured, Goes, Phase
  <2>4. CASE HearCommitted(said)
    BY <1>1, <1>3, <2>1, <2>4 DEF HearCommitted, NextOr, Goes, Phase
  <2>5. CASE HearFinished(said)
    BY <1>1, <1>2, <2>1, <2>5 DEF HearFinished, NextOr, Goes, Phase
  <2> QED BY <1>4, <2>2, <2>3, <2>4, <2>5
<1>5. ASSUME NEW said \in Heard, HearAsleep(said) PROVE ToldInv'
  <2>1. /\ client \in ClientState /\ past \in PastState /\ client.at \in {"asking", "asking again"} /\ UNCHANGED dev
        /\ past'.unrestored = past.unrestored
    BY <1>5 DEF HearAsleep, Asking, TypeOK, ClientState, PastState
  <2>2. CASE said = "lost" /\ client.at = "asking"
    <3>1. client'.at = "asking again" /\ client'.answer = "none" /\ UNCHANGED told
      BY <1>5, <2>1, <2>2 DEF HearAsleep, ClientState
    <3> QED BY <2>1, <3>1, ToldGoes
  <2>3. CASE (said = "lost" /\ client.at = "asking again") \/ said = "no"
    BY <1>2, <1>5, <2>1, <2>3 DEF HearAsleep
  <2>4. CASE said \in {"yes", "kept"}
    BY <1>1, <1>2, <1>5, <2>1, <2>4 DEF HearAsleep, NextOr, Goes, Phase
  <2> QED BY <2>1, <2>2, <2>3, <2>4 DEF Heard
<1>6. ASSUME NEW said \in Heard, HearDisarmed(said) PROVE ToldInv'
  <2>1. past'.unrestored = past.unrestored /\ UNCHANGED <<dev, told>> /\ client.at \notin {"undoing", "ended"}
    <3>1. past \in PastState
      BY DEF TypeOK, PastState
    <3> QED BY <1>6, <3>1 DEF HearDisarmed, PastState
  <2> QED BY <1>1, <1>6, <2>1 DEF HearDisarmed, Phase
<1>7. CASE RunHears
  BY <1>4, <1>5, <1>6, <1>7, ToldUndoing DEF RunHears
<1>8. CASE RunGoesOn
  BY <1>1, <1>2, <1>8, ToldUndoing
  DEF RunGoesOn, Stages, Goes, Confirmless, Concludes, Phase, Heard, OthersThanUndoing
<1>9. CASE Unreached
  BY <1>3, <1>9 DEF Unreached
<1>10. CASE Dies
  BY <1>10 DEF Dies, From, ToldInv, ToldTruly, ToldAtEnd, ReleasedIsSo, RecoveredIsSo
<1>11. CASE UNCHANGED vars
  BY <1>11, ToldStill DEF vars, Rests
<1> QED BY <1>7, <1>8, <1>9, <1>10, <1>11, ToldDevice, ToldCall, ToldTick DEF Next

\* What the run says of a device it undid is so and stays so, whichever call
\* was lost: one "rolled back" or "untouched" has none of the change, and no
\* watchdog left to restore or reboot it (but for one configured beside its
\* own restore).
THEOREM AlwaysToldTruly == Spec => []ToldTruly
<1>1. Init => CountInv /\ HoldInv /\ WayInv /\ PromiseInv /\ ToldInv
  BY InitCounts, InitHolds, InitWay, InitPromise, InitTold
<1>2. TypeOK /\ TypeOK' /\ CountInv /\ HoldInv /\ WayInv /\ PromiseInv /\ ToldInv /\ [Next]_vars
      => CountInv' /\ HoldInv' /\ WayInv' /\ PromiseInv' /\ ToldInv'
  BY StepCounts, StepHolds, StepWay, StepPromise, StepTold
<1>3. ToldInv => ToldTruly
  BY DEF ToldInv
<1> QED BY <1>1, <1>2, <1>3, TypeCorrect, PTL DEF Spec
=============================================================================
