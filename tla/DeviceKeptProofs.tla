-------------------------- MODULE DeviceKeptProofs --------------------------
(***************************************************************************)
(* A device told kept keeps what it was given, and one told untouched its  *)
(* old settings: no watchdog of the run restores it then or later, no copy *)
(* on flash does at a restart, and a kept one carries the applied marker.  *)
(* For any number of watchdogs, calls, losses, kills and cuts, where a     *)
(* disarm's settle outlasts its watchdog's next two commands.              *)
(***************************************************************************)
EXTENDS DeviceAgentProofs

ArmAt == {"installing boot script", "snapshotting", "copying to flash", "copying more", "launching", "settling"}
FinaliseAt == {"committing", "committing more", "reloading"}
EvidenceAt == {"clearing copies", "was it committed?", "or before it left?", "marking applied"}
DisarmingAt == {"disarm", "confirming", "waking", "settling disarm", "still asleep?", "stood down?"} \cup EvidenceAt
RestAt == {"idle", "said"}

\* The phases of a run that goes forward, and those that stand its watchdog down.
Onward == {"arming", "preparing", "staging", "committing", "reverting", "starting", "confirming", "asking", "reasking"}
Letting == {"disarming", "redisarming", "releasing", "rereleasing"}

\* What the awaited verb of a phase is at, and what earlier ones may still be.
Own == [arming |-> ArmAt, preparing |-> {"discarding staged", "installing"}, staging |-> {"staging", "writing"},
        committing |-> FinaliseAt, reverting |-> {"reverting"}, starting |-> {"starting services"},
        confirming |-> {"finished?"}, asking |-> {"asleep?"}, reasking |-> {"asleep?"}]
Stray == [arming |-> {}, preparing |-> {}, staging |-> {}, committing |-> {}, reverting |-> {},
          starting |-> FinaliseAt, confirming |-> FinaliseAt \cup {"starting services"},
          asking |-> {"starting services"}, reasking |-> {"starting services", "asleep?"}]
Harmless == {"starting services", "asleep?", "reverting", "recovered?", "done"}

GoesOn == client.phase \in Onward
Lets == client.phase \in Letting \/ StoodDown \/ \E c \in Call : verb[c].at \in DisarmingAt
Kept == GoesOn \/ Lets
SaidYes == client.awaits # 0 /\ verb[client.awaits].at = "said" /\ verb[client.awaits].answer = "yes"

\* Going forward, no verb of a way back runs: only the awaited one, and earlier ones
\* whose answer was lost.
OnwardCalls ==
    GoesOn => \A c \in Call :
        verb[c].at \in RestAt \cup (IF c = client.awaits THEN Own[client.phase] ELSE Stray[client.phase])

\* Once its watchdog may be stood down, no verb runs that changes the device or
\* begins to undo it.
LettingCalls ==
    Lets => /\ client.phase \in Letting \cup {"recovering", "finishing", "over"}
            /\ \A c \in Call : verb[c].at \in RestAt \cup Harmless \cup DisarmingAt
            /\ client.phase \in Letting /\ client.awaits # 0 => verb[client.awaits].at \in RestAt \cup DisarmingAt

\* What it was told comes last, and `done` only after it.
ToldLast ==
    /\ StoodDown => client.phase \in {"finishing", "over"}
    /\ client.phase = "finishing" => StoodDown
    /\ \A c \in Call : verb[c].at = "done" => StoodDown

Leaving == {"standing down", "saying disarmed", "clearing"}

\* A run that goes forward or lets go has the watchdog arming started and no other, and it alone is noted.
OneWatchdog ==
    Kept =>
        /\ \A w \in Watchdog : w # 1 => wd[w].at = "off"
        /\ client.phase = "arming" /\ (client.awaits = 0 \/ verb[client.awaits].at \in ArmAt \ {"settling"}) =>
             wd[1].at = "off"
        /\ ram.slept # 0 => ram.pid = 1 /\ wd[1].at \notin {"off", "starting", "falling asleep"}
        /\ ram.dir /\ wd[1].at = "falling asleep" => ram.pid = 1

\* Going forward no one has put the flag there, so it does not leave.
NotConfirmed ==
    GoesOn => "confirmed" \notin ram.marks /\ ram.out = {} /\ wd[1].at \notin Leaving

\* It leaves in the code's order: its marker among those left for others, then its directory.
LeavesInOrder ==
    Kept =>
        /\ wd[1].at \notin RestoringAt \cup {"ended"} => "restoring" \notin ram.marks
        /\ "disarmed" \in ram.out => "restoring" \notin ram.marks /\ wd[1].at \in {"clearing", "ended"}
        /\ ~StoodDown /\ wd[1].at = "clearing" => "disarmed" \in ram.out
        /\ ~StoodDown /\ wd[1].at \in Leaving => ram.dir

DoneCommit == "committed" \in ram.marks \cup ram.out
BeforeCommit == \/ client.phase \in {"arming", "preparing", "staging", "reverting", "releasing", "rereleasing"}
                \/ client.phase = "committing" /\ client.awaits = 0

\* One commit in all, whose marker comes at its end.
OneFinalise ==
    Kept =>
        /\ \A c, d \in Call : verb[c].at \in FinaliseAt /\ verb[d].at \in FinaliseAt => c = d
        /\ \A c \in Call : verb[c].at \in FinaliseAt => ~DoneCommit
        /\ BeforeCommit => ~DoneCommit

Unfired == wd[1].at \notin RestoringAt /\ "restoring" \notin ram.marks /\ (ram.dir \/ "disarmed" \in ram.out)

\* While nothing restores it, the settings are as far as the run has come.
SettingsSo ==
    Kept /\ ~StoodDown /\ Unfired =>
        /\ flash.links # "none"
        /\ BeforeCommit => flash.config = "old"
        /\ client.phase = "committing" /\ client.awaits = 0 => ram.staged
        /\ client.phase = "staging" /\ client.awaits # 0 /\ (SaidYes \/ verb[client.awaits].at = "writing") => ram.staged
        /\ \A c \in Call :
             /\ verb[c].at = "committing" => flash.config = "old" /\ ram.staged
             /\ verb[c].at = "committing more" => flash.config = "part" /\ ram.staged
             /\ verb[c].at = "reloading" => flash.config = "new"
        /\ DoneCommit => flash.config = "new"

AfterFinish == client.phase \in {"asking", "reasking", "disarming", "redisarming"} \/ (client.phase = "confirming" /\ SaidYes)
\* Past the question whether the commit finished, its marker is in the directory, or
\* among those the watchdog left behind.
Finished ==
    AfterFinish =>
        /\ \A c \in Call : verb[c].at \notin FinaliseAt
        /\ ram.dir => "committed" \in ram.marks
        /\ "disarmed" \in ram.out \/ wd[1].at \in {"saying disarmed", "clearing"} => "committed" \in ram.out

\* Its watchdog does not restore: it has left, died asleep, or will find the flag or nothing.
SafeDog ==
    /\ wd[1].at \notin RestoringAt \cup {"unconfirmed"} /\ "restoring" \notin ram.marks
    /\ wd[1].at \in {"off", "starting", "falling asleep", "asleep", "deciding"} => ~ram.dir \/ "confirmed" \in ram.marks
Safe == SafeDog /\ (StoodDown \/ ram.dir \/ "disarmed" \in ram.out)

\* A disarm past its evidence is of such a device, and the rest in the order it is made sure of.
Evidence ==
    \A c \in Call :
        /\ verb[c].at \in EvidenceAt => Safe
        /\ verb[c].at \in EvidenceAt \ {"clearing copies"} => flash.boot = "none"
        /\ verb[c].at = "marking applied" => flash.config = "new"
        /\ client.phase \in {"disarming", "redisarming"} /\ verb[c].at = "or before it left?" => "committed" \in ram.out

\* So is one that answered yes.
Answers ==
    client.phase \in Letting /\ SaidYes =>
        /\ Safe /\ flash.boot = "none"
        /\ client.phase \in {"disarming", "redisarming"} => flash.applied /\ flash.config = "new"

\* What a device was told of itself is so.
ToldHolds ==
    StoodDown =>
        /\ SafeDog /\ flash.boot = "none" /\ up \in {"up", "boot"} /\ flash.links # "none"
        /\ flash.config = IF client.told = "kept" THEN "new" ELSE "old"
        /\ client.told = "kept" => flash.applied
        /\ DoneCommit => flash.config = "new"

KeptInv ==
    /\ OnwardCalls /\ LettingCalls /\ ToldLast
    /\ OneWatchdog /\ NotConfirmed /\ LeavesInOrder
    /\ OneFinalise /\ SettingsSo /\ Finished
    /\ Evidence /\ Answers /\ ToldHolds

-----------------------------------------------------------------------------
(* What the parts say together. *)

LEMMA CallsOf ==
    /\ Own["arming"] = ArmAt /\ Stray["arming"] = {}
    /\ Own["preparing"] = {"discarding staged", "installing"} /\ Stray["preparing"] = {}
    /\ Own["staging"] = {"staging", "writing"} /\ Stray["staging"] = {}
    /\ Own["committing"] = FinaliseAt /\ Stray["committing"] = {}
    /\ Own["reverting"] = {"reverting"} /\ Stray["reverting"] = {}
    /\ Own["starting"] = {"starting services"} /\ Stray["starting"] = FinaliseAt
    /\ Own["confirming"] = {"finished?"} /\ Stray["confirming"] = FinaliseAt \cup {"starting services"}
    /\ Own["asking"] = {"asleep?"} /\ Stray["asking"] = {"starting services"}
    /\ Own["reasking"] = {"asleep?"} /\ Stray["reasking"] = {"starting services", "asleep?"}
<1> HIDE DEF ArmAt, FinaliseAt
<1> QED BY DEF Own, Stray

\* What may be running in each phase of a run that goes forward.
LEMMA CallsIn ==
    ASSUME OnwardCalls, NEW c \in Call
    PROVE  /\ client.phase \in {"arming", "preparing", "staging", "committing", "reverting"} /\ c # client.awaits =>
                verb[c].at \in RestAt
           /\ client.phase \in {"starting", "confirming", "asking", "reasking"} /\ c # client.awaits =>
                \/ verb[c].at \in RestAt
                \/ verb[c].at \in FinaliseAt /\ client.phase \in {"starting", "confirming"}
                \/ verb[c].at = "starting services" /\ client.phase \in {"confirming", "asking", "reasking"}
                \/ verb[c].at = "asleep?" /\ client.phase = "reasking"
           /\ c = client.awaits =>
                /\ client.phase = "arming" => verb[c].at \in RestAt \cup ArmAt
                /\ client.phase = "preparing" => verb[c].at \in RestAt \cup {"discarding staged", "installing"}
                /\ client.phase = "staging" => verb[c].at \in RestAt \cup {"staging", "writing"}
                /\ client.phase = "committing" => verb[c].at \in RestAt \cup FinaliseAt
                /\ client.phase = "reverting" => verb[c].at \in RestAt \cup {"reverting"}
                /\ client.phase = "starting" => verb[c].at \in RestAt \cup {"starting services"}
                /\ client.phase = "confirming" => verb[c].at \in RestAt \cup {"finished?"}
                /\ client.phase \in {"asking", "reasking"} => verb[c].at \in RestAt \cup {"asleep?"}
<1> HIDE DEF ArmAt, FinaliseAt, RestAt
<1>1. GoesOn => verb[c].at \in RestAt \cup (IF c = client.awaits THEN Own[client.phase] ELSE Stray[client.phase])
  BY DEF OnwardCalls
<1> QED BY <1>1, CallsOf DEF GoesOn, Onward

\* A device the run goes forward on has been told nothing, and no verb disarms it.
LEMMA GoesOnAlone ==
    ASSUME KeptInv, GoesOn
    PROVE  ~StoodDown /\ \A c \in Call : verb[c].at \notin DisarmingAt
<1>1. ~StoodDown
  BY DEF KeptInv, ToldLast, GoesOn, Onward
<1>2. ASSUME NEW c \in Call, verb[c].at \in DisarmingAt PROVE FALSE
  <2>1. verb[c].at \in RestAt \cup ArmAt \cup FinaliseAt \cup
           {"discarding staged", "installing", "staging", "writing", "reverting", "starting services", "finished?", "asleep?"}
    BY CallsIn DEF KeptInv, GoesOn, Onward
  <2> QED BY <1>2, <2>1 DEF RestAt, ArmAt, FinaliseAt, DisarmingAt, EvidenceAt
<1> QED BY <1>1, <1>2

\* Of a device nothing is said of any more, nothing is claimed.
LEMMA NothingKept ==
    /\ ~Kept /\ ToldLast => KeptInv
    /\ ~Kept' /\ ToldLast' => KeptInv'
BY DEF KeptInv, Kept, GoesOn, Lets, OnwardCalls, LettingCalls, OneWatchdog, NotConfirmed, LeavesInOrder, OneFinalise,
       SettingsSo, Finished, AfterFinish, Evidence, EvidenceAt, DisarmingAt, Answers, ToldHolds, Onward, Letting

\* Which phases lead to which.
LEMMA Transitions ==
    ASSUME NEW phase \in Phase, NEW said, NEW next \in Following(phase, said)
    PROVE  /\ next \in Phase /\ next # "arming"
           /\ next = "preparing" => phase = "arming" /\ said = "yes"
           /\ next = "staging" => phase = "preparing" /\ said = "yes"
           /\ next = "committing" => phase = "staging" /\ said = "yes"
           /\ next = "reverting" => phase \in {"preparing", "staging"} /\ said \in {"yes", "no"}
           /\ next = "starting" => phase = "committing"
           /\ next = "confirming" => phase = "starting"
           /\ next = "asking" => phase = "confirming" /\ said = "yes"
           /\ next = "reasking" => phase = "asking"
           /\ next = "disarming" => phase \in {"asking", "reasking"}
           /\ next = "redisarming" => phase = "disarming"
           /\ next = "releasing" => phase = "reverting" \/ (phase = "arming" /\ said = "yes")
           /\ next = "rereleasing" => phase = "releasing"
           /\ next = "finishing" => phase \in Letting /\ said = "yes"
           /\ phase \in Letting => next \in Letting \cup {"recovering", "finishing"}
           /\ phase \in Letting /\ said = "yes" => next = "finishing"
           /\ phase = "recovering" => next \in {"recovering", "over"}
           /\ phase \in {"finishing", "over"} => next = "over"
<1>1. CASE phase \in {"arming", "dropping", "redropping", "preparing", "staging", "reverting", "revertingUnknown", "committing"}
  BY <1>1 DEF Following, AfterRevert, Phase, PhaseVerb, Letting
<1>2. CASE phase \in {"starting", "confirming", "asking", "reasking", "undoing", "reundoing", "recovering", "finishing", "over"}
  BY <1>2 DEF Following, AfterRevert, Phase, PhaseVerb, Letting
<1>3. CASE phase \in {"disarming", "redisarming", "releasing", "rereleasing"}
  BY <1>3 DEF Following, AfterRevert, Phase, PhaseVerb, Letting
<1> QED BY <1>1, <1>2, <1>3 DEF Phase, PhaseVerb

-----------------------------------------------------------------------------
(* The apply's side. *)

LEMMA SafeIsUnfired ==
    ASSUME Safe, ~StoodDown
    PROVE  Unfired
BY DEF Safe, SafeDog, Unfired

\* What hearing an answer does to the apply's side of the device.
LEMMA Heard ==
    ASSUME TypeOK, NEW said, Hears(said)
    PROVE  /\ client'.phase \in Following(client.phase, said)
           /\ client'.awaits = 0
           /\ client'.told = Told(client.phase, said)
           /\ client.phase \in Phase /\ client.told \in {"nothing", "kept", "untouched", "rolled back", "dropped"}
<1> PICK phase \in Following(client.phase, said) :
           client' = [client EXCEPT !.phase = phase, !.awaits = 0, !.told = Told(client.phase, said)]
  BY DEF Hears
<1> QED BY DEF TypeOK, ClientOK, Client

LEMMA HearsKept ==
    ASSUME TypeOK, StillInv, KeptInv, NEW said, Hears(said), UNCHANGED <<flash, ram, up, wd>>,
           said # "lost" => client.awaits # 0 /\ verb[client.awaits].at = "said" /\ verb[client.awaits].answer = said,
           \A c \in Call : verb'[c] = verb[c] \/ verb'[c].at = "idle"
    PROVE  KeptInv'
<1>1. /\ client'.phase \in Following(client.phase, said) /\ client'.awaits = 0
      /\ client'.told = Told(client.phase, said)
      /\ client.phase \in Phase
  BY Heard
<1> DEFINE next == client'.phase
<1>2. said = "yes" => SaidYes
  BY DEF SaidYes
<1>3. ~SaidYes'
  BY <1>1 DEF SaidYes
<1>4. /\ StoodDown => StoodDown' /\ client'.told = client.told
      /\ StoodDown' /\ ~StoodDown =>
           /\ client.phase \in Letting /\ SaidYes
           /\ client'.told = IF client.phase \in {"disarming", "redisarming"} THEN "kept" ELSE "untouched"
      /\ client.phase \in Letting /\ said = "yes" => StoodDown'
  <2>1. StoodDown => client'.told = client.told
    BY <1>1 DEF Told, KeptInv, ToldLast, StoodDown
  <2>2. StoodDown' /\ ~StoodDown =>
           /\ client.phase \in Letting /\ said = "yes"
           /\ client'.told = IF client.phase \in {"disarming", "redisarming"} THEN "kept" ELSE "untouched"
    BY <1>1 DEF Told, StoodDown, Letting
  <2>3. client.phase \in Letting /\ said = "yes" => StoodDown'
    BY <1>1 DEF Told, StoodDown, Letting
  <2> QED BY <1>2, <2>1, <2>2, <2>3 DEF StoodDown
<1>5. ToldLast'
  <2>1. StoodDown' => next \in {"finishing", "over"}
    <3>1. CASE StoodDown
      BY <1>1, <3>1, Transitions DEF KeptInv, ToldLast
    <3>2. CASE ~StoodDown /\ StoodDown'
      <4>1. client.phase \in Letting /\ said = "yes"
        BY <1>1, <3>2 DEF Told, StoodDown, Letting
      <4> QED BY <1>1, <4>1, Transitions
    <3> QED BY <3>1, <3>2
  <2>2. next = "finishing" => StoodDown'
    BY <1>1, <1>4, Transitions
  <2>3. \A c \in Call : verb'[c].at = "done" => StoodDown'
    BY <1>4 DEF KeptInv, ToldLast
  <2> QED BY <2>1, <2>2, <2>3 DEF ToldLast
<1>6. GoesOn' => GoesOn
  BY <1>1, Transitions DEF GoesOn, Onward
<1>7. client'.phase \in Letting => client.phase \in Letting \cup {"arming", "reverting", "asking", "reasking"}
  BY <1>1, Transitions DEF Letting
<1>8. Lets' => Kept
  <2>1. ASSUME NEW c \in Call, verb'[c].at \in DisarmingAt PROVE Lets
    BY <2>1 DEF Lets, DisarmingAt, EvidenceAt
  <2> QED BY <1>4, <1>7, <2>1 DEF Lets, Kept, GoesOn, Onward
<1>9. CASE ~Kept
  BY <1>5, <1>6, <1>8, <1>9, NothingKept DEF Kept
<1>10. CASE Kept
  <2>1. OnwardCalls'
    <3> SUFFICES ASSUME GoesOn', NEW c \in Call PROVE verb'[c].at \in RestAt \cup Stray[next]
      BY <1>1, BoundsAssumption DEF OnwardCalls, BoundsAssumption, Call
    <3>1. GoesOn
      BY <1>6
    <3>2. CASE verb'[c].at = "idle"
      BY <3>2 DEF RestAt
    <3>3. CASE verb'[c] = verb[c]
      <4>1. said # "lost" /\ c = client.awaits => verb[c].at = "said"
        OBVIOUS
      <4>2. OnwardCalls
        BY DEF KeptInv
      <4>3. said = "yes" => said # "lost"
        OBVIOUS
      <4> HIDE DEF next
      <4>4. CASE next \in {"preparing", "staging", "committing", "reverting"}
        <5>1. /\ client.phase \in {"arming", "preparing", "staging"}
              /\ said # "lost"
          BY <1>1, <4>4, Transitions DEF next
        <5>2. verb[c].at \in RestAt
          BY <4>1, <4>2, <5>1, CallsIn DEF RestAt
        <5> QED BY <3>3, <5>2
      <4>5. CASE next = "starting"
        <5>1. client.phase = "committing"
          BY <1>1, <4>5, Transitions DEF next
        <5> QED BY <3>3, <4>2, <4>5, <5>1, CallsIn, CallsOf
      <4>6. CASE next = "confirming"
        <5>1. client.phase = "starting"
          BY <1>1, <4>6, Transitions DEF next
        <5> QED BY <3>3, <4>2, <4>6, <5>1, CallsIn, CallsOf
      <4>7. CASE next = "asking"
        <5>1. client.phase = "confirming" /\ SaidYes
          BY <1>1, <1>2, <4>7, Transitions DEF next
        <5>2. verb[c].at \notin FinaliseAt
          BY <5>1 DEF KeptInv, Finished, AfterFinish
        <5>3. c = client.awaits => verb[c].at \in RestAt
          BY <5>1 DEF SaidYes, RestAt
        <5> QED BY <3>3, <4>2, <4>7, <5>1, <5>2, <5>3, CallsIn, CallsOf
      <4>8. CASE next = "reasking"
        <5>1. client.phase = "asking"
          BY <1>1, <4>8, Transitions DEF next
        <5> QED BY <3>3, <4>2, <4>8, <5>1, CallsIn, CallsOf
      <4>9. next \in Onward /\ next # "arming"
        BY <1>1, Transitions DEF GoesOn, next
      <4> QED BY <4>4, <4>5, <4>6, <4>7, <4>8, <4>9 DEF Onward
    <3> QED BY <3>2, <3>3
  <2>2. LettingCalls'
    <3> SUFFICES ASSUME Lets'
                 PROVE  /\ next \in Letting \cup {"recovering", "finishing", "over"}
                        /\ \A c \in Call : verb'[c].at \in RestAt \cup Harmless \cup DisarmingAt
      BY <1>1 DEF LettingCalls
    <3>1. CASE Lets
      <4>1. client.phase \in Letting \cup {"recovering", "finishing", "over"}
            /\ \A c \in Call : verb[c].at \in RestAt \cup Harmless \cup DisarmingAt
        BY <3>1 DEF KeptInv, LettingCalls
      <4>2. next \in Letting \cup {"recovering", "finishing", "over"}
        BY <1>1, <4>1, Transitions
      <4> QED BY <4>1, <4>2 DEF RestAt
    <3>2. CASE ~Lets
      <4>1. GoesOn /\ ~StoodDown /\ \A c \in Call : verb[c].at \notin DisarmingAt
        BY <1>10, <3>2, GoesOnAlone DEF Kept
      <4>2. client.phase \notin Letting
        BY <4>1 DEF GoesOn, Onward, Letting
      <4>3. ~StoodDown'
        BY <1>4, <4>1, <4>2
      <4>4. next \in Letting
        BY <3>2, <4>1, <4>3 DEF Lets, DisarmingAt, EvidenceAt
      <4>5. client.phase \in {"arming", "reverting", "asking", "reasking"}
        BY <1>7, <4>2, <4>4
      <4>6. ASSUME NEW c \in Call PROVE verb[c].at \in RestAt \cup Harmless
        <5>1. client.phase = "arming" => said = "yes"
          BY <1>1, <4>4, Transitions DEF Letting
        <5>2. client.phase = "arming" /\ c = client.awaits => verb[c].at = "said"
          BY <5>1
        <5> QED BY <4>5, <5>2, CallsIn DEF KeptInv, RestAt, Harmless
      <4> QED BY <4>4, <4>6 DEF RestAt
    <3> QED BY <3>1, <3>2
  <2>3. OneWatchdog'
    <3>1. next # "arming"
      BY <1>1, Transitions
    <3>2. OneWatchdog
      BY DEF KeptInv
    <3> QED BY <1>10, <3>1, <3>2 DEF OneWatchdog
  <2>4. NotConfirmed'
    BY <1>6 DEF KeptInv, NotConfirmed
  <2>5. LeavesInOrder'
    BY <1>4, <1>10 DEF KeptInv, LeavesInOrder
  <2>6. BeforeCommit' => BeforeCommit
    BY <1>1, Transitions DEF BeforeCommit
  <2>7. OneFinalise'
    <3>1. \A c \in Call : verb'[c].at \in FinaliseAt => verb'[c] = verb[c]
      BY DEF FinaliseAt
    <3> QED BY <1>10, <2>6, <3>1 DEF KeptInv, OneFinalise, DoneCommit
  <2>8. SettingsSo'
    <3> SUFFICES ASSUME ~StoodDown, Unfired
                 PROVE  /\ flash.links # "none"
                        /\ BeforeCommit' => flash.config = "old"
                        /\ next = "committing" => ram.staged
                        /\ \A c \in Call :
                             /\ verb'[c].at = "committing" => flash.config = "old" /\ ram.staged
                             /\ verb'[c].at = "committing more" => flash.config = "part" /\ ram.staged
                             /\ verb'[c].at = "reloading" => flash.config = "new"
                        /\ DoneCommit => flash.config = "new"
      BY <1>1, <1>4 DEF SettingsSo, Unfired, DoneCommit
    <3>1. next = "committing" => client.phase = "staging" /\ SaidYes
      BY <1>1, <1>2, Transitions
    <3>2. SaidYes => client.awaits # 0
      BY DEF SaidYes
    <3> QED BY <1>10, <2>6, <3>1, <3>2 DEF KeptInv, SettingsSo
  <2>9. Finished'
    <3>1. AfterFinish' => AfterFinish
      BY <1>1, <1>2, <1>3, Transitions DEF AfterFinish
    <3> QED BY <3>1 DEF KeptInv, Finished, FinaliseAt
  <2>10. Evidence'
    <3> SUFFICES ASSUME NEW c \in Call, verb'[c].at \in EvidenceAt
                 PROVE  /\ Safe'
                        /\ verb'[c].at \in EvidenceAt \ {"clearing copies"} => flash.boot = "none"
                        /\ verb'[c].at = "marking applied" => flash.config = "new"
                        /\ next \in {"disarming", "redisarming"} /\ verb'[c].at = "or before it left?" => "committed" \in ram.out
      BY DEF Evidence, EvidenceAt
    <3>1. verb'[c] = verb[c]
      BY DEF EvidenceAt
    <3>2. Safe'
      BY <1>4, <3>1 DEF KeptInv, Evidence, Safe, SafeDog
    <3>3. next \in {"disarming", "redisarming"} => client.phase \in {"disarming", "redisarming"}
      <4>1. ~GoesOn
        BY <3>1, GoesOnAlone DEF DisarmingAt
      <4>2. next \in {"disarming", "redisarming"} => client.phase \in {"disarming", "redisarming", "asking", "reasking"}
        BY <1>1, Transitions
      <4> QED BY <4>1, <4>2 DEF GoesOn, Onward
    <3> QED BY <3>1, <3>2, <3>3 DEF KeptInv, Evidence
  <2>11. Answers'
    BY <1>3 DEF Answers
  <2>12. ToldHolds'
    <3>1. CASE StoodDown
      BY <1>4, <3>1 DEF KeptInv, ToldHolds, SafeDog, DoneCommit
    <3>2. CASE ~StoodDown /\ StoodDown'
      <4>1. /\ client.phase \in Letting /\ SaidYes
            /\ client'.told = IF client.phase \in {"disarming", "redisarming"} THEN "kept" ELSE "untouched"
        BY <1>4, <3>2
      <4>2. Safe /\ flash.boot = "none" /\ Unfired
        BY <3>2, <4>1, SafeIsUnfired DEF KeptInv, Answers
      <4>3. up = "up"
        <5>1. client.awaits \in Call /\ verb[client.awaits].at # "idle"
          <6>1. client.awaits \in 0..MaxCalls /\ client.awaits # 0
            BY <4>1 DEF SaidYes, TypeOK, ClientOK, Client
          <6>2. client.awaits \in Call
            BY <6>1, BoundsAssumption DEF BoundsAssumption, Call
          <6> QED BY <4>1, <6>2 DEF SaidYes
        <5> QED BY <5>1 DEF StillInv
      <4>4. client.phase \notin {"disarming", "redisarming"} => BeforeCommit
        BY <4>1 DEF Letting, BeforeCommit
      <4>5. /\ flash.links # "none"
            /\ flash.config = IF client'.told = "kept" THEN "new" ELSE "old"
            /\ client'.told = "kept" => flash.applied
            /\ DoneCommit => flash.config = "new"
        <5>1. /\ flash.links # "none" /\ (BeforeCommit => flash.config = "old")
              /\ DoneCommit => flash.config = "new"
          BY <1>10, <3>2, <4>2 DEF KeptInv, SettingsSo
        <5>2. client.phase \in {"disarming", "redisarming"} => flash.applied /\ flash.config = "new"
          BY <4>1 DEF KeptInv, Answers
        <5> QED BY <4>1, <4>4, <5>1, <5>2
      <4> QED BY <4>2, <4>3, <4>5 DEF ToldHolds, Safe, SafeDog, DoneCommit
    <3> QED BY <3>1, <3>2 DEF ToldHolds
  <2> QED BY <1>5, <2>1, <2>2, <2>3, <2>4, <2>5, <2>7, <2>8, <2>9, <2>10, <2>11, <2>12 DEF KeptInv
<1> QED BY <1>9, <1>10

LEMMA AwaitsACall ==
    ASSUME TypeOK, client.awaits # 0
    PROVE  client.awaits \in Call
<1>1. client.awaits \in 0..MaxCalls
  BY DEF TypeOK, ClientOK, Client
<1> QED BY <1>1, BoundsAssumption DEF BoundsAssumption, Call

LEMMA VerbEndsKept ==
    ASSUME TypeOK, KeptInv, NEW c \in Call, VerbEnds(c)
    PROVE  KeptInv'
<1>1. /\ client' = client /\ c # client.awaits /\ UNCHANGED <<flash, ram, up, wd>>
      /\ verb' = [verb EXCEPT ![c] = Silent]
  BY DEF VerbEnds, device
<1>2. /\ \A d \in Call : verb'[d] = verb[d] \/ verb'[d].at = "idle"
      /\ \A d \in Call : d # c => verb'[d] = verb[d]
  BY <1>1 DEF Silent, TypeOK, VerbOK
<1>3. client.awaits # 0 => verb'[client.awaits] = verb[client.awaits]
  BY <1>1, <1>2, AwaitsACall
<1>4. SaidYes' <=> SaidYes
  BY <1>1, <1>3 DEF SaidYes
<1>5. /\ GoesOn' = GoesOn /\ StoodDown' = StoodDown /\ (Lets' => Lets) /\ (Kept' => Kept)
      /\ BeforeCommit' = BeforeCommit /\ AfterFinish' = AfterFinish
      /\ Unfired' = Unfired /\ DoneCommit' = DoneCommit /\ Safe' = Safe /\ SafeDog' = SafeDog
  <2>1. ASSUME NEW d \in Call, verb'[d].at \in DisarmingAt PROVE verb[d].at \in DisarmingAt
    BY <1>2, <2>1 DEF DisarmingAt, EvidenceAt
  <2>2. GoesOn' = GoesOn /\ StoodDown' = StoodDown /\ BeforeCommit' = BeforeCommit
    BY <1>1 DEF GoesOn, StoodDown, BeforeCommit
  <2>3. (Lets' => Lets) /\ (Kept' => Kept)
    BY <1>1, <2>1, <2>2 DEF Lets, Kept
  <2>4. AfterFinish' = AfterFinish
    BY <1>1, <1>4 DEF AfterFinish
  <2>5. Unfired' = Unfired /\ DoneCommit' = DoneCommit /\ SafeDog' = SafeDog
    BY <1>1 DEF Unfired, DoneCommit, SafeDog
  <2>6. Safe' = Safe
    BY <1>1, <2>2, <2>5 DEF Safe
  <2> QED BY <2>2, <2>3, <2>4, <2>5, <2>6
<1>6. OnwardCalls' /\ LettingCalls' /\ ToldLast'
  <2>1. OnwardCalls'
    BY <1>1, <1>2, <1>5 DEF KeptInv, OnwardCalls, RestAt
  <2>2. LettingCalls'
    <3>1. Lets' => /\ client.phase \in Letting \cup {"recovering", "finishing", "over"}
                   /\ \A d \in Call : verb[d].at \in RestAt \cup Harmless \cup DisarmingAt
                   /\ client.phase \in Letting /\ client.awaits # 0 => verb[client.awaits].at \in RestAt \cup DisarmingAt
      BY <1>5 DEF KeptInv, LettingCalls
    <3> QED BY <1>1, <1>2, <1>3, <3>1 DEF LettingCalls, RestAt
  <2>3. ToldLast'
    BY <1>1, <1>2, <1>5 DEF KeptInv, ToldLast
  <2> QED BY <2>1, <2>2, <2>3
<1>7. OneWatchdog' /\ NotConfirmed' /\ LeavesInOrder'
  <2>1. OneWatchdog'
    BY <1>1, <1>3, <1>5 DEF KeptInv, OneWatchdog
  <2>2. NotConfirmed' /\ LeavesInOrder'
    BY <1>1, <1>5 DEF KeptInv, NotConfirmed, LeavesInOrder
  <2> QED BY <2>1, <2>2
<1>8. OneFinalise'
  <2>1. \A d \in Call : verb'[d].at \in FinaliseAt => verb'[d] = verb[d]
    BY <1>2 DEF FinaliseAt
  <2> QED BY <1>5, <2>1 DEF KeptInv, OneFinalise
<1>9. SettingsSo'
  <2> SUFFICES ASSUME Kept, ~StoodDown, Unfired
               PROVE  /\ flash.links # "none"
                      /\ BeforeCommit => flash.config = "old"
                      /\ client.phase = "committing" /\ client.awaits = 0 => ram.staged
                      /\ client.phase = "staging" /\ client.awaits # 0 /\ (SaidYes \/ verb[client.awaits].at = "writing") => ram.staged
                      /\ \A d \in Call :
                           /\ verb'[d].at = "committing" => flash.config = "old" /\ ram.staged
                           /\ verb'[d].at = "committing more" => flash.config = "part" /\ ram.staged
                           /\ verb'[d].at = "reloading" => flash.config = "new"
                      /\ DoneCommit => flash.config = "new"
    BY <1>1, <1>3, <1>4, <1>5 DEF SettingsSo
  <2> QED BY <1>2 DEF KeptInv, SettingsSo
<1>10. Finished'
  BY <1>1, <1>2, <1>5 DEF KeptInv, Finished, FinaliseAt
<1>11. Evidence'
  BY <1>1, <1>2, <1>5 DEF KeptInv, Evidence, EvidenceAt
<1>12. Answers' /\ ToldHolds'
  BY <1>1, <1>4, <1>5 DEF KeptInv, Answers, ToldHolds
<1> QED BY <1>6, <1>7, <1>8, <1>9, <1>10, <1>11, <1>12 DEF KeptInv

LEMMA ClientDiesKept ==
    ASSUME TypeOK, KeptInv, ClientDies
    PROVE  KeptInv'
<1>1. /\ UNCHANGED <<flash, ram, up, wd, verb>>
      /\ client'.phase = "over" /\ client'.awaits = 0 /\ client'.told = client.told
  BY DEF ClientDies, device, TypeOK, ClientOK, Client
<1>2. /\ ~GoesOn' /\ StoodDown' = StoodDown /\ (Lets' => Lets) /\ ~SaidYes'
      /\ ~BeforeCommit' /\ ~AfterFinish' /\ (Kept' => Kept)
      /\ Unfired' = Unfired /\ DoneCommit' = DoneCommit /\ Safe' = Safe /\ SafeDog' = SafeDog
  <2>1. /\ ~GoesOn' /\ StoodDown' = StoodDown /\ ~SaidYes' /\ ~BeforeCommit'
    BY <1>1 DEF GoesOn, Onward, StoodDown, SaidYes, BeforeCommit
  <2>2. ~AfterFinish' /\ (Lets' => Lets)
    BY <1>1, <2>1 DEF AfterFinish, Lets, Letting
  <2>3. Kept' => Kept
    BY <2>1, <2>2 DEF Kept
  <2>4. Unfired' = Unfired /\ DoneCommit' = DoneCommit /\ SafeDog' = SafeDog
    BY <1>1 DEF Unfired, DoneCommit, SafeDog
  <2>5. Safe' = Safe
    BY <1>1, <2>1, <2>4 DEF Safe
  <2> QED BY <2>1, <2>2, <2>3, <2>4, <2>5
<1>3. OnwardCalls' /\ LettingCalls' /\ ToldLast'
  <2>1. LettingCalls'
    BY <1>1, <1>2 DEF KeptInv, LettingCalls
  <2> QED BY <1>1, <1>2, <2>1 DEF KeptInv, OnwardCalls, ToldLast
<1>4. OneWatchdog' /\ NotConfirmed' /\ LeavesInOrder'
  BY <1>1, <1>2 DEF KeptInv, OneWatchdog, NotConfirmed, LeavesInOrder
<1>5. OneFinalise' /\ SettingsSo' /\ Finished'
  BY <1>1, <1>2 DEF KeptInv, OneFinalise, SettingsSo, Finished
<1>6. Evidence' /\ Answers' /\ ToldHolds'
  BY <1>1, <1>2 DEF KeptInv, Evidence, Answers, ToldHolds
<1> QED BY <1>3, <1>4, <1>5, <1>6 DEF KeptInv

LEMMA BeginningIn ==
    /\ Begins[PhaseVerb["arming"]] = "installing boot script"
    /\ Begins[PhaseVerb["dropping"]] = "drop"
    /\ Begins[PhaseVerb["redropping"]] = "drop"
    /\ Begins[PhaseVerb["preparing"]] = "discarding staged"
    /\ Begins[PhaseVerb["staging"]] = "staging"
    /\ Begins[PhaseVerb["committing"]] = "committing"
    /\ Begins[PhaseVerb["reverting"]] = "reverting"
    /\ Begins[PhaseVerb["revertingUnknown"]] = "reverting"
    /\ Begins[PhaseVerb["starting"]] = "starting services"
    /\ Begins[PhaseVerb["confirming"]] = "finished?"
    /\ Begins[PhaseVerb["asking"]] = "asleep?"
    /\ Begins[PhaseVerb["reasking"]] = "asleep?"
    /\ Begins[PhaseVerb["disarming"]] = "disarm"
    /\ Begins[PhaseVerb["redisarming"]] = "disarm"
    /\ Begins[PhaseVerb["releasing"]] = "disarm"
    /\ Begins[PhaseVerb["rereleasing"]] = "disarm"
    /\ Begins[PhaseVerb["undoing"]] = "rollback-now"
    /\ Begins[PhaseVerb["reundoing"]] = "rollback-now"
    /\ Begins[PhaseVerb["recovering"]] = "recovered?"
    /\ Begins[PhaseVerb["finishing"]] = "done"
BY DEF PhaseVerb, Begins

\* Where the verb of each phase starts.
LEMMA Beginnings ==
    ASSUME NEW phase \in Phase, phase # "over", NEW begin, begin = Begins[PhaseVerb[phase]]
    PROVE  /\ phase = "arming" => begin = "installing boot script"
           /\ phase = "preparing" => begin = "discarding staged"
           /\ phase = "staging" => begin = "staging"
           /\ phase = "committing" => begin = "committing"
           /\ phase = "reverting" => begin = "reverting"
           /\ phase = "starting" => begin = "starting services"
           /\ phase = "confirming" => begin = "finished?"
           /\ phase \in {"asking", "reasking"} => begin = "asleep?"
           /\ phase \in Letting => begin = "disarm"
           /\ phase = "recovering" => begin = "recovered?"
           /\ phase = "finishing" => begin = "done"
           /\ phase \notin Onward \cup Letting \cup {"recovering", "finishing"} =>
                begin \in {"drop", "reverting", "rollback-now"}
<1>1. phase \in Onward \cup Letting \cup {"recovering", "finishing", "dropping", "redropping", "revertingUnknown",
                                       "undoing", "reundoing"}
  BY DEF Phase, PhaseVerb, Onward, Letting
<1>2. CASE phase \in Onward
  BY <1>2, BeginningIn DEF Onward, Letting
<1>3. CASE phase \notin Onward
  BY ZenonT(60), <1>1, <1>3, BeginningIn DEF Onward, Letting
<1> QED BY <1>2, <1>3

LEMMA CallKept ==
    ASSUME TypeOK, KeptInv, CallVerb
    PROVE  KeptInv'
<1> PICK c \in Call :
      /\ verb[c].at = "idle"
      /\ client' = [client EXCEPT !.awaits = c]
      /\ verb' = [verb EXCEPT ![c].at = IF ram.script THEN Begins[PhaseVerb[client.phase]] ELSE "said",
                              ![c].answer = IF ram.script THEN "none" ELSE "no"]
  BY DEF CallVerb
<1> DEFINE begin == Begins[PhaseVerb[client.phase]]
<1>0. c # 0 /\ client.phase \in Phase /\ client.phase # "over" /\ client.awaits = 0
  <2>1. c # 0
    BY BoundsAssumption DEF BoundsAssumption, Call
  <2>2. client.phase \in Phase
    BY DEF TypeOK, ClientOK, Client
  <2> QED BY <2>1, <2>2 DEF CallVerb
<1>1. /\ UNCHANGED <<flash, ram, up, wd>>
      /\ client'.phase = client.phase /\ client'.told = client.told /\ client'.awaits = c
  BY DEF CallVerb, device, TypeOK, ClientOK, Client
<1>2. /\ \A d \in Call : d # c => verb'[d] = verb[d]
      /\ verb'[c].at \in {"said", begin} /\ verb'[c].answer \in {"none", "no"}
  BY DEF TypeOK, VerbOK
<1>3. ~SaidYes' /\ ~SaidYes
  BY <1>0, <1>1, <1>2 DEF SaidYes
<1> HIDE DEF begin
<1>4. /\ client.phase = "arming" => begin = "installing boot script"
      /\ client.phase = "preparing" => begin = "discarding staged"
      /\ client.phase = "staging" => begin = "staging"
      /\ client.phase = "committing" => begin = "committing"
      /\ client.phase = "reverting" => begin = "reverting"
      /\ client.phase = "starting" => begin = "starting services"
      /\ client.phase = "confirming" => begin = "finished?"
      /\ client.phase \in {"asking", "reasking"} => begin = "asleep?"
      /\ client.phase \in Letting => begin = "disarm"
      /\ client.phase = "recovering" => begin = "recovered?"
      /\ client.phase = "finishing" => begin = "done"
      /\ client.phase \notin Onward \cup Letting \cup {"recovering", "finishing"} =>
           begin \in {"drop", "reverting", "rollback-now"}
  BY ZenonT(60), <1>0, Beginnings DEF begin
<1>5. begin \in DisarmingAt => begin = "disarm" /\ client.phase \in Letting
  BY <1>0, <1>4 DEF Onward, Letting, DisarmingAt, EvidenceAt
<1>6. begin \in FinaliseAt => client.phase = "committing" /\ begin = "committing"
  BY <1>0, <1>4 DEF Onward, Letting, FinaliseAt
<1>7. begin = "done" => client.phase = "finishing"
  BY <1>0, <1>4 DEF Onward, Letting
<1>8. /\ GoesOn' = GoesOn /\ StoodDown' = StoodDown /\ Lets' = Lets /\ Kept' = Kept
      /\ (BeforeCommit' => BeforeCommit) /\ (AfterFinish' => AfterFinish)
      /\ Unfired' = Unfired /\ DoneCommit' = DoneCommit /\ Safe' = Safe /\ SafeDog' = SafeDog
  <2>1. GoesOn' = GoesOn /\ StoodDown' = StoodDown /\ (BeforeCommit' => BeforeCommit)
    BY <1>0, <1>1 DEF GoesOn, StoodDown, BeforeCommit
  <2>2. Lets' = Lets
    <3>1. ASSUME NEW d \in Call, verb'[d].at \in DisarmingAt PROVE client.phase \in Letting \/ verb[d].at \in DisarmingAt
      BY <1>2, <1>5, <3>1 DEF DisarmingAt, EvidenceAt
    <3>2. ASSUME NEW d \in Call, verb[d].at \in DisarmingAt PROVE verb'[d].at \in DisarmingAt
      BY <1>2, <3>2 DEF DisarmingAt, EvidenceAt
    <3> QED BY <1>1, <2>1, <3>1, <3>2 DEF Lets
  <2>3. Kept' = Kept
    BY <2>1, <2>2 DEF Kept
  <2>4. AfterFinish' => AfterFinish
    BY <1>1, <1>3 DEF AfterFinish
  <2>5. Unfired' = Unfired /\ DoneCommit' = DoneCommit /\ SafeDog' = SafeDog
    BY <1>1 DEF Unfired, DoneCommit, SafeDog
  <2>6. Safe' = Safe
    BY <1>1, <2>1, <2>5 DEF Safe
  <2> QED BY <2>1, <2>2, <2>3, <2>4, <2>5, <2>6
<1>9. OnwardCalls'
  <2> SUFFICES ASSUME GoesOn, NEW d \in Call
               PROVE  verb'[d].at \in RestAt \cup (IF d = c THEN Own[client.phase] ELSE Stray[client.phase])
    BY <1>1, <1>8 DEF OnwardCalls
  <2>1. CASE d # c
    <3>1. d # client.awaits
      BY <1>0, BoundsAssumption DEF BoundsAssumption, Call
    <3> QED BY <1>2, <2>1, <3>1 DEF KeptInv, OnwardCalls
  <2>2. CASE d = c
    <3>1. begin \in Own[client.phase]
      BY <1>4, CallsOf DEF GoesOn, Onward, ArmAt, FinaliseAt
    <3> QED BY <1>2, <2>2, <3>1 DEF RestAt
  <2> QED BY <2>1, <2>2
<1>10. LettingCalls'
  <2> SUFFICES ASSUME Lets
               PROVE  /\ client.phase \in Letting \cup {"recovering", "finishing", "over"}
                      /\ \A d \in Call : verb'[d].at \in RestAt \cup Harmless \cup DisarmingAt
                      /\ client.phase \in Letting => verb'[c].at \in RestAt \cup DisarmingAt
    BY <1>0, <1>1, <1>8 DEF LettingCalls
  <2>1. /\ client.phase \in Letting \cup {"recovering", "finishing"}
        /\ \A d \in Call : verb[d].at \in RestAt \cup Harmless \cup DisarmingAt
    BY <1>0 DEF KeptInv, LettingCalls
  <2>2. begin \in {"disarm", "recovered?", "done"} /\ (client.phase \in Letting => begin = "disarm")
    BY <1>4, <2>1
  <2> QED BY <1>2, <2>1, <2>2 DEF RestAt, Harmless, DisarmingAt
<1>11. ToldLast'
  BY <1>1, <1>2, <1>7, <1>8 DEF KeptInv, ToldLast
<1>12. OneWatchdog' /\ NotConfirmed' /\ LeavesInOrder'
  <2>1. OneWatchdog'
    <3>1. OneWatchdog
      BY DEF KeptInv
    <3> QED BY <1>0, <1>1, <1>8, <3>1 DEF OneWatchdog
  <2> QED BY <1>1, <1>8, <2>1 DEF KeptInv, NotConfirmed, LeavesInOrder
<1>13. ASSUME NEW d \in Call, verb'[d].at \in FinaliseAt
       PROVE  \/ verb'[d] = verb[d]
              \/ d = c /\ verb'[d].at = "committing" /\ client.phase = "committing"
  BY <1>2, <1>6, <1>13 DEF FinaliseAt
<1>14. client.phase = "committing" => \A d \in Call : verb[d].at \notin FinaliseAt
  <2> SUFFICES ASSUME client.phase = "committing", NEW d \in Call PROVE verb[d].at \notin FinaliseAt
    OBVIOUS
  <2>1. d # client.awaits
    BY <1>0, BoundsAssumption DEF BoundsAssumption, Call
  <2>2. verb[d].at \in RestAt
    BY <2>1, CallsIn DEF KeptInv
  <2> QED BY <2>2 DEF RestAt, FinaliseAt
<1>15. client.phase = "committing" => BeforeCommit
  BY <1>0 DEF BeforeCommit
<1>16. OneFinalise'
  BY <1>8, <1>13, <1>14, <1>15 DEF KeptInv, OneFinalise
<1>17. SettingsSo'
  <2> SUFFICES ASSUME Kept, ~StoodDown, Unfired
               PROVE  /\ flash.links # "none"
                      /\ BeforeCommit' => flash.config = "old"
                      /\ client.phase = "staging" => verb'[c].at # "writing"
                      /\ \A d \in Call :
                           /\ verb'[d].at = "committing" => flash.config = "old" /\ ram.staged
                           /\ verb'[d].at = "committing more" => flash.config = "part" /\ ram.staged
                           /\ verb'[d].at = "reloading" => flash.config = "new"
                      /\ DoneCommit => flash.config = "new"
    BY <1>0, <1>1, <1>3, <1>8 DEF SettingsSo
  <2>1. SettingsSo
    BY DEF KeptInv
  <2>2. flash.links # "none" /\ (BeforeCommit' => flash.config = "old") /\ (DoneCommit => flash.config = "new")
    BY <1>8, <2>1 DEF SettingsSo
  <2>3. client.phase = "staging" => verb'[c].at # "writing"
    BY <1>2, <1>4
  <2>4. ASSUME NEW d \in Call
        PROVE  /\ verb'[d].at = "committing" => flash.config = "old" /\ ram.staged
               /\ verb'[d].at = "committing more" => flash.config = "part" /\ ram.staged
               /\ verb'[d].at = "reloading" => flash.config = "new"
    <3>1. CASE verb'[d] = verb[d]
      BY <2>1, <3>1 DEF SettingsSo
    <3>2. CASE d = c /\ verb'[d].at = "committing" /\ client.phase = "committing"
      BY <1>0, <1>15, <2>1, <3>2 DEF SettingsSo
    <3> QED BY <1>13, <3>1, <3>2 DEF FinaliseAt
  <2> QED BY <2>2, <2>3, <2>4
<1>18. Finished'
  <2>1. AfterFinish' => client.phase # "committing"
    BY <1>1 DEF AfterFinish
  <2> QED BY <1>1, <1>8, <1>13, <2>1 DEF KeptInv, Finished
<1>19. Evidence'
  <2>1. ASSUME NEW d \in Call, verb'[d].at \in EvidenceAt PROVE verb'[d] = verb[d]
    BY <1>2, <1>5, <2>1 DEF DisarmingAt, EvidenceAt
  <2> QED BY <1>1, <1>8, <2>1 DEF KeptInv, Evidence, EvidenceAt
<1>20. Answers' /\ ToldHolds'
  BY <1>1, <1>3, <1>8 DEF KeptInv, Answers, ToldHolds
<1> QED BY <1>9, <1>10, <1>11, <1>12, <1>16, <1>17, <1>18, <1>19, <1>20 DEF KeptInv

LEMMA ClientKept ==
    ASSUME TypeOK, StillInv, KeptInv,
           CallVerb \/ HearAnswer \/ LoseAnswer \/ Unreachable \/ ClientDies \/ \E c \in Call : VerbEnds(c)
    PROVE  KeptInv'
<1>1. CASE HearAnswer
  <2>1. client.awaits # 0 /\ verb[client.awaits].at = "said" /\ Hears(verb[client.awaits].answer)
        /\ UNCHANGED <<flash, ram, up, wd>>
    BY <1>1 DEF HearAnswer, device
  <2>2. \A c \in Call : verb'[c] = verb[c] \/ verb'[c].at = "idle"
    BY <1>1 DEF HearAnswer, Silent, TypeOK, VerbOK
  <2> QED BY <2>1, <2>2, HearsKept
<1>2. CASE LoseAnswer \/ Unreachable
  <2>1. Hears("lost") /\ UNCHANGED <<flash, ram, up, wd, verb>>
    BY <1>2 DEF LoseAnswer, Unreachable, device
  <2> QED BY <2>1, HearsKept
<1> QED BY <1>1, <1>2, CallKept, ClientDiesKept, VerbEndsKept

-----------------------------------------------------------------------------
(* Restarts. *)

\* With nothing left running, all that is said of the device is what flash holds.
LEMMA NothingRunsKept ==
    ASSUME TypeOK, RamOK', KeptInv, NothingRuns', client' = client,
           \A c \in Call : verb'[c].at = "idle",
           \A w \in Watchdog : wd[w].at = "off" => wd'[w].at = "off",
           StoodDown => /\ UNCHANGED <<flash.boot, flash.config, flash.links, flash.applied>>
                        /\ up' \in {"up", "boot"}
    PROVE  KeptInv'
<1>1. 1 \in Watchdog
  BY BoundsAssumption DEF BoundsAssumption, Watchdog
<1>2. /\ ~ram'.dir /\ ram'.out = {} /\ ram'.marks = {} /\ ram'.slept = 0
      /\ wd'[1].at \in {"off", "ended"}
  BY <1>1 DEF NothingRuns, RamOK
<1>3. client.awaits # 0 => verb'[client.awaits].at = "idle"
  BY AwaitsACall
<1>4. /\ GoesOn' = GoesOn /\ StoodDown' = StoodDown /\ BeforeCommit' = BeforeCommit
      /\ (Lets' => Lets) /\ (Kept' => Kept)
  <2>1. GoesOn' = GoesOn /\ StoodDown' = StoodDown /\ BeforeCommit' = BeforeCommit
    BY DEF GoesOn, StoodDown, BeforeCommit
  <2>2. Lets' => Lets
    BY <2>1 DEF Lets, DisarmingAt, EvidenceAt
  <2> QED BY <2>1, <2>2 DEF Kept
<1>5. ~SaidYes' /\ ~Unfired' /\ ~DoneCommit' /\ SafeDog'
  <2>1. ~SaidYes'
    BY <1>3 DEF SaidYes
  <2>2. ~Unfired' /\ ~DoneCommit' /\ SafeDog'
    BY <1>2 DEF Unfired, DoneCommit, SafeDog, RestoringAt
  <2> QED BY <2>1, <2>2
<1>6. OnwardCalls' /\ LettingCalls' /\ ToldLast'
  <2>1. OnwardCalls'
    BY DEF OnwardCalls, RestAt
  <2>2. LettingCalls'
    BY <1>3, <1>4 DEF KeptInv, LettingCalls, RestAt
  <2>3. ToldLast'
    BY <1>4 DEF KeptInv, ToldLast
  <2> QED BY <2>1, <2>2, <2>3
<1>7. OneWatchdog'
  <2>1. client.phase = "arming" /\ (client.awaits = 0 \/ verb'[client.awaits].at \in ArmAt \ {"settling"}) => client.awaits = 0
    BY <1>3 DEF ArmAt
  <2> QED BY <1>1, <1>2, <1>4, <2>1 DEF KeptInv, OneWatchdog
<1>8. NotConfirmed' /\ LeavesInOrder'
  BY <1>2 DEF NotConfirmed, LeavesInOrder, Leaving, RestoringAt
<1>9. OneFinalise' /\ SettingsSo' /\ Finished'
  BY <1>2, <1>5 DEF OneFinalise, SettingsSo, Finished, FinaliseAt
<1>10. Evidence' /\ Answers'
  BY <1>5 DEF Evidence, EvidenceAt, Answers
<1>11. ToldHolds'
  BY <1>4, <1>5 DEF KeptInv, ToldHolds
<1> QED BY <1>6, <1>7, <1>8, <1>9, <1>10, <1>11 DEF KeptInv

LEMMA RestartKept ==
    ASSUME TypeOK, KeptInv, Restart, UNCHANGED <<flash, client>>
    PROVE  KeptInv'
<1>1. RamOK'
  BY RestartOK
<1>2. NothingRuns'
  BY DEF Restart, RamAfterRestart, EmptyRam, Silent, NothingRuns
<1>3. \A c \in Call : verb'[c].at = "idle"
  BY DEF Restart, Silent
<1>4. \A w \in Watchdog : wd[w].at = "off" => wd'[w].at = "off"
  BY DEF Restart
<1>5. StoodDown => up' \in {"up", "boot"}
  BY DEF Restart, KeptInv, ToldHolds
<1> QED BY <1>1, <1>2, <1>3, <1>4, <1>5, NothingRunsKept DEF TypeOK

LEMMA BootKept ==
    ASSUME TypeOK, StillInv, KeptInv, BootStep
    PROVE  KeptInv'
<1>1. UNCHANGED <<ram, wd, verb, client>> /\ up # "up"
  BY DEF BootStep
<1>2. NothingRuns' /\ RamOK' /\ \A c \in Call : verb'[c].at = "idle"
  BY <1>1 DEF StillInv, NothingRuns, TypeOK, RamOK
<1>3. StoodDown => UNCHANGED flash /\ up' = "up"
  <2>1. StoodDown => flash.boot = "none" /\ up = "boot"
    BY <1>1 DEF KeptInv, ToldHolds
  <2> QED BY <2>1 DEF BootStep
<1> QED BY <1>1, <1>2, <1>3, NothingRunsKept DEF TypeOK

-----------------------------------------------------------------------------
(* The watchdog. *)

\* What a watchdog's step does to the run's files, flash and itself.
LEMMA WatchdogMoves ==
    ASSUME TypeOK, NEW w \in Watchdog, WatchdogStep(w), ~WatchdogReboots(w), ~WatchdogGivesUp(w)
    PROVE  /\ UNCHANGED <<up, verb, client>>
           /\ \A x \in Watchdog : x # w => wd'[x] = wd[x]
           /\ flash'.applied = flash.applied
           /\ \/ /\ wd[w].at = "starting" /\ wd'[w].at = "ended"
                 /\ ~ram.dir /\ UNCHANGED <<ram, flash>>
              \/ /\ wd[w].at = "starting" /\ wd'[w].at = "falling asleep"
                 /\ ram.dir /\ ram' = [ram EXCEPT !.pid = w] /\ UNCHANGED flash
              \/ /\ wd[w].at = "falling asleep" /\ wd'[w].at = "asleep"
                 /\ ram' = IF ram.dir THEN [ram EXCEPT !.slept = w] ELSE ram
                 /\ UNCHANGED flash
              \/ /\ wd[w].at = "asleep" /\ wd'[w].at = "deciding"
                 /\ UNCHANGED <<ram, flash>>
              \/ /\ wd[w].at = "deciding" /\ UNCHANGED <<ram, flash>>
                 /\ \/ ~ram.dir /\ wd'[w].at = "ended"
                    \/ ram.dir /\ "confirmed" \in ram.marks /\ wd'[w].at = "standing down"
                    \/ ram.dir /\ "confirmed" \notin ram.marks /\ wd'[w].at = "unconfirmed"
              \/ /\ wd[w].at = "standing down" /\ wd'[w].at = "saying disarmed"
                 /\ ram' = [ram EXCEPT !.out = LeavesCommitMark] /\ UNCHANGED flash
              \/ /\ wd[w].at = "saying disarmed" /\ wd'[w].at = "clearing"
                 /\ ram' = [ram EXCEPT !.out = @ \cup {"disarmed"}] /\ UNCHANGED flash
              \/ /\ wd[w].at = "clearing" /\ wd'[w].at = "ended"
                 /\ ram' = WithoutDir(ram) /\ flash' = [flash EXCEPT !.boot = "none"]
              \/ /\ wd[w].at = "unconfirmed" /\ wd'[w].at = "copying"
                 /\ ram' = Touch("restoring") /\ UNCHANGED flash
              \/ /\ wd[w].at \in RestoringAt /\ wd'[w].at \in RestoringAt
                 /\ \/ ram' = ram \/ ram' = [ram EXCEPT !.staged = FALSE] \/ ram' = Touch("restored")
              \/ /\ wd[w].at = "awaiting" /\ wd'[w].at = "ended"
                 /\ ram' = [WithoutDir(ram) EXCEPT !.script = FALSE] /\ UNCHANGED flash
<1> WdOK /\ FlashOK
  BY DEF TypeOK
<1>0. ASSUME NEW from, NEW to, Goes(w, from, to)
      PROVE  wd[w].at = from /\ wd'[w].at = to /\ \A x \in Watchdog : x # w => wd'[x] = wd[x]
  BY <1>0 DEF Goes, WdOK
<1>1. CASE WatchdogBegins(w)
  BY <1>0, <1>1 DEF WatchdogBegins, OthersThanWatchdog
<1>2. CASE WatchdogSleeps(w)
  <2>1. /\ wd[w].at = "falling asleep" /\ wd'[w].at = "asleep" /\ \A x \in Watchdog : x # w => wd'[x] = wd[x]
    BY <1>2 DEF WatchdogSleeps, WdOK
  <2> QED BY <1>2, <2>1 DEF WatchdogSleeps, OthersThanWatchdog
<1>3. CASE WatchdogWakes(w)
  BY <1>0, <1>3 DEF WatchdogWakes, OthersThanWatchdog, device
<1>4. CASE WatchdogDecides(w)
  BY <1>0, <1>4 DEF WatchdogDecides, OthersThanWatchdog, device
<1>5. CASE WatchdogStandsDown(w)
  BY ZenonT(60), <1>0, <1>5 DEF WatchdogStandsDown, OthersThanWatchdog, FlashOK, Flash
<1>6. CASE WatchdogFires(w)
  BY <1>0, <1>6 DEF WatchdogFires, OthersThanWatchdog
<1>7. CASE WatchdogCleansUp(w)
  BY <1>0, <1>7 DEF WatchdogCleansUp, OthersThanWatchdog
<1>8. CASE WatchdogCopies(w) \/ WatchdogSwaps(w) \/ WatchdogRestores(w) \/ WatchdogRestoresPackages(w)
           \/ WatchdogRestoresLinks(w) \/ WatchdogReloads(w)
  <2>1. \E from, to \in RestoringAt : Goes(w, from, to)
    BY <1>8 DEF WatchdogCopies, WatchdogSwaps, WatchdogRestores, WatchdogRestoresPackages,
         WatchdogRestoresLinks, WatchdogReloads, RestoringAt
  <2>2. wd[w].at \in RestoringAt /\ wd'[w].at \in RestoringAt /\ \A x \in Watchdog : x # w => wd'[x] = wd[x]
    BY <1>0, <2>1
  <2>3. ram' = ram \/ ram' = [ram EXCEPT !.staged = FALSE] \/ ram' = Touch("restored")
    BY <1>8 DEF WatchdogCopies, WatchdogSwaps, WatchdogRestores, WatchdogRestoresPackages,
         WatchdogRestoresLinks, WatchdogReloads
  <2>4. UNCHANGED <<up, verb, client>>
    BY <1>8 DEF WatchdogCopies, WatchdogSwaps, WatchdogRestores, WatchdogRestoresPackages,
         WatchdogRestoresLinks, WatchdogReloads, OthersThanWatchdog
  <2>5. flash'.applied = flash.applied
    <3>1. CASE WatchdogCopies(w) \/ WatchdogReloads(w)
      BY <3>1 DEF WatchdogCopies, WatchdogReloads, FlashOK, Flash
    <3>2. CASE WatchdogSwaps(w)
      BY <3>2 DEF WatchdogSwaps, SwapOut, SwapIn, FlashOK, Flash
    <3>3. CASE WatchdogRestores(w) \/ WatchdogRestoresPackages(w) \/ WatchdogRestoresLinks(w)
      BY <3>3 DEF WatchdogRestores, WatchdogRestoresPackages, WatchdogRestoresLinks, FlashOK, Flash
    <3> QED BY <1>8, <3>1, <3>2, <3>3
  <2> QED BY <2>2, <2>3, <2>4, <2>5
<1> QED BY <1>1, <1>2, <1>3, <1>4, <1>5, <1>6, <1>7, <1>8 DEF WatchdogStep

\* What a step of the watchdog alone has to leave for the rest to follow.
LEMMA WatchdogFrame ==
    ASSUME KeptInv, Kept, UNCHANGED <<up, verb, client>>,
           OneWatchdog', NotConfirmed', LeavesInOrder',
           DoneCommit' => DoneCommit,
           ~StoodDown /\ Unfired' => Unfired /\ UNCHANGED <<flash.links, flash.config, ram.staged>>,
           AfterFinish =>
             /\ ram'.dir => "committed" \in ram'.marks
             /\ "disarmed" \in ram'.out \/ wd'[1].at \in {"saying disarmed", "clearing"} => "committed" \in ram'.out,
           SafeDog => /\ SafeDog' /\ UNCHANGED <<flash.links, flash.config, flash.applied>>
                      /\ flash'.boot \in {flash.boot, "none"},
           Safe => Safe',
           "committed" \in ram.out => "committed" \in ram'.out
    PROVE  KeptInv'
<1>1. /\ GoesOn' = GoesOn /\ StoodDown' = StoodDown /\ Lets' = Lets /\ Kept' = Kept /\ SaidYes' = SaidYes
      /\ BeforeCommit' = BeforeCommit /\ AfterFinish' = AfterFinish
  BY DEF GoesOn, StoodDown, Lets, Kept, SaidYes, BeforeCommit, AfterFinish
<1>2. OnwardCalls' /\ LettingCalls' /\ ToldLast'
  BY <1>1 DEF KeptInv, OnwardCalls, LettingCalls, ToldLast
<1>3. OneFinalise'
  BY <1>1 DEF KeptInv, OneFinalise
<1>4. SettingsSo'
  BY <1>1 DEF KeptInv, SettingsSo
<1>5. Finished'
  BY <1>1 DEF KeptInv, Finished
<1>6. Evidence' /\ Answers'
  <2>1. Safe => SafeDog
    BY DEF Safe
  <2> QED BY <1>1, <2>1 DEF KeptInv, Evidence, EvidenceAt, Answers
<1>7. ToldHolds'
  BY <1>1 DEF KeptInv, ToldHolds
<1> QED BY <1>2, <1>3, <1>4, <1>5, <1>6, <1>7 DEF KeptInv

LEMMA WatchdogKept ==
    ASSUME TypeOK, FiredIsMarked, KeptInv, NEW w \in Watchdog, WatchdogStep(w)
    PROVE  KeptInv'
<1>1. CASE WatchdogReboots(w) \/ WatchdogGivesUp(w)
  <2>1. Restart /\ UNCHANGED <<flash, client>>
    BY <1>1 DEF WatchdogReboots, WatchdogGivesUp
  <2> QED BY <2>1, RestartKept
<1>2. CASE ~WatchdogReboots(w) /\ ~WatchdogGivesUp(w)
  <2>0. UNCHANGED <<up, verb, client>> /\ \A x \in Watchdog : x # w => wd'[x] = wd[x]
    BY <1>2, WatchdogMoves
  <2>1. CASE ~Kept
    <3>1. ~Kept' /\ ToldLast'
      BY <2>0, <2>1 DEF Kept, GoesOn, Lets, StoodDown, KeptInv, ToldLast
    <3> QED BY <3>1, NothingKept
  <2>2. CASE Kept
    <3>1. w = 1
      <4>1. wd[w].at # "off"
        BY <1>2, WatchdogMoves DEF RestoringAt
      <4> QED BY <2>2, <4>1 DEF KeptInv, OneWatchdog
    <3>2. ram \in Ram /\ (~ram.dir => ram.marks = {} /\ ram.pid = 0 /\ ram.slept = 0)
      BY DEF TypeOK, RamOK
    <3>3. /\ OneWatchdog /\ NotConfirmed /\ LeavesInOrder /\ Finished
      BY DEF KeptInv
    <3>4. GoesOn' = GoesOn /\ StoodDown' = StoodDown /\ Kept'
      BY <2>0, <2>2 DEF GoesOn, StoodDown, Lets, Kept
    <3>5. \A x \in Watchdog : x # 1 => wd'[x].at = "off"
      BY <2>0, <2>2, <3>1, <3>3 DEF OneWatchdog
    <3>6. /\ ram.slept # 0 => ram.pid = 1 /\ wd[1].at \notin {"off", "starting", "falling asleep"}
          /\ ram.dir /\ wd[1].at = "falling asleep" => ram.pid = 1
          /\ client.phase = "arming" /\ (client.awaits = 0 \/ verb[client.awaits].at \in ArmAt \ {"settling"}) => wd[1].at = "off"
      BY <2>2, <3>3 DEF OneWatchdog
    <3>7. GoesOn => "confirmed" \notin ram.marks /\ ram.out = {} /\ wd[1].at \notin Leaving
      BY <3>3 DEF NotConfirmed
    <3>8. /\ wd[1].at \notin RestoringAt \cup {"ended"} => "restoring" \notin ram.marks
          /\ "disarmed" \in ram.out => "restoring" \notin ram.marks /\ wd[1].at \in {"clearing", "ended"}
          /\ ~StoodDown /\ wd[1].at = "clearing" => "disarmed" \in ram.out
          /\ ~StoodDown /\ wd[1].at \in Leaving => ram.dir
      BY <2>2, <3>3 DEF LeavesInOrder
    <3>9. AfterFinish =>
            /\ ram.dir => "committed" \in ram.marks
            /\ "disarmed" \in ram.out \/ wd[1].at \in {"saying disarmed", "clearing"} => "committed" \in ram.out
      BY <3>3 DEF Finished
    <3>10. AfterFinish => ~StoodDown
      BY DEF AfterFinish, KeptInv, ToldLast
    <3>11. wd[1].at # "off"
      BY <1>2, <3>1, WatchdogMoves DEF RestoringAt
    <3> DEFINE Frame ==
             /\ ram'.slept # 0 => ram'.pid = 1 /\ wd'[1].at \notin {"off", "starting", "falling asleep"}
             /\ ram'.dir /\ wd'[1].at = "falling asleep" => ram'.pid = 1
             /\ GoesOn => "confirmed" \notin ram'.marks /\ ram'.out = {} /\ wd'[1].at \notin Leaving
             /\ wd'[1].at \notin RestoringAt \cup {"ended"} => "restoring" \notin ram'.marks
             /\ "disarmed" \in ram'.out => "restoring" \notin ram'.marks /\ wd'[1].at \in {"clearing", "ended"}
             /\ ~StoodDown /\ wd'[1].at = "clearing" => "disarmed" \in ram'.out
             /\ ~StoodDown /\ wd'[1].at \in Leaving => ram'.dir
             /\ DoneCommit' => DoneCommit
             /\ ~StoodDown /\ Unfired' => Unfired /\ UNCHANGED <<flash.links, flash.config, ram.staged>>
             /\ AfterFinish =>
                  /\ ram'.dir => "committed" \in ram'.marks
                  /\ "disarmed" \in ram'.out \/ wd'[1].at \in {"saying disarmed", "clearing"} => "committed" \in ram'.out
             /\ SafeDog => /\ SafeDog' /\ UNCHANGED <<flash.links, flash.config, flash.applied>>
                           /\ flash'.boot \in {flash.boot, "none"}
             /\ Safe => Safe'
             /\ "committed" \in ram.out => "committed" \in ram'.out
    <3>12. ASSUME Frame PROVE KeptInv'
      <4>1. OneWatchdog'
        BY <2>0, <3>4, <3>5, <3>6, <3>11, <3>12 DEF OneWatchdog
      <4>2. NotConfirmed' /\ LeavesInOrder'
        BY <3>4, <3>12 DEF NotConfirmed, LeavesInOrder
      <4> QED BY <2>0, <2>2, <3>12, <4>1, <4>2, WatchdogFrame
    <3>13. CASE wd[1].at \in {"starting", "falling asleep", "asleep"}
      <4>1. /\ wd'[1].at \in {"ended", "falling asleep", "asleep", "deciding"} /\ UNCHANGED flash
            /\ UNCHANGED <<ram.dir, ram.marks, ram.out, ram.staged>>
            /\ wd'[1].at = "ended" => ~ram.dir /\ ram' = ram
            /\ wd'[1].at = "falling asleep" => wd[1].at = "starting" /\ ram'.pid = 1 /\ ram'.slept = ram.slept
            /\ wd'[1].at \in {"asleep", "deciding"} => ram'.pid = ram.pid /\ wd[1].at # "starting"
            /\ wd'[1].at = "asleep" => wd[1].at = "falling asleep" /\ (~ram.dir => ram' = ram)
            /\ wd'[1].at = "deciding" => ram' = ram /\ wd[1].at = "asleep"
        <5>1. \/ /\ wd[1].at = "starting" /\ wd'[1].at = "ended"
                 /\ ~ram.dir /\ UNCHANGED <<ram, flash>>
              \/ /\ wd[1].at = "starting" /\ wd'[1].at = "falling asleep"
                 /\ ram.dir /\ ram' = [ram EXCEPT !.pid = 1] /\ UNCHANGED flash
              \/ /\ wd[1].at = "falling asleep" /\ wd'[1].at = "asleep"
                 /\ ram' = IF ram.dir THEN [ram EXCEPT !.slept = 1] ELSE ram
                 /\ UNCHANGED flash
              \/ /\ wd[1].at = "asleep" /\ wd'[1].at = "deciding"
                 /\ UNCHANGED <<ram, flash>>
          BY <1>2, <3>1, <3>13, WatchdogMoves DEF RestoringAt
        <5>2. /\ ram' = [ram EXCEPT !.pid = 1] => ram'.pid = 1 /\ UNCHANGED <<ram.slept, ram.dir, ram.marks, ram.out, ram.staged>>
              /\ ram' = [ram EXCEPT !.slept = 1] => UNCHANGED <<ram.pid, ram.dir, ram.marks, ram.out, ram.staged>>
          BY <3>2 DEF Ram
        <5> QED BY <5>1, <5>2
      <4>2. /\ ram'.slept # 0 => ram'.pid = 1 /\ wd'[1].at \notin {"off", "starting", "falling asleep"}
            /\ ram'.dir /\ wd'[1].at = "falling asleep" => ram'.pid = 1
        BY <3>2, <3>6, <3>13, <4>1
      <4>3. /\ DoneCommit' = DoneCommit
            /\ Unfired' => Unfired
            /\ SafeDog => SafeDog'
        BY <3>13, <4>1 DEF DoneCommit, Unfired, SafeDog, RestoringAt
      <4>4. Safe => Safe'
        BY <3>4, <4>1, <4>3 DEF Safe
      <4> QED BY <3>7, <3>8, <3>9, <3>12, <3>13, <4>1, <4>2, <4>3, <4>4 DEF Leaving, RestoringAt
    <3>14. CASE wd[1].at = "deciding"
      <4>1. /\ UNCHANGED <<ram, flash>>
            /\ \/ ~ram.dir /\ wd'[1].at = "ended"
               \/ ram.dir /\ "confirmed" \in ram.marks /\ wd'[1].at = "standing down"
               \/ ram.dir /\ "confirmed" \notin ram.marks /\ wd'[1].at = "unconfirmed"
        BY <1>2, <3>1, <3>14, WatchdogMoves DEF RestoringAt
      <4>2. /\ DoneCommit' = DoneCommit
            /\ Unfired' => Unfired
            /\ SafeDog => SafeDog'
        BY <3>14, <4>1 DEF DoneCommit, Unfired, SafeDog, RestoringAt
      <4>3. Safe => Safe'
        BY <3>4, <4>1, <4>2 DEF Safe
      <4> QED BY <3>6, <3>7, <3>8, <3>9, <3>12, <3>14, <4>1, <4>2, <4>3 DEF Leaving, RestoringAt
    <3>15. CASE wd[1].at \in Leaving
      <4>1. ~GoesOn
        BY <3>7, <3>15
      <4>2. /\ \/ /\ wd[1].at = "standing down" /\ wd'[1].at = "saying disarmed"
                  /\ ram' = [ram EXCEPT !.out = LeavesCommitMark] /\ UNCHANGED flash
               \/ /\ wd[1].at = "saying disarmed" /\ wd'[1].at = "clearing"
                  /\ ram' = [ram EXCEPT !.out = @ \cup {"disarmed"}] /\ UNCHANGED flash
               \/ /\ wd[1].at = "clearing" /\ wd'[1].at = "ended"
                  /\ ram' = WithoutDir(ram) /\ flash' = [flash EXCEPT !.boot = "none"]
        BY <1>2, <3>1, <3>15, WatchdogMoves DEF RestoringAt, Leaving
      <4>3. CASE /\ wd[1].at = "standing down" /\ wd'[1].at = "saying disarmed"
                 /\ ram' = [ram EXCEPT !.out = LeavesCommitMark] /\ UNCHANGED flash
        <5>1. /\ UNCHANGED <<ram.dir, ram.marks, ram.pid, ram.slept, ram.staged>>
              /\ ram'.out = IF "committed" \in ram.marks THEN ram.out \cup {"committed"} ELSE ram.out
          BY <3>2, <4>3 DEF Ram, LeavesCommitMark
        <5>2. "disarmed" \notin ram.out
          BY <3>8, <4>3
        <5>3. ram.out \subseteq ram'.out /\ "disarmed" \notin ram'.out
              /\ ("committed" \in ram'.out => "committed" \in ram.marks \cup ram.out)
              /\ ("committed" \in ram.marks => "committed" \in ram'.out)
          BY <5>1, <5>2
        <5>4. DoneCommit' => DoneCommit
          BY <5>1, <5>3 DEF DoneCommit
        <5>5. /\ Unfired' => Unfired
              /\ SafeDog => SafeDog'
          BY <4>3, <5>1, <5>3 DEF Unfired, SafeDog, RestoringAt
        <5>6. Safe => Safe'
          BY <3>4, <5>1, <5>3, <5>5 DEF Safe
        <5>7. "restoring" \notin ram.marks /\ (~StoodDown => ram.dir)
          BY <3>8, <4>3 DEF Leaving, RestoringAt
        <5>8. wd'[1].at \notin RestoringAt \cup {"ended"}
          BY <4>3 DEF RestoringAt
        <5>9. AfterFinish =>
                /\ ram'.dir => "committed" \in ram'.marks
                /\ "committed" \in ram'.out
          BY <3>9, <3>10, <5>1, <5>3, <5>7
        <5> QED BY <3>6, <3>12, <4>1, <4>3, <5>1, <5>3, <5>4, <5>5, <5>6, <5>7, <5>8, <5>9
      <4>4. CASE /\ wd[1].at = "saying disarmed" /\ wd'[1].at = "clearing"
                 /\ ram' = [ram EXCEPT !.out = @ \cup {"disarmed"}] /\ UNCHANGED flash
        <5>1. /\ UNCHANGED <<ram.dir, ram.marks, ram.pid, ram.slept, ram.staged>>
              /\ ram'.out = ram.out \cup {"disarmed"}
          BY <3>2, <4>4 DEF Ram
        <5>2. /\ DoneCommit' => DoneCommit
              /\ SafeDog => SafeDog'
          BY <4>4, <5>1 DEF DoneCommit, SafeDog, RestoringAt
        <5>3. Safe => Safe'
          BY <3>4, <5>1, <5>2 DEF Safe
        <5>4. "restoring" \notin ram.marks /\ (~StoodDown => ram.dir)
          BY <3>8, <4>4 DEF Leaving, RestoringAt
        <5>5. AfterFinish =>
                /\ ram'.dir => "committed" \in ram'.marks
                /\ "committed" \in ram'.out
          BY <3>9, <4>4, <5>1
        <5>6. wd'[1].at \notin RestoringAt \cup {"ended"}
          BY <4>4 DEF RestoringAt
        <5>7. ~StoodDown /\ Unfired' => Unfired
          BY <4>4, <5>1, <5>4 DEF Unfired, RestoringAt
        <5> QED BY <3>6, <3>12, <4>1, <4>4, <5>1, <5>2, <5>3, <5>4, <5>5, <5>6, <5>7
      <4>5. CASE /\ wd[1].at = "clearing" /\ wd'[1].at = "ended"
                 /\ ram' = WithoutDir(ram) /\ flash' = [flash EXCEPT !.boot = "none"]
        <5>1. /\ ~ram'.dir /\ ram'.marks = {} /\ ram'.pid = 0 /\ ram'.slept = 0 /\ UNCHANGED <<ram.out, ram.staged>>
          BY <3>2, <4>5 DEF Ram, WithoutDir
        <5>2. /\ UNCHANGED <<flash.config, flash.links, flash.applied>> /\ flash'.boot = "none"
          BY <4>5 DEF TypeOK, FlashOK, Flash
        <5>3. /\ DoneCommit' => DoneCommit
              /\ SafeDog'
              /\ Unfired' => Unfired
          BY <3>8, <4>5, <5>1 DEF DoneCommit, SafeDog, Unfired, RestoringAt
        <5>4. Safe'
          BY <3>4, <3>8, <4>5, <5>1, <5>3 DEF Safe
        <5> QED BY <3>8, <3>9, <3>12, <4>1, <4>5, <5>1, <5>2, <5>3, <5>4 DEF Leaving, RestoringAt
      <4> QED BY <4>2, <4>3, <4>4, <4>5
    <3>16. CASE wd[1].at = "unconfirmed" \/ wd[1].at \in RestoringAt
      <4>1. ~SafeDog /\ ~Safe
        BY <3>16 DEF Safe, SafeDog
      <4>2. "disarmed" \notin ram.out
        BY <3>8, <3>16 DEF RestoringAt
      <4>3. \/ /\ wd'[1].at \in RestoringAt
               /\ ram' \in {Touch("restoring"), Touch("restored"), ram, [ram EXCEPT !.staged = FALSE]}
            \/ wd'[1].at = "ended" /\ ram' = [WithoutDir(ram) EXCEPT !.script = FALSE]
        BY <1>2, <3>1, <3>16, WatchdogMoves DEF RestoringAt
      <4>4. /\ ram'.out = ram.out /\ (ram'.dir => ram.dir /\ ram'.pid = ram.pid)
            /\ ram'.slept # 0 => ram'.slept = ram.slept /\ ram'.dir
            /\ \A mark \in {"committed", "confirmed"} : mark \in ram'.marks <=> (mark \in ram.marks /\ ram'.dir)
            /\ wd'[1].at \in RestoringAt \/ (wd'[1].at = "ended" /\ ~ram'.dir /\ ram'.slept = 0)
        <5>1. CASE ram' = [WithoutDir(ram) EXCEPT !.script = FALSE] /\ wd'[1].at = "ended"
          BY <3>2, <5>1 DEF Ram, WithoutDir
        <5>2. CASE /\ wd'[1].at \in RestoringAt
                   /\ ram' \in {Touch("restoring"), Touch("restored"), ram, [ram EXCEPT !.staged = FALSE]}
          BY <3>2, <5>2 DEF Ram, Touch
        <5> QED BY <4>3, <5>1, <5>2
      <4>5. ~Unfired' /\ (DoneCommit' => DoneCommit)
        BY <4>2, <4>4 DEF Unfired, DoneCommit
      <4>6. /\ ram'.slept # 0 => ram'.pid = 1 /\ wd'[1].at \notin {"off", "starting", "falling asleep"}
            /\ wd'[1].at \notin {"falling asleep", "clearing"} \cup Leaving
            /\ wd'[1].at \in RestoringAt \cup {"ended"}
        BY <3>6, <4>4 DEF Leaving, RestoringAt
      <4>7. AfterFinish => (ram'.dir => "committed" \in ram'.marks)
        BY <3>9, <4>4
      <4> QED BY <3>7, <3>12, <4>1, <4>2, <4>4, <4>5, <4>6, <4>7 DEF Leaving
    <3>17. wd[1].at \in {"starting", "falling asleep", "asleep", "deciding", "unconfirmed"} \cup Leaving \cup RestoringAt
      BY <1>2, <3>1, WatchdogMoves DEF Leaving, RestoringAt
    <3> QED BY <3>13, <3>14, <3>15, <3>16, <3>17
  <2> QED BY <2>1, <2>2
<1> QED BY <1>1, <1>2

LEMMA SleepEndsKept ==
    ASSUME KeptInv, NEW w \in Watchdog, SleepEnds(w), TypeOK
    PROVE  KeptInv'
<1>1. /\ UNCHANGED <<flash, ram, up, verb, client>>
      /\ \A x \in Watchdog : wd'[x].at = wd[x].at
  BY DEF SleepEnds, device, OthersThanWatchdog, TypeOK, WdOK
<1>2. 1 \in Watchdog
  BY BoundsAssumption DEF BoundsAssumption, Watchdog
<1>3. wd'[1].at = wd[1].at
  BY <1>1, <1>2
<1>4. /\ GoesOn' = GoesOn /\ StoodDown' = StoodDown /\ Lets' = Lets /\ Kept' = Kept
  BY <1>1 DEF GoesOn, StoodDown, Lets, Kept
<1>5. CASE ~Kept
  BY <1>1, <1>4, <1>5, NothingKept DEF KeptInv, ToldLast
<1>6. CASE Kept
  <2>1. OneWatchdog'
    <3>1. OneWatchdog
      BY DEF KeptInv
    <3>2. \A x \in Watchdog : x # 1 => wd'[x].at = "off"
      BY <1>1, <1>6, <3>1 DEF OneWatchdog
    <3> QED BY <1>1, <1>3, <1>6, <3>1, <3>2 DEF OneWatchdog
  <2>2. NotConfirmed' /\ LeavesInOrder'
    BY <1>1, <1>3, <1>4 DEF KeptInv, NotConfirmed, LeavesInOrder
  <2>3. Unfired' = Unfired /\ DoneCommit' = DoneCommit /\ SafeDog' = SafeDog
    BY <1>1, <1>3 DEF Unfired, DoneCommit, SafeDog
  <2>4. Safe' = Safe
    BY <1>1, <1>4, <2>3 DEF Safe
  <2>5. AfterFinish =>
          /\ ram'.dir => "committed" \in ram'.marks
          /\ "disarmed" \in ram'.out \/ wd'[1].at \in {"saying disarmed", "clearing"} => "committed" \in ram'.out
    BY <1>1, <1>3 DEF KeptInv, Finished
  <2> QED BY <1>1, <1>6, <2>1, <2>2, <2>3, <2>4, <2>5, WatchdogFrame
<1> QED BY <1>5, <1>6

\* A watchdog killed before it left or fired leaves its directory for a disarm to judge by.
LEMMA KilledKept ==
    ASSUME TypeOK, FiredIsMarked, KeptInv, NEW w \in Watchdog, WatchdogKilled(w)
    PROVE  KeptInv'
<1>1. /\ UNCHANGED <<flash, ram, up, verb, client>> /\ wd[w].at \notin {"off", "ended"}
      /\ wd'[w].at = "ended" /\ \A x \in Watchdog : x # w => wd'[x] = wd[x]
  BY DEF WatchdogKilled, device, Alive, TypeOK, WdOK
<1>2. /\ GoesOn' = GoesOn /\ StoodDown' = StoodDown /\ Lets' = Lets /\ Kept' = Kept
  BY <1>1 DEF GoesOn, StoodDown, Lets, Kept
<1>3. CASE ~Kept
  BY <1>1, <1>2, <1>3, NothingKept DEF KeptInv, ToldLast
<1>4. CASE Kept
  <2>1. w = 1 /\ OneWatchdog /\ LeavesInOrder
    BY <1>1, <1>4 DEF KeptInv, OneWatchdog
  <2>2. OneWatchdog'
    BY <1>1, <1>2, <1>4, <2>1 DEF OneWatchdog
  <2>3. NotConfirmed' /\ LeavesInOrder'
    BY <1>1, <1>2, <1>4, <2>1 DEF KeptInv, NotConfirmed, LeavesInOrder, Leaving
  <2>4. Unfired' => Unfired
    <3>1. wd[1].at \in RestoringAt /\ ram.dir => "restoring" \in ram.marks
      BY <2>1 DEF FiredIsMarked, Restoring
    <3>2. wd[1].at \in RestoringAt => "disarmed" \notin ram.out
      BY <1>4, <2>1 DEF LeavesInOrder, RestoringAt
    <3> QED BY <1>1, <3>1, <3>2 DEF Unfired
  <2>5. DoneCommit' = DoneCommit /\ (SafeDog => SafeDog')
    BY <1>1, <2>1 DEF DoneCommit, SafeDog, RestoringAt
  <2>6. Safe => Safe'
    BY <1>1, <1>2, <2>5 DEF Safe
  <2>7. AfterFinish =>
          /\ ram'.dir => "committed" \in ram'.marks
          /\ "disarmed" \in ram'.out \/ wd'[1].at \in {"saying disarmed", "clearing"} => "committed" \in ram'.out
    BY <1>1, <2>1 DEF KeptInv, Finished
  <2> QED BY <1>1, <1>4, <2>2, <2>3, <2>4, <2>5, <2>6, <2>7, WatchdogFrame
<1> QED BY <1>3, <1>4

-----------------------------------------------------------------------------
(* The verbs. *)

\* What a step of one verb leaves of it.
LEMMA VerbGoes ==
    ASSUME TypeOK, NEW c \in Call, NEW from
    PROVE  /\ \A to : Then(c, from, to) =>
                /\ verb[c].at = from /\ verb'[c].at = to /\ verb'[c].answer = verb[c].answer
                /\ \A d \in Call : d # c => verb'[d] = verb[d]
           /\ \A answer : Says(c, from, answer) =>
                /\ verb[c].at = from /\ verb'[c].at = "said" /\ verb'[c].answer = answer
                /\ \A d \in Call : d # c => verb'[d] = verb[d]
<1> VerbOK
  BY DEF TypeOK
<1>1. ASSUME NEW to, Then(c, from, to)
      PROVE  /\ verb[c].at = from /\ verb'[c].at = to /\ verb'[c].answer = verb[c].answer
             /\ \A d \in Call : d # c => verb'[d] = verb[d]
  BY <1>1 DEF Then, VerbOK
<1>2. ASSUME NEW answer, Says(c, from, answer)
      PROVE  /\ verb[c].at = from /\ verb'[c].at = "said" /\ verb'[c].answer = answer
             /\ \A d \in Call : d # c => verb'[d] = verb[d]
  BY <1>2 DEF Says, Silent, VerbOK
<1> QED BY <1>1, <1>2

\* What the steps of an arm leave.
LEMMA ArmMoves ==
    ASSUME TypeOK, NEW c \in Call, Arm(c)
    PROVE  /\ UNCHANGED <<up, client, flash.config, flash.links, flash.applied>>
           /\ \A d \in Call : d # c => verb'[d] = verb[d]
           /\ UNCHANGED <<ram.dir, ram.pid, ram.slept, ram.out, ram.staged>>
           /\ ram'.marks \subseteq ram.marks \cup {"snapshot"} /\ ram.marks \subseteq ram'.marks
           /\ \/ verb[c].at \in ArmAt /\ verb'[c].at = "said" /\ wd' = wd
              \/ verb[c].at = "installing boot script" /\ verb'[c].at = "snapshotting" /\ wd' = wd
              \/ verb[c].at = "snapshotting" /\ verb'[c].at = "copying to flash" /\ wd' = wd
              \/ verb[c].at = "copying to flash" /\ verb'[c].at = "copying more" /\ wd' = wd
              \/ verb[c].at = "copying more" /\ verb'[c].at = "launching" /\ wd' = wd
              \/ /\ verb[c].at = "launching" /\ verb'[c].at = "settling"
                 /\ wd' = wd \/ (CanStart /\ wd' = Started)
<1>1. \/ /\ verb[c].at \in ArmAt /\ verb'[c].at = "said" /\ UNCHANGED <<wd, ram, flash>>
      \/ /\ verb[c].at = "installing boot script" /\ verb'[c].at = "snapshotting" /\ UNCHANGED <<wd, ram>>
         /\ \E there \in BOOLEAN : flash' = [flash EXCEPT !.init = there]
      \/ /\ verb[c].at = "snapshotting" /\ verb'[c].at = "copying to flash" /\ wd' = wd
         /\ ram' = Touch("snapshot") /\ flash' = flash
      \/ /\ verb[c].at = "copying to flash" /\ verb'[c].at = "copying more" /\ UNCHANGED <<wd, ram>>
         /\ flash' = [flash EXCEPT !.boot = "part"]
      \/ /\ verb[c].at = "copying more" /\ verb'[c].at = "launching" /\ UNCHANGED <<wd, ram>>
         /\ \E copy \in {"none", "part", "config", "whole"} : flash' = [flash EXCEPT !.boot = copy]
      \/ /\ verb[c].at = "launching" /\ verb'[c].at = "settling" /\ UNCHANGED <<ram, flash>>
         /\ wd' = wd \/ (CanStart /\ wd' = Started)
  <2>1. {flash.init, TRUE} \subseteq BOOLEAN
    BY DEF TypeOK, FlashOK, Flash
  <2>2. CASE Then(c, "installing boot script", "snapshotting")
    <3>1. verb[c].at = "installing boot script" /\ verb'[c].at = "snapshotting"
      BY <2>2, VerbGoes
    <3> QED BY <2>1, <3>1 DEF Arm, Then, Says
  <2>3. CASE Then(c, "copying to flash", "copying more")
    <3>1. verb[c].at = "copying to flash" /\ verb'[c].at = "copying more"
      BY <2>3, VerbGoes
    <3> QED BY <3>1 DEF Arm, Then, Says
  <2>4. CASE Then(c, "copying more", "launching")
    <3>1. verb[c].at = "copying more" /\ verb'[c].at = "launching"
      BY <2>4, VerbGoes
    <3> QED BY <3>1 DEF Arm, Then, Says
  <2>5. CASE Then(c, "snapshotting", "copying to flash")
    <3>1. verb[c].at = "snapshotting" /\ verb'[c].at = "copying to flash"
      BY <2>5, VerbGoes
    <3>2. ~Says(c, "snapshotting", "no")
      BY <3>1, VerbGoes
    <3>3. ram' = Touch("snapshot") /\ UNCHANGED <<flash, wd>>
      BY <3>1, <3>2 DEF Arm, Then, Says
    <3> QED BY <3>1, <3>3
  <2>6. CASE Then(c, "launching", "settling")
    <3>1. verb[c].at = "launching" /\ verb'[c].at = "settling"
      BY <2>6, VerbGoes
    <3> QED BY <3>1 DEF Arm, Then, Says
  <2>7. ASSUME NEW answer, Says(c, "snapshotting", answer) \/ Says(c, "settling", answer)
        PROVE  verb[c].at \in ArmAt /\ verb'[c].at = "said" /\ UNCHANGED <<wd, ram, flash>>
    <3>1. verb[c].at \in {"snapshotting", "settling"} /\ verb'[c].at = "said"
      BY <2>7, VerbGoes
    <3>2. ~Then(c, "snapshotting", "copying to flash")
      <4>1. Then(c, "snapshotting", "copying to flash") => verb'[c].at = "copying to flash"
        BY VerbGoes
      <4> QED BY <3>1, <4>1
    <3>3. UNCHANGED <<flash, ram, wd>>
      BY <3>1, <3>2 DEF Arm, Then, Says
    <3> QED BY <3>1, <3>3 DEF ArmAt
  <2> QED BY <2>2, <2>3, <2>4, <2>5, <2>6, <2>7 DEF Arm
<1>2. UNCHANGED <<up, client>> /\ \A d \in Call : d # c => verb'[d] = verb[d]
  BY VerbGoes DEF Arm, OthersThanVerb
<1>3. UNCHANGED <<flash.config, flash.links, flash.applied>>
  BY <1>1 DEF TypeOK, FlashOK, Flash
<1>4. /\ UNCHANGED <<ram.dir, ram.pid, ram.slept, ram.out, ram.staged>>
      /\ ram'.marks \subseteq ram.marks \cup {"snapshot"} /\ ram.marks \subseteq ram'.marks
  <2>1. ram' = ram \/ ram' = Touch("snapshot")
    BY <1>1
  <2> QED BY <2>1 DEF Touch, TypeOK, RamOK, Ram
<1> QED BY <1>1, <1>2, <1>3, <1>4

\* Those of a prepare and a stage.
LEMMA PrepareMoves ==
    ASSUME TypeOK, NEW c \in Call, Prepare(c)
    PROVE  /\ UNCHANGED <<up, client, wd, flash.config, flash.links, flash.applied, flash.boot>>
           /\ \A d \in Call : d # c => verb'[d] = verb[d]
           /\ UNCHANGED <<ram.dir, ram.pid, ram.slept, ram.out, ram.marks>>
           /\ verb[c].at \in {"discarding staged", "installing"}
           /\ verb'[c].at = "said" \/ (verb[c].at = "discarding staged" /\ verb'[c].at = "installing")
<1>1. /\ verb[c].at \in {"discarding staged", "installing"}
      /\ verb'[c].at = "said" \/ (verb[c].at = "discarding staged" /\ verb'[c].at = "installing")
      /\ \A d \in Call : d # c => verb'[d] = verb[d]
  <2>1. \/ Then(c, "discarding staged", "installing") \/ Says(c, "discarding staged", "no")
        \/ Says(c, "installing", "yes") \/ Says(c, "installing", "no")
    BY DEF Prepare
  <2> QED BY ZenonT(60), <2>1, VerbGoes
<1>2. UNCHANGED <<up, client, wd>>
  BY DEF Prepare, OthersThanVerb
<1>3. UNCHANGED <<flash.config, flash.links, flash.applied, flash.boot>>
  BY DEF Prepare, TypeOK, FlashOK, Flash
<1>4. UNCHANGED <<ram.dir, ram.pid, ram.slept, ram.out, ram.marks>>
  BY DEF Prepare, TypeOK, RamOK, Ram
<1> QED BY <1>1, <1>2, <1>3, <1>4

LEMMA StageMoves ==
    ASSUME TypeOK, NEW c \in Call, Stage(c)
    PROVE  /\ UNCHANGED <<up, client, wd, flash.config, flash.links, flash.applied, flash.boot>>
           /\ \A d \in Call : d # c => verb'[d] = verb[d]
           /\ UNCHANGED <<ram.dir, ram.pid, ram.slept, ram.out, ram.marks>>
           /\ ram.staged => ram'.staged
           /\ \/ verb[c].at = "staging" /\ verb'[c].at = "writing" /\ ram'.staged
              \/ verb[c].at = "staging" /\ verb'[c].at = "said" /\ verb'[c].answer = "no"
              \/ verb[c].at = "writing" /\ verb'[c].at = "said"
<1>1. \/ /\ verb[c].at = "staging" /\ verb'[c].at = "writing"
         /\ ram' = [ram EXCEPT !.staged = TRUE] /\ flash' = flash
      \/ /\ verb[c].at = "staging" /\ verb'[c].at = "said" /\ verb'[c].answer = "no"
         /\ \E some \in BOOLEAN : ram' = [ram EXCEPT !.staged = @ \/ some]
         /\ flash' = flash
      \/ /\ verb[c].at = "writing" /\ verb'[c].at = "said" /\ ram' = ram
         /\ \E some \in {"old", "new"} : flash' = [flash EXCEPT !.files = some] \/ flash' = flash
  <2>1. CASE ram.script /\ Then(c, "staging", "writing") /\ ram' = [ram EXCEPT !.staged = TRUE] /\ UNCHANGED flash
    BY ZenonT(60), <2>1, VerbGoes
  <2>2. CASE /\ \E some \in BOOLEAN : ram' = [ram EXCEPT !.staged = @ \/ (some /\ ram.script)]
             /\ Says(c, "staging", "no") /\ UNCHANGED flash
    <3>1. PICK some \in BOOLEAN : ram' = [ram EXCEPT !.staged = @ \/ (some /\ ram.script)]
      BY <2>2
    <3>2. (some /\ ram.script) \in BOOLEAN
      BY DEF TypeOK, RamOK, Ram
    <3> QED BY <2>2, <3>1, <3>2, VerbGoes
  <2>3. CASE /\ ram.script /\ Says(c, "writing", "yes")
             /\ flash' = IF "files" \in client.work THEN [flash EXCEPT !.files = "new"] ELSE flash
             /\ UNCHANGED ram
    BY <2>3, VerbGoes
  <2>4. CASE /\ Says(c, "writing", "no")
             /\ \E some \in {flash.files} \cup (IF ram.script /\ "files" \in client.work THEN {"new"} ELSE {}) :
                   flash' = [flash EXCEPT !.files = some]
             /\ UNCHANGED ram
    BY <2>4, VerbGoes DEF TypeOK, FlashOK, Flash
  <2> QED BY <2>1, <2>2, <2>3, <2>4 DEF Stage
<1>2. UNCHANGED <<up, client, wd>> /\ \A d \in Call : d # c => verb'[d] = verb[d]
  BY VerbGoes DEF Stage, OthersThanVerb
<1>3. UNCHANGED <<flash.config, flash.links, flash.applied, flash.boot>>
  BY <1>1 DEF TypeOK, FlashOK, Flash
<1>4. /\ UNCHANGED <<ram.dir, ram.pid, ram.slept, ram.out, ram.marks>>
      /\ ram.staged => ram'.staged
      /\ verb'[c].at = "writing" => ram'.staged
  BY <1>1 DEF TypeOK, RamOK, Ram
<1> QED BY <1>1, <1>2, <1>3, <1>4

LEMMA FinaliseMoves ==
    ASSUME TypeOK, NEW c \in Call, Finalise(c)
    PROVE  /\ UNCHANGED <<up, client, wd, flash.links, flash.applied, flash.boot>>
           /\ \A d \in Call : d # c => verb'[d] = verb[d]
           /\ UNCHANGED <<ram.dir, ram.pid, ram.slept, ram.out>>
           /\ \/ /\ verb[c].at = "committing" /\ verb'[c].at = "committing more"
                 /\ flash'.config = Committed(flash.config) /\ UNCHANGED <<ram.staged, ram.marks>>
              \/ /\ verb[c].at = "committing more" /\ verb'[c].at = "reloading"
                 /\ flash'.config = Committed(flash.config) /\ UNCHANGED ram.marks
              \/ /\ verb[c].at \in {"committing", "committing more"} /\ verb'[c].at = "said" /\ verb'[c].answer = "no"
                 /\ UNCHANGED <<flash.config, ram.staged, ram.marks>>
              \/ /\ verb[c].at = "reloading" /\ verb'[c].at = "said" /\ UNCHANGED <<flash.config, ram.staged>>
                 /\ ram'.marks \subseteq ram.marks \cup {"committed"} /\ ram.marks \subseteq ram'.marks
<1>1. \/ /\ verb[c].at = "committing" /\ verb'[c].at = "committing more"
         /\ flash' = [flash EXCEPT !.config = Committed(flash.config)] /\ ram' = ram
      \/ /\ verb[c].at = "committing more" /\ verb'[c].at = "reloading"
         /\ flash' = [flash EXCEPT !.config = Committed(flash.config)] /\ ram' = [ram EXCEPT !.staged = FALSE]
      \/ /\ verb[c].at \in {"committing", "committing more"} /\ verb'[c].at = "said" /\ verb'[c].answer = "no"
         /\ UNCHANGED <<flash, ram>>
      \/ /\ verb[c].at = "reloading" /\ verb'[c].at = "said" /\ flash' = flash /\ ram' = Touch("committed")
  BY ZenonT(60), VerbGoes DEF Finalise
<1>2. UNCHANGED <<up, client, wd>> /\ \A d \in Call : d # c => verb'[d] = verb[d]
  BY VerbGoes DEF Finalise, OthersThanVerb
<1>3. /\ UNCHANGED <<flash.links, flash.applied, flash.boot>>
      /\ flash' = [flash EXCEPT !.config = Committed(flash.config)] => flash'.config = Committed(flash.config)
  BY <1>1 DEF TypeOK, FlashOK, Flash
<1>4. UNCHANGED <<ram.dir, ram.pid, ram.slept, ram.out>>
  BY <1>1 DEF TypeOK, RamOK, Ram, Touch
<1>5. /\ ram' = Touch("committed") =>
           ram'.marks \subseteq ram.marks \cup {"committed"} /\ ram.marks \subseteq ram'.marks /\ ram'.staged = ram.staged
      /\ ram' = [ram EXCEPT !.staged = FALSE] => ram'.marks = ram.marks
  BY DEF TypeOK, RamOK, Ram, Touch
<1>6. /\ ram' = ram => UNCHANGED <<ram.staged, ram.marks>>
      /\ flash' = flash => flash'.config = flash.config
  OBVIOUS
<1>7. CASE verb[c].at = "reloading" /\ verb'[c].at = "said" /\ flash' = flash /\ ram' = Touch("committed")
  BY <1>2, <1>3, <1>4, <1>5, <1>6, <1>7
<1>8. CASE /\ verb[c].at \in {"committing", "committing more"} /\ verb'[c].at = "said" /\ verb'[c].answer = "no"
           /\ UNCHANGED <<flash, ram>>
  BY <1>2, <1>3, <1>4, <1>6, <1>8
<1>9. CASE /\ verb[c].at = "committing more" /\ verb'[c].at = "reloading"
           /\ flash' = [flash EXCEPT !.config = Committed(flash.config)] /\ ram' = [ram EXCEPT !.staged = FALSE]
  <2>1. flash'.config = Committed(flash.config)
    BY <1>3, <1>9
  <2>2. ram'.marks = ram.marks
    BY <1>5, <1>9
  <2> QED BY <1>2, <1>3, <1>4, <1>9, <2>1, <2>2
<1>10. CASE /\ verb[c].at = "committing" /\ verb'[c].at = "committing more"
            /\ flash' = [flash EXCEPT !.config = Committed(flash.config)] /\ ram' = ram
  <2>1. flash'.config = Committed(flash.config)
    BY <1>3, <1>10
  <2>2. UNCHANGED <<ram.staged, ram.marks>>
    BY <1>10
  <2> QED BY <1>2, <1>3, <1>4, <1>10, <2>1, <2>2
<1> QED BY <1>1, <1>7, <1>8, <1>9, <1>10

\* Those of one look or one write.
LEMMA LookMoves ==
    ASSUME TypeOK, NEW c \in Call, Services(c) \/ (ShortVerb(c) /\ verb[c].at # "done")
    PROVE  /\ UNCHANGED <<up, client, wd, flash.config, flash.applied, flash.boot>>
           /\ flash'.links = "none" <=> flash.links = "none"
           /\ \A d \in Call : d # c => verb'[d] = verb[d]
           /\ UNCHANGED <<ram.dir, ram.pid, ram.slept, ram.out>>
           /\ verb[c].at # "reverting" => ram'.staged = ram.staged
           /\ ram'.marks \subseteq ram.marks \cup {"recovered"} /\ ram.marks \subseteq ram'.marks
           /\ verb[c].at \in {"starting services", "finished?", "asleep?", "reverting", "recovered?"}
           /\ verb'[c].at = "said"
           /\ verb[c].at = "finished?" /\ verb'[c].answer = "yes" => "committed" \in ram.marks
<1>1. CASE Services(c)
  <2>1. verb[c].at = "starting services" /\ verb'[c].at = "said" /\ \A d \in Call : d # c => verb'[d] = verb[d]
    BY <1>1, VerbGoes DEF Services
  <2>2. /\ UNCHANGED <<flash.config, flash.applied, flash.boot>>
        /\ flash'.links = "none" <=> flash.links = "none"
    BY <1>1 DEF Services, TypeOK, FlashOK, Flash
  <2>3. UNCHANGED <<up, client, wd, ram>>
    BY <1>1 DEF Services, OthersThanVerb
  <2> QED BY <2>1, <2>2, <2>3
<1>2. CASE ShortVerb(c) /\ verb[c].at # "done"
  <2>1. UNCHANGED <<up, client, wd, flash>>
    BY <1>2 DEF ShortVerb, OthersThanVerb
  <2>2. \/ Says(c, "finished?", IF "committed" \in ram.marks THEN "yes" ELSE "no") /\ ram' = ram
        \/ Says(c, "asleep?", Answered(ram.pid)) /\ ram' = ram
        \/ Says(c, "reverting", "yes") /\ ram' = [ram EXCEPT !.staged = FALSE]
        \/ Says(c, "recovered?", "yes") /\ ram' = Touch("recovered")
        \/ Says(c, "recovered?", "no") /\ ram' = ram
    BY <1>2 DEF ShortVerb, Says
  <2>3. /\ verb[c].at \in {"finished?", "asleep?", "reverting", "recovered?"} /\ verb'[c].at = "said"
        /\ \A d \in Call : d # c => verb'[d] = verb[d]
        /\ verb[c].at # "reverting" => ram' = ram \/ ram' = Touch("recovered")
    BY <2>2, VerbGoes
  <2>4. verb[c].at = "finished?" /\ verb'[c].answer = "yes" => "committed" \in ram.marks
    <3>1. verb[c].at = "finished?" => Says(c, "finished?", IF "committed" \in ram.marks THEN "yes" ELSE "no")
      BY <2>2 DEF Says
    <3> QED BY ZenonT(60), <3>1, VerbGoes
  <2>5. UNCHANGED <<ram.dir, ram.pid, ram.slept, ram.out>>
        /\ ram'.marks \subseteq ram.marks \cup {"recovered"} /\ ram.marks \subseteq ram'.marks
    BY <2>2 DEF Touch, TypeOK, RamOK, Ram
  <2>6. verb[c].at # "reverting" => ram'.staged = ram.staged
    BY <2>3 DEF Touch, TypeOK, RamOK, Ram
  <2> QED BY <2>1, <2>3, <2>4, <2>5, <2>6
<1> QED BY <1>1, <1>2

LEMMA DoneMoves ==
    ASSUME TypeOK, NEW c \in Call, ShortVerb(c), verb[c].at = "done"
    PROVE  /\ UNCHANGED <<up, client, wd, flash>>
           /\ \A d \in Call : d # c => verb'[d] = verb[d]
           /\ verb'[c].at = "said" /\ ram'.out = {}
           /\ \/ UNCHANGED <<ram.dir, ram.pid, ram.slept, ram.marks>>
              \/ ~ram'.dir /\ ram'.pid = 0 /\ ram'.slept = 0 /\ ram'.marks = {}
<1>1. UNCHANGED <<up, client, wd, flash>>
  BY DEF ShortVerb, OthersThanVerb
<1>2. /\ Says(c, "done", "yes")
      /\ ram' = [IF Alive(ram.pid) THEN ram ELSE WithoutDir(ram) EXCEPT !.script = FALSE, !.out = {}]
  BY DEF ShortVerb, Says
<1>3. /\ ram'.out = {}
      /\ \/ UNCHANGED <<ram.dir, ram.pid, ram.slept, ram.marks>>
         \/ ~ram'.dir /\ ram'.pid = 0 /\ ram'.slept = 0 /\ ram'.marks = {}
  BY <1>2 DEF WithoutDir, TypeOK, RamOK, Ram
<1> QED BY <1>1, <1>2, <1>3, VerbGoes

\* Those of a disarm: its looks, the flag, and what it stands down on its evidence.
LEMMA DisarmMoves ==
    ASSUME TypeOK, NEW c \in Call, Disarm(c)
    PROVE  /\ UNCHANGED <<up, client, flash, ram.dir, ram.pid, ram.slept, ram.out, ram.staged>>
           /\ \A x \in Watchdog : wd'[x].at = wd[x].at
           /\ \A d \in Call : d # c => verb'[d] = verb[d]
           /\ ram'.marks \subseteq ram.marks \cup {"confirmed"} /\ ram.marks \subseteq ram'.marks
           /\ verb[c].at \in DisarmingAt \ EvidenceAt
           /\ \/ verb'[c].at \in DisarmingAt \ EvidenceAt
              \/ verb'[c].at = "said" /\ verb'[c].answer = "no"
              \/ verb'[c].at = "clearing copies" /\ ("disarmed" \in ram.out \/ DiedAsleep(ram.pid))
<1> VerbOK /\ WdOK
  BY DEF TypeOK
<1>1. UNCHANGED <<up, client, flash>>
  BY DEF Disarm, OthersThanVerb
<1>2. UNCHANGED <<ram.dir, ram.pid, ram.slept, ram.out, ram.staged>>
      /\ ram'.marks \subseteq ram.marks \cup {"confirmed"} /\ ram.marks \subseteq ram'.marks
  <2>1. ram' = ram \/ ram' = Touch("confirmed")
    BY DEF Disarm
  <2> QED BY <2>1 DEF Touch, TypeOK, RamOK, Ram
<1>3. \A x \in Watchdog : wd'[x].at = wd[x].at
  <2>1. wd' = wd \/ wd' = [wd EXCEPT ![verb[c].p].sleeps = FALSE]
    BY DEF Disarm
  <2> QED BY <2>1 DEF WdOK
<1>4. \/ Then(c, "disarm", "clearing copies") /\ ("disarmed" \in ram.out \/ DiedAsleep(ram.pid))
      \/ Says(c, "disarm", "no")
      \/ /\ verb[c].at = "disarm"
         /\ verb' = [verb EXCEPT ![c] = [@ EXCEPT !.at = "confirming", !.p = ram.pid, !.s = ram.slept]]
      \/ Then(c, "confirming", "waking") \/ Then(c, "waking", "settling disarm")
      \/ Then(c, "settling disarm", "still asleep?")
  BY DEF Disarm
<1>5. CASE /\ verb[c].at = "disarm"
           /\ verb' = [verb EXCEPT ![c] = [@ EXCEPT !.at = "confirming", !.p = ram.pid, !.s = ram.slept]]
  <2>1. verb'[c].at = "confirming" /\ \A d \in Call : d # c => verb'[d] = verb[d]
    BY <1>5 DEF VerbOK
  <2> QED BY <1>1, <1>2, <1>3, <1>5, <2>1 DEF DisarmingAt, EvidenceAt
<1>6. CASE Then(c, "disarm", "clearing copies") /\ ("disarmed" \in ram.out \/ DiedAsleep(ram.pid))
  <2>1. verb[c].at = "disarm" /\ verb'[c].at = "clearing copies" /\ \A d \in Call : d # c => verb'[d] = verb[d]
    BY <1>6, VerbGoes
  <2> QED BY <1>1, <1>2, <1>3, <1>6, <2>1 DEF DisarmingAt, EvidenceAt
<1>7. CASE \/ Says(c, "disarm", "no") \/ Then(c, "confirming", "waking") \/ Then(c, "waking", "settling disarm")
           \/ Then(c, "settling disarm", "still asleep?")
  <2>1. /\ verb[c].at \in {"disarm", "confirming", "waking", "settling disarm"}
        /\ \/ verb'[c].at = "said" /\ verb'[c].answer = "no"
           \/ verb'[c].at \in {"waking", "settling disarm", "still asleep?"}
        /\ \A d \in Call : d # c => verb'[d] = verb[d]
    BY ZenonT(60), <1>7, VerbGoes
  <2> QED BY <1>1, <1>2, <1>3, <2>1 DEF DisarmingAt, EvidenceAt
<1> QED BY <1>4, <1>5, <1>6, <1>7

LEMMA DisarmEndMoves ==
    ASSUME TypeOK, NEW c \in Call, DisarmEnds(c)
    PROVE  /\ UNCHANGED <<up, client, ram, wd, flash.config, flash.links>>
           /\ flash'.boot \in {flash.boot, "none"} /\ (flash.applied => flash'.applied)
           /\ \A d \in Call : d # c => verb'[d] = verb[d]
           /\ \/ /\ verb[c].at = "still asleep?" /\ verb'[c].at = "clearing copies" /\ SleepsConfirmed(verb[c].p)
              \/ /\ verb[c].at = "still asleep?" /\ verb'[c].at = "stood down?"
              \/ /\ verb[c].at = "stood down?" /\ verb'[c].at = "clearing copies" /\ "disarmed" \in ram.out
              \/ /\ verb[c].at = "stood down?" /\ verb'[c].at = "said" /\ verb'[c].answer = "no"
              \/ /\ verb[c].at = "clearing copies" /\ verb'[c].at = "was it committed?" /\ flash'.boot = "none"
              \/ /\ verb[c].at = "was it committed?" /\ verb'[c].at = "marking applied" /\ "committed" \in ram.marks
              \/ /\ verb[c].at = "was it committed?" /\ verb'[c].at = "or before it left?" /\ "committed" \notin ram.marks
              \/ /\ verb[c].at = "or before it left?" /\ verb'[c].at = "marking applied" /\ "committed" \in ram.out
              \/ /\ verb[c].at = "or before it left?" /\ verb'[c].at = "said" /\ "committed" \notin ram.out
              \/ /\ verb[c].at = "marking applied" /\ verb'[c].at = "said" /\ flash'.applied
<1>1. UNCHANGED <<up, client, ram, wd>>
  BY DEF DisarmEnds, OthersThanVerb
<1>2. /\ UNCHANGED <<flash.config, flash.links>>
      /\ flash'.boot \in {flash.boot, "none"} /\ (flash.applied => flash'.applied)
      /\ flash' = [flash EXCEPT !.boot = "none"] => flash'.boot = "none"
      /\ flash' = [flash EXCEPT !.applied = TRUE] => flash'.applied
  BY DEF DisarmEnds, TypeOK, FlashOK, Flash
<1>3. /\ \/ /\ verb[c].at = "still asleep?" /\ verb'[c].at = "clearing copies" /\ SleepsConfirmed(verb[c].p)
         \/ /\ verb[c].at = "still asleep?" /\ verb'[c].at = "stood down?"
         \/ /\ verb[c].at = "stood down?" /\ verb'[c].at = "clearing copies" /\ "disarmed" \in ram.out
         \/ /\ verb[c].at = "stood down?" /\ verb'[c].at = "said" /\ verb'[c].answer = "no"
         \/ /\ verb[c].at = "clearing copies" /\ verb'[c].at = "was it committed?" /\ flash' = [flash EXCEPT !.boot = "none"]
         \/ /\ verb[c].at = "was it committed?" /\ verb'[c].at = "marking applied" /\ "committed" \in ram.marks
         \/ /\ verb[c].at = "was it committed?" /\ verb'[c].at = "or before it left?" /\ "committed" \notin ram.marks
         \/ /\ verb[c].at = "or before it left?" /\ verb'[c].at = "marking applied" /\ "committed" \in ram.out
         \/ /\ verb[c].at = "or before it left?" /\ verb'[c].at = "said" /\ "committed" \notin ram.out
         \/ /\ verb[c].at = "marking applied" /\ verb'[c].at = "said" /\ flash' = [flash EXCEPT !.applied = TRUE]
      /\ \A d \in Call : d # c => verb'[d] = verb[d]
  <2>1. \/ Then(c, "still asleep?", "clearing copies") /\ SleepsConfirmed(verb[c].p)
        \/ Then(c, "still asleep?", "stood down?")
        \/ Then(c, "stood down?", "clearing copies") /\ "disarmed" \in ram.out
        \/ Says(c, "stood down?", "no")
        \/ Then(c, "clearing copies", "was it committed?") /\ flash' = [flash EXCEPT !.boot = "none"]
        \/ Then(c, "was it committed?", "marking applied") /\ "committed" \in ram.marks
        \/ Then(c, "was it committed?", "or before it left?") /\ "committed" \notin ram.marks
        \/ Then(c, "or before it left?", "marking applied") /\ "committed" \in ram.out
        \/ Says(c, "or before it left?", "yes") /\ "committed" \notin ram.out
        \/ Says(c, "marking applied", "yes") /\ flash' = [flash EXCEPT !.applied = TRUE]
    BY DEF DisarmEnds, CommittedBy
  <2>2. \A d \in Call : d # c => verb'[d] = verb[d]
    BY <2>1, VerbGoes
  <2>3. /\ \A from, to : Then(c, from, to) => verb[c].at = from /\ verb'[c].at = to
        /\ \A from, answer : Says(c, from, answer) => verb[c].at = from /\ verb'[c].at = "said" /\ verb'[c].answer = answer
    BY ZenonT(60), VerbGoes
  <2> QED BY <2>1, <2>2, <2>3
<1> QED BY <1>1, <1>2, <1>3

\* A drop and a rollback-now stay among themselves.
LEMMA UndoMoves ==
    ASSUME TypeOK, NEW c \in Call, Drop(c) \/ RollbackNow(c)
    PROVE  /\ UNCHANGED client
           /\ \A d \in Call : d # c => verb'[d] = verb[d]
           /\ verb[c].at \in {"drop", "settling drop", "dropping", "rollback-now", "relaunching"}
           /\ verb'[c].at \in {"settling drop", "dropping", "relaunching", "said"}
<1>1. UNCHANGED client
  BY DEF Drop, RollbackNow, OthersThanVerb
<1>2. CASE /\ verb[c].at = "drop"
           /\ verb' = [verb EXCEPT ![c] = [@ EXCEPT !.at = "settling drop", !.p = ram.pid]]
  <2>1. verb'[c].at = "settling drop" /\ \A d \in Call : d # c => verb'[d] = verb[d]
    BY <1>2 DEF TypeOK, VerbOK
  <2> QED BY <1>1, <1>2, <2>1
<1>3. CASE \/ Then(c, "drop", "dropping") \/ Then(c, "settling drop", "dropping") \/ Says(c, "settling drop", "no")
           \/ Says(c, "dropping", "yes") \/ Says(c, "rollback-now", "yes") \/ Says(c, "rollback-now", "no")
           \/ Then(c, "rollback-now", "relaunching") \/ Says(c, "relaunching", "yes") \/ Says(c, "relaunching", "no")
  BY ZenonT(60), <1>1, <1>3, VerbGoes
<1> QED BY <1>2, <1>3 DEF Drop, RollbackNow

UndoAt == {"drop", "settling drop", "dropping", "rollback-now", "relaunching"}

\* A verb stays among its own steps until it answers.
LEMMA VerbFamilies ==
    ASSUME TypeOK, NEW c \in Call, VerbStep(c)
    PROVE  /\ UNCHANGED client
           /\ \A d \in Call : d # c => verb'[d] = verb[d]
           /\ verb[c].at \notin RestAt
           /\ \/ verb'[c].at = "said"
              \/ verb[c].at = "installing boot script" /\ verb'[c].at = "snapshotting"
              \/ verb[c].at = "snapshotting" /\ verb'[c].at = "copying to flash"
              \/ verb[c].at = "copying to flash" /\ verb'[c].at = "copying more"
              \/ verb[c].at = "copying more" /\ verb'[c].at = "launching"
              \/ verb[c].at = "launching" /\ verb'[c].at = "settling"
              \/ verb[c].at = "discarding staged" /\ verb'[c].at = "installing"
              \/ verb[c].at = "staging" /\ verb'[c].at = "writing"
              \/ verb[c].at = "committing" /\ verb'[c].at = "committing more"
              \/ verb[c].at = "committing more" /\ verb'[c].at = "reloading"
              \/ verb[c].at \in DisarmingAt /\ verb'[c].at \in DisarmingAt
              \/ verb[c].at \in UndoAt /\ verb'[c].at \in UndoAt
<1>1. CASE Arm(c)
  BY <1>1, ArmMoves DEF ArmAt, RestAt
<1>2. CASE Prepare(c) \/ Stage(c)
  BY <1>2, PrepareMoves, StageMoves DEF RestAt
<1>3. CASE Finalise(c)
  BY <1>3, FinaliseMoves DEF RestAt
<1>4. CASE Services(c) \/ (ShortVerb(c) /\ verb[c].at # "done")
  BY <1>4, LookMoves DEF RestAt
<1>5. CASE ShortVerb(c) /\ verb[c].at = "done"
  BY <1>5, DoneMoves DEF RestAt
<1>6. CASE Disarm(c)
  BY <1>6, DisarmMoves DEF DisarmingAt, EvidenceAt, RestAt
<1>7. CASE DisarmEnds(c)
  BY <1>7, DisarmEndMoves DEF DisarmingAt, EvidenceAt, RestAt
<1>8. CASE Drop(c) \/ RollbackNow(c)
  BY <1>8, UndoMoves DEF UndoAt, RestAt
<1> QED BY <1>1, <1>2, <1>3, <1>4, <1>5, <1>6, <1>7, <1>8 DEF VerbStep

\* Its step leaves what may be running, and what the run was told, as the phase allows.
LEMMA VerbCalls ==
    ASSUME TypeOK, KeptInv, NEW c \in Call, VerbStep(c)
    PROVE  /\ OnwardCalls' /\ LettingCalls' /\ ToldLast'
           /\ GoesOn' = GoesOn /\ StoodDown' = StoodDown /\ (Lets' => Lets) /\ (Kept' => Kept)
           /\ BeforeCommit' = BeforeCommit
<1>1. /\ UNCHANGED client
      /\ \A d \in Call : d # c => verb'[d] = verb[d]
      /\ verb[c].at \notin RestAt
      /\ \/ verb'[c].at = "said"
         \/ verb[c].at \in ArmAt /\ verb'[c].at \in ArmAt
         \/ verb[c].at \in {"discarding staged", "installing"} /\ verb'[c].at \in {"discarding staged", "installing"}
         \/ verb[c].at \in {"staging", "writing"} /\ verb'[c].at \in {"staging", "writing"}
         \/ verb[c].at \in FinaliseAt /\ verb'[c].at \in FinaliseAt
         \/ verb[c].at \in DisarmingAt /\ verb'[c].at \in DisarmingAt
         \/ verb[c].at \in UndoAt /\ verb'[c].at \in UndoAt
  BY VerbFamilies DEF ArmAt, FinaliseAt
<1>2. verb'[c].at \in DisarmingAt => verb[c].at \in DisarmingAt
  BY <1>1 DEF DisarmingAt, EvidenceAt, ArmAt, FinaliseAt, UndoAt
<1>3. verb'[c].at # "done"
  BY <1>1 DEF DisarmingAt, EvidenceAt, ArmAt, FinaliseAt, UndoAt
<1>4. verb'[c].at # "said" =>
        /\ verb[c].at \in ArmAt => verb'[c].at \in ArmAt
        /\ verb[c].at \in {"discarding staged", "installing"} => verb'[c].at \in {"discarding staged", "installing"}
        /\ verb[c].at \in {"staging", "writing"} => verb'[c].at \in {"staging", "writing"}
        /\ verb[c].at \in FinaliseAt => verb'[c].at \in FinaliseAt
        /\ verb[c].at \notin {"reverting", "starting services", "finished?", "asleep?"}
  BY <1>1 DEF DisarmingAt, EvidenceAt, ArmAt, FinaliseAt, UndoAt
<1>5. /\ GoesOn' = GoesOn /\ StoodDown' = StoodDown /\ (Lets' => Lets) /\ (Kept' => Kept)
      /\ BeforeCommit' = BeforeCommit
  <2>1. GoesOn' = GoesOn /\ StoodDown' = StoodDown /\ BeforeCommit' = BeforeCommit
    BY <1>1 DEF GoesOn, StoodDown, BeforeCommit
  <2>2. \A d \in Call : verb'[d].at \in DisarmingAt => verb[d].at \in DisarmingAt
    BY <1>1, <1>2
  <2>3. Lets' => Lets
    BY <1>1, <2>1, <2>2 DEF Lets
  <2> QED BY <2>1, <2>3 DEF Kept
<1>6. OnwardCalls'
  <2> SUFFICES ASSUME GoesOn, NEW d \in Call
               PROVE  verb'[d].at \in RestAt \cup (IF d = client.awaits THEN Own[client.phase] ELSE Stray[client.phase])
    BY <1>1, <1>5 DEF OnwardCalls
  <2>1. CASE d # c
    BY <1>1, <2>1 DEF KeptInv, OnwardCalls
  <2>2. CASE d = c
    <3>1. verb[c].at \in IF c = client.awaits THEN Own[client.phase] ELSE Stray[client.phase]
      BY <1>1 DEF KeptInv, OnwardCalls
    <3>2. verb'[c].at = "said" => verb'[c].at \in RestAt
      BY DEF RestAt
    <3>3. client.phase \in Onward
      BY DEF GoesOn
    <3>4. CASE verb'[c].at # "said" /\ c = client.awaits
      <4>1. verb[c].at \in Own[client.phase]
        BY <3>1, <3>4
      <4>2. verb'[c].at \in Own[client.phase]
        <5>1. CASE client.phase \in {"arming", "preparing", "staging", "committing"}
          BY <1>4, <3>4, <4>1, <5>1, CallsOf
        <5>2. CASE client.phase \in {"reverting", "starting", "confirming", "asking", "reasking"}
          BY ZenonT(60), <1>4, <3>4, <4>1, <5>2, CallsOf
        <5> QED BY <3>3, <5>1, <5>2 DEF Onward
      <4> QED BY <2>2, <3>4, <4>2
    <3>5. CASE verb'[c].at # "said" /\ c # client.awaits
      <4>1. verb[c].at \in Stray[client.phase]
        BY <3>1, <3>5
      <4>2. verb'[c].at \in Stray[client.phase]
        <5>1. CASE client.phase \in {"arming", "preparing", "staging", "committing", "reverting"}
          BY <4>1, <5>1, CallsOf
        <5>2. CASE client.phase \in {"starting", "confirming", "asking", "reasking"}
          BY <1>4, <3>5, <4>1, <5>2, CallsOf
        <5> QED BY <3>3, <5>1, <5>2 DEF Onward
      <4> QED BY <2>2, <3>5, <4>2
    <3> QED BY <2>2, <3>2, <3>4, <3>5
  <2> QED BY <2>1, <2>2
<1>7. LettingCalls'
  <2> SUFFICES ASSUME Lets
               PROVE  /\ client.phase \in Letting \cup {"recovering", "finishing", "over"}
                      /\ \A d \in Call : verb'[d].at \in RestAt \cup Harmless \cup DisarmingAt
                      /\ client.phase \in Letting /\ client.awaits # 0 => verb'[client.awaits].at \in RestAt \cup DisarmingAt
    BY <1>1, <1>5 DEF LettingCalls
  <2>1. /\ client.phase \in Letting \cup {"recovering", "finishing", "over"}
        /\ \A d \in Call : verb[d].at \in RestAt \cup Harmless \cup DisarmingAt
        /\ client.phase \in Letting /\ client.awaits # 0 => verb[client.awaits].at \in RestAt \cup DisarmingAt
    BY DEF KeptInv, LettingCalls
  <2>2. verb'[c].at \in {"said"} \cup DisarmingAt
    <3>1. verb[c].at \in Harmless \cup DisarmingAt
      BY <1>1, <2>1
    <3> QED BY <1>1, <3>1 DEF Harmless, DisarmingAt, EvidenceAt, ArmAt, FinaliseAt, UndoAt
  <2>3. ASSUME NEW d \in Call
        PROVE  /\ verb'[d].at \in RestAt \cup Harmless \cup DisarmingAt
               /\ verb[d].at \in RestAt \cup DisarmingAt => verb'[d].at \in RestAt \cup DisarmingAt
    BY <1>1, <2>1, <2>2 DEF RestAt
  <2>4. client.awaits # 0 => client.awaits \in Call
    BY AwaitsACall
  <2> QED BY <2>1, <2>3, <2>4
<1>8. ToldLast'
  <2>1. \A d \in Call : verb'[d].at = "done" => verb[d].at = "done"
    BY <1>1, <1>3
  <2> QED BY <1>1, <1>5, <2>1 DEF KeptInv, ToldLast
<1> QED BY <1>5, <1>6, <1>7, <1>8

\* What a verb's step does to a device nothing is said of: nothing that could be.
LEMMA VerbAloneKept ==
    ASSUME TypeOK, KeptInv, ~Kept, NEW c \in Call, VerbStep(c)
    PROVE  KeptInv'
BY VerbCalls, NothingKept

\* On a run that goes forward: the verbs there are, and what they do.
LEMMA OnwardVerbs ==
    ASSUME TypeOK, KeptInv, GoesOn, NEW c \in Call, VerbStep(c)
    PROVE  /\ \/ Arm(c) /\ c = client.awaits /\ client.phase = "arming"
              \/ Prepare(c) /\ c = client.awaits /\ client.phase = "preparing"
              \/ Stage(c) /\ c = client.awaits /\ client.phase = "staging"
              \/ /\ Finalise(c)
                 /\ (c = client.awaits /\ client.phase = "committing") \/ client.phase \in {"starting", "confirming"}
              \/ /\ Services(c) \/ (ShortVerb(c) /\ verb[c].at # "done")
                 /\ client.phase \in {"reverting", "starting", "confirming", "asking", "reasking"}
                 /\ verb[c].at \in {"finished?", "reverting"} => c = client.awaits
                 /\ verb[c].at = "reverting" => client.phase = "reverting"
                 /\ c = client.awaits /\ client.phase = "confirming" => verb[c].at = "finished?"
<1> DEFINE at == verb[c].at
<1>0. OnwardCalls
  BY DEF KeptInv
<1>1. verb[c].at \notin RestAt
  BY VerbFamilies
<1>2. /\ client.phase \in {"arming", "preparing", "staging", "committing", "reverting", "starting", "confirming", "asking", "reasking"}
      /\ client.phase = "arming" => c = client.awaits /\ at \in ArmAt
      /\ client.phase = "preparing" => c = client.awaits /\ at \in {"discarding staged", "installing"}
      /\ client.phase = "staging" => c = client.awaits /\ at \in {"staging", "writing"}
      /\ client.phase = "committing" => c = client.awaits /\ at \in FinaliseAt
      /\ client.phase = "reverting" => c = client.awaits /\ at = "reverting"
      /\ client.phase = "starting" => at \in FinaliseAt \cup {"starting services"}
      /\ client.phase = "confirming" => IF c = client.awaits THEN at = "finished?" ELSE at \in FinaliseAt \cup {"starting services"}
      /\ client.phase \in {"asking", "reasking"} => at \in {"starting services", "asleep?"}
  <2> HIDE DEF ArmAt, FinaliseAt, RestAt
  <2>1. GoesOn /\ client.phase \in Onward
    BY DEF GoesOn
  <2> QED BY <1>0, <1>1, <2>1, CallsIn DEF Onward
<1>3. Arm(c) => at \in ArmAt
  BY ArmMoves DEF ArmAt
<1>4. Prepare(c) => at \in {"discarding staged", "installing"}
  BY PrepareMoves
<1>5. Stage(c) => at \in {"staging", "writing"}
  BY StageMoves
<1>6. Finalise(c) => at \in FinaliseAt
  BY FinaliseMoves DEF FinaliseAt
<1>7. Services(c) \/ (ShortVerb(c) /\ at # "done") =>
        at \in {"starting services", "finished?", "asleep?", "reverting", "recovered?"}
  BY LookMoves
<1>8. ~(Disarm(c) \/ DisarmEnds(c))
  <2>1. verb[c].at \notin DisarmingAt
    BY GoesOnAlone
  <2> QED BY <2>1, DisarmMoves, DisarmEndMoves DEF DisarmingAt, EvidenceAt
<1>9. Drop(c) \/ RollbackNow(c) => at \in UndoAt
  BY UndoMoves DEF UndoAt
<1>10. VerbStep(c)
  OBVIOUS
<1> HIDE DEF at
<1>11. at = verb[c].at
  BY DEF at
<1>12. CASE client.phase \in {"arming", "preparing", "staging", "committing"}
  BY <1>2, <1>3, <1>4, <1>5, <1>6, <1>7, <1>8, <1>9, <1>10, <1>11, <1>12 DEF VerbStep, ArmAt, FinaliseAt, UndoAt
<1>13. CASE client.phase \in {"reverting", "starting", "confirming", "asking", "reasking"}
  BY <1>2, <1>3, <1>4, <1>5, <1>6, <1>7, <1>8, <1>9, <1>10, <1>11, <1>13 DEF VerbStep, ArmAt, FinaliseAt, UndoAt
<1> QED BY <1>2, <1>12, <1>13

\* The first watchdog started is the first of all.
LEMMA StartedFirst ==
    ASSUME TypeOK, wd[1].at = "off", wd' = Started
    PROVE  wd'[1].at = "starting" /\ \A x \in Watchdog : x # 1 => wd'[x] = wd[x]
<1> DEFINE First(w) == wd[w].at = "off" /\ \A x \in 1..(w - 1) : wd[x].at # "off"
<1>1. 1 \in Watchdog /\ First(1)
  BY BoundsAssumption DEF BoundsAssumption, Watchdog
<1>2. ASSUME NEW w \in Watchdog, First(w) PROVE w = 1
  <2>1. w # 1 => 1 \in 1..(w - 1)
    BY BoundsAssumption DEF BoundsAssumption, Watchdog
  <2> QED BY <1>2, <2>1
<1> DEFINE first == CHOOSE w \in Watchdog : First(w)
<1>3. first \in Watchdog /\ First(first)
  <2> HIDE DEF First
  <2> QED BY <1>1
<1>4. first = 1
  <2> HIDE DEF First, first
  <2> QED BY <1>2, <1>3
<1>5. wd' = [wd EXCEPT ![first].at = "starting"]
  BY DEF Started
<1> HIDE DEF first
<1> QED BY <1>1, <1>4, <1>5 DEF TypeOK, WdOK

\* It starts or leaves the watchdog as it is, and the run unconfirmed and unfired.
LEMMA OnwardWatchdog ==
    ASSUME TypeOK, KeptInv, GoesOn, NEW c \in Call, VerbStep(c)
    PROVE  /\ OneWatchdog' /\ NotConfirmed' /\ LeavesInOrder'
           /\ Unfired' => Unfired
           /\ wd'[1].at \notin Leaving /\ UNCHANGED <<ram.dir, ram.out>>
<1> USE DEF GoesOn, Onward
<1>0. Kept /\ ~StoodDown
  BY GoesOnAlone DEF Kept
<1>1. /\ UNCHANGED <<ram.dir, ram.pid, ram.slept, ram.out>>
      /\ ram'.marks \subseteq ram.marks \cup {"snapshot", "recovered", "committed"}
      /\ client' = client
  BY OnwardVerbs, ArmMoves, PrepareMoves, StageMoves, FinaliseMoves, LookMoves
<1>2. OneWatchdog /\ NotConfirmed /\ LeavesInOrder
  BY DEF KeptInv
<1>3. \/ wd' = wd
      \/ /\ wd' = Started /\ verb[c].at = "launching" /\ c = client.awaits /\ client.phase = "arming"
         /\ verb'[c].at = "settling"
  BY OnwardVerbs, ArmMoves, PrepareMoves, StageMoves, FinaliseMoves, LookMoves
<1>4. CASE wd' = wd
  <2>1. OneWatchdog'
    <3>1. /\ \A w \in Watchdog : w # 1 => wd[w].at = "off"
          /\ client.phase = "arming" /\ (client.awaits = 0 \/ verb[client.awaits].at \in ArmAt \ {"settling"}) => wd[1].at = "off"
          /\ ram.slept # 0 => ram.pid = 1 /\ wd[1].at \notin {"off", "starting", "falling asleep"}
          /\ ram.dir /\ wd[1].at = "falling asleep" => ram.pid = 1
      BY <1>0, <1>2 DEF OneWatchdog
    <3>2. client.awaits # 0 /\ verb'[client.awaits].at \in ArmAt \ {"settling"} => verb[client.awaits].at \in ArmAt \ {"settling"}
      <4>1. client.awaits # 0 => client.awaits \in Call
        BY AwaitsACall
      <4>2. client.awaits \in Call /\ client.awaits # c => verb'[client.awaits] = verb[client.awaits]
        BY VerbFamilies
      <4>3. verb'[c].at \in ArmAt \ {"settling"} => verb[c].at \in ArmAt \ {"settling"}
        BY VerbFamilies DEF ArmAt, DisarmingAt, EvidenceAt, UndoAt
      <4> QED BY <4>1, <4>2, <4>3
    <3> QED BY <1>1, <1>4, <3>1, <3>2 DEF OneWatchdog
  <2>2. NotConfirmed'
    BY <1>1, <1>2, <1>4 DEF NotConfirmed
  <2>3. LeavesInOrder'
    BY <1>0, <1>1, <1>2, <1>4 DEF LeavesInOrder, NotConfirmed, Leaving
  <2>4. Unfired' => Unfired
    <3>1. "restoring" \in ram.marks => "restoring" \in ram'.marks
      BY OnwardVerbs, ArmMoves, PrepareMoves, StageMoves, FinaliseMoves, LookMoves
    <3> QED BY <1>1, <1>4, <3>1 DEF Unfired
  <2> QED BY <1>1, <1>2, <1>4, <2>1, <2>2, <2>3, <2>4 DEF NotConfirmed
<1>5. CASE /\ wd' = Started /\ verb[c].at = "launching" /\ c = client.awaits /\ client.phase = "arming"
           /\ verb'[c].at = "settling"
  <2>1. wd[1].at = "off"
    BY <1>0, <1>2, <1>5 DEF OneWatchdog, ArmAt
  <2>2. wd'[1].at = "starting" /\ \A x \in Watchdog : x # 1 => wd'[x].at = "off"
    BY <1>0, <1>2, <1>5, <2>1, StartedFirst DEF OneWatchdog
  <2>3. ram.slept = 0 /\ "restoring" \notin ram.marks
    BY <1>0, <1>2, <2>1 DEF OneWatchdog, LeavesInOrder, RestoringAt
  <2>4. OneWatchdog'
    <3>1. c # 0
      BY BoundsAssumption DEF BoundsAssumption, Call
    <3> QED BY <1>1, <1>5, <2>2, <2>3, <3>1 DEF OneWatchdog
  <2>5. "confirmed" \notin ram'.marks /\ "restoring" \notin ram'.marks /\ ram'.out = {}
    BY <1>1, <1>2, <2>3 DEF NotConfirmed
  <2>6. NotConfirmed' /\ LeavesInOrder'
    BY <2>2, <2>5 DEF NotConfirmed, LeavesInOrder, Leaving
  <2>7. Unfired' => Unfired
    BY <1>1, <2>1, <2>3 DEF Unfired, RestoringAt
  <2> QED BY <1>1, <2>2, <2>4, <2>6, <2>7 DEF Leaving
<1> QED BY <1>3, <1>4, <1>5

\* What it does to the settings: only a finalise commits and marks, and only these stage or unstage.
LEMMA OnwardSettings ==
    ASSUME TypeOK, KeptInv, GoesOn, NEW c \in Call, VerbStep(c)
    PROVE  /\ flash'.links = "none" <=> flash.links = "none"
           /\ ram.marks \subseteq ram'.marks
           /\ verb[c].at \notin FinaliseAt =>
                /\ flash'.config = flash.config /\ verb'[c].at \notin FinaliseAt
                /\ "committed" \in ram'.marks => "committed" \in ram.marks
           /\ verb[c].at \notin FinaliseAt /\ client.phase \notin {"preparing", "staging", "reverting"} =>
                ram'.staged = ram.staged
           /\ verb[c].at \in FinaliseAt => Finalise(c)
           /\ client.phase = "staging" =>
                /\ ram.staged => ram'.staged
                /\ verb'[c].at = "writing" => ram'.staged
                /\ verb'[c].at = "said" /\ verb'[c].answer = "yes" => verb[c].at = "writing"
           /\ client.phase = "confirming" /\ c = client.awaits /\ verb'[c].at = "said" /\ verb'[c].answer = "yes" =>
                "committed" \in ram.marks
<1>1. CASE Arm(c) /\ c = client.awaits /\ client.phase = "arming"
  <2>1. verb[c].at \notin FinaliseAt /\ verb'[c].at \notin FinaliseAt /\ UNCHANGED <<flash.config, flash.links, ram.staged>>
        /\ ram'.marks \subseteq ram.marks \cup {"snapshot"} /\ ram.marks \subseteq ram'.marks
    BY <1>1, ArmMoves DEF ArmAt, FinaliseAt
  <2> QED BY <1>1, <2>1
<1>2. CASE Prepare(c) /\ c = client.awaits /\ client.phase = "preparing"
  <2>1. verb[c].at \notin FinaliseAt /\ verb'[c].at \notin FinaliseAt /\ UNCHANGED <<flash.config, flash.links, ram.marks>>
    BY <1>2, PrepareMoves DEF FinaliseAt
  <2> QED BY <1>2, <2>1
<1>3. CASE Stage(c) /\ c = client.awaits /\ client.phase = "staging"
  <2>1. verb[c].at \notin FinaliseAt /\ verb'[c].at \notin FinaliseAt /\ UNCHANGED <<flash.config, flash.links, ram.marks>>
        /\ (ram.staged => ram'.staged) /\ (verb'[c].at = "writing" => ram'.staged)
        /\ (verb'[c].at = "said" /\ verb'[c].answer = "yes" => verb[c].at = "writing")
    BY <1>3, StageMoves DEF FinaliseAt
  <2> QED BY <1>3, <2>1
<1>4. CASE Finalise(c) /\ ((c = client.awaits /\ client.phase = "committing") \/ client.phase \in {"starting", "confirming"})
  <2>1. verb[c].at \in FinaliseAt /\ UNCHANGED flash.links /\ ram.marks \subseteq ram'.marks
    BY <1>4, FinaliseMoves DEF FinaliseAt
  <2>2. client.phase = "confirming" => c # client.awaits
    BY <1>4, <2>1, CallsIn DEF KeptInv, FinaliseAt, RestAt
  <2> QED BY <1>4, <2>1, <2>2
<1>5. CASE /\ Services(c) \/ (ShortVerb(c) /\ verb[c].at # "done")
           /\ client.phase \in {"reverting", "starting", "confirming", "asking", "reasking"}
           /\ verb[c].at \in {"finished?", "reverting"} => c = client.awaits
           /\ verb[c].at = "reverting" => client.phase = "reverting"
           /\ c = client.awaits /\ client.phase = "confirming" => verb[c].at = "finished?"
  <2>1. verb[c].at \notin FinaliseAt /\ verb'[c].at \notin FinaliseAt /\ UNCHANGED flash.config
        /\ (flash'.links = "none" <=> flash.links = "none")
        /\ ram'.marks \subseteq ram.marks \cup {"recovered"} /\ ram.marks \subseteq ram'.marks
        /\ (verb[c].at # "reverting" => ram'.staged = ram.staged)
        /\ (verb[c].at = "finished?" /\ verb'[c].answer = "yes" => "committed" \in ram.marks)
    BY <1>5, LookMoves DEF FinaliseAt
  <2> QED BY <1>5, <2>1
<1> QED BY <1>1, <1>2, <1>3, <1>4, <1>5, OnwardVerbs

LEMMA OnwardFinalise ==
    ASSUME TypeOK, KeptInv, GoesOn, NEW c \in Call, VerbStep(c)
    PROVE  OneFinalise'
<1>0. Kept
  BY DEF Kept
<1>1. /\ \A d \in Call : d # c => verb'[d] = verb[d]
      /\ BeforeCommit' = BeforeCommit /\ ram'.out = ram.out
      /\ verb'[c].at \in FinaliseAt => verb[c].at \in FinaliseAt
  BY VerbFamilies, VerbCalls, OnwardWatchdog, OnwardSettings
<1>2. /\ \A d, e \in Call : verb[d].at \in FinaliseAt /\ verb[e].at \in FinaliseAt => d = e
      /\ \A d \in Call : verb[d].at \in FinaliseAt => ~DoneCommit
      /\ BeforeCommit => ~DoneCommit
  BY <1>0 DEF KeptInv, OneFinalise
<1>3. \A d \in Call : verb'[d].at \in FinaliseAt => verb[d].at \in FinaliseAt
  BY <1>1
<1>4. DoneCommit' => DoneCommit \/ (verb[c].at \in FinaliseAt /\ verb'[c].at \notin FinaliseAt)
  <2>1. CASE verb[c].at \notin FinaliseAt
    BY <1>1, <2>1, OnwardSettings DEF DoneCommit
  <2>2. CASE verb[c].at \in FinaliseAt
    <3>1. Finalise(c)
      BY <2>2, OnwardSettings
    <3>2. ram'.marks = ram.marks \/ verb'[c].at = "said"
      BY <3>1, FinaliseMoves
    <3> QED BY <1>1, <2>2, <3>2 DEF DoneCommit, FinaliseAt
  <2> QED BY <2>1, <2>2
<1>5. BeforeCommit => verb[c].at \notin FinaliseAt
  <2> SUFFICES ASSUME verb[c].at \in FinaliseAt PROVE ~BeforeCommit
    OBVIOUS
  <2>1. c # 0
    BY BoundsAssumption DEF BoundsAssumption, Call
  <2>2. (c = client.awaits /\ client.phase = "committing") \/ client.phase \in {"starting", "confirming"}
    <3>1. Finalise(c)
      BY OnwardSettings
    <3> QED BY <3>1, OnwardVerbs, ArmMoves, PrepareMoves, StageMoves, LookMoves DEF FinaliseAt, ArmAt
  <2> QED BY <2>1, <2>2 DEF BeforeCommit
<1> QED BY <1>1, <1>2, <1>3, <1>4, <1>5 DEF OneFinalise

LEMMA OnwardSettingsSo ==
    ASSUME TypeOK, KeptInv, GoesOn, NEW c \in Call, VerbStep(c)
    PROVE  SettingsSo'
<1> USE DEF GoesOn, Onward
<1>0. Kept /\ ~StoodDown
  BY GoesOnAlone DEF Kept
<1>1. /\ \A d \in Call : d # c => verb'[d] = verb[d]
      /\ BeforeCommit' = BeforeCommit /\ ram'.out = ram.out /\ client' = client
  BY VerbFamilies, VerbCalls, OnwardWatchdog
<1> SUFFICES ASSUME Unfired
             PROVE  /\ flash'.links # "none"
                    /\ BeforeCommit => flash'.config = "old"
                    /\ client.phase = "committing" /\ client.awaits = 0 => ram'.staged
                    /\ client.phase = "staging" /\ client.awaits # 0 /\ (SaidYes' \/ verb'[client.awaits].at = "writing") => ram'.staged
                    /\ \A d \in Call :
                         /\ verb'[d].at = "committing" => flash'.config = "old" /\ ram'.staged
                         /\ verb'[d].at = "committing more" => flash'.config = "part" /\ ram'.staged
                         /\ verb'[d].at = "reloading" => flash'.config = "new"
                    /\ DoneCommit' => flash'.config = "new"
  <2>1. Unfired' => Unfired
    BY OnwardWatchdog
  <2> QED BY <1>1, <2>1 DEF SettingsSo
<1>2. /\ flash.links # "none"
      /\ BeforeCommit => flash.config = "old"
      /\ client.phase = "committing" /\ client.awaits = 0 => ram.staged
      /\ client.phase = "staging" /\ client.awaits # 0 /\ (SaidYes \/ verb[client.awaits].at = "writing") => ram.staged
      /\ \A d \in Call :
           /\ verb[d].at = "committing" => flash.config = "old" /\ ram.staged
           /\ verb[d].at = "committing more" => flash.config = "part" /\ ram.staged
           /\ verb[d].at = "reloading" => flash.config = "new"
      /\ DoneCommit => flash.config = "new"
  BY <1>0 DEF KeptInv, SettingsSo
<1>3. client.phase = "staging" /\ client.awaits # 0 /\ (SaidYes' \/ verb'[client.awaits].at = "writing") => ram'.staged
  <2> SUFFICES ASSUME client.phase = "staging", client.awaits # 0, SaidYes' \/ verb'[client.awaits].at = "writing"
               PROVE  ram'.staged
    OBVIOUS
  <2>1. client.awaits \in Call
    BY AwaitsACall
  <2>2. CASE c # client.awaits
    BY <1>1, <1>2, <2>1, <2>2, OnwardSettings DEF SaidYes
  <2>3. CASE c = client.awaits
    <3>1. SaidYes' => verb[c].at = "writing"
      BY <1>1, <2>3, OnwardSettings DEF SaidYes
    <3> QED BY <1>2, <2>3, <3>1, OnwardSettings
  <2> QED BY <2>2, <2>3
<1>4. CASE verb[c].at \notin FinaliseAt
  <2>1. /\ flash'.config = flash.config /\ verb'[c].at \notin FinaliseAt
        /\ DoneCommit' => DoneCommit
        /\ client.phase \notin {"preparing", "staging", "reverting"} => ram'.staged = ram.staged
    BY <1>1, <1>4, OnwardSettings DEF DoneCommit
  <2>2. ASSUME NEW d \in Call, verb'[d].at \in FinaliseAt
        PROVE  verb'[d] = verb[d] /\ client.phase \notin {"preparing", "staging", "reverting"}
    <3>1. d # c /\ verb'[d] = verb[d]
      BY <1>1, <2>1, <2>2
    <3>2. verb[d].at \in FinaliseAt
      BY <2>2, <3>1
    <3> QED BY <3>1, <3>2, CallsIn DEF KeptInv, FinaliseAt, RestAt
  <2>3. ASSUME NEW d \in Call
        PROVE  /\ verb'[d].at = "committing" => flash'.config = "old" /\ ram'.staged
               /\ verb'[d].at = "committing more" => flash'.config = "part" /\ ram'.staged
               /\ verb'[d].at = "reloading" => flash'.config = "new"
    BY <1>2, <2>1, <2>2 DEF FinaliseAt
  <2> QED BY <1>2, <1>3, <2>1, <2>3, OnwardSettings
<1>5. CASE verb[c].at \in FinaliseAt
  <2>1. Finalise(c) /\ flash'.links # "none"
    BY <1>2, <1>5, OnwardSettings
  <2>2. ~BeforeCommit /\ ~(client.phase = "committing" /\ client.awaits = 0)
    <3>1. c # 0
      BY BoundsAssumption DEF BoundsAssumption, Call
    <3>2. (c = client.awaits /\ client.phase = "committing") \/ client.phase \in {"starting", "confirming"}
      BY <1>5, <2>1, OnwardVerbs, ArmMoves, PrepareMoves, StageMoves, LookMoves DEF FinaliseAt, ArmAt
    <3> QED BY <3>1, <3>2 DEF BeforeCommit
  <2>3. \A d \in Call : verb'[d].at \in FinaliseAt => d = c
    BY <1>0, <1>1, <1>5 DEF KeptInv, OneFinalise
  <2>4. ~DoneCommit
    BY <1>0, <1>5 DEF KeptInv, OneFinalise
  <2>5. CASE verb[c].at = "committing" /\ verb'[c].at = "committing more"
    <3>1. flash'.config = "part" /\ ram'.staged /\ ram'.marks = ram.marks
      BY <1>2, <2>1, <2>5, FinaliseMoves DEF Committed
    <3> QED BY <1>1, <1>3, <2>1, <2>2, <2>3, <2>4, <2>5, <3>1 DEF FinaliseAt, DoneCommit
  <2>6. CASE verb[c].at = "committing more" /\ verb'[c].at = "reloading"
    <3>1. flash'.config = "new"
      BY <1>2, <2>1, <2>6, FinaliseMoves DEF Committed
    <3> QED BY <1>1, <1>3, <2>1, <2>2, <2>3, <2>6, <3>1 DEF FinaliseAt
  <2>7. CASE verb'[c].at = "said"
    <3>1. DoneCommit' => flash'.config = "new"
      BY <1>1, <1>2, <2>1, <2>4, <2>7, FinaliseMoves DEF DoneCommit
    <3> QED BY <1>3, <2>1, <2>2, <2>3, <2>7, <3>1 DEF FinaliseAt
  <2> QED BY <2>1, <2>5, <2>6, <2>7, FinaliseMoves
<1> QED BY <1>4, <1>5

LEMMA OnwardFinished ==
    ASSUME TypeOK, KeptInv, GoesOn, NEW c \in Call, VerbStep(c)
    PROVE  Finished'
<1> SUFFICES ASSUME AfterFinish'
             PROVE  /\ \A d \in Call : verb'[d].at \notin FinaliseAt
                    /\ "committed" \in ram'.marks \/ ~ram'.dir
                    /\ "disarmed" \notin ram'.out /\ wd'[1].at \notin Leaving
  BY DEF Finished, Leaving
<1>0. Kept
  BY DEF Kept
<1>1. /\ \A d \in Call : d # c => verb'[d] = verb[d]
      /\ ram'.out = ram.out /\ ram'.dir = ram.dir /\ client' = client
      /\ wd'[1].at \notin Leaving /\ ram.marks \subseteq ram'.marks
      /\ verb'[c].at \in FinaliseAt => verb[c].at \in FinaliseAt
  BY VerbFamilies, OnwardWatchdog, OnwardSettings
<1>2. "disarmed" \notin ram'.out
  BY <1>1 DEF KeptInv, NotConfirmed
<1>3. (\A d \in Call : verb[d].at \notin FinaliseAt) /\ ("committed" \in ram.marks \/ ~ram.dir)
  <2>1. CASE AfterFinish
    BY <2>1 DEF KeptInv, Finished
  <2>2. CASE ~AfterFinish
    <3>1. client.phase = "confirming" /\ SaidYes' /\ ~SaidYes
      BY <1>1, <2>2 DEF AfterFinish
    <3>2. client.awaits \in Call /\ verb'[client.awaits].at = "said" /\ verb'[client.awaits].answer = "yes"
      BY <1>1, <3>1, AwaitsACall DEF SaidYes
    <3>3. c = client.awaits
      BY <1>1, <3>1, <3>2 DEF SaidYes
    <3>4. "committed" \in ram.marks
      BY <3>1, <3>2, <3>3, OnwardSettings
    <3> QED BY <1>0, <3>4 DEF KeptInv, OneFinalise, DoneCommit
  <2> QED BY <2>1, <2>2
<1> QED BY <1>1, <1>2, <1>3

LEMMA OnwardKept ==
    ASSUME TypeOK, KeptInv, GoesOn, NEW c \in Call, VerbStep(c)
    PROVE  KeptInv'
<1>1. OnwardCalls' /\ LettingCalls' /\ ToldLast' /\ GoesOn' /\ ~StoodDown'
  BY VerbCalls, GoesOnAlone
<1>2. client'.phase \notin Letting
  BY <1>1 DEF GoesOn, Onward, Letting
<1>3. \A d \in Call : verb'[d].at \notin EvidenceAt
  <2>1. \A d \in Call : verb[d].at \notin DisarmingAt
    BY GoesOnAlone
  <2> QED BY <2>1, VerbFamilies DEF DisarmingAt, EvidenceAt, UndoAt
<1>4. Evidence' /\ Answers' /\ ToldHolds'
  BY <1>1, <1>2, <1>3 DEF Evidence, EvidenceAt, Answers, ToldHolds
<1> QED BY <1>1, <1>4, OnwardWatchdog, OnwardFinalise, OnwardSettingsSo, OnwardFinished DEF KeptInv

\* On a device let go of: the verbs there are.
LEMMA LettingVerbs ==
    ASSUME TypeOK, KeptInv, Kept, ~GoesOn, NEW c \in Call, VerbStep(c)
    PROVE  /\ \/ Services(c) \/ (ShortVerb(c) /\ verb[c].at # "done")
              \/ ShortVerb(c) /\ verb[c].at = "done"
              \/ Disarm(c) \/ DisarmEnds(c)
           /\ \A d \in Call : verb[d].at \notin FinaliseAt \cup ArmAt /\ verb'[d].at \notin FinaliseAt
           /\ c = client.awaits /\ client.phase \in Letting => verb[c].at \in DisarmingAt
           /\ client.phase \in Letting \cup {"recovering", "finishing", "over"}
<1>1. /\ client.phase \in Letting \cup {"recovering", "finishing", "over"}
      /\ \A d \in Call : verb[d].at \in RestAt \cup Harmless \cup DisarmingAt
      /\ client.phase \in Letting /\ client.awaits # 0 => verb[client.awaits].at \in RestAt \cup DisarmingAt
  BY DEF KeptInv, LettingCalls, Kept
<1>2. /\ verb[c].at \notin RestAt
      /\ \A d \in Call : d # c => verb'[d] = verb[d]
      /\ verb'[c].at = "said" \/ verb[c].at \notin Harmless
  BY VerbFamilies DEF Harmless, DisarmingAt, EvidenceAt, UndoAt
<1>3. verb[c].at \in Harmless \cup DisarmingAt
  BY <1>1, <1>2
<1>4. ~Arm(c) /\ ~Prepare(c) /\ ~Stage(c) /\ ~Finalise(c) /\ ~Drop(c) /\ ~RollbackNow(c)
  <2>1. verb[c].at \notin ArmAt \cup FinaliseAt \cup UndoAt \cup {"discarding staged", "installing", "staging", "writing"}
    BY <1>3 DEF Harmless, DisarmingAt, EvidenceAt, ArmAt, FinaliseAt, UndoAt
  <2> QED BY <2>1, ArmMoves, PrepareMoves, StageMoves, FinaliseMoves, UndoMoves DEF ArmAt, FinaliseAt, UndoAt
<1>5. \A d \in Call : verb[d].at \notin FinaliseAt \cup ArmAt
  BY <1>1 DEF RestAt, Harmless, DisarmingAt, EvidenceAt, ArmAt, FinaliseAt
<1>6. verb'[c].at \notin FinaliseAt
  BY <1>5, VerbFamilies DEF ArmAt, FinaliseAt, DisarmingAt, EvidenceAt, UndoAt
<1>7. c # 0
  BY BoundsAssumption DEF BoundsAssumption, Call
<1> QED BY <1>1, <1>2, <1>4, <1>5, <1>6, <1>7 DEF VerbStep

LEMMA FirstIs == 1 \in Watchdog
BY BoundsAssumption DEF BoundsAssumption, Watchdog

\* What such a step has to leave for the rest to follow.
LEMMA LettingFrame ==
    ASSUME TypeOK, KeptInv, Kept, ~GoesOn, NEW c \in Call, VerbStep(c),
           \A x \in Watchdog : wd'[x].at = wd[x].at,
           flash'.config = flash.config, flash'.links = "none" <=> flash.links = "none",
           flash'.boot \in {flash.boot, "none"}, flash.applied => flash'.applied,
           UNCHANGED <<ram.dir, ram.pid, ram.slept, ram.out>>,
           ram.marks \subseteq ram'.marks, ram'.marks \subseteq ram.marks \cup {"confirmed", "recovered"},
           up' = up,
           verb'[c].at \in EvidenceAt =>
             /\ Safe
             /\ verb'[c].at # "clearing copies" => flash'.boot = "none"
             /\ verb'[c].at = "marking applied" => flash.config = "new"
             /\ client.phase \in {"disarming", "redisarming"} /\ verb'[c].at = "or before it left?" => "committed" \in ram.out,
           c = client.awaits /\ client.phase \in Letting /\ verb'[c].at = "said" /\ verb'[c].answer = "yes" =>
             /\ Safe /\ flash'.boot = "none"
             /\ client.phase \in {"disarming", "redisarming"} => flash'.applied /\ flash.config = "new"
    PROVE  KeptInv'
<1>0. 1 \in Watchdog
  BY FirstIs
<1>1. /\ client' = client /\ \A d \in Call : d # c => verb'[d] = verb[d]
      /\ OnwardCalls' /\ LettingCalls' /\ ToldLast'
      /\ ~GoesOn' /\ StoodDown' = StoodDown /\ BeforeCommit' = BeforeCommit
      /\ \A d \in Call : verb'[d].at \notin FinaliseAt
  BY VerbFamilies, VerbCalls, LettingVerbs
<1>2. /\ (Unfired' <=> Unfired) /\ (DoneCommit' <=> DoneCommit) /\ (SafeDog => SafeDog') /\ (Safe => Safe')
  <2>1. /\ "restoring" \in ram'.marks <=> "restoring" \in ram.marks
        /\ "committed" \in ram'.marks <=> "committed" \in ram.marks
        /\ wd'[1].at = wd[1].at
    BY <1>0
  <2>2. (Unfired' <=> Unfired) /\ (DoneCommit' <=> DoneCommit)
    <3>1. (Unfired' <=> Unfired)
      BY <2>1 DEF Unfired
    <3>2. (DoneCommit' <=> DoneCommit)
      <4>1. ram'.out = ram.out
        OBVIOUS
      <4> QED BY <2>1, <4>1 DEF DoneCommit
    <3> QED BY <3>1, <3>2
  <2>3. SafeDog => SafeDog'
    BY <2>1 DEF SafeDog
  <2> QED BY <1>1, <2>2, <2>3 DEF Safe
<1>3. OneWatchdog'
  <2>1. /\ \A w \in Watchdog : w # 1 => wd[w].at = "off"
        /\ ram.slept # 0 => ram.pid = 1 /\ wd[1].at \notin {"off", "starting", "falling asleep"}
        /\ ram.dir /\ wd[1].at = "falling asleep" => ram.pid = 1
    BY DEF KeptInv, OneWatchdog
  <2>2. client.phase # "arming"
    BY DEF GoesOn, Onward
  <2>3. \A w \in Watchdog : w # 1 => wd'[w].at = "off"
    BY <2>1
  <2> QED BY <1>0, <1>1, <2>1, <2>2, <2>3 DEF OneWatchdog
<1>4. NotConfirmed'
  BY <1>1 DEF NotConfirmed
<1>5. LeavesInOrder'
  BY <1>0, <1>1 DEF KeptInv, LeavesInOrder
<1>6. OneFinalise' /\ SettingsSo'
  <2>1. OneFinalise'
    BY <1>1, <1>2 DEF KeptInv, OneFinalise
  <2>2. client.phase \notin {"committing", "staging"}
    BY DEF GoesOn, Onward
  <2>3. SettingsSo'
    BY <1>1, <1>2, <2>2 DEF KeptInv, SettingsSo, FinaliseAt
  <2> QED BY <2>1, <2>3
<1>7. Finished'
  <2>1. AfterFinish' => AfterFinish
    BY <1>1 DEF AfterFinish, GoesOn, Onward
  <2> QED BY <1>0, <1>1, <2>1 DEF KeptInv, Finished
<1>8. Evidence'
  <2> SUFFICES ASSUME NEW d \in Call, verb'[d].at \in EvidenceAt
               PROVE  /\ Safe'
                      /\ verb'[d].at # "clearing copies" => flash'.boot = "none"
                      /\ verb'[d].at = "marking applied" => flash'.config = "new"
                      /\ client.phase \in {"disarming", "redisarming"} /\ verb'[d].at = "or before it left?" => "committed" \in ram'.out
    BY <1>1 DEF Evidence, EvidenceAt
  <2>1. CASE d = c
    BY <1>2, <2>1
  <2>2. CASE d # c
    <3>1. verb'[d] = verb[d]
      BY <1>1, <2>2
    <3> QED BY <1>2, <3>1 DEF KeptInv, Evidence
  <2> QED BY <2>1, <2>2
<1>9. Answers'
  <2> SUFFICES ASSUME client.phase \in Letting, SaidYes'
               PROVE  /\ Safe' /\ flash'.boot = "none"
                      /\ client.phase \in {"disarming", "redisarming"} => flash'.applied /\ flash'.config = "new"
    BY <1>1 DEF Answers
  <2>1. client.awaits # 0 /\ client.awaits \in Call /\ verb'[client.awaits].at = "said" /\ verb'[client.awaits].answer = "yes"
    BY <1>1, AwaitsACall DEF SaidYes
  <2>2. CASE c = client.awaits
    BY <1>2, <2>1, <2>2
  <2>3. CASE c # client.awaits
    <3>1. SaidYes
      BY <1>1, <2>1, <2>3 DEF SaidYes
    <3> QED BY <1>2, <3>1 DEF KeptInv, Answers
  <2> QED BY <2>2, <2>3
<1>10. ToldHolds'
  BY <1>1, <1>2 DEF KeptInv, ToldHolds
<1> QED BY <1>1, <1>3, <1>4, <1>5, <1>6, <1>7, <1>8, <1>9, <1>10 DEF KeptInv

\* The end of a run on a device let go of: its files go, and nothing that was said of it changes.
LEMMA DoneKept ==
    ASSUME TypeOK, KeptInv, Kept, ~GoesOn, NEW c \in Call, ShortVerb(c), verb[c].at = "done"
    PROVE  KeptInv'
<1>0. VerbStep(c)
  BY DEF VerbStep
<1>1. /\ UNCHANGED <<up, client, wd, flash>>
      /\ \A d \in Call : d # c => verb'[d] = verb[d]
      /\ verb'[c].at = "said" /\ ram'.out = {}
      /\ \/ UNCHANGED <<ram.dir, ram.pid, ram.slept, ram.marks>>
         \/ ~ram'.dir /\ ram'.pid = 0 /\ ram'.slept = 0 /\ ram'.marks = {}
  BY DoneMoves
<1>2. StoodDown /\ client.phase \in {"finishing", "over"}
  BY DEF KeptInv, ToldLast
<1>3. /\ OnwardCalls' /\ LettingCalls' /\ ToldLast'
      /\ ~GoesOn' /\ StoodDown' /\ ~BeforeCommit' /\ ~AfterFinish'
      /\ \A d \in Call : verb'[d].at \notin FinaliseAt
  <2>1. /\ OnwardCalls' /\ LettingCalls' /\ ToldLast'
        /\ ~GoesOn' /\ StoodDown' /\ \A d \in Call : verb'[d].at \notin FinaliseAt
    BY <1>0, <1>2, VerbCalls, LettingVerbs
  <2>2. ~BeforeCommit' /\ ~AfterFinish'
    BY <1>1, <1>2 DEF BeforeCommit, AfterFinish
  <2> QED BY <2>1, <2>2
<1>4. (DoneCommit' => DoneCommit) /\ (SafeDog => SafeDog')
  <2>1. DoneCommit' => DoneCommit
    BY <1>1 DEF DoneCommit
  <2>2. SafeDog => SafeDog'
    BY <1>1 DEF SafeDog
  <2> QED BY <2>1, <2>2
<1>5. OneWatchdog'
  <2>1. /\ \A w \in Watchdog : w # 1 => wd[w].at = "off"
        /\ ram.slept # 0 => ram.pid = 1 /\ wd[1].at \notin {"off", "starting", "falling asleep"}
        /\ ram.dir /\ wd[1].at = "falling asleep" => ram.pid = 1
    BY DEF KeptInv, OneWatchdog
  <2> QED BY <1>1, <1>2, <2>1 DEF OneWatchdog
<1>6. NotConfirmed' /\ LeavesInOrder'
  <2>1. wd[1].at \notin RestoringAt \cup {"ended"} => "restoring" \notin ram.marks
    BY DEF KeptInv, LeavesInOrder
  <2> QED BY <1>1, <1>3, <2>1 DEF NotConfirmed, LeavesInOrder
<1>7. OneFinalise' /\ SettingsSo' /\ Finished'
  BY <1>3 DEF OneFinalise, SettingsSo, Finished
<1>8. ToldHolds' /\ SafeDog'
  BY <1>1, <1>2, <1>4 DEF KeptInv, ToldHolds, StoodDown
<1>9. Evidence'
  <2> SUFFICES ASSUME NEW d \in Call, verb'[d].at \in EvidenceAt
               PROVE  /\ Safe' /\ flash.boot = "none"
                      /\ verb'[d].at = "marking applied" => flash.config = "new"
    BY <1>1, <1>2 DEF Evidence, EvidenceAt
  <2>1. verb'[d] = verb[d]
    BY <1>1 DEF EvidenceAt
  <2>2. verb'[d].at = "marking applied" => flash.config = "new"
    BY <2>1 DEF KeptInv, Evidence, EvidenceAt
  <2>3. flash.boot = "none"
    BY <1>2 DEF KeptInv, ToldHolds
  <2> QED BY <1>3, <1>8, <2>2, <2>3 DEF Safe
<1>10. Answers'
  BY <1>1, <1>2 DEF Answers, Letting
<1> QED BY <1>3, <1>5, <1>6, <1>7, <1>8, <1>9, <1>10 DEF KeptInv

\* A look or a write of an earlier call changes nothing that is said.
LEMMA LookKept ==
    ASSUME TypeOK, KeptInv, Kept, ~GoesOn, NEW c \in Call, VerbStep(c),
           Services(c) \/ (ShortVerb(c) /\ verb[c].at # "done")
    PROVE  KeptInv'
<1>1. /\ UNCHANGED <<up, wd, flash.config, flash.applied, flash.boot, ram.dir, ram.pid, ram.slept, ram.out>>
      /\ flash'.links = "none" <=> flash.links = "none"
      /\ ram'.marks \subseteq ram.marks \cup {"recovered"} /\ ram.marks \subseteq ram'.marks
      /\ verb[c].at \in {"starting services", "finished?", "asleep?", "reverting", "recovered?"}
      /\ verb'[c].at = "said"
  BY LookMoves
<1>2. verb'[c].at \notin EvidenceAt /\ verb[c].at \notin DisarmingAt
  BY <1>1 DEF DisarmingAt, EvidenceAt
<1>3. ~(c = client.awaits /\ client.phase \in Letting)
  BY <1>2, LettingVerbs
<1> QED BY <1>1, <1>2, <1>3, LettingFrame

\* A disarm goes by a watchdog stood down, died asleep, or asleep still with the flag set:
\* on each of them, one that will not restore.
LEMMA StoodDownIsSafe ==
    ASSUME TypeOK, KeptInv, Kept, "disarmed" \in ram.out
    PROVE  Safe
<1>1. wd[1].at \in {"clearing", "ended"} /\ "restoring" \notin ram.marks
  BY DEF KeptInv, LeavesInOrder
<1> QED BY <1>1 DEF Safe, SafeDog, RestoringAt

LEMMA DiedAsleepIsSafe ==
    ASSUME TypeOK, KeptInv, Kept, DiedAsleep(ram.pid)
    PROVE  Safe
<1>1. ram.slept # 0 /\ "restoring" \notin ram.marks /\ ~Alive(ram.pid)
  BY DEF DiedAsleep
<1>2. ram.pid = 1 /\ wd[1].at \notin {"off", "starting", "falling asleep"}
  BY <1>1 DEF KeptInv, OneWatchdog
<1>3. wd[1].at = "ended" /\ ram.dir
  <2>1. ram.dir
    BY <1>1 DEF TypeOK, RamOK
  <2>2. ~Alive(1)
    BY <1>1, <1>2
  <2>3. wd[1].at \in {"off", "ended"}
    BY <2>2 DEF Alive
  <2> QED BY <1>2, <2>1, <2>3
<1> QED BY <1>1, <1>3 DEF Safe, SafeDog, RestoringAt

LEMMA AsleepIsSafe ==
    ASSUME SettleOutlasts, TypeOK, FiredIsMarked, DisarmInv, KeptInv, Kept, NEW c \in Call,
           verb[c].at = "still asleep?", SleepsConfirmed(verb[c].p)
    PROVE  Safe
<1>1. Alive(verb[c].p) /\ "confirmed" \in ram.marks /\ "restoring" \notin ram.marks
  BY DEF SleepsConfirmed
<1>2. ram.dir
  BY <1>1 DEF TypeOK, RamOK
<1>3. verb[c].p \in Watchdog /\ wd[verb[c].p].at # "unconfirmed"
  BY <1>2 DEF DisarmInv, Flagged
<1>4. verb[c].p = 1
  BY <1>1, <1>3 DEF Alive, KeptInv, OneWatchdog
<1>5. wd[1].at \notin RestoringAt
  BY <1>1, <1>2, FirstIs DEF FiredIsMarked, Restoring
<1> QED BY <1>1, <1>2, <1>3, <1>4, <1>5 DEF Safe, SafeDog

LEMMA DisarmKept ==
    ASSUME TypeOK, KeptInv, Kept, ~GoesOn, NEW c \in Call, VerbStep(c), Disarm(c)
    PROVE  KeptInv'
<1>1. /\ UNCHANGED <<up, flash, ram.dir, ram.pid, ram.slept, ram.out>>
      /\ \A x \in Watchdog : wd'[x].at = wd[x].at
      /\ ram'.marks \subseteq ram.marks \cup {"confirmed"} /\ ram.marks \subseteq ram'.marks
      /\ \/ verb'[c].at \notin EvidenceAt \cup {"said"}
         \/ verb'[c].at = "said" /\ verb'[c].answer = "no"
         \/ verb'[c].at = "clearing copies" /\ ("disarmed" \in ram.out \/ DiedAsleep(ram.pid))
  BY DisarmMoves DEF DisarmingAt, EvidenceAt
<1>2. verb'[c].at \in EvidenceAt => verb'[c].at = "clearing copies" /\ Safe
  BY <1>1, StoodDownIsSafe, DiedAsleepIsSafe DEF EvidenceAt
<1>3. ~(verb'[c].at = "said" /\ verb'[c].answer = "yes")
  BY <1>1
<1> QED BY <1>1, <1>2, <1>3, LettingFrame

\* And what it then does, it does on a device with its change whole if it has the marker.
LEMMA DisarmEndsKept ==
    ASSUME SettleOutlasts, TypeOK, FiredIsMarked, DisarmInv, KeptInv, Kept, ~GoesOn, NEW c \in Call, VerbStep(c), DisarmEnds(c)
    PROVE  KeptInv'
<1>1. /\ UNCHANGED <<up, ram, wd, flash.config, flash.links>>
      /\ flash'.boot \in {flash.boot, "none"} /\ (flash.applied => flash'.applied)
  BY DisarmEndMoves
<1>2. /\ verb[c].at \in EvidenceAt => Safe
      /\ verb[c].at \in EvidenceAt \ {"clearing copies"} => flash.boot = "none"
      /\ verb[c].at = "marking applied" => flash.config = "new"
      /\ client.phase \in {"disarming", "redisarming"} /\ verb[c].at = "or before it left?" => "committed" \in ram.out
  BY DEF KeptInv, Evidence
<1>3. Safe /\ DoneCommit => flash.config = "new"
  <2>1. CASE StoodDown
    BY <2>1 DEF KeptInv, ToldHolds
  <2>2. CASE ~StoodDown
    BY <2>2, SafeIsUnfired DEF KeptInv, SettingsSo
  <2> QED BY <2>1, <2>2
<1>4. Safe /\ client.phase \in {"disarming", "redisarming"} /\ "committed" \notin ram.marks => "committed" \in ram.out
  <2> SUFFICES ASSUME Safe, client.phase \in {"disarming", "redisarming"}, "committed" \notin ram.marks PROVE "committed" \in ram.out
    OBVIOUS
  <2>1. AfterFinish /\ ~StoodDown
    BY DEF AfterFinish, KeptInv, ToldLast
  <2> QED BY <2>1 DEF KeptInv, Finished, Safe
<1>5. /\ verb'[c].at \in EvidenceAt =>
           /\ Safe
           /\ verb'[c].at # "clearing copies" => flash'.boot = "none"
           /\ verb'[c].at = "marking applied" => flash.config = "new"
           /\ client.phase \in {"disarming", "redisarming"} /\ verb'[c].at = "or before it left?" => "committed" \in ram.out
      /\ verb'[c].at = "said" /\ verb'[c].answer = "yes" =>
           /\ Safe /\ flash'.boot = "none"
           /\ client.phase \in {"disarming", "redisarming"} => flash'.applied /\ flash.config = "new"
  <2>1. CASE verb[c].at \in {"still asleep?", "stood down?"}
    <3>1. \/ verb'[c].at = "clearing copies" /\ verb[c].at = "still asleep?" /\ SleepsConfirmed(verb[c].p)
          \/ verb'[c].at = "stood down?"
          \/ verb'[c].at = "clearing copies" /\ "disarmed" \in ram.out
          \/ verb'[c].at = "said" /\ verb'[c].answer = "no"
      BY <2>1, DisarmEndMoves
    <3>2. verb'[c].at = "clearing copies" => Safe
      BY <3>1, StoodDownIsSafe, AsleepIsSafe
    <3> QED BY <3>1, <3>2 DEF EvidenceAt
  <2>2. CASE verb[c].at = "clearing copies"
    <3>1. verb'[c].at = "was it committed?" /\ flash'.boot = "none" /\ Safe
      BY <1>2, <2>2, DisarmEndMoves DEF EvidenceAt
    <3> QED BY <3>1
  <2>3. CASE verb[c].at = "was it committed?"
    <3>1. /\ \/ verb'[c].at = "marking applied" /\ "committed" \in ram.marks
             \/ verb'[c].at = "or before it left?" /\ "committed" \notin ram.marks
          /\ Safe /\ flash'.boot = "none"
      BY <1>1, <1>2, <2>3, DisarmEndMoves DEF EvidenceAt
    <3> QED BY <1>3, <1>4, <3>1 DEF DoneCommit
  <2>4. CASE verb[c].at = "or before it left?"
    <3>1. /\ \/ verb'[c].at = "marking applied" /\ "committed" \in ram.out
             \/ verb'[c].at = "said" /\ "committed" \notin ram.out
          /\ Safe /\ flash'.boot = "none"
      BY <1>1, <1>2, <2>4, DisarmEndMoves DEF EvidenceAt
    <3> QED BY <1>2, <1>3, <2>4, <3>1 DEF DoneCommit, EvidenceAt
  <2>5. CASE verb[c].at = "marking applied"
    <3>1. verb'[c].at = "said" /\ flash'.applied /\ Safe /\ flash'.boot = "none" /\ flash.config = "new"
      BY <1>1, <1>2, <2>5, DisarmEndMoves DEF EvidenceAt
    <3> QED BY <3>1 DEF EvidenceAt
  <2>6. verb[c].at \in {"still asleep?", "stood down?", "clearing copies", "was it committed?", "or before it left?", "marking applied"}
    BY DisarmEndMoves
  <2> QED BY <2>1, <2>2, <2>3, <2>4, <2>5, <2>6
<1> QED BY <1>1, <1>5, LettingFrame

LEMMA VerbKept ==
    ASSUME SettleOutlasts, TypeOK, FiredIsMarked, DisarmInv, KeptInv, NEW c \in Call, VerbStep(c)
    PROVE  KeptInv'
<1>1. CASE ~Kept
  BY <1>1, VerbAloneKept
<1>2. CASE GoesOn
  BY <1>2, OnwardKept
<1>3. CASE Kept /\ ~GoesOn
  BY <1>3, LettingVerbs, LookKept, DoneKept, DisarmKept, DisarmEndsKept
<1> QED BY <1>1, <1>2, <1>3

-----------------------------------------------------------------------------
(* The specification. *)

LEMMA KeptStep ==
    ASSUME SettleOutlasts, TypeOK, FiredIsMarked, DisarmInv, StillInv, KeptInv, [Next]_vars
    PROVE  KeptInv'
<1>1. ASSUME NEW w \in Watchdog, WatchdogStep(w) \/ SleepEnds(w) \/ WatchdogKilled(w) PROVE KeptInv'
  BY <1>1, WatchdogKept, SleepEndsKept, KilledKept
<1>2. ASSUME NEW c \in Call, VerbStep(c) PROVE KeptInv'
  BY <1>2, VerbKept
<1>3. CASE CallVerb \/ HearAnswer \/ LoseAnswer \/ Unreachable \/ ClientDies \/ \E c \in Call : VerbEnds(c)
  BY <1>3, ClientKept
<1>4. CASE BootStep \/ PowerCut
  BY <1>4, BootKept, RestartKept DEF PowerCut
<1>5. CASE UNCHANGED vars
  <2>1. UNCHANGED <<flash, ram, up, wd, verb, client>>
    BY <1>5 DEF vars, device
  <2>2. /\ GoesOn' = GoesOn /\ StoodDown' = StoodDown /\ Lets' = Lets /\ Kept' = Kept /\ SaidYes' = SaidYes
        /\ BeforeCommit' = BeforeCommit /\ AfterFinish' = AfterFinish /\ DoneCommit' = DoneCommit
        /\ Unfired' = Unfired /\ SafeDog' = SafeDog /\ Safe' = Safe
    BY <2>1 DEF GoesOn, StoodDown, Lets, Kept, SaidYes, BeforeCommit, AfterFinish, DoneCommit, Unfired, SafeDog, Safe
  <2>3. OnwardCalls' /\ LettingCalls' /\ ToldLast' /\ OneWatchdog' /\ NotConfirmed' /\ LeavesInOrder'
    <3>1. OnwardCalls' /\ ToldLast'
      BY <2>1, <2>2 DEF KeptInv, OnwardCalls, ToldLast
    <3>2. LettingCalls'
      BY <2>1, <2>2 DEF KeptInv, LettingCalls
    <3>3. OneWatchdog'
      BY <2>1, <2>2 DEF KeptInv, OneWatchdog
    <3>4. NotConfirmed' /\ LeavesInOrder'
      BY <2>1, <2>2 DEF KeptInv, NotConfirmed, LeavesInOrder
    <3> QED BY <3>1, <3>2, <3>3, <3>4
  <2>4. OneFinalise' /\ SettingsSo' /\ Finished' /\ Evidence' /\ Answers' /\ ToldHolds'
    <3>1. OneFinalise'
      BY <2>1, <2>2 DEF KeptInv, OneFinalise
    <3>2. SettingsSo'
      BY <2>1, <2>2 DEF KeptInv, SettingsSo
    <3>3. Finished' /\ Answers'
      BY <2>1, <2>2 DEF KeptInv, Finished, Answers
    <3>4. Evidence'
      BY <2>1, <2>2 DEF KeptInv, Evidence
    <3>5. ToldHolds'
      BY <2>1, <2>2 DEF KeptInv, ToldHolds
    <3> QED BY <3>1, <3>2, <3>3, <3>4, <3>5
  <2> QED BY <2>3, <2>4 DEF KeptInv
<1> QED BY <1>1, <1>2, <1>3, <1>4, <1>5 DEF Next

LEMMA KeptInit == Init => KeptInv
<1> SUFFICES ASSUME Init PROVE KeptInv
  OBVIOUS
<1>1. /\ client.phase = "arming" /\ client.awaits = 0 /\ client.told = "nothing"
      /\ flash.config = "old" /\ flash.links = "old"
      /\ ram.marks = {} /\ ram.out = {} /\ ram.slept = 0 /\ ram.pid = 0 /\ ram.dir
      /\ \A w \in Watchdog : wd[w].at = "off"
      /\ \A c \in Call : verb[c].at = "idle"
  BY DEF Init, EmptyRam, Silent
<1>2. wd[1].at = "off"
  BY <1>1, FirstIs
<1>3. GoesOn /\ ~Lets /\ ~StoodDown /\ ~SaidYes /\ ~AfterFinish /\ ~DoneCommit
  <2>1. GoesOn /\ ~StoodDown /\ ~SaidYes
    BY <1>1 DEF GoesOn, Onward, StoodDown, SaidYes
  <2>2. ~AfterFinish /\ ~DoneCommit /\ ~Lets
    BY <1>1, <2>1 DEF AfterFinish, DoneCommit, Lets, Letting, DisarmingAt, EvidenceAt
  <2> QED BY <2>1, <2>2
<1>4. OnwardCalls /\ LettingCalls /\ ToldLast
  BY <1>1, <1>3 DEF OnwardCalls, RestAt, LettingCalls, ToldLast
<1>5. OneWatchdog /\ NotConfirmed /\ LeavesInOrder
  BY <1>1, <1>2, <1>3 DEF OneWatchdog, NotConfirmed, LeavesInOrder, Leaving
<1>6. OneFinalise /\ SettingsSo /\ Finished
  BY <1>1, <1>3 DEF OneFinalise, SettingsSo, Finished, FinaliseAt
<1>7. Evidence /\ Answers /\ ToldHolds
  BY <1>1, <1>3 DEF Evidence, EvidenceAt, Answers, ToldHolds
<1> QED BY <1>4, <1>5, <1>6, <1>7 DEF KeptInv

\* Its own invariant, and those it rests on.
LEMMA KeptInvariant ==
    ASSUME SettleOutlasts
    PROVE  Spec => [](TypeOK /\ FiredIsMarked /\ DisarmInv /\ StillInv /\ KeptInv)
<1>1. Init => DisarmInv
  <2>1. Init => \A c \in Call : verb[c].at = "idle"
    BY DEF Init, Silent
  <2> QED BY <2>1 DEF DisarmInv, Flagged
<1>2. TypeOK /\ DisarmInv /\ [Next]_vars => DisarmInv'
  BY DisarmInvStep
<1>3. Init => RestartInv
  BY DEF Init, RestartInv, StillInv, ConfigBack, WholeBack, Restarted
<1>4. TypeOK /\ RestartInv /\ [Next]_vars => RestartInv'
  BY RestartStep
<1>5. RestartInv => StillInv
  BY DEF RestartInv
<1>6. TypeOK /\ FiredIsMarked /\ DisarmInv /\ StillInv /\ KeptInv /\ [Next]_vars => KeptInv'
  BY KeptStep
<1> QED BY <1>1, <1>2, <1>3, <1>4, <1>5, <1>6, KeptInit, TypeCorrect, FiredMarked, PTL DEF Spec

\* Where a disarm settles for longer than its watchdog needs to wake and decide,
\* a device told disarmed keeps what it holds: its one watchdog has left, died
\* asleep, or finds the flag when it wakes, and no copy is on flash for a boot to
\* bring back; the settings are the new ones whole if told kept, and the old
\* ones untouched if let go of before its commit.
THEOREM DisarmedAlwaysStays ==
    ASSUME SettleOutlasts
    PROVE  Spec => []DisarmedStays
<1>1. TypeOK /\ KeptInv => DisarmedStays
  <2> SUFFICES ASSUME KeptInv, StoodDown
               PROVE  /\ ~Restoring /\ \A w \in Watchdog : wd[w].at # "unconfirmed"
                      /\ flash.boot = "none" /\ up \notin UpAt \ {"up", "boot"}
                      /\ flash.config = IF client.told = "kept" THEN "new" ELSE "old"
    BY DEF DisarmedStays
  <2>1. Kept
    BY DEF Kept, Lets
  <2>2. /\ wd[1].at \notin RestoringAt \cup {"unconfirmed"}
        /\ \A w \in Watchdog : w # 1 => wd[w].at = "off"
    BY <2>1 DEF KeptInv, ToldHolds, SafeDog, OneWatchdog
  <2>3. \A w \in Watchdog : wd[w].at \notin RestoringAt \cup {"unconfirmed"}
    BY <2>2 DEF RestoringAt
  <2> QED BY <2>3 DEF KeptInv, ToldHolds, Restoring
<1> QED BY <1>1, KeptInvariant, PTL

\* There too, a device told kept carries the applied marker: whichever of the two
\* places the commit's marker is in while its watchdog leaves, one of the disarm's
\* two looks finds it.
THEOREM KeptAlwaysMarked ==
    ASSUME SettleOutlasts
    PROVE  Spec => []KeptIsMarked
<1>1. KeptInv => KeptIsMarked
  BY DEF KeptInv, ToldHolds, StoodDown, KeptIsMarked
<1> QED BY <1>1, KeptInvariant, PTL

\* Only a disarm's last step marks a device applied.
LEMMA MarkingIt ==
    ASSUME TypeOK, [Next]_vars, flash'.applied, ~flash.applied
    PROVE  \E c \in Call : verb[c].at = "marking applied"
<1>1. ASSUME NEW w \in Watchdog, WatchdogStep(w) \/ SleepEnds(w) \/ WatchdogKilled(w) PROVE FALSE
  <2>1. CASE WatchdogStep(w) /\ ~WatchdogReboots(w) /\ ~WatchdogGivesUp(w)
    BY <2>1, WatchdogMoves
  <2>2. CASE WatchdogReboots(w) \/ WatchdogGivesUp(w) \/ SleepEnds(w) \/ WatchdogKilled(w)
    BY <2>2 DEF WatchdogReboots, WatchdogGivesUp, SleepEnds, WatchdogKilled, device
  <2> QED BY <1>1, <2>1, <2>2
<1>2. ASSUME NEW c \in Call, VerbStep(c) PROVE verb[c].at = "marking applied"
  <2>1. ~Arm(c) /\ ~Prepare(c) /\ ~Stage(c) /\ ~Finalise(c)
    BY ArmMoves, PrepareMoves, StageMoves, FinaliseMoves
  <2>2. ~Services(c) /\ ~ShortVerb(c) /\ ~Disarm(c)
    BY LookMoves, DoneMoves, DisarmMoves
  <2>3. ~Drop(c) /\ ~RollbackNow(c)
    BY DEF Drop, RollbackNow, TypeOK, FlashOK, Flash
  <2>4. DisarmEnds(c) => Says(c, "marking applied", "yes")
    BY DEF DisarmEnds, TypeOK, FlashOK, Flash
  <2> QED BY <1>2, <2>1, <2>2, <2>3, <2>4 DEF VerbStep, Says
<1>3. ~BootStep
  BY DEF BootStep, SwapOut, SwapIn, TypeOK, FlashOK, Flash
<1>4. flash' # flash
  OBVIOUS
<1> QED BY <1>1, <1>2, <1>3, <1>4
    DEF Next, vars, device, PowerCut, VerbEnds, CallVerb, HearAnswer, LoseAnswer, Unreachable, ClientDies

\* And the marker is only put on a device whose whole change was committed: the
\* evidence a disarm goes by, and the commit's marker, say so together.
THEOREM MarkedAlwaysCommitted ==
    ASSUME SettleOutlasts
    PROVE  Spec => MarkedWasCommitted
<1>1. TypeOK /\ KeptInv /\ [Next]_vars => [flash'.applied /\ ~flash.applied => flash.config = "new"]_vars
  <2>1. ASSUME TypeOK, KeptInv, [Next]_vars, flash'.applied, ~flash.applied PROVE flash.config = "new"
    BY <2>1, MarkingIt DEF KeptInv, Evidence
  <2> QED BY <2>1
<1> QED BY <1>1, KeptInvariant, PTL DEF Spec, MarkedWasCommitted
=============================================================================
