-------------------------- MODULE CollectorProofs --------------------------
(***************************************************************************)
(* That the collector's loop keeps its snapshot fresh, tells a device that *)
(* is down within two reads, and keeps each client's moves in turn.  For   *)
(* any devices, lines, clients, paces, times, faults and requests.         *)
(*                                                                         *)
(* The first two are about time, and need no more of the state than the    *)
(* clock, the loop, the network and what was last seen of each device      *)
(* (Clocked).  Neither is inductive: a bound on how old something is holds *)
(* because of where the loop is.  Paced says that of a time q all else is  *)
(* counted from.  SnapshotPaced has it of the last snapshot, MissesPaced   *)
(* of a device's fall and a whole round for each read it has missed since. *)
(*                                                                         *)
(* The third relates a client's moves to where it is placed: its newest    *)
(* move says it left just when it has no place, in memory and in every     *)
(* copy (MovesFollow).  The moves are newest first, so dropping the old    *)
(* ones and those above the limit drops the end of the list and parts no   *)
(* two.                                                                    *)
(***************************************************************************)
EXTENDS Collector, FiniteSetTheorems, WellFoundedInduction, TLAPS

(* The parts of the state that the clock is about. *)

NetState == [up : [Device -> BOOLEAN], boot : [Device -> Int], stopped : [Device -> SUBSET Service],
             line : [Line -> [works : BOOLEAN, since : Nat]], at : [Client -> Access \cup {"away"}]]
SeenState == [reachable : BOOLEAN, up : Int, misses : 0..MissesForLost, since : Int, lost : BOOLEAN, seen : BOOLEAN,
              stopped : SUBSET Service]
LoopState == [at : {"off", "sleeping", "reading", "copying"}, lastRead : Nat \cup {Never}, lastCopied : Nat \cup {Never}]

Clocked ==
    /\ t \in Nat /\ quiet \in Nat /\ quiet <= t
    /\ loop \in LoopState /\ loop.lastRead <= t
    /\ loop.at = "reading" => loop.lastRead \in Nat /\ t <= loop.lastRead + ReadTakes
    /\ snapshot \in Nat \cup {Never} /\ snapshot <= t
    /\ net \in NetState /\ \A d \in Device : net.boot[d] <= t
    /\ state.observed.devices \in [Device -> SeenState]
    /\ \A d \in Device : state.observed.devices[d].lost <=> state.observed.devices[d].misses >= MissesForLost

LEMMA Sizes ==
    /\ Watched \in Nat /\ Unwatched \in Nat /\ ReadTakes \in Nat /\ SnapshotFresh \in Nat /\ BootTakes \in Nat
    /\ Watched <= Unwatched /\ SnapshotFresh > Unwatched + ReadTakes /\ Never = -1 /\ MissesForLost = 2
  BY TimesAssumption DEF Never, MissesForLost

LEMMA InitClocked == Init => Clocked
<1> SUFFICES ASSUME Init PROVE Clocked
  OBVIOUS
<1>1. net \in NetState /\ \A d \in Device : net.boot[d] <= t
  <2>1. net = [up |-> [d \in Device |-> TRUE], boot |-> [d \in Device |-> 1 - BootTakes], stopped |-> [d \in Device |-> {}],
               line |-> [l \in Line |-> [works |-> TRUE, since |-> 0]], at |-> [c \in Client |-> "away"]] /\ t = 1
    BY DEF Init
  <2>2. 1 - BootTakes \in Int /\ 1 - BootTakes <= 1
    BY Sizes
  <2> QED BY <2>1, <2>2 DEF NetState
<1>2. state.observed.devices = [d \in Device |-> Unseen]
  BY DEF Init, NewState, NotObserved
<1>3. Unseen \in SeenState /\ Unseen.lost = FALSE /\ Unseen.misses = 0
  BY Sizes DEF Unseen, SeenState
<1>4. t = 1 /\ quiet = 1 /\ loop = [at |-> "off", lastRead |-> Never, lastCopied |-> Never] /\ snapshot = -1
  BY Sizes DEF Init, Off
<1>5. loop \in LoopState
  BY <1>4 DEF LoopState
<1> QED BY <1>1, <1>2, <1>3, <1>4, <1>5, Sizes DEF Clocked

(* What each step does to them. *)

SameClock == t' = t /\ quiet' = quiet
Reset == quiet' = t' /\ t' = t

LEMMA DeviceOfDoes ==
    ASSUME NEW was \in SeenState, NEW now \in [reachable : BOOLEAN, up : Int, stopped : SUBSET Service], NEW at \in Int
    PROVE  LET next == DeviceOf(was, now, at) IN
           /\ next \in SeenState
           /\ next.lost <=> next.misses >= MissesForLost
           /\ ~now.reachable => /\ next.seen = was.seen
                                /\ next.misses = IF was.misses < MissesForLost THEN was.misses + 1 ELSE was.misses
<1> DEFINE misses == IF now.reachable THEN 0 ELSE IF was.misses < MissesForLost THEN was.misses + 1 ELSE was.misses
           since == IF misses = 0 THEN 0 ELSE IF was.misses > 0 THEN was.since ELSE at
           lost == misses >= MissesForLost
           seen == now.reachable \/ was.seen
           stopped == IF now.reachable THEN now.stopped ELSE was.stopped
           next == DeviceOf(was, now, at)
<1>1. next = [reachable |-> now.reachable, up |-> now.up, misses |-> misses, since |-> since, lost |-> lost, seen |-> seen, stopped |-> stopped]
  BY DEF DeviceOf
<1>2. misses \in 0..MissesForLost
  BY Sizes DEF SeenState
<1>3. since \in Int /\ stopped \in SUBSET Service
  BY DEF SeenState
<1>4. now.reachable \in BOOLEAN /\ now.up \in Int /\ lost \in BOOLEAN
  BY <1>2, Sizes
<1>5. seen \in BOOLEAN /\ (~now.reachable => seen = was.seen)
  BY DEF SeenState
<1>6. lost <=> misses >= MissesForLost
  OBVIOUS
<1>7. ~now.reachable => misses = IF was.misses < MissesForLost THEN was.misses + 1 ELSE was.misses
  OBVIOUS
<1> HIDE DEF misses, since, lost, seen, stopped, next
<1>8. next \in SeenState
  BY <1>1, <1>2, <1>3, <1>4, <1>5 DEF SeenState
<1> QED BY <1>1, <1>5, <1>6, <1>7, <1>8 DEF next

\* A loop that starts again knows nothing of the devices.
LEMMA OffOK ==
    ASSUME NEW kept
    PROVE  /\ Off \in LoopState /\ Off.at = "off" /\ Off.lastRead = Never
           /\ LET seen == NewState(kept).observed.devices IN
              /\ seen \in [Device -> SeenState]
              /\ \A d \in Device : ~seen[d].seen /\ (seen[d].lost <=> seen[d].misses >= MissesForLost)
<1>1. NewState(kept).observed.devices = [d \in Device |-> Unseen]
  BY DEF NewState, NotObserved
<1>2. Unseen \in SeenState /\ Unseen.lost = FALSE /\ Unseen.misses = 0 /\ Unseen.seen = FALSE
  BY Sizes DEF Unseen, SeenState
<1>3. Off \in LoopState /\ Off.at = "off" /\ Off.lastRead = Never
  BY DEF Off, LoopState
<1> QED BY <1>1, <1>2, <1>3, Sizes

\* A read's result, as the loop goes on with it.
LEMMA ObserveDoes ==
    ASSUME Clocked, NEW slow, NEW next, next = Digest(Read(slow), state)
    PROVE  /\ next.observed.devices \in [Device -> SeenState]
           /\ \A d \in Device : LET was == state.observed.devices[d]
                                    now == next.observed.devices[d]
                                IN  /\ now.lost <=> now.misses >= MissesForLost
                                    /\ ~net.up[d] => /\ now.seen = was.seen
                                                     /\ now.misses = IF was.misses < MissesForLost THEN was.misses + 1 ELSE was.misses
<1> DEFINE read == Read(slow)
<1>1. next.observed = Observe(read, state.observed)
  BY DEF Digest
<1>2. next.observed.devices = [d \in Device |-> DeviceOf(state.observed.devices[d], read.devices[d], read.at)]
  BY <1>1 DEF Observe
<1>3. read.at = t /\ read.devices = [d \in Device |-> [reachable |-> Answers(d) /\ d \notin slow,
                                                       up |-> t - net.boot[d], stopped |-> net.stopped[d]]]
  BY DEF Read
<1> HIDE DEF read
<1>4. ASSUME NEW d \in Device
      PROVE  /\ read.devices[d] \in [reachable : BOOLEAN, up : Int, stopped : SUBSET Service]
             /\ ~net.up[d] => ~read.devices[d].reachable
             /\ state.observed.devices[d] \in SeenState
  <2>1. net.up[d] \in BOOLEAN /\ net.boot[d] \in Int /\ net.stopped[d] \in SUBSET Service /\ t \in Nat
    BY DEF Clocked, NetState
  <2>2. (Answers(d) /\ d \notin slow) \in BOOLEAN /\ t - net.boot[d] \in Int
    BY <2>1
  <2>3. ~net.up[d] => ~Answers(d)
    BY DEF Answers
  <2>4. state.observed.devices[d] \in SeenState
    BY DEF Clocked
  <2> QED BY <1>3, <2>1, <2>2, <2>3, <2>4
<1>5. t \in Int
  BY DEF Clocked
<1>6. read.at \in Int
  BY <1>3, <1>5
<1>7. ASSUME NEW d \in Device
      PROVE  LET was == state.observed.devices[d]
                 now == next.observed.devices[d]
             IN  /\ now \in SeenState
                 /\ now.lost <=> now.misses >= MissesForLost
                 /\ ~net.up[d] => /\ now.seen = was.seen
                                  /\ now.misses = IF was.misses < MissesForLost THEN was.misses + 1 ELSE was.misses
  <2>1. next.observed.devices[d] = DeviceOf(state.observed.devices[d], read.devices[d], read.at)
    BY <1>2
  <2> QED BY <1>4, <1>6, <2>1, DeviceOfDoes
<1> QED BY <1>2, <1>7

LEMMA Ahead ==
    ASSUME NEW T, NEW u \in Seq(T), NEW w \in Seq(T), Len(u) >= 1
    PROVE  u \o w \in Seq(T) /\ Len(u \o w) \in Nat /\ Len(u \o w) >= 1 /\ (u \o w)[1] = u[1]
  OBVIOUS

LEMMA Short ==
    ASSUME NEW T, NEW x \in T, NEW y \in T
    PROVE  /\ <<>> \in Seq(T) /\ <<x, y>> \in Seq(T)
           /\ <<x>> \in Seq(T) /\ Len(<<x>>) = 1 /\ <<x>>[1] = x
  OBVIOUS

LEMMA TellsOf ==
    ASSUME NEW T, NEW x \in T, NEW yes
    PROVE  Told(yes, x) \in Seq(T)
  BY Short DEF Told

\* The snapshot is written first.
LEMMA WritesFirst ==
    ASSUME NEW next
    PROVE  Len(Writes(next)) \in Nat /\ Len(Writes(next)) >= 1 /\ Writes(next)[1] = "snapshot"
<1> DEFINE File == {"snapshot", "events", "day", "month", "registry", "moves"}
           changed == next.kept.events # state.kept.events
           begun == state.savedBucket = Never \/ MonthOf(next.savedBucket) # MonthOf(state.savedBucket)
           events == Told(changed, "events")
           month == Told(begun, "month")
           rest == IF next.savedBucket = state.savedBucket THEN <<>> ELSE <<"day">> \o month \o <<"registry", "moves">>
<1>1. Writes(next) = <<"snapshot">> \o events \o rest
  BY DEF Writes
<1>2. /\ "snapshot" \in File /\ "events" \in File /\ "day" \in File /\ "month" \in File
      /\ "registry" \in File /\ "moves" \in File
  OBVIOUS
<1> HIDE DEF File, changed, begun
<1>3. events \in Seq(File) /\ month \in Seq(File)
  BY <1>2, TellsOf
<1> HIDE DEF events, month
<1>4. rest \in Seq(File)
  <2>1. <<"day">> \o month \in Seq(File) /\ Len(<<"day">> \o month) >= 1
    BY <1>2, <1>3, Short, Ahead
  <2>2. <<"registry", "moves">> \in Seq(File) /\ <<>> \in Seq(File)
    BY <1>2, Short
  <2>3. <<"day">> \o month \o <<"registry", "moves">> \in Seq(File)
    BY <2>1, <2>2, Ahead
  <2> QED BY <2>2, <2>3
<1> HIDE DEF rest
<1>5. <<"snapshot">> \in Seq(File) /\ Len(<<"snapshot">>) = 1 /\ <<"snapshot">>[1] = "snapshot"
  BY <1>2, Short
<1>6. /\ <<"snapshot">> \o events \in Seq(File) /\ Len(<<"snapshot">> \o events) >= 1
      /\ (<<"snapshot">> \o events)[1] = "snapshot"
  BY <1>3, <1>5, Ahead
<1> QED BY <1>1, <1>4, <1>6, Ahead

\* What the loop does with a read.
LEMMA CollectsDoes ==
    ASSUME Clocked, Collects
    PROVE  /\ loop.at = "reading" /\ loop'.at \in {"copying", "off"} /\ loop' \in LoopState
           /\ loop'.lastRead \in {loop.lastRead, Never}
           /\ t' = t /\ net' = net /\ snapshot' \in {t, snapshot}
           /\ state'.observed.devices \in [Device -> SeenState]
           /\ \A d \in Device : state'.observed.devices[d].lost <=> state'.observed.devices[d].misses >= MissesForLost
           /\ \/ quiet' = t
              \/ /\ quiet' = quiet /\ snapshot' = t /\ loop'.at = "copying"
                 /\ \A d \in Device : ~net.up[d] =>
                      LET was == state.observed.devices[d]
                          now == state'.observed.devices[d]
                      IN  /\ now.seen = was.seen
                          /\ now.misses = IF was.misses < MissesForLost THEN was.misses + 1 ELSE was.misses
<1> DEFINE all(next) == NamesTo(Len(Writes(next)), Writes(next))
<1>1. loop.at = "reading" /\ loop \in LoopState /\ t' = t /\ net' = net
  BY DEF Collects, world, Clocked
<1>2. PICK slow \in SUBSET {d \in Device : Answers(d)} :
        LET next == Digest(Read(slow), state)
            writes == Writes(next)
        IN  \/ /\ Written(next, all(next)) /\ state' = next /\ LoopAt("copying")
               /\ IF slow = {} THEN Fine ELSE Fault
            \/ /\ slow = {} /\ "events" \in all(next) /\ Fault
               /\ Written(next, all(next) \ {"events"}) /\ state' = next /\ LoopAt("copying")
            \/ /\ slow = {} /\ Fault
               /\ \E k \in 1..Len(writes) :
                    /\ writes[k] # "events"
                    /\ Written(next, NamesTo(k - 1, writes))
               /\ UNCHANGED state /\ LoopAt("copying")
            \/ /\ slow = {} /\ Fault
               /\ \E k \in 1..Len(writes) : Written(next, NamesTo(k, writes))
               /\ state' = NewState(NothingKept) /\ loop' = Off
  BY DEF Collects
<1> DEFINE next == Digest(Read(slow), state)
<1>3. /\ next.observed.devices \in [Device -> SeenState]
      /\ \A d \in Device : LET was == state.observed.devices[d]
                               now == next.observed.devices[d]
                           IN  /\ now.lost <=> now.misses >= MissesForLost
                               /\ ~net.up[d] => /\ now.seen = was.seen
                                                /\ now.misses = IF was.misses < MissesForLost THEN was.misses + 1 ELSE was.misses
  BY ObserveDoes
<1>4. "snapshot" \in all(next)
  <2> HIDE DEF next
  <2>1. 1 \in 1..Len(Writes(next)) /\ Writes(next)[1] = "snapshot"
    BY WritesFirst
  <2> QED BY <2>1 DEF NamesTo
<1> HIDE DEF next, all
<1>5. ASSUME NEW names, Written(next, names)
      PROVE  snapshot' \in {t, snapshot} /\ ("snapshot" \in names => snapshot' = t)
  BY <1>5 DEF Written
<1>6. Fault => quiet' = t
  BY DEF Fault
<1>7. Fine => quiet' = quiet
  BY DEF Fine
<1>8. LoopAt("copying") => loop'.at = "copying" /\ loop' \in LoopState /\ loop'.lastRead = loop.lastRead
  BY <1>1 DEF LoopAt, LoopState
<1>9. CASE Written(next, all(next)) /\ state' = next /\ LoopAt("copying") /\ (IF slow = {} THEN Fine ELSE Fault)
  BY <1>1, <1>3, <1>4, <1>5, <1>6, <1>7, <1>8, <1>9
<1>10. CASE state' = next /\ LoopAt("copying") /\ Fault /\ \E names : Written(next, names)
  BY <1>1, <1>3, <1>5, <1>6, <1>8, <1>10
<1>11. CASE UNCHANGED state /\ LoopAt("copying") /\ Fault /\ \E names : Written(next, names)
  BY <1>1, <1>5, <1>6, <1>8, <1>11 DEF Clocked
<1>12. CASE state' = NewState(NothingKept) /\ loop' = Off /\ Fault /\ \E names : Written(next, names)
  BY <1>1, <1>5, <1>6, <1>12, OffOK
<1> QED BY <1>2, <1>9, <1>10, <1>11, <1>12 DEF next

\* What the loop has to do is begun before time goes on.
LEMMA TickDoes ==
    ASSUME Clocked, Tick
    PROVE  /\ t' = t + 1 /\ UNCHANGED <<net, loop, state, snapshot>>
           /\ quiet' \in {quiet, t + 1}
           /\ quiet' = t + 1 \/ loop.lastRead # Never
           /\ \/ loop.at = "sleeping" /\ (quiet' = t + 1 \/ t < loop.lastRead + Unwatched)
              \/ loop.at = "reading" /\ t < loop.lastRead + ReadTakes
<1>1. t' = t + 1 /\ UNCHANGED <<net, loop, state, snapshot>> /\ quiet' = IF Applying THEN t + 1 ELSE quiet
  BY DEF Tick, world, files
<1>2. Waits
  BY DEF Tick
<1>3. t \in Nat /\ loop.lastRead \in Nat \cup {Never} /\ (loop.at = "reading" => loop.lastRead \in Nat)
  BY DEF Clocked, LoopState
<1>4. Pace \in Nat /\ Pace <= Unwatched
  BY Sizes DEF Pace
<1>5. CASE loop.at = "sleeping" /\ ~(ReadDue /\ ~Applying)
  <2>1. CASE Applying
    BY <1>1, <1>5, <2>1
  <2>2. CASE ~ReadDue
    <3>1. loop.lastRead # Never /\ ~(t - loop.lastRead >= Pace)
      BY <2>2 DEF ReadDue
    <3>2. t < loop.lastRead + Unwatched
      BY <1>3, <1>4, <3>1, Sizes
    <3> QED BY <1>1, <1>5, <3>1, <3>2
  <2> QED BY <1>5, <2>1, <2>2
<1>6. CASE loop.at = "reading" /\ t - loop.lastRead < ReadTakes
  <2>1. t < loop.lastRead + ReadTakes /\ loop.lastRead # Never
    BY <1>3, <1>6, Sizes
  <2> QED BY <1>1, <1>6, <2>1
<1> QED BY <1>2, <1>5, <1>6 DEF Waits

\* The loop's other steps.
LEMMA LoopDoes ==
    ASSUME Clocked, Starts \/ Loops \/ Copies \/ Sleeps \/ Stops \/ Killed \/ PowerLost
    PROVE  /\ t' = t /\ net' = net /\ loop' \in LoopState /\ quiet' \in {quiet, t} /\ snapshot' \in {snapshot, Never}
           /\ \/ quiet' = t /\ loop'.at # "reading" /\ loop'.lastRead \in {loop.lastRead, Never}
                 /\ \/ state' = state
                    \/ \E kept : state' = NewState(kept)
              \/ /\ snapshot' = snapshot
                 /\ \/ loop.at = "off" /\ loop'.at = "sleeping" /\ loop'.lastRead = Never /\ \E kept : state' = NewState(kept)
                    \/ loop.at = "sleeping" /\ loop'.at = "reading" /\ loop'.lastRead = t /\ state' = state
                    \/ loop.at \in {"copying", "sleeping"} /\ loop'.at = "sleeping" /\ loop'.lastRead = loop.lastRead /\ state' = state
<1>0. loop \in LoopState /\ t \in Nat
  BY DEF Clocked
<1>1. CASE Starts
  <2>1. /\ loop.at = "off" /\ UNCHANGED <<t, net, snapshot>> /\ state' = NewState(ram') /\ loop' = [Off EXCEPT !.at = "sleeping"]
    BY <1>1 DEF Starts, world
  <2>2. quiet' \in {quiet, t}
    BY <1>1 DEF Starts, Failing, Fine, Fault
  <2>3. loop' \in LoopState /\ loop'.at = "sleeping" /\ loop'.lastRead = Never
    BY <2>1 DEF Off, LoopState
  <2> QED BY <2>1, <2>2, <2>3
<1>2. CASE Loops
  BY <1>0, <1>2 DEF Loops, Fine, world, files, LoopState
<1>3. CASE Copies
  <2>1. /\ loop.at \in {"copying", "sleeping"} /\ UNCHANGED <<t, net, state, snapshot>>
        /\ loop' = [loop EXCEPT !.at = "sleeping", !.lastCopied = t]
    BY <1>3 DEF Copies, world
  <2>2. quiet' \in {quiet, t}
    BY <1>3 DEF Copies, Failing, Fine, Fault
  <2>3. loop' \in LoopState /\ loop'.at = "sleeping" /\ loop'.lastRead = loop.lastRead
    BY <1>0, <2>1 DEF LoopState
  <2> QED BY <2>1, <2>2, <2>3
<1>4. CASE Sleeps
  BY <1>0, <1>4 DEF Sleeps, LoopAt, Fine, world, files, LoopState
<1>5. CASE Stops
  BY <1>5, OffOK DEF Stops, Ends, world
<1>6. CASE Killed
  BY <1>6, OffOK DEF Killed, Ends, Fault, world, files
<1>7. CASE PowerLost
  BY <1>7, OffOK DEF PowerLost, Ends, Fault, world
<1> QED BY <1>1, <1>2, <1>3, <1>4, <1>5, <1>6, <1>7

LEMMA UpSet ==
    ASSUME NEW n \in NetState, NEW d \in Device, NEW x \in BOOLEAN, NEW at \in Nat
    PROVE  LET m == [n EXCEPT !.up[d] = x, !.boot[d] = at] IN
           /\ m \in NetState /\ m.boot[d] = at
           /\ \A e \in Device \ {d} : m.boot[e] = n.boot[e] /\ m.up[e] = n.up[e]
<1> DEFINE up == [n.up EXCEPT ![d] = x]
           boot == [n.boot EXCEPT ![d] = at]
           m == [n EXCEPT !.up[d] = x, !.boot[d] = at]
<1>1. up \in [Device -> BOOLEAN] /\ boot \in [Device -> Int] /\ boot[d] = at
      /\ \A e \in Device \ {d} : boot[e] = n.boot[e] /\ up[e] = n.up[e]
  BY DEF NetState
<1>2. m = [up |-> up, boot |-> boot, stopped |-> n.stopped, line |-> n.line, at |-> n.at]
  <2> DEFINE k == [n EXCEPT !.up[d] = x]
  <2>1. k = [up |-> up, boot |-> n.boot, stopped |-> n.stopped, line |-> n.line, at |-> n.at]
    BY DEF NetState
  <2>2. m = [k EXCEPT !.boot[d] = at]
    OBVIOUS
  <2> HIDE DEF up, k, m
  <2>3. [k EXCEPT !.boot[d] = at] = [up |-> up, boot |-> [n.boot EXCEPT ![d] = at], stopped |-> n.stopped, line |-> n.line, at |-> n.at]
    BY <2>1
  <2> QED BY <2>2, <2>3
<1> HIDE DEF up, boot, m
<1>3. m \in NetState /\ m.up = up /\ m.boot = boot
  BY <1>1, <1>2 DEF NetState
<1> QED BY <1>1, <1>3 DEF m

\* What is neither the loop's nor time's leaves the loop as it is.
LEMMA OthersDo ==
    ASSUME Clocked, \/ Answered \/ ReadsItself \/ KeepsItsRead \/ Applies \/ UNCHANGED vars
                    \/ \E d \in Device : Falls(d) \/ Boots(d) \/ (\E s \in Service : ServiceTurns(d, s))
                    \/ \E l \in Line : LineTurns(l)
                    \/ \E c \in Client : Goes(c)
    PROVE  /\ UNCHANGED <<t, loop, state>> /\ quiet' \in {quiet, t} /\ snapshot' \in {snapshot, t}
           /\ net' \in NetState
           /\ \A d \in Device : /\ net'.boot[d] \in {net.boot[d], t}
                                /\ ~net'.up[d] => ~net.up[d] \/ net'.boot[d] = t
<1>0. net \in NetState /\ t \in Nat
  BY DEF Clocked
<1>1. ASSUME NEW n, NEW what, Becomes(n, what)
      PROVE  UNCHANGED <<t, loop, state, snapshot>> /\ net' = n /\ quiet' = quiet
  BY <1>1 DEF Becomes, files
<1>2. CASE Answered \/ ReadsItself \/ KeepsItsRead \/ Applies \/ UNCHANGED vars
  BY <1>0, <1>2 DEF Answered, ReadsItself, KeepsItsRead, Applies, vars, world, files, Fine
<1>3. ASSUME NEW d \in Device, Falls(d)
      PROVE  /\ UNCHANGED <<t, loop, state, snapshot>> /\ quiet' = quiet /\ net' \in NetState
             /\ \A e \in Device : /\ net'.boot[e] \in {net.boot[e], t}
                                  /\ ~net'.up[e] => ~net.up[e] \/ net'.boot[e] = t
  <2> DEFINE Turned(x) == [net EXCEPT !.up[d] = x, !.boot[d] = t]
  <2>1. net' = Turned(FALSE) /\ UNCHANGED <<t, loop, state, snapshot>> /\ quiet' = quiet
    BY <1>1, <1>3 DEF Falls, Changes
  <2>2. /\ Turned(FALSE) \in NetState /\ Turned(FALSE).boot[d] = t
        /\ \A e \in Device \ {d} : Turned(FALSE).boot[e] = net.boot[e] /\ Turned(FALSE).up[e] = net.up[e]
    BY ZenonT(60), <1>0, UpSet
  <2> HIDE DEF Turned
  <2> QED BY <2>1, <2>2
<1>4. ASSUME NEW d \in Device, Boots(d)
      PROVE  /\ UNCHANGED <<t, loop, state, snapshot>> /\ quiet' = quiet /\ net' \in NetState
             /\ \A e \in Device : /\ net'.boot[e] \in {net.boot[e], t}
                                  /\ ~net'.up[e] => ~net.up[e] \/ net'.boot[e] = t
  <2> DEFINE Turned(x) == [net EXCEPT !.up[d] = x, !.boot[d] = t]
  <2>1. net' = Turned(TRUE) /\ UNCHANGED <<t, loop, state, snapshot>> /\ quiet' = quiet
    BY <1>1, <1>4 DEF Boots
  <2>2. /\ Turned(TRUE) \in NetState /\ Turned(TRUE).boot[d] = t
        /\ \A e \in Device \ {d} : Turned(TRUE).boot[e] = net.boot[e] /\ Turned(TRUE).up[e] = net.up[e]
    BY ZenonT(60), <1>0, UpSet
  <2> HIDE DEF Turned
  <2> QED BY <2>1, <2>2
<1>5. ASSUME NEW d \in Device, NEW s \in Service, ServiceTurns(d, s)
      PROVE  /\ UNCHANGED <<t, loop, state, snapshot>> /\ quiet' = quiet /\ net' \in NetState
             /\ net'.boot = net.boot /\ net'.up = net.up
  <2>1. net' = [net EXCEPT !.stopped[d] = (@ \ {s}) \cup ({s} \ @)] /\ UNCHANGED <<t, loop, state, snapshot>> /\ quiet' = quiet
    BY <1>1, <1>5 DEF ServiceTurns, Changes
  <2> QED BY <1>0, <2>1 DEF NetState
<1>6. ASSUME NEW l \in Line, LineTurns(l)
      PROVE  /\ UNCHANGED <<t, loop, state, snapshot>> /\ quiet' = quiet /\ net' \in NetState
             /\ net'.boot = net.boot /\ net'.up = net.up
  <2>1. net' = [net EXCEPT !.line[l] = [works |-> ~@.works, since |-> t]] /\ UNCHANGED <<t, loop, state, snapshot>> /\ quiet' = quiet
    BY <1>1, <1>6 DEF LineTurns, Changes
  <2> QED BY <1>0, <2>1 DEF NetState
<1>7. ASSUME NEW c \in Client, Goes(c)
      PROVE  /\ UNCHANGED <<t, loop, state, snapshot>> /\ quiet' = quiet /\ net' \in NetState
             /\ net'.boot = net.boot /\ net'.up = net.up
  <2>1. PICK where \in Access \cup {"away"} :
          net' = [net EXCEPT !.at[c] = where] /\ UNCHANGED <<t, loop, state, snapshot>> /\ quiet' = quiet
    BY <1>1, <1>7 DEF Goes, Changes
  <2> QED BY <1>0, <2>1 DEF NetState
<1> QED BY <1>2, <1>3, <1>4, <1>5, <1>6, <1>7

LEMMA NextIs ==
    ASSUME [Next]_vars
    PROVE  \/ Collects \/ Tick
           \/ (Starts \/ Loops \/ Copies \/ Sleeps \/ Stops \/ Killed \/ PowerLost)
           \/ (\/ Answered \/ ReadsItself \/ KeepsItsRead \/ Applies \/ UNCHANGED vars
               \/ \E d \in Device : Falls(d) \/ Boots(d) \/ (\E s \in Service : ServiceTurns(d, s))
               \/ \E l \in Line : LineTurns(l)
               \/ \E c \in Client : Goes(c))
  BY DEF Next

LEMMA StepClocked == Clocked /\ [Next]_vars => Clocked'
<1> SUFFICES ASSUME Clocked, [Next]_vars PROVE Clocked'
  OBVIOUS
<1>0. /\ t \in Nat /\ quiet \in Nat /\ quiet <= t /\ loop \in LoopState /\ loop.lastRead <= t
      /\ loop.lastRead \in Nat \cup {Never}
      /\ snapshot \in Nat \cup {Never} /\ snapshot <= t
      /\ net \in NetState /\ (\A d \in Device : net.boot[d] <= t /\ net.boot[d] \in Int)
  BY DEF Clocked, LoopState, NetState
<1>1. CASE Collects
  BY <1>0, <1>1, CollectsDoes, Sizes DEF Clocked
<1>2. CASE Tick
  <2>1. t' \in Nat /\ quiet' \in Nat /\ quiet' <= t'
    BY <1>0, <1>2, TickDoes
  <2>2. loop'.at = "reading" => loop'.lastRead \in Nat /\ t' <= loop'.lastRead + ReadTakes
    BY <1>0, <1>2, TickDoes, Sizes DEF Clocked
  <2> QED BY <1>0, <1>2, <2>1, <2>2, TickDoes, Sizes DEF Clocked
<1>3. CASE Starts \/ Loops \/ Copies \/ Sleeps \/ Stops \/ Killed \/ PowerLost
  <2>1. state'.observed.devices \in [Device -> SeenState]
        /\ \A d \in Device : state'.observed.devices[d].lost <=> state'.observed.devices[d].misses >= MissesForLost
    <3>1. state' = state \/ \E kept : state' = NewState(kept)
      BY <1>3, LoopDoes
    <3> QED BY <3>1, OffOK DEF Clocked
  <2>2. loop' \in LoopState /\ loop'.lastRead <= t' /\ (loop'.at = "reading" => loop'.lastRead = t)
    BY <1>0, <1>3, LoopDoes, Sizes
  <2>3. t' = t /\ net' = net /\ quiet' \in {quiet, t} /\ snapshot' \in {snapshot, Never}
    BY <1>3, LoopDoes
  <2> QED BY <1>0, <2>1, <2>2, <2>3, Sizes DEF Clocked
<1>4. CASE \/ Answered \/ ReadsItself \/ KeepsItsRead \/ Applies \/ UNCHANGED vars
           \/ \E d \in Device : Falls(d) \/ Boots(d) \/ (\E s \in Service : ServiceTurns(d, s))
           \/ \E l \in Line : LineTurns(l)
           \/ \E c \in Client : Goes(c)
  <2>1. /\ UNCHANGED <<t, loop, state>> /\ quiet' \in {quiet, t} /\ snapshot' \in {snapshot, t}
        /\ net' \in NetState /\ \A d \in Device : net'.boot[d] \in {net.boot[d], t}
    BY <1>4, OthersDo
  <2>2. \A d \in Device : net'.boot[d] <= t'
    BY <1>0, <2>1
  <2> QED BY <1>0, <2>1, <2>2 DEF Clocked
<1> QED BY <1>1, <1>2, <1>3, <1>4, NextIs

(* How far the loop can be since a read's end, or since what it is counted *)
(* from: q, and a pause and a read for each that ended since.              *)

Paced(at, lastRead, now, q) ==
    /\ at \in {"off", "copying"} => now <= q
    /\ at = "sleeping" => lastRead <= q /\ now <= q + Unwatched
    /\ at = "reading" => lastRead <= q + Unwatched

PacedNow(q) == Paced(loop.at, loop.lastRead, t, q)

\* Counted from no earlier than before, and from now where a read ended or the loop was disturbed.
LEMMA PacedGoes ==
    ASSUME Clocked, Clocked', [Next]_vars, NEW q \in Int, NEW r \in Int, q <= r,
           Paced(loop.at, loop.lastRead, t, q), quiet' <= r, Collects => t <= r
    PROVE  Paced(loop'.at, loop'.lastRead, t', r)
<1>0. /\ t \in Nat /\ t' \in Nat /\ loop.lastRead \in Int /\ loop'.lastRead \in Int /\ loop'.lastRead <= t' /\ loop.lastRead <= t
      /\ loop.at \in {"off", "sleeping", "reading", "copying"} /\ loop'.at \in {"off", "sleeping", "reading", "copying"}
      /\ Unwatched \in Nat
  BY Sizes DEF Clocked, LoopState
<1>1. CASE t' <= r
  BY <1>0, <1>1 DEF Paced
<1>2. CASE Collects
  BY <1>1, <1>2, CollectsDoes
<1>3. CASE Tick
  BY <1>0, <1>1, <1>3, TickDoes DEF Paced
<1>4. CASE Starts \/ Loops \/ Copies \/ Sleeps \/ Stops \/ Killed \/ PowerLost
  <2>1. t' = t
    BY <1>4, LoopDoes
  <2>2. CASE loop.at = "off" /\ loop'.at = "sleeping"
    BY <1>0, <1>1, <2>1, <2>2 DEF Paced
  <2>3. CASE loop.at = "sleeping" /\ loop'.at = "reading" /\ loop'.lastRead = t
    BY <1>0, <2>3 DEF Paced
  <2>4. CASE loop.at \in {"copying", "sleeping"} /\ loop'.at = "sleeping" /\ loop'.lastRead = loop.lastRead
    BY <1>0, <2>1, <2>4 DEF Paced
  <2>5. CASE quiet' = t
    BY <1>1, <2>1, <2>5
  <2> QED BY <1>4, <2>2, <2>3, <2>4, <2>5, LoopDoes
<1>5. CASE \/ Answered \/ ReadsItself \/ KeepsItsRead \/ Applies \/ UNCHANGED vars
           \/ \E d \in Device : Falls(d) \/ Boots(d) \/ (\E s \in Service : ServiceTurns(d, s))
           \/ \E l \in Line : LineTurns(l)
           \/ \E c \in Client : Goes(c)
  <2>1. UNCHANGED <<t, loop>>
    BY <1>5, OthersDo
  <2> QED BY <1>0, <2>1 DEF Paced
<1> QED BY <1>2, <1>3, <1>4, <1>5, NextIs

LEMMA LaterIs ==
    ASSUME NEW a \in Int, NEW b \in Int
    PROVE  Later(a, b) \in {a, b} /\ Later(a, b) >= a /\ Later(a, b) >= b
  BY DEF Later

\* The snapshot is of the last read's end, or of a request's since.
SnapshotPaced == PacedNow(Later(snapshot, quiet))

LEMMA InitPaced == Init => SnapshotPaced
<1> SUFFICES ASSUME Init PROVE SnapshotPaced
  OBVIOUS
<1>1. t = 1 /\ quiet = 1 /\ loop.at = "off" /\ snapshot = -1
  BY Sizes DEF Init, Off
<1> QED BY <1>1 DEF SnapshotPaced, PacedNow, Paced, Later

LEMMA StepPaced == Clocked /\ SnapshotPaced /\ [Next]_vars => SnapshotPaced'
<1> SUFFICES ASSUME Clocked, SnapshotPaced, [Next]_vars PROVE SnapshotPaced'
  OBVIOUS
<1> DEFINE q == Later(snapshot, quiet)
           r == Later(snapshot', quiet')
<1>1. Clocked'
  BY StepClocked
<1>2. /\ t \in Nat /\ t' \in Nat /\ quiet \in Int /\ quiet' \in Int /\ quiet <= t /\ snapshot \in Int /\ snapshot' \in Int
      /\ snapshot <= t /\ snapshot' <= t'
  BY <1>1, Sizes DEF Clocked
<1>3. quiet' >= quiet /\ (snapshot' >= snapshot \/ quiet' = t')
  <2>1. CASE Collects
    BY <1>2, <2>1, CollectsDoes
  <2>2. CASE Tick
    BY <1>2, <2>2, TickDoes
  <2>3. CASE Starts \/ Loops \/ Copies \/ Sleeps \/ Stops \/ Killed \/ PowerLost
    BY <1>2, <2>3, LoopDoes
  <2>4. CASE \/ Answered \/ ReadsItself \/ KeepsItsRead \/ Applies \/ UNCHANGED vars
             \/ \E d \in Device : Falls(d) \/ Boots(d) \/ (\E s \in Service : ServiceTurns(d, s))
             \/ \E l \in Line : LineTurns(l)
             \/ \E c \in Client : Goes(c)
    BY <1>2, <2>4, OthersDo
  <2> QED BY <2>1, <2>2, <2>3, <2>4, NextIs
<1>4. t' >= t
  BY <1>2, CollectsDoes, TickDoes, LoopDoes, OthersDo, NextIs
<1>5. q \in Int /\ r \in Int /\ q <= r /\ quiet' <= r
  BY <1>2, <1>3, <1>4, LaterIs
<1>6. Collects => t <= r
  BY <1>2, CollectsDoes, LaterIs
<1>7. Paced(loop.at, loop.lastRead, t, q)
  BY DEF SnapshotPaced, PacedNow
<1> HIDE DEF q, r
<1>8. Paced(loop'.at, loop'.lastRead, t', r)
  BY <1>1, <1>5, <1>6, <1>7, PacedGoes
<1> QED BY <1>8 DEF r, SnapshotPaced, PacedNow

\* A device down counts its misses from when it fell, or the loop went on.
DownSince(d) == Later(net.boot[d], quiet) + state.observed.devices[d].misses * (Unwatched + ReadTakes)
Missing(d) == ~net.up[d] /\ state.observed.devices[d].seen /\ ~state.observed.devices[d].lost
MissesPaced == \A d \in Device : Missing(d) => PacedNow(DownSince(d))

LEMMA InitMisses == Init => MissesPaced
<1> SUFFICES ASSUME Init, NEW d \in Device PROVE ~Missing(d)
  BY DEF MissesPaced
<1>1. net.up[d]
  BY DEF Init
<1> QED BY <1>1 DEF Missing

LEMMA StepMisses == Clocked /\ MissesPaced /\ [Next]_vars => MissesPaced'
<1> SUFFICES ASSUME Clocked, MissesPaced, [Next]_vars, NEW d \in Device, Missing(d)' PROVE PacedNow(DownSince(d))'
  BY DEF MissesPaced
<1> DEFINE was == state.observed.devices[d]
           now == state'.observed.devices[d]
           Wait == Unwatched + ReadTakes
           q == Later(net.boot[d], quiet) + was.misses * Wait
           r == Later(net'.boot[d], quiet') + now.misses * Wait
<1>1. Clocked'
  BY StepClocked
<1>2. /\ t \in Nat /\ t' \in Nat /\ quiet \in Int /\ quiet' \in Int /\ quiet <= t /\ quiet' <= t'
      /\ net.boot[d] \in Int /\ net'.boot[d] \in Int /\ net.boot[d] <= t /\ net'.boot[d] <= t'
      /\ was.misses \in {0, 1, 2} /\ now.misses \in {0, 1, 2}
      /\ (was.lost <=> was.misses >= 2) /\ (now.lost <=> now.misses >= 2)
      /\ Unwatched \in Nat /\ ReadTakes \in Nat /\ Wait \in Nat
  BY <1>1, Sizes DEF Clocked, NetState, SeenState
<1>3. ~net'.up[d] /\ now.seen /\ ~now.lost
  BY DEF Missing
<1>4. loop'.lastRead \in Int /\ loop'.lastRead <= t'
  BY <1>1, Sizes DEF Clocked, LoopState
\* Where the loop is disturbed, or the device falls, all is counted from now.
<1>5. CASE quiet' = t' \/ net'.boot[d] = t'
  <2>1. r \in Int /\ t' <= r
    <3>1. Later(net'.boot[d], quiet') \in Int /\ Later(net'.boot[d], quiet') >= t'
      BY <1>2, <1>5, LaterIs
    <3>2. now.misses * Wait \in Nat
      BY <1>2
    <3> QED BY <1>2, <3>1, <3>2
  <2> HIDE DEF r
  <2>2. Paced(loop'.at, loop'.lastRead, t', r)
    BY <1>2, <1>4, <2>1 DEF Paced
  <2> QED BY <2>2 DEF r, PacedNow, DownSince
<1>6. CASE /\ net'.boot[d] = net.boot[d] /\ ~net.up[d] /\ quiet' >= quiet /\ was.seen /\ ~was.lost
           /\ now.misses >= was.misses
           /\ Collects => now.misses = was.misses + 1
  <2>1. Paced(loop.at, loop.lastRead, t, q)
    BY <1>6 DEF MissesPaced, Missing, PacedNow, DownSince
  <2>2. q \in Int /\ r \in Int /\ q <= r /\ quiet' <= r
    <3>1. /\ Later(net.boot[d], quiet) \in Int /\ Later(net'.boot[d], quiet') \in Int
          /\ Later(net.boot[d], quiet) <= Later(net'.boot[d], quiet') /\ quiet' <= Later(net'.boot[d], quiet')
      BY <1>2, <1>6 DEF Later
    <3>2. was.misses * Wait \in Nat /\ now.misses * Wait \in Nat /\ was.misses * Wait <= now.misses * Wait
      <4> HIDE DEF Wait
      <4> QED BY <1>2, <1>6
    <3> HIDE DEF Wait
    <3> QED BY <1>2, <3>1, <3>2
  <2>3. Collects => t <= r
    <3> SUFFICES ASSUME Collects PROVE t <= r
      OBVIOUS
    <3>1. loop.at = "reading" /\ t <= loop.lastRead + ReadTakes /\ loop.lastRead \in Nat
      BY CollectsDoes DEF Clocked
    <3>2. loop.lastRead <= q + Unwatched
      BY <2>1, <3>1 DEF Paced
    <3>3. now.misses * Wait = was.misses * Wait + Wait
      <4> HIDE DEF Wait
      <4> QED BY <1>2, <1>6
    <3>4. Later(net.boot[d], quiet) <= Later(net'.boot[d], quiet')
          /\ Later(net.boot[d], quiet) \in Int /\ Later(net'.boot[d], quiet') \in Int
      BY <1>2, <1>6 DEF Later
    <3>5. was.misses * Wait \in Int
      <4> HIDE DEF Wait
      <4> QED BY <1>2
    <3>6. q + Wait <= r
      <4> HIDE DEF Wait
      <4> QED BY <1>2, <3>3, <3>4, <3>5
    <3> QED BY <1>2, <2>2, <3>1, <3>2, <3>6
  <2> HIDE DEF q, r
  <2>4. Paced(loop'.at, loop'.lastRead, t', r)
    BY <1>1, <2>1, <2>2, <2>3, PacedGoes
  <2> QED BY <2>4 DEF r, PacedNow, DownSince
<1>7. CASE Collects
  BY <1>2, <1>3, <1>5, <1>6, <1>7, CollectsDoes, Sizes
<1>8. CASE Tick
  BY <1>2, <1>3, <1>5, <1>6, <1>8, TickDoes, CollectsDoes
<1>9. CASE Starts \/ Loops \/ Copies \/ Sleeps \/ Stops \/ Killed \/ PowerLost
  <2>1. t' = t /\ net' = net /\ quiet' \in {quiet, t} /\ (state' = state \/ \E kept : state' = NewState(kept))
    BY <1>9, LoopDoes
  <2>2. state' = state
    BY <1>3, <2>1, OffOK
  <2>3. ~Collects \/ quiet' = t' \/ quiet' = quiet
    BY <2>1
  <2> QED BY <1>2, <1>3, <1>5, <1>6, <1>7, <2>1, <2>2
<1>10. CASE \/ Answered \/ ReadsItself \/ KeepsItsRead \/ Applies \/ UNCHANGED vars
            \/ \E e \in Device : Falls(e) \/ Boots(e) \/ (\E s \in Service : ServiceTurns(e, s))
            \/ \E l \in Line : LineTurns(l)
            \/ \E c \in Client : Goes(c)
  <2>1. /\ UNCHANGED <<t, state>> /\ quiet' \in {quiet, t} /\ net'.boot[d] \in {net.boot[d], t}
        /\ ~net'.up[d] => ~net.up[d] \/ net'.boot[d] = t
    BY <1>10, OthersDo
  <2> QED BY <1>2, <1>3, <1>5, <1>6, <1>7, <2>1
<1> QED BY <1>7, <1>8, <1>9, <1>10, NextIs

(* The moves of a client, newest first. *)

ClientMove == [at : Int, kind : {"joined", "roamed", "left"}]
PlaceState == [where : Access, missed : Nat, since : Int]

\* A client's moves as they follow one from another, none later than now.
History(list, now) ==
    /\ list \in Seq(ClientMove)
    /\ \A i \in DOMAIN list : list[i].at <= now
    /\ \A i, j \in DOMAIN list : i < j => list[j].at <= list[i].at
    /\ \A i \in 1..(Len(list) - 1) : (list[i].kind = "joined") <=> (list[i + 1].kind = "left")

\* The newest is where the client is, and no later than when it was first missed.
Follows(m, c, now) ==
    LET list == m.byClient[c] IN
    /\ History(list, now)
    /\ Len(list) > 0 => (list[1].kind = "left" <=> c \notin DOMAIN m.places)
    /\ Len(list) > 0 /\ c \in DOMAIN m.places /\ m.places[c].missed > 0 => list[1].at <= m.places[c].since

Following(m, now) ==
    /\ DOMAIN m.places \subseteq Client
    /\ \A c \in DOMAIN m.places : m.places[c] \in PlaceState /\ m.places[c].since <= now
    /\ \A c \in Client : Follows(m, c, now)

MovesFollow == Following(state.kept.moves, t) /\ Following(ram.moves, t) /\ Following(flash.moves, t)

LEMMA MoveIs ==
    ASSUME NEW list \in Seq(ClientMove), NEW i \in 1..Len(list)
    PROVE  list[i] \in ClientMove /\ list[i].at \in Int
<1>1. list[i] \in ClientMove
  OBVIOUS
<1> QED BY <1>1 DEF ClientMove

LEMMA Least ==
    ASSUME NEW T, T \subseteq Nat, T # {}
    PROVE  \E m \in T : \A k \in T : m <= k
<1> DEFINE R == {ss \in Nat \X Nat : ss[1] < ss[2]}
<1>1. IsWellFoundedOn(R, Nat)
  BY NatLessThanWellFounded DEF OpToRel
<1>2. \E x \in T : \A y \in T : ~ (<<y, x>> \in R)
  <2> HIDE DEF R
  <2> QED BY <1>1, WFMin
<1>3. PICK m \in T : \A k \in T : ~ (<<k, m>> \in R)
  BY <1>2
<1>4. ASSUME NEW k \in T PROVE m <= k
  <2>1. ~ (<<k, m>> \in R)
    BY <1>3
  <2> QED BY <2>1
<1> QED BY <1>4

\* Newest first, the recent ones are the first of the list.
LEMMA RecentIs ==
    ASSUME NEW list \in Seq(ClientMove), NEW at \in Int,
           \A i, j \in DOMAIN list : i < j => list[j].at <= list[i].at
    PROVE  \E n \in 0..Len(list) : Recent(list, at) = [k \in 1..n |-> list[k]]
<1> DEFINE recent == {i \in DOMAIN list : at - list[i].at < MovesFor}
           others == (1..Len(list) + 1) \ recent
           kth(k) == CHOOSE i \in recent : Cardinality({j \in recent : j < i}) = k - 1
<1>1. Len(list) \in Nat /\ DOMAIN list = 1..Len(list) /\ MovesFor \in Nat
  BY FoldsAssumption
<1>2. Len(list) + 1 \in others /\ others \subseteq Nat
  BY <1>1
<1>3. PICK m \in others : \A k \in others : m <= k
  <2> HIDE DEF others
  <2> QED BY <1>2, Least
<1>4. m - 1 \in 0..Len(list) /\ m \in 1..Len(list) + 1
  BY <1>1, <1>3
<1>5. ASSUME NEW i \in 1..(m - 1) PROVE i \in recent
  BY <1>1, <1>3, <1>4
<1>6. ASSUME NEW i \in recent PROVE i \in 1..(m - 1)
  <2>1. i \in 1..Len(list) /\ list[i].at \in Int /\ at - list[i].at < MovesFor
    BY <1>1, MoveIs
  <2> SUFFICES ASSUME m <= i PROVE FALSE
    BY <1>4, <2>1
  <2>2. m \in 1..Len(list) /\ m # i /\ list[m].at \in Int
    <3>1. m \in 1..Len(list) /\ m # i
      BY <1>1, <1>3, <1>4, <2>1
    <3> QED BY <3>1, MoveIs
  <2>3. list[i].at <= list[m].at
    BY SMTT(30), <1>1, <2>1, <2>2
  <2>4. at - list[m].at < MovesFor
    BY <1>1, <2>1, <2>2, <2>3
  <2> QED BY <1>1, <1>3, <2>2, <2>4
<1>7. recent = 1..(m - 1)
  BY <1>5, <1>6
<1>8. Cardinality(recent) = m - 1
  <2> HIDE DEF recent
  <2>1. 1 \in Int /\ m - 1 \in Int /\ (1 > m - 1 => m - 1 = 0)
    BY <1>1, <1>4
  <2>2. Cardinality(1..(m - 1)) = IF 1 > m - 1 THEN 0 ELSE m - 1 - 1 + 1
    BY <2>1, FS_Interval
  <2> QED BY <1>7, <2>1, <2>2
<1>9. ASSUME NEW i \in 1..(m - 1) PROVE Cardinality({j \in recent : j < i}) = i - 1
  <2>1. {j \in recent : j < i} = 1..(i - 1)
    BY <1>4, <1>7
  <2>2. 1 \in Int /\ i - 1 \in Int /\ i \in Int /\ (1 > i - 1 => i - 1 = 0)
    BY <1>1, <1>4
  <2>3. Cardinality(1..(i - 1)) = IF 1 > i - 1 THEN 0 ELSE i - 1 - 1 + 1
    BY <2>2, FS_Interval
  <2>4. Cardinality(1..(i - 1)) = i - 1
    BY <2>2, <2>3
  <2> QED BY <2>1, <2>4
<1>10. ASSUME NEW k \in 1..(m - 1) PROVE kth(k) = k
  <2>1. \A i \in recent : Cardinality({j \in recent : j < i}) = k - 1 <=> i = k
    BY <1>7, <1>9
  <2>2. k \in recent
    BY <1>7
  <2> HIDE DEF recent
  <2> QED BY <2>1, <2>2
<1>11. Recent(list, at) = [k \in 1..Cardinality(recent) |-> list[kth(k)]]
  BY DEF Recent
<1> HIDE DEF recent, kth
<1>12. Recent(list, at) = [k \in 1..(m - 1) |-> list[k]]
  BY <1>8, <1>10, <1>11
<1> QED BY <1>4, <1>12

LEMMA FirstFew ==
    ASSUME NEW T, NEW list \in Seq(T), NEW n \in 0..Len(list), NEW most \in Nat
    PROVE  \E m \in 0..Len(list) : FirstOf(most, [k \in 1..n |-> list[k]]) = [k \in 1..m |-> list[k]]
<1> DEFINE s == [k \in 1..n |-> list[k]]
           m == IF most < n THEN most ELSE n
<1>1. s \in Seq(T) /\ Len(s) = n
  OBVIOUS
<1>2. FirstOf(most, s) = SubSeq(s, 1, m)
  BY <1>1 DEF FirstOf
<1>3. SubSeq(s, 1, m) = [k \in 1..m |-> list[k]]
  <2>1. m \in Nat /\ m <= n
    OBVIOUS
  <2> QED BY <1>1, <2>1
<1>4. m \in 0..Len(list)
  OBVIOUS
<1> QED BY <1>2, <1>3, <1>4

\* What is kept of a client's moves with a fresh one, or none.
LEMMA KeptOf ==
    ASSUME NEW list, NEW now \in Int, History(list, now)
    PROVE  \E m \in 0..Len(list) : FirstOf(MovesKept, Recent(list, now)) = [k \in 1..m |-> list[k]]
<1>1. list \in Seq(ClientMove) /\ MovesKept \in Nat
  BY FoldsAssumption DEF History
<1>2. PICK n \in 0..Len(list) : Recent(list, now) = [k \in 1..n |-> list[k]]
  <2>1. \A i, j \in DOMAIN list : i < j => list[j].at <= list[i].at
    BY DEF History
  <2> QED BY <1>1, <2>1, RecentIs
<1>3. \E m \in 0..Len(list) : FirstOf(MovesKept, [k \in 1..n |-> list[k]]) = [k \in 1..m |-> list[k]]
  BY <1>1, FirstFew
<1> QED BY <1>2, <1>3

LEMMA FirstsFollow ==
    ASSUME NEW list, NEW now \in Int, History(list, now), NEW m \in 0..Len(list)
    PROVE  LET kept == [k \in 1..m |-> list[k]] IN
           /\ History(kept, now) /\ Len(kept) = m
           /\ m > 0 => Len(list) > 0 /\ kept[1] = list[1]
<1> DEFINE kept == [k \in 1..m |-> list[k]]
<1>1. list \in Seq(ClientMove) /\ Len(list) \in Nat /\ m \in Nat /\ m <= Len(list) /\ DOMAIN list = 1..Len(list)
  BY DEF History
<1>2. kept \in Seq(ClientMove) /\ Len(kept) = m /\ DOMAIN kept = 1..m /\ \A k \in 1..m : kept[k] = list[k]
  BY <1>1
<1> HIDE DEF kept
<1>3. History(kept, now)
  BY <1>1, <1>2 DEF History
<1>4. m > 0 => Len(list) > 0 /\ kept[1] = list[1]
  BY <1>1, <1>2
<1> QED BY <1>2, <1>3, <1>4 DEF kept

LEMMA OneMore ==
    ASSUME NEW list, NEW now \in Int, History(list, now), NEW move \in ClientMove, move.at <= now,
           Len(list) > 0 => list[1].at <= move.at /\ (move.kind = "joined" <=> list[1].kind = "left")
    PROVE  /\ History(<<move>> \o list, now) /\ Len(<<move>> \o list) = Len(list) + 1
           /\ (<<move>> \o list)[1] = move
<1> DEFINE all == <<move>> \o list
<1>1. list \in Seq(ClientMove) /\ Len(list) \in Nat /\ DOMAIN list = 1..Len(list)
  BY DEF History
<1>2. /\ all \in Seq(ClientMove) /\ Len(all) = Len(list) + 1 /\ DOMAIN all = 1..(Len(list) + 1)
      /\ all[1] = move /\ \A k \in 1..Len(list) : all[k + 1] = list[k]
  BY <1>1
<1> HIDE DEF all
<1>3. \A k \in 2..(Len(list) + 1) : k - 1 \in 1..Len(list) /\ all[k] = list[k - 1]
  BY <1>1, <1>2
<1>4. \A i \in DOMAIN all : all[i].at <= now
  <2>1. \A k \in 1..Len(list) : list[k].at <= now
    BY <1>1 DEF History
  <2> QED BY <1>1, <1>2, <1>3, <2>1
<1>5. \A k \in 1..Len(list) : list[k].at \in Int /\ list[k].at <= move.at
  <2> SUFFICES ASSUME NEW k \in 1..Len(list) PROVE list[k].at \in Int /\ list[k].at <= move.at
    OBVIOUS
  <2>1. list[k].at \in Int /\ list[1].at \in Int /\ move.at \in Int
    <3>1. 1 \in 1..Len(list)
      BY <1>1
    <3> QED BY <1>1, <3>1, MoveIs DEF ClientMove
  <2>2. list[k].at <= list[1].at
    BY <1>1, <2>1 DEF History
  <2> QED BY <1>1, <2>1, <2>2
<1>6. \A i, j \in DOMAIN all : i < j => all[j].at <= all[i].at
  <2> SUFFICES ASSUME NEW i \in DOMAIN all, NEW j \in DOMAIN all, i < j PROVE all[j].at <= all[i].at
    OBVIOUS
  <2>1. j \in 2..(Len(list) + 1) /\ (i = 1 \/ i \in 2..(Len(list) + 1))
    BY <1>1, <1>2
  <2>2. CASE i = 1
    BY <1>2, <1>3, <1>5, <2>1, <2>2
  <2>3. CASE i \in 2..(Len(list) + 1)
    BY SMTT(30), <1>1, <1>3, <2>1, <2>3 DEF History
  <2> QED BY <2>1, <2>2, <2>3
<1>7. \A i \in 1..(Len(all) - 1) : (all[i].kind = "joined") <=> (all[i + 1].kind = "left")
  <2> SUFFICES ASSUME NEW i \in 1..Len(list) PROVE (all[i].kind = "joined") <=> (all[i + 1].kind = "left")
    BY <1>1, <1>2
  <2>1. CASE i = 1
    BY <1>1, <1>2, <2>1
  <2>2. CASE i \in 2..Len(list)
    <3>1. i - 1 \in 1..(Len(list) - 1) /\ all[i] = list[i - 1] /\ all[i + 1] = list[(i - 1) + 1]
      BY <1>1, <1>2, <1>3, <2>2
    <3> QED BY <3>1 DEF History
  <2> QED BY <1>1, <2>1, <2>2
<1>8. History(all, now)
  BY <1>2, <1>4, <1>6, <1>7 DEF History
<1> QED BY <1>2, <1>8 DEF all

LEMMA StaysFollowing ==
    ASSUME NEW m, NEW now \in Int, NEW later \in Int, now <= later, Following(m, now)
    PROVE  Following(m, later)
<1>1. ASSUME NEW c \in Client PROVE Follows(m, c, later)
  <2>1. History(m.byClient[c], later)
    <3>1. History(m.byClient[c], now)
      BY DEF Following, Follows
    <3>2. \A i \in DOMAIN m.byClient[c] : m.byClient[c][i].at \in Int
      <4>1. m.byClient[c] \in Seq(ClientMove)
        BY <3>1 DEF History
      <4>2. DOMAIN m.byClient[c] = 1..Len(m.byClient[c])
        BY <4>1
      <4> QED BY <4>1, <4>2, MoveIs
    <3> QED BY <3>1, <3>2 DEF History
  <2> QED BY <2>1 DEF Following, Follows
<1> QED BY <1>1 DEF Following, PlaceState

(* Where each client's moves are after a read. *)

LEMMA StartsFollowing ==
    ASSUME NEW m, NEW now \in Nat, NEW online, DOMAIN online \subseteq Client, \A c \in DOMAIN online : online[c] \in Access,
           m.places = [c \in DOMAIN online |-> PlaceOf(online[c])], m.byClient = [c \in Client |-> <<>>]
    PROVE  Following(m, now)
<1>1. \A c \in DOMAIN m.places : m.places[c] \in PlaceState /\ m.places[c].since <= now
  BY DEF PlaceOf, PlaceState
<1>2. History(<<>>, now) /\ Len(<<>>) = 0
  <2>1. <<>> \in Seq(ClientMove) /\ Len(<<>>) = 0 /\ DOMAIN <<>> = 1..0
    OBVIOUS
  <2> QED BY <2>1 DEF History
<1>3. \A c \in Client : Follows(m, c, now)
  BY <1>2 DEF Follows
<1> QED BY <1>1, <1>3 DEF Following

LEMMA GoesOnFollowing ==
    ASSUME NEW m, NEW now \in Nat, Following(m, now), m.began, NEW remembered,
           NEW online, DOMAIN online \subseteq Client, \A c \in DOMAIN online : online[c] \in Access
    PROVE  Following(UpdateMoves(m, online, now, remembered), now)
<1> DEFINE here == DOMAIN online
           placed == DOMAIN m.places
           gone == {c \in placed \ here : Gone(m.places[c], now)}
           fresh(c) == IF c \in here THEN MoveOf(m, c, online[c], now)
                       ELSE Told(c \in gone, Move(Missed(m.places[c], now).since, "left"))
           all(c) == (IF c \in here \cup placed THEN fresh(c) ELSE <<>>) \o m.byClient[c]
           next == UpdateMoves(m, online, now, remembered)
           there == (here \cup placed) \ gone
<1>1. placed \subseteq Client /\ \A c \in placed : m.places[c] \in PlaceState /\ m.places[c].since <= now
  BY DEF Following
<1>2. next.places = [c \in there |-> IF c \in here THEN PlaceOf(online[c]) ELSE Missed(m.places[c], now)]
  BY DEF UpdateMoves, Placed
<1>3. \A c \in Client : next.byClient[c] = <<>> \/ next.byClient[c] = FirstOf(MovesKept, Recent(all(c), now))
  BY DEF UpdateMoves
<1> HIDE DEF next
<1>4. ASSUME NEW c \in placed
      PROVE  LET was == m.places[c]
                 missed == Missed(was, now)
             IN  /\ missed \in PlaceState /\ missed.missed > 0
                 /\ missed.since = IF was.missed = 0 THEN now ELSE was.since
                 /\ missed.since <= now
  <2>1. m.places[c] \in PlaceState /\ m.places[c].since <= now
    BY <1>1
  <2>2. Missed(m.places[c], now) = [where  |-> m.places[c].where, missed |-> m.places[c].missed + 1,
                                    since  |-> IF m.places[c].missed = 0 THEN now ELSE m.places[c].since]
    <3> DEFINE was == m.places[c]
               k == [was EXCEPT !.missed = @ + 1]
    <3>1. k = [where |-> was.where, missed |-> was.missed + 1, since |-> was.since]
      BY <2>1 DEF PlaceState
    <3>2. Missed(was, now) = [k EXCEPT !.since = IF was.missed = 0 THEN now ELSE k.since]
      BY DEF Missed
    <3> HIDE DEF was, k
    <3>3. Missed(was, now) = [where |-> was.where, missed |-> was.missed + 1,
                              since |-> IF was.missed = 0 THEN now ELSE was.since]
      BY <3>1, <3>2
    <3> QED BY <3>3 DEF was
  <2> QED BY <2>1, <2>2 DEF PlaceState
<1>5. DOMAIN next.places = there /\ there \subseteq Client
  BY <1>1, <1>2
<1>6. ASSUME NEW c \in there PROVE next.places[c] \in PlaceState /\ next.places[c].since <= now
  <2>1. CASE c \in here
    <3>1. next.places[c] = PlaceOf(online[c])
      BY <1>2, <2>1
    <3> QED BY <2>1, <3>1 DEF PlaceOf, PlaceState
  <2>2. CASE c \notin here
    <3>1. c \in placed /\ next.places[c] = Missed(m.places[c], now)
      BY <1>2, <2>2
    <3> QED BY <1>4, <3>1
  <2> QED BY <2>1, <2>2
<1>7. ASSUME NEW c \in there
       PROVE  /\ c \in here => next.places[c].missed = 0
              /\ c \notin here => c \in placed /\ next.places[c] = Missed(m.places[c], now)
  BY <1>2 DEF PlaceOf
<1>8. ASSUME NEW c \in Client
      PROVE  LET list == all(c) IN
             /\ History(list, now)
             /\ Len(list) > 0 => (list[1].kind = "left" <=> c \notin there)
             /\ Len(list) > 0 /\ c \in there /\ next.places[c].missed > 0 => list[1].at <= next.places[c].since
  <2> DEFINE old == m.byClient[c]
  <2>1. /\ History(old, now)
        /\ Len(old) > 0 => (old[1].kind = "left" <=> c \notin placed)
        /\ Len(old) > 0 /\ c \in placed /\ m.places[c].missed > 0 => old[1].at <= m.places[c].since
    BY DEF Following, Follows
  <2>2. old \in Seq(ClientMove) /\ Len(old) \in Nat /\ <<>> \o old = old
        /\ (Len(old) > 0 => old[1].at \in Int /\ old[1].at <= now)
    <3>1. old \in Seq(ClientMove) /\ Len(old) \in Nat /\ DOMAIN old = 1..Len(old)
      BY <2>1 DEF History
    <3>2. <<>> \o old = old
      BY <3>1
    <3>3. Len(old) > 0 => 1 \in 1..Len(old)
      BY <3>1
    <3> QED BY <2>1, <3>1, <3>2, <3>3, MoveIs DEF History
  <2> HIDE DEF old
  \* Nothing fresh: it stays in its place, or stays away.
  <2>3. CASE all(c) = old /\ (c \in placed <=> c \in there)
    <3>1. c \in there /\ next.places[c].missed > 0 => c \in placed /\ c \notin here /\ next.places[c] = Missed(m.places[c], now)
      <4> HIDE DEF all, here, placed, there
      <4> QED BY <1>7
    <3>2. Len(old) > 0 /\ c \in there /\ next.places[c].missed > 0 => old[1].at <= next.places[c].since
      BY <1>1, <1>4, <2>1, <2>2, <3>1 DEF PlaceState
    <3> QED BY <2>1, <2>3, <3>2
  \* A fresh move is of where it is now, and no earlier than the last.
  <2>4. ASSUME NEW move \in ClientMove, all(c) = <<move>> \o old, move.at <= now, Len(old) > 0 => old[1].at <= move.at,
               move.kind = "joined" <=> c \notin placed, move.kind = "left" <=> c \notin there,
               c \in there => c \in here
        PROVE  LET list == all(c) IN
               /\ History(list, now)
               /\ Len(list) > 0 => (list[1].kind = "left" <=> c \notin there)
               /\ Len(list) > 0 /\ c \in there /\ next.places[c].missed > 0 => list[1].at <= next.places[c].since
    <3> HIDE DEF all, here, placed, there
    <3>1. c \in there => next.places[c].missed = 0
      BY <1>7, <2>4
    <3>2. Len(old) > 0 => (move.kind = "joined" <=> old[1].kind = "left")
      BY <2>1, <2>4
    <3>3. History(<<move>> \o old, now) /\ (<<move>> \o old)[1] = move
      BY <2>1, <2>4, <3>2, OneMore
    <3> QED BY <2>4, <3>1, <3>3
  <2>5. CASE c \in here /\ c \notin placed
    <3> DEFINE move == Move(now, "joined")
    <3>1. all(c) = <<move>> \o old
      BY <2>5 DEF MoveOf, old
    <3>2. c \in there /\ move \in ClientMove /\ move.at = now /\ move.kind = "joined"
      BY <2>5 DEF Move, ClientMove
    <3>3. move.at <= now /\ (Len(old) > 0 => old[1].at <= move.at)
      BY <2>2, <3>2
    <3> HIDE DEF move, all, there
    <3> QED BY ZenonT(60), <2>4, <2>5, <3>1, <3>2, <3>3
  <2>6. CASE c \in here /\ c \in placed
    <3> DEFINE move == Move(now, "roamed")
    <3>1. c \in there /\ move \in ClientMove /\ move.at = now /\ move.kind = "roamed"
      BY <2>6 DEF Move, ClientMove
    <3>2. all(c) = <<move>> \o old \/ all(c) = old
      BY <2>2, <2>6 DEF MoveOf, Told, old
    <3>3. move.at <= now /\ (Len(old) > 0 => old[1].at <= move.at)
      BY <2>2, <3>1
    <3> HIDE DEF move, all, there
    <3>4. CASE all(c) = <<move>> \o old
      BY ZenonT(60), <2>4, <2>6, <3>1, <3>3, <3>4
    <3>5. CASE all(c) = old
      BY ZenonT(60), <2>3, <2>6, <3>1, <3>5
    <3> QED BY <3>2, <3>4, <3>5
  <2>7. CASE c \notin here /\ c \in placed /\ c \in gone
    <3> DEFINE move == Move(Missed(m.places[c], now).since, "left")
    <3>1. all(c) = <<move>> \o old
      BY <2>7 DEF Told, old
    <3>2. Missed(m.places[c], now).since \in Int /\ Missed(m.places[c], now).since <= now
      BY <1>4, <2>7 DEF PlaceState
    <3>3. c \notin there /\ move \in ClientMove /\ move.at = Missed(m.places[c], now).since /\ move.kind = "left"
      BY <2>7, <3>2 DEF Move, ClientMove
    <3>4. Len(old) > 0 => old[1].at <= move.at
      BY <1>1, <1>4, <2>1, <2>2, <2>7, <3>3 DEF PlaceState
    <3> HIDE DEF move
    <3> QED BY <2>4, <2>7, <3>1, <3>2, <3>3, <3>4
  <2>8. CASE c \notin here /\ c \in placed /\ c \notin gone
    <3>1. all(c) = old
      BY <2>2, <2>8 DEF Told, old
    <3> QED BY <2>3, <2>8, <3>1
  <2>9. CASE c \notin here /\ c \notin placed
    <3>1. all(c) = old
      BY <2>2, <2>9 DEF old
    <3> QED BY <2>3, <2>9, <3>1
  <2> QED BY <2>5, <2>6, <2>7, <2>8, <2>9
<1>9. ASSUME NEW c \in Client PROVE Follows(next, c, now)
  <2>1. CASE next.byClient[c] = <<>>
    <3>1. History(<<>>, now) /\ Len(<<>>) = 0
      <4>1. <<>> \in Seq(ClientMove) /\ Len(<<>>) = 0 /\ DOMAIN <<>> = 1..0
        OBVIOUS
      <4> QED BY <4>1 DEF History
    <3> QED BY <2>1, <3>1 DEF Follows
  <2>2. CASE next.byClient[c] = FirstOf(MovesKept, Recent(all(c), now))
    <3> DEFINE list == all(c)
    <3>1. /\ History(list, now)
          /\ Len(list) > 0 => (list[1].kind = "left" <=> c \notin there)
          /\ Len(list) > 0 /\ c \in there /\ next.places[c].missed > 0 => list[1].at <= next.places[c].since
      BY <1>8
    <3> HIDE DEF list
    <3>2. PICK k \in 0..Len(list) : FirstOf(MovesKept, Recent(list, now)) = [i \in 1..k |-> list[i]]
      BY <3>1, KeptOf
    <3>3. next.byClient[c] = [i \in 1..k |-> list[i]]
      BY <2>2, <3>2 DEF list
    <3>4. /\ History(next.byClient[c], now) /\ Len(next.byClient[c]) = k
          /\ k > 0 => Len(list) > 0 /\ next.byClient[c][1] = list[1]
      BY <3>1, <3>3, FirstsFollow
    <3> QED BY <1>5, <3>1, <3>4 DEF Follows
  <2> QED BY <1>3, <2>1, <2>2
<1> QED BY <1>5, <1>6, <1>9 DEF Following, next

\* What the loop and its files have of the moves: as before, from each other, of a read, or nothing.
LEMMA MovesComeFrom ==
    ASSUME Clocked, [Next]_vars
    PROVE  \/ \A kept \in {state'.kept, ram', flash'} : kept.moves \in {state.kept.moves, ram.moves, flash.moves, NoMoves}
           \/ /\ Collects
              /\ \E slow : LET next == Digest(Read(slow), state) IN
                  \A kept \in {state'.kept, ram', flash'} :
                      kept.moves \in {state.kept.moves, ram.moves, flash.moves, NoMoves, next.kept.moves}
<1> DEFINE Old == {state.kept.moves, ram.moves, flash.moves, NoMoves}
<1>1. "moves" \in Kept /\ NothingKept.moves = NoMoves
  BY DEF Kept, NothingKept
<1>2. ASSUME NEW from, NEW to, NEW only, NEW failing
      PROVE  CopyKept(from, to, only, failing).moves \in {from.moves, to.moves}
  BY <1>1 DEF CopyKept
<1>3. \A kept : NewState(kept).kept = kept
  BY DEF NewState
<1>4. CASE Starts
  <2>1. PICK failing : ram' = CopyKept(flash, ram, TRUE, failing)
    BY <1>4 DEF Starts
  <2>2. state' = NewState(ram') /\ flash' = flash
    BY <1>4 DEF Starts
  <2>3. ram'.moves \in {flash.moves, ram.moves}
    BY <1>2, <2>1
  <2>4. state'.kept.moves = ram'.moves
    BY <1>3, <2>2
  <2> QED BY <2>2, <2>3, <2>4
<1>5. CASE Copies
  <2>1. state' = state /\ ram' = ram /\ (flash' = flash \/ \E failing : flash' = CopyKept(ram, flash, FALSE, failing))
    BY <1>5 DEF Copies
  <2>2. flash'.moves \in {ram.moves, flash.moves}
    <3>1. CASE flash' = flash
      BY <3>1
    <3>2. CASE \E failing : flash' = CopyKept(ram, flash, FALSE, failing)
      <4>1. PICK failing : flash' = CopyKept(ram, flash, FALSE, failing)
        BY <3>2
      <4> QED BY <1>2, <4>1
    <3> QED BY <2>1, <3>1, <3>2
  <2> QED BY <2>1, <2>2
<1>6. CASE Stops
  <2>1. state' = NewState(NothingKept) /\ ram' = ram /\ \E failing : flash' = CopyKept(ram, flash, FALSE, failing)
    BY <1>6 DEF Stops, Ends
  <2>2. flash'.moves \in {ram.moves, flash.moves}
    <3>1. PICK failing : flash' = CopyKept(ram, flash, FALSE, failing)
      BY <2>1
    <3> QED BY <1>2, <3>1
  <2>3. state'.kept.moves = NoMoves
    BY <1>1, <1>3, <2>1
  <2> QED BY <2>1, <2>2, <2>3
<1>7. CASE Killed
  BY <1>1, <1>3, <1>7 DEF Killed, Ends, files
<1>8. CASE PowerLost
  BY <1>1, <1>3, <1>8 DEF PowerLost, Ends
<1>9. CASE Loops \/ Sleeps \/ Tick
  BY <1>9 DEF Loops, Sleeps, Tick, files
<1>10. CASE \/ Answered \/ ReadsItself \/ KeepsItsRead \/ Applies \/ UNCHANGED vars
            \/ \E e \in Device : Falls(e) \/ Boots(e) \/ (\E s \in Service : ServiceTurns(e, s))
            \/ \E l \in Line : LineTurns(l)
            \/ \E c \in Client : Goes(c)
  <2>1. UNCHANGED <<state, ram, flash>>
    BY <1>10 DEF Answered, ReadsItself, KeepsItsRead, Applies, vars, files, Falls, Boots, ServiceTurns, LineTurns, Goes, Changes, Becomes
  <2> QED BY <2>1
<1>11. CASE Collects
  <2> DEFINE New(next) == Old \cup {next.kept.moves}
  <2>1. ASSUME NEW next, NEW names, Written(next, names)
        PROVE  ram'.moves \in New(next)
    BY <1>1, <2>1 DEF Written
  <2>2. flash' = flash
    BY <1>11 DEF Collects
  <2>3. PICK slow \in SUBSET {d \in Device : Answers(d)} :
          LET next == Digest(Read(slow), state) IN
          (\E names : Written(next, names)) /\ (state' = next \/ state' = state \/ state' = NewState(NothingKept))
    BY <1>11 DEF Collects
  <2> DEFINE next == Digest(Read(slow), state)
  <2> HIDE DEF next
  <2>4. ram'.moves \in New(next) /\ state'.kept.moves \in New(next)
    BY <1>1, <1>3, <2>1, <2>3 DEF next
  <2>5. \A kept \in {state'.kept, ram', flash'} : kept.moves \in New(next)
    BY <2>2, <2>4
  <2> QED BY <1>11, <2>5 DEF next
<1> QED BY <1>4, <1>5, <1>6, <1>7, <1>8, <1>9, <1>10, <1>11, NextIs

LEMMA InitFollow == Init => MovesFollow
<1> SUFFICES ASSUME Init PROVE MovesFollow
  OBVIOUS
<1>1. Following(NoMoves, t)
  <2> DEFINE none == [c \in {} |-> c]
  <2>1. t \in Nat /\ DOMAIN none \subseteq Client
    BY DEF Init
  <2>2. NoMoves.places = [c \in DOMAIN none |-> PlaceOf(none[c])] /\ NoMoves.byClient = [c \in Client |-> <<>>]
    BY DEF NoMoves
  <2> QED BY <2>1, <2>2, StartsFollowing
<1>2. state.kept.moves = NoMoves /\ ram.moves = NoMoves /\ flash.moves = NoMoves
  BY DEF Init, NewState, NothingKept
<1> QED BY <1>1, <1>2 DEF MovesFollow

LEMMA StepFollow == Clocked /\ MovesFollow /\ [Next]_vars => MovesFollow'
<1> SUFFICES ASSUME Clocked, MovesFollow, [Next]_vars PROVE MovesFollow'
  OBVIOUS
<1>1. t \in Nat /\ t' \in Nat /\ t <= t'
  <2>1. t' = t \/ t' = t + 1
    BY CollectsDoes, TickDoes, LoopDoes, OthersDo, NextIs
  <2> QED BY <2>1 DEF Clocked
<1>2. Following(NoMoves, t)
  <2> DEFINE none == [c \in {} |-> c]
  <2>1. NoMoves.places = [c \in DOMAIN none |-> PlaceOf(none[c])] /\ NoMoves.byClient = [c \in Client |-> <<>>]
    BY DEF NoMoves
  <2> QED BY <1>1, <2>1, StartsFollowing
<1>3. \A m \in {state.kept.moves, ram.moves, flash.moves, NoMoves} : Following(m, t')
  BY <1>1, <1>2, StaysFollowing DEF MovesFollow
<1>4. ASSUME NEW slow PROVE Following(Digest(Read(slow), state).kept.moves, t)
  <2> DEFINE m == state.kept.moves
             online == Read(slow).online
             remembered == DOMAIN UpdateRegistry(state.kept.registry, DOMAIN online, t).first
  <2>1. Digest(Read(slow), state).kept.moves = UpdateMoves(m, online, t, remembered)
    BY DEF Digest
  <2>2. DOMAIN online \subseteq Client /\ \A c \in DOMAIN online : online[c] \in Access
    BY DEF Read, Clocked, NetState
  <2>3. Following(m, t)
    BY DEF MovesFollow
  <2> HIDE DEF m, online, remembered
  <2>4. CASE m.began
    BY <1>1, <2>1, <2>2, <2>3, <2>4, GoesOnFollowing
  <2>5. CASE ~m.began
    <3>1. UpdateMoves(m, online, t, remembered) = [NoMoves EXCEPT !.began = TRUE, !.places = [c \in DOMAIN online |-> PlaceOf(online[c])]]
      BY <2>5 DEF UpdateMoves
    <3>2. /\ UpdateMoves(m, online, t, remembered).places = [c \in DOMAIN online |-> PlaceOf(online[c])]
          /\ UpdateMoves(m, online, t, remembered).byClient = [c \in Client |-> <<>>]
      BY <3>1 DEF NoMoves
    <3> QED BY <1>1, <2>1, <2>2, <3>2, StartsFollowing
  <2> QED BY <2>4, <2>5
<1>5. \A kept \in {state'.kept, ram', flash'} : Following(kept.moves, t')
  <2>1. CASE \A kept \in {state'.kept, ram', flash'} : kept.moves \in {state.kept.moves, ram.moves, flash.moves, NoMoves}
    BY <1>3, <2>1
  <2>2. CASE Collects /\ \E slow : LET next == Digest(Read(slow), state) IN
                  \A kept \in {state'.kept, ram', flash'} :
                      kept.moves \in {state.kept.moves, ram.moves, flash.moves, NoMoves, next.kept.moves}
    <3>1. t' = t
      BY <2>2, CollectsDoes
    <3> QED BY <1>3, <1>4, <2>2, <3>1
  <2> QED BY <2>1, <2>2, MovesComeFrom
<1> QED BY <1>5 DEF MovesFollow

-----------------------------------------------------------------------------
(* The theorems: for any devices, paces, times, faults and requests. *)

IInv == Clocked /\ SnapshotPaced /\ MissesPaced

LEMMA Always == Spec => []IInv
<1>1. Init => IInv
  BY InitClocked, InitPaced, InitMisses DEF IInv
<1>2. IInv /\ [Next]_vars => IInv'
  BY StepClocked, StepPaced, StepMisses DEF IInv
<1> QED BY <1>1, <1>2, PTL DEF Spec

\* A loop that goes on keeps its snapshot fresh, so that no request reads the
\* devices beside it (snapshotFreshMs): a read begins within the slow pace of
\* the last one's end and takes no longer than its time.
THEOREM SnapshotAlwaysFresh == Spec => []SnapshotStaysFresh
<1>1. IInv => SnapshotStaysFresh
  <2> SUFFICES ASSUME Clocked, SnapshotPaced, t - quiet > Reading PROVE FreshSnapshot
    BY DEF IInv, SnapshotStaysFresh
  <2>1. /\ t \in Nat /\ quiet \in Int /\ quiet >= 0 /\ snapshot \in Int /\ loop.lastRead \in Int
        /\ Unwatched \in Nat /\ ReadTakes \in Nat /\ SnapshotFresh \in Nat /\ SnapshotFresh > Unwatched + ReadTakes
        /\ loop.at \in {"off", "sleeping", "reading", "copying"}
        /\ loop.at = "reading" => t <= loop.lastRead + ReadTakes
    BY Sizes DEF Clocked, LoopState
  <2>2. Later(snapshot, quiet) \in Int
    BY <2>1 DEF Later
  <2>3. t <= Later(snapshot, quiet) + Unwatched + ReadTakes
    BY <2>1, <2>2 DEF SnapshotPaced, PacedNow, Paced
  <2>4. Later(snapshot, quiet) = snapshot /\ snapshot >= 0
    BY <2>1, <2>3 DEF Later, Reading
  <2> QED BY <2>1, <2>3, <2>4, Sizes DEF FreshSnapshot
<1> QED BY <1>1, Always, PTL

\* A device down is said so within two reads and what they take, counted from
\* when it fell or the loop went on undisturbed (missesForLost).
THEOREM OutageAlwaysTold == Spec => []OutageTold
<1>1. IInv => OutageTold
  <2> SUFFICES ASSUME Clocked, MissesPaced, NEW d \in Device, ~net.up[d], state.observed.devices[d].seen,
                      t - Later(net.boot[d], quiet) > 2 * Reading, ~state.observed.devices[d].lost
               PROVE  FALSE
    BY DEF IInv, OutageTold
  <2> DEFINE misses == state.observed.devices[d].misses
             from == Later(net.boot[d], quiet)
  <2>1. /\ t \in Nat /\ quiet \in Int /\ net.boot[d] \in Int /\ loop.lastRead \in Int
        /\ Unwatched \in Nat /\ ReadTakes \in Nat
        /\ loop.at \in {"off", "sleeping", "reading", "copying"}
        /\ loop.at = "reading" => t <= loop.lastRead + ReadTakes
        /\ misses \in {0, 1}
    BY Sizes DEF Clocked, LoopState, NetState, SeenState
  <2>2. from \in Int
    BY <2>1 DEF Later
  <2>3. PacedNow(DownSince(d)) /\ DownSince(d) = from + misses * (Unwatched + ReadTakes)
    BY DEF MissesPaced, Missing, DownSince
  <2> HIDE DEF misses, from
  <2>4. DownSince(d) \in Int /\ DownSince(d) <= from + Unwatched + ReadTakes
    BY <2>1, <2>2, <2>3
  <2>5. t <= DownSince(d) + Unwatched + ReadTakes
    BY <2>1, <2>3, <2>4 DEF PacedNow, Paced
  <2>6. t - from > 2 * (Unwatched + ReadTakes)
    BY DEF Reading, from
  <2> QED BY <2>1, <2>2, <2>4, <2>5, <2>6
<1> QED BY <1>1, Always, PTL

\* Each client's moves follow one from another, in memory and in every copy,
\* whatever is lost, stopped or taken back from flash (updateMoves): where a
\* client is goes with its newest move, and the old are dropped from the end.
THEOREM MovesAlwaysInTurn == Spec => []MovesInTurn
<1>1. MovesFollow => MovesInTurn
  <2> SUFFICES ASSUME MovesFollow, NEW kept \in {state.kept, ram, flash}, NEW c \in Client
               PROVE  \A i \in 1..(Len(kept.moves.byClient[c]) - 1) :
                          (kept.moves.byClient[c][i].kind = "joined") <=> (kept.moves.byClient[c][i + 1].kind = "left")
    BY DEF MovesInTurn
  <2>1. Following(kept.moves, t)
    BY DEF MovesFollow
  <2> QED BY <2>1 DEF Following, Follows, History
<1>2. Clocked /\ MovesFollow /\ [Next]_vars => (Clocked /\ MovesFollow)'
  BY StepClocked, StepFollow
<1> QED BY <1>1, <1>2, InitClocked, InitFollow, PTL DEF Spec
===========================================================================
