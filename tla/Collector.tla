----------------------------- MODULE Collector -----------------------------
(***************************************************************************)
(* The status collector (src/status/collector.ts) on a router: one loop    *)
(* that reads the devices, faster while a page is looked at, never while   *)
(* an apply runs; keeps what it made of the reads in files in RAM; and     *)
(* copies those to flash every hour and as it stops, from where it starts  *)
(* again.  Beside it, the requests of the Status pages, which read the     *)
(* devices themselves where the collector has not.                         *)
(*                                                                         *)
(* Files may fail to be written; the collector may be killed, its device   *)
(* lose power.  Graphs are modelled by the last reading in them.           *)
(***************************************************************************)
EXTENDS StatusEvents

CONSTANTS
    Watched, Unwatched, \* watchedEveryMs, unwatchedEveryMs
    Watching,           \* watchingForMs
    SnapshotFresh,      \* snapshotFreshMs
    Bucket, MonthBucket,\* bucketMs, the month's bucketMs
    Hour,
    ReadTakes,          \* the most a read takes: read.ts's timeoutMs
    BootTakes,          \* the least a device takes from its start to answering
    Access,             \* where a client may be: access points and "cable"
    MaxTime,            \* bound: the clock
    BusyUntil,          \* bound: when the last of what Bounds counts happens
    Bounds              \* bound: how often, in one behaviour, each of: device, line, service, client, apply, ask (a request),
                        \* fault (a write failed, a slow answer, a stop, a kill, power lost)

ASSUME TimesAssumption ==
    /\ {Watched, Unwatched, Watching, SnapshotFresh, Bucket, MonthBucket, Hour, ReadTakes, BootTakes, MaxTime, BusyUntil} \subseteq Nat
    /\ Bounds \subseteq [{"device", "line", "service", "client", "apply", "ask", "fault"} -> Nat]
    /\ Watched \in 1..Unwatched /\ Bucket > 0 /\ MonthBucket > 0
    /\ SnapshotFresh > Unwatched + ReadTakes    \* "unwatchedEveryMs + 30_000", and a read takes 12 s at most
    /\ Slack <= BootTakes               \* no device answers within slackSeconds of its start

VARIABLES
    t,          \* the clock
    net,        \* the devices and what they would say: up, since when, lines, services, where each client is
    apply,      \* this app's last apply: when it began, and how it is
    loop,       \* the collector: where its loop is, when it last read and copied
    state,      \* what it carries from one read to the next
    snapshot,   \* status.json: when its devices were read, or Never
    wanted,     \* when a page last asked, or Never
    ram, flash, \* the files worth keeping: where the loop writes them, and their copies
    asking,     \* a request: "idle", or "reading" the devices itself
    quiet,      \* history: since when the loop goes on with no apply and no fault
    booted,     \* history: when each device began to start, each time
    left        \* what the bounds still allow

world == <<net, apply>>
files == <<snapshot, wanted, ram, flash>>
vars == <<t, world, loop, state, files, asking, quiet, booted, left>>

Never == -1
NothingKept == [events |-> <<>>, registry |-> NoRegistry, moves |-> NoMoves, day |-> Never, month |-> Never]
Kept == DOMAIN NothingKept
NewState(kept) == [kept |-> kept, observed |-> NotObserved, applyTold |-> Never, savedBucket |-> Never]
Off == [at |-> "off", lastRead |-> Never, lastCopied |-> Never]

Spends(what) == t <= BusyUntil /\ left[what] > 0 /\ left' = [left EXCEPT ![what] = @ - 1]
Fault == Spends("fault") /\ quiet' = t /\ UNCHANGED booted
Fine == UNCHANGED <<left, quiet, booted>>
LoopAt(p) == loop' = [loop EXCEPT !.at = p]

Applying == apply.how = "running"

-----------------------------------------------------------------------------
(* copyKept *)

Holds(kept, f) == kept[f] # NothingKept[f]
CopiesMissing(from, to, onlyMissing, failing) ==              \* mutant: only what is not there yet
    [f \in Kept |-> IF Holds(from, f) /\ ~Holds(to, f) /\ f \notin failing THEN from[f] ELSE to[f]]
CopyKept(from, to, onlyMissing, failing) ==
    [f \in Kept |-> IF Holds(from, f) /\ ~(onlyMissing /\ Holds(to, f)) /\ f \notin failing THEN from[f] ELSE to[f]]

\* Which copies fail: none, or one.
Failing(failing) == \/ failing = {} /\ Fine
                    \/ \E f \in Kept : failing = {f} /\ Fault

-----------------------------------------------------------------------------
(* The loop. *)

Starts ==
    /\ loop.at = "off"
    /\ \E failing \in {{}} \cup {{f} : f \in Kept} :
        /\ Failing(failing)
        /\ ram' = CopyKept(flash, ram, TRUE, failing)
    /\ state' = NewState(ram')
    /\ loop' = [Off EXCEPT !.at = "sleeping"]
    /\ UNCHANGED <<t, world, snapshot, wanted, flash, asking>>

Pace == IF wanted # Never /\ t - wanted < Watching THEN Watched ELSE Unwatched
ReadDue == loop.lastRead = Never \/ t - loop.lastRead >= Pace
CopyDue == loop.lastCopied = Never \/ t - loop.lastCopied >= Hour

Loops ==
    /\ loop.at = "sleeping" /\ ReadDue /\ ~Applying
    /\ loop' = [loop EXCEPT !.at = "reading", !.lastRead = t]
    /\ Fine /\ UNCHANGED <<t, world, state, files, asking>>

\* Not at the start: what it would copy was just taken from there.
Copies ==
    /\ CopyDue
    /\ loop.at = "copying" \/ (loop.at = "sleeping" /\ (ReadDue => Applying))
    /\ loop' = [loop EXCEPT !.at = "sleeping", !.lastCopied = t]
    /\ IF loop.lastCopied = Never THEN Fine /\ UNCHANGED flash
       ELSE \E failing \in {{}} \cup {{f} : f \in Kept} :
               Failing(failing) /\ flash' = CopyKept(ram, flash, FALSE, failing)
    /\ UNCHANGED <<t, world, state, snapshot, wanted, ram, asking>>

Sleeps ==
    /\ loop.at = "copying" /\ ~CopyDue
    /\ LoopAt("sleeping")
    /\ Fine /\ UNCHANGED <<t, world, state, files, asking>>

-----------------------------------------------------------------------------
(* collectOnce: what the devices said, digested, and written.              *)

Answers(d) == net.up[d] /\ t - net.boot[d] >= BootTakes

\* What a read shows, the devices in "slow" not answering in time.
Read(slow) ==
    [at      |-> t,
     devices |-> [d \in Device |-> [reachable |-> Answers(d) /\ d \notin slow,
                                    up        |-> t - net.boot[d],
                                    stopped   |-> net.stopped[d]]],
     lines   |-> [l \in Line |-> [works |-> net.line[l].works, seconds |-> t - net.line[l].since]],
     online  |-> [c \in {c \in Client : net.at[c] # "away"} |-> net.at[c]]]

\* The last apply once it has ended, unless told already; told again after a restart, it is kept once.
ApplyEvent(told) ==
    Told(apply.how \notin {"idle", "running"} /\ apply.began # told, Event(apply.began, apply.how, "apply"))

Digest(read, s) ==
    LET online   == DOMAIN read.online
        registry == UpdateRegistry(s.kept.registry, online, t)
        observed == Observe(read, s.observed)
        applied  == ApplyEvent(s.applyTold)
        fresh    == EventsBetween(s.observed, observed)
                      \o EachOf(Fresh(s.kept.registry, registry, online, t), LAMBDA c : <<Event(t, "new client", c)>>)
                      \o applied
    IN  [kept |-> [events   |-> IF fresh = <<>> THEN s.kept.events ELSE KeepEvents(s.kept.events, fresh, t),
                   registry |-> registry,
                   moves    |-> UpdateMoves(s.kept.moves, read.online, t, DOMAIN registry.first),
                   day      |-> t, month |-> t],
         observed    |-> observed,
         applyTold   |-> IF applied = <<>> THEN s.applyTold ELSE apply.began,
         savedBucket |-> t - (t % Bucket)]

MonthOf(bucket) == bucket - (bucket % MonthBucket)

\* In their order: the snapshot, the events where they changed, the rest as a minute starts, the month's as its own does.
Writes(next) ==
    <<"snapshot">>
    \o Told(next.kept.events # state.kept.events, "events")
    \o (IF next.savedBucket = state.savedBucket THEN <<>>
        ELSE <<"day">>
             \o Told(state.savedBucket = Never \/ MonthOf(next.savedBucket) # MonthOf(state.savedBucket), "month")
             \o <<"registry", "moves">>)

Written(next, names) ==
    /\ snapshot' = IF "snapshot" \in names THEN t ELSE snapshot
    /\ ram' = [f \in Kept |-> IF f \in names THEN next.kept[f] ELSE ram[f]]

NamesTo(k, writes) == {writes[i] : i \in 1..k}

\* All written; but the events' failing is let pass, another's keeps the state the read began from; or killed on the way.
Collects ==
    /\ loop.at = "reading"
    /\ \E slow \in SUBSET {d \in Device : Answers(d)} :
        LET next == Digest(Read(slow), state)
            writes == Writes(next)
            all == NamesTo(Len(writes), writes)
        IN  \/ /\ Written(next, all) /\ state' = next /\ LoopAt("copying")
               /\ IF slow = {} THEN Fine ELSE Fault
            \/ /\ slow = {} /\ "events" \in all /\ Fault
               /\ Written(next, all \ {"events"}) /\ state' = next /\ LoopAt("copying")
            \/ /\ slow = {} /\ Fault
               /\ \E k \in 1..Len(writes) :
                    /\ writes[k] # "events"
                    /\ Written(next, NamesTo(k - 1, writes))
               /\ UNCHANGED state /\ LoopAt("copying")
            \/ /\ slow = {} /\ Fault
               /\ \E k \in 1..Len(writes) : Written(next, NamesTo(k, writes))
               /\ state' = NewState(NothingKept) /\ loop' = Off
    /\ UNCHANGED <<t, world, wanted, flash, asking>>

-----------------------------------------------------------------------------
(* Stopped, killed, its device without power; what is due begun before     *)
(* (else it is as if it had been so earlier).                              *)

\* The service is started at once, and again when it ends (procd's respawn).  The loop wakes every two seconds, which is nothing here: what is due is begun before time goes on.
Waits == \/ loop.at = "sleeping" /\ ~(ReadDue /\ ~Applying) /\ ~CopyDue
         \/ loop.at = "reading" /\ t - loop.lastRead < ReadTakes

Ends == state' = NewState(NothingKept) /\ loop' = Off

\* onStop: copied once more.
Stops ==
    /\ Waits
    /\ \E failing \in {{}} \cup {{f} : f \in Kept} :
        /\ flash' = CopyKept(ram, flash, FALSE, failing)
        /\ t <= BusyUntil /\ Cardinality(failing) < left.fault /\ left' = [left EXCEPT !.fault = @ - 1 - Cardinality(failing)]
        /\ quiet' = t /\ UNCHANGED booted
    /\ Ends
    /\ UNCHANGED <<t, world, snapshot, wanted, ram, asking>>

Killed ==
    /\ Waits
    /\ Ends /\ Fault
    /\ UNCHANGED <<t, world, files, asking>>

\* RAM is lost with the power, or after a stop with the restart of the device.
PowerLost ==
    /\ Waits /\ Ends /\ Fault
    /\ ram' = NothingKept /\ snapshot' = Never /\ wanted' = Never /\ asking' = "idle"
    /\ UNCHANGED <<t, world, flash>>

-----------------------------------------------------------------------------
(* A request of a Status page: currentStatus. *)

FreshAsPaced == snapshot # Never /\ t - snapshot < Unwatched  \* mutant: with no margin
FreshSnapshot == snapshot # Never /\ t - snapshot < SnapshotFresh

\* Answered from the snapshot, or told that settings are being applied.
Answered ==
    /\ asking = "idle" /\ (Applying \/ FreshSnapshot)
    /\ wanted' = t
    /\ Spends("ask") /\ UNCHANGED <<t, world, loop, state, snapshot, ram, flash, asking, quiet, booted>>

ReadsItself ==
    /\ asking = "idle" /\ ~Applying /\ ~FreshSnapshot
    /\ wanted' = t /\ asking' = "reading"
    /\ Spends("ask") /\ UNCHANGED <<t, world, loop, state, snapshot, ram, flash, quiet, booted>>

\* readAndKeep: the snapshot alone; the events and clients kept stay as they are.
KeepsItsRead ==
    /\ asking = "reading"
    /\ asking' = "idle" /\ snapshot' = t
    /\ Fine /\ UNCHANGED <<t, world, loop, state, wanted, ram, flash>>

-----------------------------------------------------------------------------
(* The network, applies and time. *)

\* What happens meanwhile, does so before time goes on.
Becomes(n, what) == Waits /\ net' = n /\ Spends(what) /\ UNCHANGED <<t, apply, loop, state, files, asking, quiet>>
Changes(n, what) == Becomes(n, what) /\ UNCHANGED booted

Falls(d) == net.up[d] /\ net.boot[d] < t /\ Changes([net EXCEPT !.up[d] = FALSE, !.boot[d] = t], "device")
Boots(d) == /\ net.boot[d] < t
            /\ Becomes([net EXCEPT !.up[d] = TRUE, !.boot[d] = t], "device")
            /\ booted' = [booted EXCEPT ![d] = @ \cup {t}]
LineTurns(l) == net.line[l].since < t /\ Changes([net EXCEPT !.line[l] = [works |-> ~@.works, since |-> t]], "line")
ServiceTurns(d, s) == Changes([net EXCEPT !.stopped[d] = (@ \ {s}) \cup ({s} \ @)], "service")
Goes(c) == \E where \in (Access \cup {"away"}) \ {net.at[c]} : Changes([net EXCEPT !.at[c] = where], "client")

Applies ==
    /\ Waits /\ apply.began < t
    /\ \/ ~Applying /\ apply' = [began |-> t, how |-> "running"]
       \/ Applying /\ \E how \in {"applied", "rolled back"} : apply' = [apply EXCEPT !.how = how]
    /\ Spends("apply") /\ quiet' = t
    /\ UNCHANGED <<t, net, loop, state, files, asking, booted>>

Tick ==
    /\ t < MaxTime /\ Waits
    /\ t' = t + 1
    /\ quiet' = IF Applying THEN t + 1 ELSE quiet
    /\ UNCHANGED <<world, loop, state, files, asking, booted, left>>

Init ==
    /\ t = 1
    /\ net = [up |-> [d \in Device |-> TRUE], boot |-> [d \in Device |-> 1 - BootTakes], stopped |-> [d \in Device |-> {}],
              line |-> [l \in Line |-> [works |-> TRUE, since |-> 0]], at |-> [c \in Client |-> "away"]]
    /\ apply = [began |-> 0, how |-> "idle"]
    /\ loop = Off /\ state = NewState(NothingKept)
    /\ snapshot = Never /\ wanted = Never /\ ram = NothingKept /\ flash = NothingKept
    /\ asking = "idle" /\ quiet = t /\ booted = [d \in Device |-> {}]
    /\ left \in Bounds

Next ==
    \/ Starts \/ Loops \/ Collects \/ Copies \/ Sleeps
    \/ Stops \/ Killed \/ PowerLost
    \/ Answered \/ ReadsItself \/ KeepsItsRead
    \/ \E d \in Device : Falls(d) \/ Boots(d) \/ (\E s \in Service : ServiceTurns(d, s))
    \/ \E l \in Line : LineTurns(l)
    \/ \E c \in Client : Goes(c)
    \/ Applies \/ Tick

Spec == Init /\ [][Next]_vars

-----------------------------------------------------------------------------
(* Properties. *)

Lists == {state.kept.events, ram.events, flash.events}
About(list, d, whats) == SelectSeq(list, LAMBDA e : e.of = d /\ e.what \in whats)

\* Whatever is written or not, lost, taken from flash or told again: a device
\* said to answer again was last said to have stopped (deviceEvents' lost and
\* seen, carried or not over a restart); but for what a full list has dropped.
ToldInTurn ==
    \A list \in Lists, d \in Device :
        LET outages == About(list, d, {"stopped answering", "answers again"})
        IN  \A i \in DOMAIN outages : outages[i].what = "answers again" =>
                IF i = Len(outages) THEN Len(list) = KeptMost ELSE outages[i + 1].what = "stopped answering"

\* A restart told is one there was, and no event is told twice: not an apply
\* after the collector, which remembers none it told, started again, nor a
\* restart seen once beside an outage and once by itself (keepEvents).
ToldOnce ==
    \A list \in Lists : \A i, j \in DOMAIN list :
        /\ list[i].what = "restarted" => list[i].at \in booted[list[i].of]
        /\ i # j => list[i] # list[j]

\* Each client's moves follow one from another: it joins where it had left,
\* and roams or leaves where it was, in memory and in every copy (the places
\* and the moves are one file).
MovesInTurn ==
    \A kept \in {state.kept, ram, flash}, c \in Client :
        LET list == kept.moves.byClient[c]
        IN  \A i \in 1..(Len(list) - 1) : (list[i].kind = "joined") <=> (list[i + 1].kind = "left")

\* How long a change waits to be read.
Reading == Unwatched + ReadTakes

\* One slow answer is no outage, but a device down is said so within two reads
\* and what they take, where the loop goes on.
OutageTold ==
    \A d \in Device :
        ~net.up[d] /\ state.observed.devices[d].seen /\ t - Later(net.boot[d], quiet) > 2 * Reading =>
            state.observed.devices[d].lost

\* A loop that goes on keeps its snapshot fresh: no request reads the devices
\* beside it (snapshotFreshMs is a slow read's pace and a margin).
SnapshotStaysFresh == t - quiet > Reading => FreshSnapshot

\* Power lost costs an hour at most, and what is between two reads and writes:
\* what a loop that went on since told or saw before is on flash.
AtMostAnHour ==
    LET before == t - Hour - Reading - Bucket IN
    quiet < before =>
        /\ \A i \in DOMAIN state.kept.events : state.kept.events[i].at < before =>
              \E j \in DOMAIN flash.events : flash.events[j] = state.kept.events[i]
        /\ \A c \in DOMAIN state.kept.registry.first : state.kept.registry.first[c] < before =>
              c \in DOMAIN flash.registry.first
        /\ before <= flash.day
=============================================================================
