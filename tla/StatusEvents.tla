---------------------------- MODULE StatusEvents ----------------------------
(***************************************************************************)
(* What the status collector makes of one read of the devices, given what  *)
(* the reads before left: what changed, told as events                     *)
(* (src/status/events.ts), where each client went (moves.ts), and who was  *)
(* ever seen (registry.ts).  Pure; Collector reads and writes around it.   *)
(*                                                                         *)
(* A read: [at, devices, lines, online].  Times are whole units, so two    *)
(* events less than two seconds apart are two at the same time.            *)
(***************************************************************************)
EXTENDS Integers, Sequences, FiniteSets, TLC, FiniteSetsExt

CONSTANTS
    Device, Router,     \* the devices, and the one the internet lines are read on
    Line, Service, Client,
    Named,              \* clients with a fixed address
    Private,            \* clients whose MAC was made up
    Slack,              \* slackSeconds
    KeptFor, KeptMost,  \* eventsKeptMs, eventsKeptMax
    MovesFor, MovesKept,
    ForgetAfter, NewFor, Settling

ASSUME FoldsAssumption ==
    /\ Router \in Device /\ Named \cup Private \subseteq Client
    /\ {Slack, KeptFor, KeptMost, MovesFor, MovesKept, ForgetAfter, NewFor, Settling} \subseteq Nat

MissesMore == 3                                               \* mutant: one more
MissesForLost == 2
GoneAfterMisses == 2

Event(at, what, of) == [at |-> at, what |-> what, of |-> of]
Told(yes, e) == IF yes THEN <<e>> ELSE <<>>
EachOf(S, F(_)) == FoldSet(LAMBDA x, told : F(x) \o told, <<>>, S)
Later(a, b) == IF a > b THEN a ELSE b
FirstOf(n, s) == SubSeq(s, 1, IF n < Len(s) THEN n ELSE Len(s))

-----------------------------------------------------------------------------
(* observe: what a read shows, carried on from the last where it shows     *)
(* nothing.                                                                *)

Unseen == [reachable |-> FALSE, up |-> 0, misses |-> 0, since |-> 0, lost |-> FALSE, seen |-> FALSE, stopped |-> {}]
NotObserved == [at |-> -1, devices |-> [d \in Device |-> Unseen], lines |-> <<>>]

LineOf(was, now, at) ==
    [works |-> now.works,
     since |-> IF now.works THEN at - now.seconds
               ELSE IF was # <<>> /\ ~was[1].works THEN was[1].since ELSE at]

\* Misses are counted no further than they tell apart.
DeviceOf(was, now, at) ==
    LET misses == IF now.reachable THEN 0 ELSE IF was.misses < MissesForLost THEN was.misses + 1 ELSE was.misses
    IN  [reachable |-> now.reachable,
         up        |-> now.up,
         misses    |-> misses,
         since     |-> IF misses = 0 THEN 0 ELSE IF was.misses > 0 THEN was.since ELSE at,
         lost      |-> misses >= MissesForLost,
         seen      |-> now.reachable \/ was.seen,
         stopped   |-> IF now.reachable THEN now.stopped ELSE was.stopped]

LineBefore(o, l) == IF l \in DOMAIN o.lines THEN <<o.lines[l]>> ELSE <<>>

Observe(read, was) ==
    [at      |-> read.at,
     devices |-> [d \in Device |-> DeviceOf(was.devices[d], read.devices[d], read.at)],
     lines   |-> IF read.devices[Router].reachable
                   THEN [l \in Line |-> LineOf(LineBefore(was, l), read.lines[l], read.at)] ELSE was.lines]

-----------------------------------------------------------------------------
(* eventsBetween: what changed from one read to the next. *)

LineEvents(l, before, after) ==
    IF LineBefore(before, l) = <<>> THEN <<>>
    ELSE LET was == before.lines[l]  now == after.lines[l] IN
         Told(was.works /\ ~now.works, Event(Later(now.since, before.at), "went down", l))
         \o Told(~was.works /\ now.works, Event(Later(now.since, before.at), "came back", l))
         \o Told(was.works /\ now.works /\ now.since > before.at + Slack, Event(now.since, "dropped and came back", l))

\* A restart shows by an uptime shorter than the silence, or than the time between two answers.
Restarted(was, now, before, after) ==
    LET gap == after.at - (IF was.misses > 0 THEN was.since ELSE before.at)
    IN  /\ now.reachable /\ now.up < gap + Slack
        /\ was.reachable => now.up + Slack < was.up + gap

BackAtOnce(was, now) == now.reachable /\ ~was.reachable /\ was.seen  \* mutant: after one slow answer
Back(was, now) == now.reachable /\ was.lost /\ was.seen

DeviceEvents(d, before, after) ==
    LET was == before.devices[d]  now == after.devices[d]
        both == was.reachable /\ now.reachable
    IN  Told(~was.lost /\ now.lost /\ was.seen, Event(now.since, "stopped answering", d))
        \o Told(Back(was, now), Event(after.at, "answers again", d))
        \o Told(Restarted(was, now, before, after), Event(after.at - now.up, "restarted", d))
        \o EachOf(IF both THEN now.stopped \ was.stopped ELSE {}, LAMBDA s : <<Event(after.at, "service stopped", <<d, s>>)>>)
        \o EachOf(IF both THEN was.stopped \ now.stopped ELSE {}, LAMBDA s : <<Event(after.at, "service runs again", <<d, s>>)>>)

EventsBetween(before, after) ==
    IF before = NotObserved THEN <<>>
    ELSE SortSeq(EachOf(DOMAIN after.lines, LAMBDA ln : LineEvents(ln, before, after))
                   \o EachOf(Device, LAMBDA d : DeviceEvents(d, before, after)),
                 LAMBDA e, f : e.at < f.at)

KeepsTwice(kept, fresh, now) == FirstOf(KeptMost, fresh \o kept)  \* mutant: one told twice kept twice

\* Kept events with fresh ones, newest first: what is told twice once, the old and the surplus dropped.
KeepEvents(kept, fresh, now) ==
    LET all == fresh \o kept
        first(i) == \A j \in 1..(i - 1) : all[j] # all[i]
        order == SortSeq(SelectSeq([i \in DOMAIN all |-> i], LAMBDA i : first(i) /\ all[i].at > now - KeptFor),
                         LAMBDA i, j : all[i].at > all[j].at \/ (all[i].at = all[j].at /\ i < j))
    IN  FirstOf(KeptMost, [k \in DOMAIN order |-> all[order[k]]])

-----------------------------------------------------------------------------
(* updateMoves: where each client went. *)

NoMoves == [began |-> FALSE, places |-> <<>>, byClient |-> [c \in Client |-> <<>>]]
PlaceOf(where) == [where |-> where, missed |-> 0, since |-> 0]
Move(at, kind) == [at |-> at, kind |-> kind]

\* On the air at one access point, then at another; to or from a cable nothing is told.
MoveOf(moves, c, now, at) ==
    IF c \notin DOMAIN moves.places THEN <<Move(at, "joined")>>
    ELSE Told("cable" \notin {moves.places[c].where, now} /\ moves.places[c].where # now, Move(at, "roamed"))

Missed(was, at) == [was EXCEPT !.missed = @ + 1, !.since = IF was.missed = 0 THEN at ELSE @]
Gone(was, at) == Missed(was, at).missed >= GoneAfterMisses

\* A list's moves of the last days, in their order: the k-th has k - 1 of them before it.
Recent(list, at) ==
    LET recent == {i \in DOMAIN list : at - list[i].at < MovesFor}
        kth(k) == CHOOSE i \in recent : Cardinality({j \in recent : j < i}) = k - 1
    IN  [k \in 1..Cardinality(recent) |-> list[kth(k)]]

KeepsGone(here, placed, gone) == here \cup placed                \* mutant: one gone kept in its place
Placed(here, placed, gone) == (here \cup placed) \ gone

UpdateMoves(moves, online, at, remembered) ==
    IF ~moves.began
    THEN [NoMoves EXCEPT !.began = TRUE, !.places = [c \in DOMAIN online |-> PlaceOf(online[c])]]
    ELSE LET here == DOMAIN online
             placed == DOMAIN moves.places
             gone == {c \in placed \ here : Gone(moves.places[c], at)}
             fresh(c) == IF c \in here THEN MoveOf(moves, c, online[c], at)
                         ELSE Told(c \in gone, Move(Missed(moves.places[c], at).since, "left"))
         IN  [began    |-> TRUE,
              places   |-> [c \in Placed(here, placed, gone) |->
                              IF c \in here THEN PlaceOf(online[c]) ELSE Missed(moves.places[c], at)],
              byClient |-> [c \in Client |->
                              IF c \notin remembered THEN <<>>
                              ELSE FirstOf(MovesKept, Recent((IF c \in here \cup placed THEN fresh(c) ELSE <<>>) \o moves.byClient[c], at))]]

-----------------------------------------------------------------------------
(* updateRegistry: everyone seen, and who of them is new.  The limit of    *)
(* 500 clients (rememberedMax) is left out.                                *)

NoRegistry == [began |-> FALSE, since |-> 0, first |-> <<>>, last |-> <<>>]

IsNew(registry, c, now) ==
    c \notin Private /\ registry.first[c] > registry.since + Settling /\ now - registry.first[c] < NewFor

UpdateRegistry(registry, online, at) ==
    LET base == IF registry.began THEN registry ELSE [NoRegistry EXCEPT !.began = TRUE, !.since = at]
        known == DOMAIN base.first
        last == [c \in known \cup online |-> IF c \in online THEN at ELSE base.last[c]]
        kept == {c \in DOMAIN last : c \in Named \/ at - last[c] < ForgetAfter}
    IN  [base EXCEPT !.first = [c \in kept |-> IF c \in known THEN base.first[c] ELSE at],
                     !.last = [c \in kept |-> last[c]]]

Fresh(before, after, online, at) == {c \in online : c \notin DOMAIN before.first /\ c \in DOMAIN after.first /\ IsNew(after, c, at)}
=============================================================================
