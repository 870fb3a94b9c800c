------------------------------ MODULE ApplyJob ------------------------------
(***************************************************************************)
(* The bookkeeping of applies (src/apply/job.ts), whoever runs them: the   *)
(* web UI's, started by one process (a request) and run by another it      *)
(* starts, and the command line's, both in one.  With the Status actions   *)
(* (src/status/actions.ts), which applies exclude and are excluded by, and *)
(* a reader of how the last apply went.  All they share is files; DirLock  *)
(* has the locks.                                                          *)
(*                                                                         *)
(* Settings are named by the run that first applies them.                  *)
(***************************************************************************)
EXTENDS DirLock

CONSTANTS
    UiRun,      \* applies from the web UI, an undo included
    CliRun,     \* applies from the command line
    Action,     \* Status actions
    Reader,     \* one who asks how the last apply went
    Bounds      \* bound: [asking: the processes (and the reader) of one behaviour, kills: how many are killed,
                \* fails: writes that fail, jobs that do not start, reviews out of date]

Run == UiRun \cup CliRun
ASSUME ProcsAssumption ==
    /\ Proc = Run \cup Action /\ UiRun \cap CliRun = {} /\ Run \cap Action = {} /\ {Nobody, Reader} \cap Proc = {}
    /\ Lock = {"apply", "action"}
ASSUME BoundsAssumption == Bounds \subseteq [asking: SUBSET (Proc \cup {Reader}), kills: Nat, fails: Nat]

VARIABLES
    job,        \* where each run's own process is
    record,     \* provision.json: the run, whether with its pid, whether started over a minute ago
    outcome,    \* provision.outcome.json: the run, and how it said it ended
    snapshot,   \* provisioning.json: the settings the run is to apply
    live,       \* live.json
    previous,   \* live.previous.json
    applies,    \* the settings each run loaded
    reader,     \* jobState, a step at a time: the record it read and its answer
    past,       \* history: runs with no pid recorded, or written over; that wrote an outcome; the last to clear one; settings applied, and last; runs
                \* killed, or taken for gone, making them live
    left        \* what the bounds still allow

disk == <<record, outcome, snapshot, live, previous>>
vars == <<lockVars, job, disk, applies, reader, past, left>>

NoRecord == [run |-> Nobody, pid |-> FALSE, old |-> FALSE]
NoOutcome == [run |-> Nobody, said |-> "nothing"]
How == {"applied", "failed", "stopped"}
NotReading == [at |-> "idle", of |-> NoRecord, answer |-> "nothing"]

LockOf(p) == IF p \in Run THEN "apply" ELSE "action"
MayFail == left.fails > 0 /\ left' = [left EXCEPT !.fails = @ - 1]
Becomes(r, to) == job' = [job EXCEPT ![r] = to]

\* A run's process, as its pid and command line tell.
HasProcess(r) == job[r] \notin {"none", "gone"}

\* runAlive; started a moment ago and no pid yet, it is being started.
Alive(run) == IF run.pid THEN HasProcess(run.run) ELSE ~run.old

\* holderGone, of a lock as it was seen: its record may be yet to be written.
GoneByRecord(of) == IF of.owner = Nobody THEN of.age \in {"none", "old"} ELSE ~Alive(record)  \* mutant: or the last run's
HolderGone(of) ==
    IF of.owner = Nobody \/ record.run # of.owner THEN of.age \in {"none", "old"} ELSE ~Alive(record)

StaleAtOnce(p) == IF p \in Run THEN HolderGone(seen[p]) ELSE TRUE  \* mutant: an action's lock never waited for
Stale(p) == IF p \in Run THEN HolderGone(seen[p]) ELSE seen[p].age \in {"none", "old"}

\* Refused, it may be asked again; else it has been an apply, or an action.
Then(p) == IF p \in Run /\ job[p] = "none" THEN "refused" ELSE "done"

-----------------------------------------------------------------------------
(* Taking and giving back a lock. *)

Asks(p) ==
    /\ at[p] = "idle"
    /\ Goes(p, "taking")
    /\ UNCHANGED <<lock, takeover, seen, stolen, job, disk, applies, reader, past, left>>

Locks(p) ==
    /\ LockStep(p, LockOf(p), Stale(p), Then(p))
    /\ past' = IF at[p] = "removing" /\ \E r \in Run : lock[LockOf(p)].owner = r /\ job[r] = "promoting on"
                 THEN [past EXCEPT !.cut = @ \cup {"taken"}] ELSE past
    /\ UNCHANGED <<job, disk, applies, reader, left>>

-----------------------------------------------------------------------------
(* claim, holding the lock; then startProvision or beginRun. *)

Claims(r, from, to) == r \in Run /\ at[r] = from /\ Goes(r, to) /\ UNCHANGED <<lock, takeover, seen, stolen, reader>>

NoAction == FALSE                                             \* mutant: not looked for
ActionOn == lock["action"].age = "new"

\* lockFresh of the actions' lock; the settings' version.
LooksForAction(r) ==
    /\ \/ Claims(r, "holds", IF ActionOn THEN "freeing" ELSE "clearing") /\ UNCHANGED left
       \/ Claims(r, "holds", "freeing") /\ MayFail
    /\ UNCHANGED <<job, disk, applies, past>>

ClearsOutcome(r) ==
    /\ Claims(r, "clearing", "laying")
    /\ outcome' = NoOutcome
    /\ past' = [past EXCEPT !.cleared = r]
    /\ UNCHANGED <<job, record, snapshot, live, previous, applies, left>>

\* The saved settings, or undoing, those live before.
LaysSnapshot(r) ==
    /\ Claims(r, "laying", "recording")
    /\ snapshot' \in {r} \cup (IF r \in UiRun THEN {previous} \ {Nobody} ELSE {})
    /\ UNCHANGED <<job, record, outcome, live, previous, applies, past, left>>

Records(r) ==
    /\ Claims(r, "recording", IF r \in UiRun THEN "starting" ELSE "noting")
    /\ record' = [NoRecord EXCEPT !.run = r]
    /\ UNCHANGED <<job, outcome, snapshot, live, previous, applies, past, left>>

Starts(r) ==
    /\ Claims(r, "starting", "noting")
    /\ Becomes(r, "loading")
    /\ UNCHANGED <<disk, applies, past, left>>

NotStarted(r) ==
    /\ Claims(r, "starting", "freeing")
    /\ Becomes(r, "gone")
    /\ outcome' = [run |-> r, said |-> "failed"]
    /\ past' = [past EXCEPT !.wrote = @ \cup {r}]
    /\ MayFail
    /\ UNCHANGED <<record, snapshot, live, previous, applies>>

\* Its pid recorded: the job's once it was started, the command line's own before it goes on.
NotesPid(r) ==
    /\ Claims(r, "noting", "done")
    /\ record' = [run |-> r, pid |-> TRUE, old |-> FALSE]
    /\ past' = IF record.pid THEN [past EXCEPT !.unnoted = @ \cup {record.run}] ELSE past
    /\ IF r \in CliRun THEN Becomes(r, "loading") ELSE UNCHANGED job
    /\ UNCHANGED <<outcome, snapshot, live, previous, applies, left>>

\* The job goes on whatever; the command line's run throws, its lock left.
NotNoted(r) ==
    /\ Claims(r, "noting", IF r \in UiRun THEN "done" ELSE "gone")
    /\ past' = [past EXCEPT !.unnoted = @ \cup {r}]
    /\ MayFail
    /\ UNCHANGED <<job, disk, applies>>

Claiming(r) ==
    \/ LooksForAction(r) \/ ClearsOutcome(r) \/ LaysSnapshot(r) \/ Records(r)
    \/ Starts(r) \/ NotStarted(r) \/ NotesPid(r) \/ NotNoted(r)

-----------------------------------------------------------------------------
(* The run, and jobEnding. *)

Runs(r, from, to) == job[r] = from /\ Becomes(r, to) /\ UNCHANGED <<takeover, at, seen, record, reader>>

Loads(r) ==
    /\ Runs(r, "loading", "working")
    /\ applies' = [applies EXCEPT ![r] = snapshot]
    /\ UNCHANGED <<lock, stolen, outcome, snapshot, live, previous, past, left>>

NotFailed(said) == said # "failed"                            \* mutant: one stopped counts too
Applied(said) == said = "applied"

\* It says how it ended, the disk allowing.
Ends(r) ==
    /\ \E said \in How :
          /\ said = "applied" => applies[r] # Nobody
          /\ Runs(r, "working", IF Applied(said) THEN "promoting" ELSE "releasing")
          /\ \/ outcome' = [run |-> r, said |-> said] /\ UNCHANGED left
             \/ UNCHANGED outcome /\ MayFail
          /\ past' = [past EXCEPT !.wrote = IF outcome' # outcome THEN @ \cup {r} ELSE @,
                                  !.applied = IF said = "applied" THEN @ \cup {applies[r]} ELSE @,
                                  !.last = IF said = "applied" THEN applies[r] ELSE @]
    /\ UNCHANGED <<lock, stolen, snapshot, live, previous, applies>>

HoldsStillUnchecked(r) == TRUE                                \* mutant: whoever holds the lock by now
HoldsStill(r) == lock["apply"].owner = r

KeepsPrevious(r) ==
    /\ Runs(r, "promoting", IF HoldsStill(r) THEN "promoting on" ELSE "releasing")
    /\ previous' = IF HoldsStill(r) /\ live # Nobody THEN live ELSE previous
    /\ UNCHANGED <<lock, stolen, outcome, snapshot, live, applies, past, left>>

MakesLive(r) ==
    /\ Runs(r, "promoting on", "releasing")
    /\ live' = IF snapshot = Nobody THEN live ELSE snapshot
    /\ snapshot' = Nobody
    /\ UNCHANGED <<lock, stolen, outcome, previous, applies, past, left>>

Releases(r) ==
    /\ Runs(r, "releasing", IF HoldsStill(r) THEN "removing" ELSE "gone")
    /\ UNCHANGED <<lock, stolen, outcome, snapshot, live, previous, applies, past, left>>

RemovesLock(r) ==
    /\ Runs(r, "removing", "gone")
    /\ RemovesDir("apply", [lock["apply"] EXCEPT !.owner = r])
    /\ UNCHANGED <<outcome, snapshot, live, previous, applies, past, left>>

Running(r) == Loads(r) \/ Ends(r) \/ KeepsPrevious(r) \/ MakesLive(r) \/ Releases(r) \/ RemovesLock(r)

-----------------------------------------------------------------------------
(* A Status action: its own lock first, then applyRunning. *)

Acts(a, from, to) ==
    a \in Action /\ at[a] = from /\ Goes(a, to) /\ UNCHANGED <<lock, takeover, stolen, job, disk, applies, reader, past, left>>

FindsApplyLock(a) ==
    /\ Acts(a, "holds", IF lock["apply"] = Free THEN "acting" ELSE "finding holder")
    /\ seen' = [seen EXCEPT ![a].age = lock["apply"].age]

FindsHolder(a) ==
    /\ Acts(a, "finding holder", "finding run")
    /\ seen' = [seen EXCEPT ![a].owner = lock["apply"].owner]

FindsRun(a) ==
    /\ Acts(a, "finding run", IF HolderGone(seen[a]) THEN "acting" ELSE "freeing")
    /\ seen' = [seen EXCEPT ![a] = Free]

ActionEnds(a) == Acts(a, "acting", "freeing") /\ UNCHANGED seen

Acting(a) == FindsApplyLock(a) \/ FindsHolder(a) \/ FindsRun(a) \/ ActionEnds(a)

-----------------------------------------------------------------------------
(* jobState *)

AnswerAsSaid(of) == IF outcome.run # of.run THEN "interrupted" ELSE outcome.said  \* mutant: no state for a signal
Answer(of) == IF outcome.run # of.run \/ outcome.said = "stopped" THEN "interrupted" ELSE outcome.said
Reads(from, to) == reader.at = from /\ reader' = to /\ UNCHANGED <<lockVars, job, disk, applies, past, left>>

ReadsRecord ==
    Reads("idle", IF record = NoRecord THEN [NotReading EXCEPT !.answer = "idle"]
                  ELSE [at |-> "record read", of |-> record, answer |-> "nothing"])
ReadsOutcome ==
    Reads("record read", IF outcome.run = reader.of.run
                           THEN [reader EXCEPT !.at = "idle", !.answer = Answer(reader.of)]
                           ELSE [reader EXCEPT !.at = "no outcome"])
FindsAlive ==
    Reads("no outcome", IF Alive(reader.of) THEN [reader EXCEPT !.at = "idle", !.answer = "running"]
                                            ELSE [reader EXCEPT !.at = "not alive"])

ReadsNoOutcomeAgain ==                                        \* mutant: the outcome not read again
    Reads("not alive", [reader EXCEPT !.at = "idle", !.answer = "interrupted"])
ReadsOutcomeAgain ==
    Reads("not alive", [reader EXCEPT !.at = "idle", !.answer = Answer(reader.of)])

JobState == ReadsRecord \/ ReadsOutcome \/ FindsAlive \/ ReadsOutcomeAgain

-----------------------------------------------------------------------------
(* What happens to them. *)

MayKill == left.kills > 0 /\ left' = [left EXCEPT !.kills = @ - 1]

Killed(p) ==
    /\ at[p] \notin {"idle", "refused", "done", "gone"}
    /\ Goes(p, "gone") /\ seen' = [seen EXCEPT ![p] = Free]
    /\ past' = IF p \in Run /\ at[p] = "noting" THEN [past EXCEPT !.unnoted = @ \cup {p}] ELSE past
    /\ MayKill
    /\ UNCHANGED <<lock, takeover, stolen, job, disk, applies, reader>>

JobKilled(r) ==
    /\ HasProcess(r)
    /\ Becomes(r, "gone")
    /\ past' = [past EXCEPT !.cut = IF job[r] \in {"promoting", "promoting on"} THEN @ \cup {"killed"} ELSE @]
    /\ MayKill
    /\ UNCHANGED <<lockVars, disk, applies, reader>>

\* A minute passes: no request takes so long, nor an action (actionBudgetMs); and the refused ask again.
Short(p) == at[p] \notin {"idle", "refused", "done", "gone"}
Minute ==
    /\ \A p \in Proc : ~Short(p)
    /\ \A r \in Run : job[r] \in {"none", "working", "gone"}
    /\ reader.at \in {"idle", "away"}
    /\ LocksAge
    /\ record' = IF record = NoRecord THEN record ELSE [record EXCEPT !.old = TRUE]
    /\ at' = [p \in Proc |-> IF at[p] = "refused" THEN "idle" ELSE at[p]]
    /\ UNCHANGED <<seen, stolen, job, outcome, snapshot, live, previous, applies, reader, past, left>>

-----------------------------------------------------------------------------
Init ==
    /\ \E b \in Bounds :
        /\ InitLocks(b.asking)
        /\ reader = IF Reader \in b.asking THEN NotReading ELSE [NotReading EXCEPT !.at = "away"]
        /\ left = [kills |-> b.kills, fails |-> b.fails]
    /\ job = [r \in Run |-> "none"]
    /\ record = NoRecord /\ outcome = NoOutcome
    /\ snapshot = Nobody /\ live = Nobody /\ previous = Nobody
    /\ applies = [r \in Run |-> Nobody]
    /\ past = [unnoted |-> {}, wrote |-> {}, cleared |-> Nobody, applied |-> {}, last |-> Nobody, cut |-> {}]

ProcStep(p) == Asks(p) \/ Locks(p) \/ Claiming(p) \/ Acting(p)

Next ==
    \/ \E p \in Proc : ProcStep(p) \/ Killed(p)
    \/ \E r \in Run : Running(r) \/ JobKilled(r)
    \/ JobState \/ Minute

Spec == Init /\ [][Next]_vars

\* Every process goes on until it ends or is killed; a minute passes however
\* often something else keeps taking less of one.
FairSpec ==
    /\ Spec
    /\ \A p \in Proc : WF_vars(ProcStep(p))
    /\ \A r \in Run : WF_vars(Running(r))
    /\ WF_vars(JobState)
    /\ SF_vars(Minute)

-----------------------------------------------------------------------------
(* Properties. *)

Settings == Run \cup {Nobody}
TypeOK ==
    /\ LockTypeOK
    /\ at \in [Proc -> Locking \cup {"idle", "holds", "clearing", "laying", "recording", "starting", "noting",
                                     "finding holder", "finding run", "acting", "refused", "done", "gone"}]
    /\ job \in [Run -> {"none", "loading", "working", "promoting", "promoting on", "releasing", "removing", "gone"}]
    /\ record \in [run: Settings, pid: BOOLEAN, old: BOOLEAN]
    /\ outcome \in [run: Settings, said: How \cup {"nothing"}]
    /\ {snapshot, live, previous} \subseteq Settings /\ applies \in [Run -> Settings]
    /\ reader \in [at: {"away", "idle", "record read", "no outcome", "not alive"}, of: [run: Settings, pid: BOOLEAN, old: BOOLEAN],
                   answer: {"nothing", "idle", "running", "applied", "failed", "interrupted"}]
    /\ past \in [unnoted: SUBSET Run, wrote: SUBSET Run, cleared: Settings, applied: SUBSET Run, last: Settings, cut: SUBSET {"killed", "taken"}]
    /\ left \in [kills: Nat, fails: Nat]

Working(r) == job[r] \in {"loading", "working"}
Overlap == \E r, s \in Run : r # s /\ Working(r) /\ Working(s)

\* Two applies are at the devices at once only if a lock was removed by a
\* process that had not judged that lock, or a run's pid was not recorded, or written over by
\* the starter of one that had ended before it noted its pid:
\* no order of claims, takeovers, endings and kills else does it.
OneApply == Overlap => "apply" \in stolen \/ past.unnoted # {}

\* An action and an apply, each taking its own lock and then looking at the
\* other's, never both go on, for the same two causes: an action cuts no link
\* an apply confirms over (src/status/actions.ts).
ActionsApart ==
    (\E a \in Action, r \in Run : at[a] = "acting" /\ Working(r)) => stolen # {} \/ past.unnoted # {}

\* Two actions never go on at once, but by a lock removed unjudged.
OneAction == \A a, b \in Action : at[a] = "acting" /\ at[b] = "acting" => a = b \/ "action" \in stolen

\* Only settings a run applied everywhere become the live ones, or those an
\* undo puts back: not those of a later run that took its lock over, but in the
\* moment between its finding the lock its own and copying its snapshot.
LiveWasApplied == stolen = {} /\ "taken" \notin past.cut => {live, previous} \subseteq past.applied \cup {Nobody}

\* With no run on its way, live are the settings last applied; but for a run
\* killed as it recorded that, or one that was taken for gone.
LiveIsLast ==
    (\A r \in Run : ~HasProcess(r)) => live = past.last \/ past.cut # {} \/ stolen # {} \/ past.unnoted # {}

\* A run read as interrupted is gone, or never had its pid recorded, and wrote
\* no other outcome; but for one whose outcome another run's claim has cleared,
\* or its end written over.
InterruptedIsSo ==
    [][ reader.at = "not alive" /\ reader'.answer = "interrupted" =>
          LET r == reader.of.run IN
          /\ ~HasProcess(r) \/ r \in past.unnoted
          /\ \/ r \notin past.wrote
             \/ outcome.run = r /\ outcome.said = "stopped"
             \/ past.cleared # r \/ outcome.run \notin {r, Nobody} ]_vars

\* An apply asked for starts at last, and an action is done or told that an
\* apply runs, whoever else was killed, wherever: no lock and no takeover left
\* behind stops them for good.
StartsAtLast == \A p \in Proc : at[p] = "idle" ~> at[p] \in {"done", "gone"}
=============================================================================
