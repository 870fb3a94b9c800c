--------------------------- MODULE ApplyJobProofs ---------------------------
(***************************************************************************)
(* What ApplyJob says of applies, actions and their locks.                 *)
(***************************************************************************)
EXTENDS ApplyJob, TLAPS

(* The types, a variable at a time. *)

At == Locking \cup {"idle", "holds", "clearing", "laying", "recording", "starting", "noting",
                    "finding holder", "finding run", "acting", "refused", "done", "gone"}
JobAt == {"none", "loading", "working", "promoting", "promoting on", "releasing", "removing", "gone"}
Record == [run: Settings, pid: BOOLEAN, old: BOOLEAN]
Outcome == [run: Settings, said: How \cup {"nothing"}]
Past == [unnoted: SUBSET Run, wrote: SUBSET Run, cleared: Settings, applied: SUBSET Run, last: Settings, cut: SUBSET {"killed", "taken"}]
ReaderAt == [at: {"away", "idle", "record read", "no outcome", "not alive"}, of: Record,
             answer: {"nothing", "idle", "running", "applied", "failed", "interrupted"}]

AtOK == at \in [Proc -> At]
JobOK == job \in [Run -> JobAt]
RecordOK == record \in Record /\ (record.pid => record.run \in Run)
OutcomeOK == outcome \in Outcome
FilesOK == snapshot \in Settings /\ live \in Settings /\ previous \in Settings /\ applies \in [Run -> Settings]
ReaderOK == reader \in ReaderAt
PastOK == past \in Past
LeftOK == left \in [kills: Nat, fails: Nat]

\* A pid recorded is a run's.
Types == LockTypeOK /\ AtOK /\ JobOK /\ RecordOK /\ OutcomeOK /\ FilesOK /\ ReaderOK /\ PastOK /\ LeftOK

LEMMA TypesAre == Types => TypeOK
BY ZenonT(60) DEF Types, AtOK, JobOK, RecordOK, OutcomeOK, FilesOK, ReaderOK, PastOK, LeftOK, TypeOK, At, JobAt, Record, Outcome,
       ReaderAt, Past

LEMMA LockOfP == ASSUME NEW p \in Proc PROVE LockOf(p) \in Lock
BY ProcsAssumption DEF ProcsAssumption, LockOf

LEMMA InitType == Init => Types
<1> SUFFICES ASSUME Init PROVE Types
  OBVIOUS
<1>1. PICK b \in Bounds :
        /\ InitLocks(b.asking)
        /\ reader = IF Reader \in b.asking THEN NotReading ELSE [NotReading EXCEPT !.at = "away"]
        /\ left = [kills |-> b.kills, fails |-> b.fails]
  BY DEF Init
<1>2. b.kills \in Nat /\ b.fails \in Nat
  BY BoundsAssumption DEF BoundsAssumption
<1>3. LockTypeOK /\ AtOK
  BY <1>1 DEF InitLocks, LockTypeOK, Free, Age, At, AtOK
<1>4. NoRecord \in Record /\ NoOutcome \in Outcome /\ ~NoRecord.pid
  BY DEF NoRecord, NoOutcome, Settings, Record, Outcome
<1>5. ReaderOK
  BY <1>1, <1>4 DEF NotReading, ReaderOK, ReaderAt
<1>6. LeftOK /\ PastOK /\ FilesOK /\ JobOK
  BY <1>1, <1>2 DEF Init, LeftOK, PastOK, Past, FilesOK, JobOK, JobAt, Settings
<1> QED BY <1>3, <1>4, <1>5, <1>6 DEF Init, Types, RecordOK, OutcomeOK

Dir == [age: Age, owner: Proc \cup {Nobody}]

\* A lock's step writes directories and places.
LEMMA LockStepType ==
    ASSUME NEW p \in Proc, NEW l \in Lock, NEW stale, NEW then \in {"refused", "done"},
           LockTypeOK, at \in [Proc -> At], LockStep(p, l, stale, then)
    PROVE  LockTypeOK' /\ at' \in [Proc -> At]
<1> USE DEF Goes, Locking
<1>1. lock \in [Lock -> Dir] /\ takeover \in [Lock -> Age] /\ seen \in [Proc -> Dir] /\ stolen \subseteq Lock
  BY DEF LockTypeOK, Dir
<1>2. Free \in Dir /\ Made \in Dir /\ "none" \in Age /\ "new" \in Age
  BY DEF Free, Made, Dir, Age
<1>3. [lock[l] EXCEPT !.owner = p] \in Dir
  BY <1>1 DEF Dir
<1>4. at' \in [Proc -> At]
  BY ZenonT(60) DEF LockStep, Takes, Owns, FindsTakeover, ClearsTakeover, Enters, Looks, Judges, Removes, Remakes,
         OwnsOver, Leaves, Frees, RemovesOwn, At
<1>5. lock' \in [Lock -> Dir]
  BY <1>1, <1>2, <1>3 DEF LockStep, Takes, Owns, FindsTakeover, ClearsTakeover, Enters, Looks, Judges, Removes, Remakes,
         OwnsOver, Leaves, Frees, RemovesOwn, RemovesDir
<1>6. takeover' \in [Lock -> Age]
  BY <1>1, <1>2 DEF LockStep, Takes, Owns, FindsTakeover, ClearsTakeover, Enters, Looks, Judges, Removes, Remakes,
         OwnsOver, Leaves, Frees, RemovesOwn
<1>7. seen' \in [Proc -> Dir]
  BY <1>1, <1>2 DEF LockStep, Takes, Owns, FindsTakeover, ClearsTakeover, Enters, Looks, Judges, Removes, Remakes,
         OwnsOver, Leaves, Frees, RemovesOwn
<1>8. stolen' \subseteq Lock
  BY <1>1 DEF LockStep, Takes, Owns, FindsTakeover, ClearsTakeover, Enters, Looks, Judges, Removes, Remakes,
         OwnsOver, Leaves, Frees, RemovesOwn, RemovesDir
<1> QED BY <1>4, <1>5, <1>6, <1>7, <1>8 DEF LockTypeOK, Dir

LEMMA LocksType ==
    ASSUME Types, NEW p \in Proc, Locks(p)
    PROVE  Types'
<1>1. Then(p) \in {"refused", "done"}
  BY DEF Then
<1>2. AtOK' /\ LockTypeOK'
  <2>1. LockTypeOK /\ at \in [Proc -> At]
    BY DEF Types, AtOK
  <2>2. LockStep(p, LockOf(p), Stale(p), Then(p))
    BY DEF Locks
  <2> QED BY <1>1, <2>1, <2>2, LockOfP, LockStepType DEF AtOK
<1>3. PastOK'
  BY DEF Locks, Types, PastOK, Past
<1> QED BY <1>2, <1>3 DEF Locks, Types, JobOK, RecordOK, OutcomeOK, FilesOK, ReaderOK, LeftOK, disk

LEMMA ClaimingType ==
    ASSUME Types, NEW r \in Run, Claiming(r)
    PROVE  Types'
<1> USE DEF Claims, Claiming, LooksForAction, ClearsOutcome, LaysSnapshot, Records, Starts, NotStarted, NotesPid, NotNoted
<1>0. r \in Proc /\ Nobody \notin Run
  BY ProcsAssumption DEF ProcsAssumption
<1>1. AtOK'
  <2>1. PICK to \in {"clearing", "freeing", "laying", "recording", "starting", "noting", "done", "gone"} : at' = [at EXCEPT ![r] = to]
    BY DEF Goes
  <2> QED BY <1>0, <2>1 DEF AtOK, At, Locking, Types
<1>2. LeftOK'
  BY <1>0 DEF LeftOK, MayFail, Types
<1>3. PastOK'
  BY <1>0 DEF PastOK, Past, RecordOK, Settings, Types
<1>4. RecordOK'
  <2>1. record' = record \/ record' = [run |-> r, pid |-> FALSE, old |-> FALSE] \/ record' = [run |-> r, pid |-> TRUE, old |-> FALSE]
    BY DEF disk, NoRecord
  <2>2. CASE record' = record
    BY <2>2 DEF RecordOK, Types
  <2>3. CASE record' = [run |-> r, pid |-> FALSE, old |-> FALSE]
    BY <2>3 DEF RecordOK, Record, Settings
  <2>4. CASE record' = [run |-> r, pid |-> TRUE, old |-> FALSE]
    BY <2>4 DEF RecordOK, Record, Settings
  <2> QED BY <2>1, <2>2, <2>3, <2>4
<1>5. OutcomeOK'
  BY <1>0 DEF OutcomeOK, Outcome, NoOutcome, How, Settings, disk, Types
<1>6. FilesOK'
  BY <1>0 DEF FilesOK, Settings, disk, Types
<1>7. JobOK'
  BY <1>0 DEF JobOK, JobAt, Becomes, Types
<1>8. LockTypeOK' /\ ReaderOK'
  BY DEF LockTypeOK, ReaderOK, Types
<1> QED BY <1>1, <1>2, <1>3, <1>4, <1>5, <1>6, <1>7, <1>8 DEF Types

LEMMA LeftStays == ASSUME LeftOK, left' = left \/ MayFail \/ MayKill PROVE LeftOK'
<1>1. \/ left' = left
      \/ left' = [left EXCEPT !.fails = @ - 1] /\ left.fails > 0
      \/ left' = [left EXCEPT !.kills = @ - 1] /\ left.kills > 0
  BY DEF MayFail, MayKill
<1> QED BY <1>1 DEF LeftOK

LEMMA RunningType ==
    ASSUME Types, NEW r \in Run, Running(r)
    PROVE  Types'
<1> USE DEF Runs
<1>1. JobOK'
  BY DEF Running, Loads, Ends, KeepsPrevious, MakesLive, Releases, RemovesLock, JobOK, JobAt, Becomes, Types
<1>2. LeftOK'
  <2>1. left' = left \/ MayFail
    BY DEF Running, Loads, Ends, KeepsPrevious, MakesLive, Releases, RemovesLock
  <2> QED BY <2>1, LeftStays DEF Types
<1>3. PastOK'
  <2>1. ASSUME NEW wrote \in SUBSET Run, NEW applied \in SUBSET Run, NEW last \in Settings,
               past' = [past EXCEPT !.wrote = wrote, !.applied = applied, !.last = last]
        PROVE  PastOK'
    BY <2>1 DEF PastOK, Past, Types
  <2>2. CASE Ends(r)
    <3>1. PICK said \in How :
            /\ said = "applied" => applies[r] # Nobody
            /\ past' = [past EXCEPT !.wrote = IF outcome' # outcome THEN @ \cup {r} ELSE @,
                                   !.applied = IF said = "applied" THEN @ \cup {applies[r]} ELSE @,
                                   !.last = IF said = "applied" THEN applies[r] ELSE @]
      BY <2>2 DEF Ends
    <3>2. PICK wrote, applied, last :
            /\ wrote = IF outcome' # outcome THEN past.wrote \cup {r} ELSE past.wrote
            /\ applied = IF said = "applied" THEN past.applied \cup {applies[r]} ELSE past.applied
            /\ last = IF said = "applied" THEN applies[r] ELSE past.last
      OBVIOUS
    <3>3. past.wrote \in SUBSET Run /\ past.applied \in SUBSET Run /\ past.last \in Settings /\ applies[r] \in Settings
      BY DEF Types, PastOK, Past, FilesOK
    <3>4. wrote \in SUBSET Run /\ applied \in SUBSET Run /\ last \in Settings
      BY <3>1, <3>2, <3>3 DEF Settings
    <3>5. past' = [past EXCEPT !.wrote = wrote, !.applied = applied, !.last = last]
      BY <3>1, <3>2
    <3> QED BY <2>1, <3>4, <3>5
  <2>3. CASE ~Ends(r)
    <3>1. past' = past
      BY <2>3 DEF Running, Loads, KeepsPrevious, MakesLive, Releases, RemovesLock
    <3> QED BY <3>1 DEF PastOK, Types
  <2> QED BY <2>2, <2>3
<1>4. OutcomeOK'
  <2>1. outcome' = outcome \/ \E said \in How : outcome' = [run |-> r, said |-> said]
    BY DEF Running, Loads, Ends, KeepsPrevious, MakesLive, Releases, RemovesLock
  <2> QED BY <2>1 DEF OutcomeOK, Outcome, Settings, Types
<1>5. FilesOK'
  BY DEF Running, Loads, Ends, KeepsPrevious, MakesLive, Releases, RemovesLock, FilesOK, Settings, Types
<1>6. LockTypeOK'
  <2>1. takeover' = takeover /\ seen' = seen
    BY DEF Running, Loads, Ends, KeepsPrevious, MakesLive, Releases, RemovesLock
  <2>2. (lock' = lock \/ lock' = [lock EXCEPT !["apply"] = Free]) /\ (stolen' = stolen \/ stolen' = stolen \cup {"apply"})
    BY DEF Running, Loads, Ends, KeepsPrevious, MakesLive, Releases, RemovesLock, RemovesDir
  <2>3. Free \in [age: Age, owner: Proc \cup {Nobody}] /\ "apply" \in Lock
    BY ProcsAssumption DEF ProcsAssumption, Free, Age
  <2> QED BY <2>1, <2>2, <2>3 DEF LockTypeOK, Types
<1>7. at' = at /\ record' = record /\ reader' = reader
  BY DEF Running, Loads, Ends, KeepsPrevious, MakesLive, Releases, RemovesLock
<1> QED BY <1>1, <1>2, <1>3, <1>4, <1>5, <1>6, <1>7 DEF Types, AtOK, ReaderOK, RecordOK

LEMMA ActingType ==
    ASSUME Types, NEW a \in Proc, Acting(a)
    PROVE  Types'
<1> USE DEF Acting, Acts, FindsApplyLock, FindsHolder, FindsRun, ActionEnds
<1>1. AtOK'
  <2>1. PICK to \in {"acting", "finding holder", "finding run", "freeing"} : at' = [at EXCEPT ![a] = to]
    BY DEF Goes
  <2> QED BY <2>1 DEF AtOK, At, Locking, Types
<1>2. LockTypeOK'
  <2>1. lock' = lock /\ takeover' = takeover /\ stolen' = stolen
    OBVIOUS
  <2>2. seen' \in [Proc -> Dir]
    <3>1. seen \in [Proc -> Dir] /\ lock["apply"] \in Dir /\ Free \in Dir
      BY ProcsAssumption DEF ProcsAssumption, LockTypeOK, Types, Dir, Free, Age
    <3>2. [seen[a] EXCEPT !.age = lock["apply"].age] \in Dir /\ [seen[a] EXCEPT !.owner = lock["apply"].owner] \in Dir
      BY <3>1 DEF Dir
    <3> QED BY <3>1, <3>2
  <2> QED BY <2>1, <2>2 DEF LockTypeOK, Types, Dir
<1> QED BY <1>1, <1>2 DEF Types, JobOK, RecordOK, OutcomeOK, FilesOK, ReaderOK, PastOK, LeftOK, disk

LEMMA JobStateType ==
    ASSUME Types, JobState
    PROVE  Types'
<1> USE DEF JobState, Reads, ReadsRecord, ReadsOutcome, FindsAlive, ReadsOutcomeAgain
<1>1. ReaderOK'
  <2>1. reader \in ReaderAt /\ record \in Record /\ NoRecord \in Record
    BY DEF Types, ReaderOK, RecordOK, NoRecord, Record, Settings
  <2>2. CASE ReadsRecord
    BY <2>1, <2>2 DEF NotReading, ReaderOK, ReaderAt
  <2>3. CASE ReadsOutcome \/ ReadsOutcomeAgain
    <3>1. Answer(reader.of) \in {"nothing", "applied", "failed", "interrupted"}
      BY DEF Answer, Types, OutcomeOK, Outcome, How
    <3> QED BY <2>1, <2>3, <3>1 DEF ReaderOK, ReaderAt
  <2>4. CASE FindsAlive
    BY <2>1, <2>4 DEF ReaderOK, ReaderAt
  <2> QED BY <2>2, <2>3, <2>4
<1> QED BY <1>1 DEF Types, LockTypeOK, AtOK, JobOK, RecordOK, OutcomeOK, FilesOK, PastOK, LeftOK, disk, lockVars

LEMMA MishapType ==
    ASSUME Types, (\E p \in Proc : Asks(p) \/ Killed(p)) \/ (\E r \in Run : JobKilled(r)) \/ Minute
    PROVE  Types'
<1>1. ASSUME NEW p \in Proc, Asks(p) PROVE Types'
  BY <1>1 DEF Asks, Goes, Types, LockTypeOK, AtOK, At, Locking, JobOK, RecordOK, OutcomeOK, FilesOK, ReaderOK, PastOK, LeftOK, disk
<1>2. ASSUME NEW p \in Proc, Killed(p) PROVE Types'
  <2>1. LeftOK'
    BY <1>2, LeftStays DEF Killed, Types
  <2>2. LockTypeOK' /\ AtOK'
    BY <1>2 DEF Killed, Goes, Free, Age, Types, LockTypeOK, AtOK, At
  <2>3. PastOK'
    BY <1>2 DEF Killed, Types, PastOK, Past
  <2> QED BY <1>2, <2>1, <2>2, <2>3 DEF Killed, Types, JobOK, RecordOK, OutcomeOK, FilesOK, ReaderOK, disk
<1>3. ASSUME NEW r \in Run, JobKilled(r) PROVE Types'
  <2>1. LeftOK'
    BY <1>3, LeftStays DEF JobKilled, Types
  <2>2. JobOK' /\ PastOK'
    BY <1>3 DEF JobKilled, Becomes, Types, JobOK, JobAt, PastOK, Past
  <2> QED BY <1>3, <2>1, <2>2 DEF JobKilled, Types, LockTypeOK, AtOK, RecordOK, OutcomeOK, FilesOK, ReaderOK, disk, lockVars
<1>4. CASE Minute
  <2>1. LockTypeOK' /\ AtOK'
    BY <1>4, ZenonT(60) DEF Minute, LocksAge, Aged, Age, Types, LockTypeOK, AtOK, At, Locking
  <2>2. RecordOK'
    BY <1>4 DEF Minute, Types, RecordOK, Record
  <2> QED BY <1>4, <2>1, <2>2 DEF Minute, Types, JobOK, OutcomeOK, FilesOK, ReaderOK, PastOK, LeftOK
<1> QED BY <1>1, <1>2, <1>3, <1>4

LEMMA ClaimingIsRuns == ASSUME NEW p, Claiming(p) PROVE p \in Run
BY DEF Claiming, Claims, LooksForAction, ClearsOutcome, LaysSnapshot, Records, Starts, NotStarted, NotesPid, NotNoted

\* Every file, process and bound is what its variable is said to hold, and a
\* pid that is recorded is a run's.
LEMMA TypesKept == Types /\ [Next]_vars => Types'
<1> SUFFICES ASSUME Types, [Next]_vars PROVE Types'
  OBVIOUS
<1>1. CASE UNCHANGED vars
  BY <1>1 DEF vars, lockVars, disk, Types, LockTypeOK, AtOK, JobOK, RecordOK, OutcomeOK, FilesOK, ReaderOK, PastOK, LeftOK
<1> QED BY <1>1, ClaimingIsRuns, ClaimingType, LocksType, RunningType, ActingType, JobStateType, MishapType DEF Next, ProcStep

-----------------------------------------------------------------------------
(* Where each process is, and what its run's process and its lock then are. *)

Making == {"owning", "owning over"}
Having == {"leaving", "holds", "clearing", "laying", "recording", "starting", "freeing", "removing own",
           "finding holder", "finding run", "acting"}
Over == {"done", "gone"}
Named == {"leaving", "holds", "clearing", "laying", "recording", "starting", "noting", "freeing", "removing own",
          "finding holder", "finding run", "acting", "done", "gone"}

\* A run has a process of its own once it was started, and none when it gives its lock back itself.
StartedInv ==
    /\ \A r \in Run : at[r] \notin {"noting", "freeing", "removing own"} \cup Over => job[r] = "none"
    /\ \A r \in Run : at[r] \in {"freeing", "removing own"} => ~HasProcess(r)
    /\ \A r \in CliRun : at[r] # "starting" /\ (at[r] = "noting" => job[r] = "none")
    /\ \A r \in UiRun : at[r] = "noting" => job[r] # "none"

LEMMA StartedInit == Init => StartedInv
<1> SUFFICES ASSUME Init PROVE StartedInv
  OBVIOUS
<1>1. \A p \in Proc : at[p] \in {"idle", "done"}
  BY DEF Init, InitLocks
<1>2. \A r \in Run : job[r] = "none"
  BY DEF Init
<1> QED BY <1>1, <1>2, ProcsAssumption DEF ProcsAssumption, StartedInv, HasProcess, Over, Run

LEMMA StartedKept ==
    ASSUME Types, StartedInv, [Next]_vars
    PROVE  StartedInv'
<1> USE DEF StartedInv, HasProcess, Over
<1> Proc = Run \cup Action /\ UiRun \cap CliRun = {} /\ Run \cap Action = {} /\ Run = UiRun \cup CliRun
  BY ProcsAssumption DEF ProcsAssumption, Run
<1>0. at \in [Proc -> At] /\ job \in [Run -> JobAt]
  BY DEF Types, AtOK, JobOK
<1>1. ASSUME NEW p \in Proc, Locks(p) PROVE StartedInv'
  <2>1. job' = job
    BY <1>1 DEF Locks
  <2>2. PICK to : at' = [at EXCEPT ![p] = to] /\ at[p] \in Locking /\ to \in Locking \cup {"holds", "refused", "gone", "done"}
                  /\ (to \in {"freeing", "removing own"} => at[p] = "freeing")
                  /\ (at[p] \in {"freeing", "removing own"} => to \in {"removing own", Then(p)})
    BY <1>1, <2>1 DEF Locks, LockStep, Takes, Owns, FindsTakeover, ClearsTakeover, Enters, Looks, Judges, Removes, Remakes,
         OwnsOver, Leaves, Frees, RemovesOwn, Goes, Locking, Then
  <2>3. \A q \in Proc \ {p} : at'[q] = at[q]
    BY <1>0, <2>2
  <2>4. at'[p] = to
    BY <1>0, <2>2
  <2>5. CASE at[p] \in {"freeing", "removing own"}
    BY <1>0, <2>1, <2>2, <2>3, <2>4, <2>5 DEF Then
  <2>6. CASE at[p] \notin {"freeing", "removing own"}
    <3>1. p \in Run => job[p] = "none"
      BY <1>0, <2>2, <2>6 DEF Locking
    <3>2. to \notin {"freeing", "removing own", "starting", "noting"}
      BY <2>2, <2>6 DEF Locking
    <3> QED BY <1>0, <2>1, <2>3, <2>4, <3>1, <3>2
  <2> QED BY <2>5, <2>6
<1>2. ASSUME NEW r \in Run, Claiming(r) PROVE StartedInv'
  <2> USE DEF Claims, Goes, Becomes
  <2>1. CASE LooksForAction(r) \/ ClearsOutcome(r) \/ LaysSnapshot(r)
    BY <1>0, <2>1, ZenonT(60) DEF LooksForAction, ClearsOutcome, LaysSnapshot
  <2>2. CASE Records(r) \/ Starts(r) \/ NotStarted(r)
    BY <1>0, <2>2, ZenonT(60) DEF Records, Starts, NotStarted
  <2>3. CASE NotesPid(r) \/ NotNoted(r)
    BY <1>0, <2>3, ZenonT(60) DEF NotesPid, NotNoted
  <2> QED BY <1>2, <2>1, <2>2, <2>3 DEF Claiming
<1>3. ASSUME NEW r \in Run, Running(r) PROVE StartedInv'
  BY <1>0, <1>3, ZenonT(60) DEF Running, Runs, Loads, Ends, KeepsPrevious, MakesLive, Releases, RemovesLock, Becomes
<1>4. ASSUME NEW a \in Proc, Acting(a) PROVE StartedInv'
  BY ZenonT(60), <1>0, <1>4 DEF Acting, Acts, FindsApplyLock, FindsHolder, FindsRun, ActionEnds, Goes
<1>5. ASSUME NEW p \in Proc, Asks(p) \/ Killed(p) PROVE StartedInv'
  BY <1>0, <1>5 DEF Asks, Killed, Goes
<1>6. ASSUME NEW r \in Run, JobKilled(r) PROVE StartedInv'
  BY <1>0, <1>6 DEF JobKilled, Becomes, lockVars
<1>7. CASE Minute
  BY <1>0, <1>7 DEF Minute, Short
<1>8. CASE JobState \/ UNCHANGED vars
  BY <1>8 DEF JobState, Reads, ReadsRecord, ReadsOutcome, FindsAlive, ReadsOutcomeAgain, vars, lockVars
<1> QED BY <1>1, <1>2, <1>3, <1>4, <1>5, <1>6, <1>7, <1>8, ClaimingIsRuns DEF Next, ProcStep

-----------------------------------------------------------------------------
(* Whose name is in a lock, and what was seen of one. *)

FreshInv ==
    /\ \A l \in Lock : lock[l].age = "none" => lock[l] = Free
    /\ \A p \in Proc : at[p] \notin {"judging", "removing", "leaving refused", "finding holder", "finding run"} => seen[p] = Free
    /\ \A p \in Proc : at[p] \in {"judging", "removing"} /\ seen[p].age = "none" => seen[p] = Free

\* A name in a lock is of one that has come that far; only one that is over
\* leaves its name in it for a minute.
OwnerInv ==
    /\ \A p \in Proc, l \in Lock : lock[l].owner = p =>
          /\ LockOf(p) = l /\ at[p] \in Named
          /\ lock[l].age = "old" => at[p] \in Over
    /\ \A p \in Proc : at[p] \in Making => lock[LockOf(p)].age # "old"

LEMMA OwnerInit == Init => FreshInv /\ OwnerInv
<1> SUFFICES ASSUME Init PROVE FreshInv /\ OwnerInv
  OBVIOUS
<1>1. /\ \A l \in Lock : lock[l] = Free
      /\ \A p \in Proc : seen[p] = Free /\ at[p] \in {"idle", "done"}
  BY DEF Init, InitLocks
<1>2. Nobody \notin Proc /\ Free.owner = Nobody
  BY ProcsAssumption DEF ProcsAssumption, Free
<1> QED BY <1>1, <1>2 DEF FreshInv, OwnerInv, Making

LEMMA AgedNone == ASSUME NEW d \in Dir, d.age = "none" PROVE [d EXCEPT !.age = "none"] = d
BY DEF Dir

Seeing == {"judging", "removing", "leaving refused", "finding holder", "finding run"}

\* Only one process goes on, and what it has seen is so.
LEMMA FreshWalks ==
    ASSUME Types, FreshInv, lock' = lock, NEW p \in Proc,
           \A q \in Proc \ {p} : at'[q] = at[q] /\ seen'[q] = seen[q],
           \/ seen'[p] = Free
           \/ at'[p] \in {"finding holder", "finding run"}
           \/ at'[p] = "judging" /\ \E l \in Lock : seen'[p] = lock[l]
           \/ at'[p] = "leaving refused" /\ seen'[p] = seen[p]
           \/ at[p] = "judging" /\ at'[p] = "removing" /\ seen'[p] = seen[p]
           \/ at[p] \notin Seeing /\ at'[p] \notin Seeing /\ seen'[p] = seen[p]
    PROVE  FreshInv'
BY DEF FreshInv, Seeing

LEMMA FreshByLock ==
    ASSUME Types, FreshInv, NEW p \in Proc, NEW l \in Lock, NEW stale, NEW then \in {"refused", "done"}, LockStep(p, l, stale, then)
    PROVE  FreshInv'
<1> USE DEF Goes, Seeing
<1>0. at \in [Proc -> At] /\ lock \in [Lock -> Dir] /\ seen \in [Proc -> Dir] /\ Made.age = "new"
  BY DEF Types, AtOK, LockTypeOK, Dir, Made
<1>1. \A q \in Proc \ {p} : at'[q] = at[q] /\ seen'[q] = seen[q]
  BY <1>0 DEF LockStep, Takes, Owns, FindsTakeover, ClearsTakeover, Enters, Looks, Judges, Removes, Remakes,
        OwnsOver, Leaves, Frees, RemovesOwn
<1>2. at[p] \notin Seeing => seen[p] = Free
  BY DEF FreshInv
<1>3. CASE Looks(p, l) \/ Judges(p, stale) \/ Leaves(p, l)
  <2>1. CASE Looks(p, l)
    <3>1. at'[p] = "judging" /\ seen'[p] = lock[l] /\ lock' = lock
      BY <1>0, <2>1 DEF Looks
    <3> QED BY <1>1, <3>1, FreshWalks
  <2>2. CASE Judges(p, stale)
    <3>1. at[p] = "judging" /\ at'[p] \in {"removing", "leaving refused"} /\ seen'[p] = seen[p] /\ lock' = lock
      BY <1>0, <2>2 DEF Judges
    <3> QED BY <1>1, <3>1, FreshWalks
  <2>3. CASE Leaves(p, l)
    <3>1. seen'[p] = Free /\ lock' = lock
      BY <1>0, <2>3 DEF Leaves
    <3> QED BY <1>1, <3>1, FreshWalks
  <2> QED BY <1>3, <2>1, <2>2, <2>3
<1>4. CASE FindsTakeover(p, l) \/ ClearsTakeover(p, l) \/ Enters(p, l) \/ Frees(p, l, then)
  BY <1>0, <1>1, <1>2, <1>4, FreshWalks DEF FindsTakeover, ClearsTakeover, Enters, Frees
<1>5. CASE Takes(p, l) \/ Owns(p, l) \/ Remakes(p, l) \/ OwnsOver(p, l) \/ RemovesOwn(p, l, then) \/ Removes(p, l)
  <2>1. \A k \in Lock : lock'[k].age = "none" => lock'[k] = Free
    <3>1. /\ \A k \in Lock \ {l} : lock'[k] = lock[k]
          /\ \/ lock'[l] \in {lock[l], Free, Made}
             \/ lock[l] # Free /\ lock'[l] = [lock[l] EXCEPT !.owner = p]
      <4>1. CASE Takes(p, l) \/ Remakes(p, l) \/ RemovesOwn(p, l, then) \/ Removes(p, l)
        BY <1>0, <4>1 DEF Takes, Remakes, RemovesOwn, Removes, RemovesDir
      <4>2. CASE Owns(p, l) \/ OwnsOver(p, l)
        BY <1>0, <4>2 DEF Owns, OwnsOver
      <4> QED BY <1>5, <4>1, <4>2
    <3>2. lock[l] # Free => [lock[l] EXCEPT !.owner = p].age # "none"
      BY <1>0 DEF FreshInv, Dir
    <3> QED BY <1>0, <3>1, <3>2 DEF FreshInv
  <2>2. seen'[p] = Free
    BY <1>0, <1>2, <1>5 DEF Takes, Owns, Remakes, OwnsOver, RemovesOwn, Removes, RemovesDir
  <2> QED BY <1>1, <2>1, <2>2 DEF FreshInv
<1> QED BY <1>3, <1>4, <1>5 DEF LockStep

LEMMA FreshKept ==
    ASSUME Types, FreshInv, [Next]_vars
    PROVE  FreshInv'
<1> USE DEF Goes, Seeing
<1>0. /\ at \in [Proc -> At] /\ lock \in [Lock -> Dir] /\ seen \in [Proc -> Dir]
      /\ Free.age = "none" /\ Free \in Dir /\ "apply" \in Lock
  BY ProcsAssumption DEF ProcsAssumption, Types, AtOK, LockTypeOK, Dir, Free, Age
<1>1. ASSUME NEW p \in Proc, Locks(p) PROVE FreshInv'
  <2>1. Then(p) \in {"refused", "done"} /\ LockStep(p, LockOf(p), Stale(p), Then(p))
    BY <1>1 DEF Then, Locks
  <2> QED BY <2>1, LockOfP, FreshByLock
<1>2. ASSUME NEW r \in Run, Claiming(r) PROVE FreshInv'
  <2>1. r \in Proc
    BY ProcsAssumption DEF ProcsAssumption
  <2>2. lock' = lock /\ seen' = seen /\ (\A q \in Proc \ {r} : at'[q] = at[q]) /\ at[r] \notin Seeing /\ at'[r] \notin Seeing
    BY <1>0, <1>2, <2>1 DEF Claiming, Claims, LooksForAction, ClearsOutcome, LaysSnapshot, Records, Starts, NotStarted, NotesPid, NotNoted
  <2> QED BY <2>1, <2>2, FreshWalks
<1>3. ASSUME NEW r \in Run, Running(r) PROVE FreshInv'
  <2>1. at' = at /\ seen' = seen /\ (lock' = lock \/ lock' = [lock EXCEPT !["apply"] = Free])
    BY <1>3 DEF Running, Runs, Loads, Ends, KeepsPrevious, MakesLive, Releases, RemovesLock, RemovesDir
  <2> QED BY <1>0, <2>1 DEF FreshInv
<1>4. ASSUME NEW a \in Proc, Acting(a) PROVE FreshInv'
  <2>1. lock' = lock /\ \A q \in Proc \ {a} : at'[q] = at[q] /\ seen'[q] = seen[q]
    BY <1>0, <1>4 DEF Acting, Acts, FindsApplyLock, FindsHolder, FindsRun, ActionEnds
  <2>2. at[a] = "holds" => seen[a] = Free
    BY DEF FreshInv
  <2>3. seen'[a] = Free \/ at'[a] \in {"finding holder", "finding run"} \/ (at[a] \notin Seeing /\ at'[a] \notin Seeing /\ seen'[a] = seen[a])
    <3>1. CASE FindsApplyLock(a)
      BY <1>0, <2>2, <3>1, AgedNone DEF Acts, FindsApplyLock
    <3>2. CASE FindsHolder(a) \/ FindsRun(a) \/ ActionEnds(a)
      BY <1>0, <3>2 DEF Acts, FindsHolder, FindsRun, ActionEnds
    <3> QED BY <1>4, <3>1, <3>2 DEF Acting
  <2> QED BY <2>1, <2>3, FreshWalks
<1>5. ASSUME NEW p \in Proc, Asks(p) \/ Killed(p) PROVE FreshInv'
  <2>1. lock' = lock /\ \A q \in Proc \ {p} : at'[q] = at[q] /\ seen'[q] = seen[q]
    BY <1>0, <1>5 DEF Asks, Killed
  <2>2. seen'[p] = Free \/ (at[p] \notin Seeing /\ at'[p] \notin Seeing /\ seen'[p] = seen[p])
    BY <1>0, <1>5 DEF Asks, Killed
  <2> QED BY <2>1, <2>2, FreshWalks
<1>6. CASE Minute
  <2>1. \A l \in Lock : lock'[l] = [lock[l] EXCEPT !.age = Aged(lock[l].age)]
    BY <1>6 DEF Minute, LocksAge
  <2>2. \A l \in Lock : lock'[l].age = "none" => lock[l].age = "none" /\ lock'[l] = [lock[l] EXCEPT !.age = "none"]
    BY <1>0, <2>1 DEF Aged, Dir
  <2>3. \A l \in Lock : lock'[l].age = "none" => lock'[l] = Free
    BY <1>0, <2>2, AgedNone DEF FreshInv
  <2>4. \A p \in Proc : at[p] \notin Seeing /\ at'[p] \notin Seeing
    BY <1>0, <1>6 DEF Minute, Short
  <2> QED BY <1>6, <2>3, <2>4 DEF Minute, FreshInv
<1>7. CASE JobState \/ UNCHANGED vars \/ \E r \in Run : JobKilled(r)
  BY <1>7 DEF JobState, Reads, ReadsRecord, ReadsOutcome, FindsAlive, ReadsOutcomeAgain, JobKilled, vars, lockVars, FreshInv
<1> QED BY <1>1, <1>2, <1>3, <1>4, <1>5, <1>6, <1>7, ClaimingIsRuns DEF Next, ProcStep

\* One goes on, and no lock changes.
LEMMA OwnerWalks ==
    ASSUME AtOK, OwnerInv, lock' = lock, NEW p \in Proc, NEW to, at' = [at EXCEPT ![p] = to],
           at[p] \in Named => to \in Named \/ lock[LockOf(p)].owner # p, at[p] \notin Over, to \in Making => at[p] \in Making
    PROVE  OwnerInv'
BY DEF AtOK, OwnerInv

LEMMA OwnerByLock ==
    ASSUME Types, OwnerInv, NEW p \in Proc, NEW l \in Lock, l = LockOf(p), LockStep(p, l, Stale(p), Then(p))
    PROVE  OwnerInv'
<1> USE DEF Goes
<1>0. /\ AtOK /\ at \in [Proc -> At] /\ lock \in [Lock -> Dir] /\ Nobody \notin Proc
      /\ Free.owner = Nobody /\ Made.owner = Nobody /\ Made.age = "new" /\ Free.age = "none"
      /\ \A q \in Proc : LockOf(q) \in Lock
  BY LockOfP, ProcsAssumption DEF ProcsAssumption, Types, AtOK, LockTypeOK, Dir, Free, Made
<1>1. CASE FindsTakeover(p, l) \/ ClearsTakeover(p, l) \/ Enters(p, l) \/ Looks(p, l) \/ Judges(p, Stale(p)) \/ Leaves(p, l)
           \/ Frees(p, l, Then(p))
  <2>1. PICK to : lock' = lock /\ at' = [at EXCEPT ![p] = to]
                  /\ (at[p] \in Named => to \in Named \/ lock[LockOf(p)].owner # p) /\ at[p] \notin Over /\ to \notin Making
    BY <1>1, ZenonT(60) DEF FindsTakeover, ClearsTakeover, Enters, Looks, Judges, Leaves, Frees, Named, Over, Making, Then
  <2> QED BY <1>0, <2>1, OwnerWalks
<1>2. CASE Takes(p, l) \/ Remakes(p, l)
  <2>1. at[p] \notin Named /\ at[p] \notin Over /\ at[p] \notin Making /\ at'[p] \notin Over
    BY <1>0, <1>2 DEF Takes, Remakes, Named, Over, Making
  <2>2. CASE lock[l] = Free
    <3>1. lock'[l] = Made /\ (\A k \in Lock \ {l} : lock'[k] = lock[k]) /\ \A q \in Proc \ {p} : at'[q] = at[q]
      BY <1>0, <1>2, <2>2 DEF Takes, Remakes
    <3> QED BY <1>0, <2>1, <3>1 DEF OwnerInv
  <2>3. CASE lock[l] # Free
    <3>1. PICK to : lock' = lock /\ at' = [at EXCEPT ![p] = to] /\ to \notin Making
      BY <1>2, <2>3 DEF Takes, Remakes, Making
    <3> QED BY <1>0, <2>1, <3>1, OwnerWalks
  <2> QED BY <2>2, <2>3
<1>3. CASE Owns(p, l) \/ OwnsOver(p, l)
  <2>1. at[p] \notin Named /\ at[p] \in Making /\ at'[p] \notin Making
    BY <1>0, <1>3 DEF Owns, OwnsOver, Named, Making
  <2>2. lock[l].age # "old" /\ \A k \in Lock : lock[k].owner # p
    BY <1>0, <2>1 DEF OwnerInv
  <2>3. \/ lock' = lock
        \/ lock' = [lock EXCEPT ![l] = [@ EXCEPT !.owner = p]] /\ at'[p] \in Named
    BY <1>0, <1>3 DEF Owns, OwnsOver, Named
  <2>4. PICK to : at' = [at EXCEPT ![p] = to]
    BY <1>3 DEF Owns, OwnsOver
  <2>5. at[p] \notin Over /\ to \notin Making
    BY <1>0, <2>1, <2>4 DEF Over, Making
  <2>6. CASE lock' = lock
    BY <1>0, <2>1, <2>4, <2>5, <2>6, OwnerWalks
  <2>7. CASE lock' # lock
    <3>1. lock'[l].owner = p /\ lock'[l].age = lock[l].age /\ \A k \in Lock \ {l} : lock'[k] = lock[k]
      BY <1>0, <2>3, <2>7 DEF Dir
    <3>2. \A q \in Proc \ {p} : at'[q] = at[q]
      BY <1>0, <2>4
    <3>3. at'[p] \in Named /\ at'[p] \notin Making
      BY <2>1, <2>3, <2>7
    <3> QED BY <1>0, <2>2, <3>1, <3>2, <3>3 DEF OwnerInv
  <2> QED BY <2>6, <2>7
<1>4. CASE Removes(p, l)
  <2>1. at[p] \notin Named /\ at'[p] \notin Making
    BY <1>0, <1>4 DEF Removes, Named, Making
  <2> QED BY <1>0, <1>4, <2>1 DEF Removes, RemovesDir, OwnerInv
<1>5. CASE RemovesOwn(p, l, Then(p))
  <2>1. at'[p] \notin Making
    BY <1>0, <1>5 DEF RemovesOwn, Then, Making
  <2> QED BY <1>0, <1>5, <2>1 DEF RemovesOwn, RemovesDir, OwnerInv
<1> QED BY <1>1, <1>2, <1>3, <1>4, <1>5 DEF LockStep

LEMMA OwnerKept ==
    ASSUME Types, OwnerInv, [Next]_vars
    PROVE  OwnerInv'
<1> USE DEF Goes
<1>0. /\ AtOK /\ at \in [Proc -> At] /\ lock \in [Lock -> Dir] /\ Nobody \notin Proc /\ Run \subseteq Proc
      /\ Free.owner = Nobody /\ Free.age = "none" /\ "apply" \in Lock /\ \A p \in Proc : LockOf(p) \in Lock
  BY LockOfP, ProcsAssumption DEF ProcsAssumption, Types, AtOK, LockTypeOK, Dir, Free
<1>1. ASSUME NEW p \in Proc, Locks(p) PROVE OwnerInv'
  BY <1>1, OwnerByLock, LockOfP DEF Locks
<1>2. ASSUME NEW r \in Run, Claiming(r) PROVE OwnerInv'
  <2>1. PICK to \in {"clearing", "freeing", "laying", "recording", "starting", "noting", "done", "gone"} :
          lock' = lock /\ at' = [at EXCEPT ![r] = to] /\ at[r] \in {"holds", "clearing", "laying", "recording", "starting", "noting"}
    BY <1>2 DEF Claiming, Claims, LooksForAction, ClearsOutcome, LaysSnapshot, Records, Starts, NotStarted, NotesPid, NotNoted
  <2>2. to \in Named /\ at[r] \notin Over /\ to \notin Making
    BY <2>1 DEF Named, Over, Making
  <2> QED BY <1>0, <2>1, <2>2, OwnerWalks
<1>3. ASSUME NEW r \in Run, Running(r) PROVE OwnerInv'
  <2>1. at' = at /\ (lock' = lock \/ lock' = [lock EXCEPT !["apply"] = Free])
    BY <1>3 DEF Running, Runs, Loads, Ends, KeepsPrevious, MakesLive, Releases, RemovesLock, RemovesDir
  <2> QED BY <1>0, <2>1 DEF OwnerInv
<1>4. ASSUME NEW a \in Proc, Acting(a) PROVE OwnerInv'
  <2>1. PICK to : lock' = lock /\ at' = [at EXCEPT ![a] = to] /\ to \in Named /\ at[a] \notin Over /\ to \notin Making
    BY <1>4, ZenonT(60) DEF Acting, Acts, FindsApplyLock, FindsHolder, FindsRun, ActionEnds, Named, Over, Making
  <2> QED BY <1>0, <2>1, OwnerWalks
<1>5. ASSUME NEW p \in Proc, Asks(p) \/ Killed(p) PROVE OwnerInv'
  <2>1. PICK to : lock' = lock /\ at' = [at EXCEPT ![p] = to] /\ (at[p] \in Named => to \in Named) /\ at[p] \notin Over /\ to \notin Making
    BY <1>5 DEF Asks, Killed, Named, Over, Making
  <2> QED BY <1>0, <2>1, OwnerWalks
<1>6. CASE Minute
  <2>1. \A p \in Proc : at[p] \in Named => at[p] \in Over /\ at'[p] = at[p]
    BY <1>0, <1>6 DEF Minute, Short, Named, Over
  <2>2. \A p \in Proc : at'[p] \notin Making
    BY <1>0, <1>6 DEF Minute, Short, Making
  <2>3. \A l \in Lock : lock'[l].owner = lock[l].owner
    BY <1>0, <1>6 DEF Minute, LocksAge, Dir
  <2> QED BY <1>0, <2>1, <2>2, <2>3 DEF OwnerInv
<1>7. CASE JobState \/ UNCHANGED vars \/ \E r \in Run : JobKilled(r)
  BY <1>7 DEF JobState, Reads, ReadsRecord, ReadsOutcome, FindsAlive, ReadsOutcomeAgain, JobKilled, vars, lockVars, OwnerInv
<1> QED BY <1>1, <1>2, <1>3, <1>4, <1>5, <1>6, <1>7, ClaimingIsRuns DEF Next, ProcStep

-----------------------------------------------------------------------------
(* The run in the record, and a lock that was judged stale. *)

\* A process that is over stays so, and only by its looking and judging does
\* one come to remove a lock.
LEMMA OverStays ==
    ASSUME Types, [Next]_vars, NEW q \in Proc, at[q] \in Over
    PROVE  at'[q] = at[q]
<1> USE DEF Goes, Over
<1>0. at \in [Proc -> At]
  BY DEF Types, AtOK
<1>1. ASSUME NEW p \in Proc, Locks(p) PROVE at'[q] = at[q]
  BY <1>0, <1>1 DEF Locks, LockStep, Takes, Owns, FindsTakeover, ClearsTakeover, Enters, Looks, Judges, Removes, Remakes,
        OwnsOver, Leaves, Frees, RemovesOwn
<1>2. ASSUME NEW r \in Run, Claiming(r) PROVE at'[q] = at[q]
  BY <1>0, <1>2 DEF Claiming, Claims, LooksForAction, ClearsOutcome, LaysSnapshot, Records, Starts, NotStarted, NotesPid, NotNoted
<1>3. ASSUME NEW r \in Run, Running(r) PROVE at'[q] = at[q]
  BY <1>3 DEF Running, Runs, Loads, Ends, KeepsPrevious, MakesLive, Releases, RemovesLock
<1>4. ASSUME NEW a \in Proc, Acting(a) PROVE at'[q] = at[q]
  BY <1>0, <1>4 DEF Acting, Acts, FindsApplyLock, FindsHolder, FindsRun, ActionEnds
<1>5. ASSUME NEW p \in Proc, Asks(p) \/ Killed(p) PROVE at'[q] = at[q]
  BY <1>0, <1>5 DEF Asks, Killed
<1>6. CASE Minute
  BY <1>6 DEF Minute
<1>7. CASE JobState \/ UNCHANGED vars \/ \E r \in Run : JobKilled(r)
  BY <1>7 DEF JobState, Reads, ReadsRecord, ReadsOutcome, FindsAlive, ReadsOutcomeAgain, JobKilled, vars, lockVars
<1> QED BY <1>1, <1>2, <1>3, <1>4, <1>5, <1>6, <1>7, ClaimingIsRuns DEF Next, ProcStep

LEMMA SeenStays ==
    ASSUME Types, [Next]_vars, NEW q \in Proc, at'[q] \in {"judging", "removing"}
    PROVE  \/ at'[q] = at[q] /\ seen'[q] = seen[q]
           \/ Looks(q, LockOf(q))
           \/ Judges(q, Stale(q))
<1> USE DEF Goes
<1>0. at \in [Proc -> At] /\ seen \in [Proc -> Dir]
  BY DEF Types, AtOK, LockTypeOK, Dir
<1>1. ASSUME NEW p \in Proc, Locks(p), ~Looks(p, LockOf(p)), ~Judges(p, Stale(p)) PROVE at'[q] = at[q] /\ seen'[q] = seen[q]
  <2>1. Then(p) \in {"refused", "done"}
    BY DEF Then
  <2> QED
    BY <1>0, <1>1, <2>1 DEF Locks, LockStep, Takes, Owns, FindsTakeover, ClearsTakeover, Enters, Removes, Remakes,
        OwnsOver, Leaves, Frees, RemovesOwn
<1>2. ASSUME NEW p \in Proc, p # q, Looks(p, LockOf(p)) \/ Judges(p, Stale(p)) PROVE at'[q] = at[q] /\ seen'[q] = seen[q]
  BY <1>0, <1>2 DEF Looks, Judges
<1>3. ASSUME NEW r \in Run, Claiming(r) PROVE at'[q] = at[q] /\ seen'[q] = seen[q]
  BY <1>0, <1>3 DEF Claiming, Claims, LooksForAction, ClearsOutcome, LaysSnapshot, Records, Starts, NotStarted, NotesPid, NotNoted
<1>4. ASSUME NEW r \in Run, Running(r) PROVE at'[q] = at[q] /\ seen'[q] = seen[q]
  BY <1>4 DEF Running, Runs, Loads, Ends, KeepsPrevious, MakesLive, Releases, RemovesLock
<1>5. ASSUME NEW a \in Proc, Acting(a) PROVE at'[q] = at[q] /\ seen'[q] = seen[q]
  BY <1>0, <1>5 DEF Acting, Acts, FindsApplyLock, FindsHolder, FindsRun, ActionEnds
<1>6. ASSUME NEW p \in Proc, Asks(p) \/ Killed(p) PROVE at'[q] = at[q] /\ seen'[q] = seen[q]
  BY <1>0, <1>6 DEF Asks, Killed
<1>7. CASE Minute
  BY <1>0, <1>7 DEF Minute
<1>8. CASE JobState \/ UNCHANGED vars \/ \E r \in Run : JobKilled(r)
  BY <1>8 DEF JobState, Reads, ReadsRecord, ReadsOutcome, FindsAlive, ReadsOutcomeAgain, JobKilled, vars, lockVars
<1> QED BY <1>1, <1>2, <1>3, <1>4, <1>5, <1>6, <1>7, <1>8, ClaimingIsRuns DEF Next, ProcStep, Locks

\* The run in the record was started, and once its pid or a minute is in it,
\* whoever started it is over.
RecordInv ==
    \A r \in Run : record.run = r =>
        /\ at[r] \in {"starting", "noting", "freeing", "removing own", "done", "gone"}
        /\ at[r] \in {"freeing", "removing own"} => job[r] = "gone"
        /\ record.pid \/ record.old => at[r] \in Over

LEMMA RecordInit == Init => RecordInv
<1>1. Init => record.run = Nobody
  BY DEF Init, NoRecord
<1> QED BY <1>1, ProcsAssumption DEF ProcsAssumption, RecordInv

LEMMA RecordKept ==
    ASSUME Types, RecordInv, [Next]_vars
    PROVE  RecordInv'
<1> USE DEF Goes, Over
<1>0. at \in [Proc -> At] /\ job \in [Run -> JobAt] /\ Run \subseteq Proc
  BY ProcsAssumption DEF ProcsAssumption, Types, AtOK, JobOK
<1>1. ASSUME NEW p \in Proc, Locks(p) PROVE RecordInv'
  <2>1. record' = record /\ job' = job /\ \A q \in Proc \ {p} : at'[q] = at[q]
    BY <1>0, <1>1 DEF Locks, disk, LockStep, Takes, Owns, FindsTakeover, ClearsTakeover, Enters, Looks, Judges, Removes, Remakes,
          OwnsOver, Leaves, Frees, RemovesOwn
  <2>2. \/ at[p] \notin {"starting", "noting", "freeing", "removing own", "done", "gone"}
        \/ at[p] \in {"freeing", "removing own"} /\ at'[p] \in {"removing own", Then(p)}
    BY <1>0, <1>1 DEF Locks, LockStep, Takes, Owns, FindsTakeover, ClearsTakeover, Enters, Looks, Judges, Removes, Remakes,
          OwnsOver, Leaves, Frees, RemovesOwn
  <2>3. SUFFICES ASSUME NEW r \in Run, record.run = r
        PROVE  /\ at'[r] \in {"starting", "noting", "freeing", "removing own", "done", "gone"}
               /\ at'[r] \in {"freeing", "removing own"} => job[r] = "gone"
               /\ record.pid \/ record.old => at'[r] \in Over
    BY <2>1 DEF RecordInv
  <2>4. CASE r = p
    <3>1. at[p] \in {"freeing", "removing own"} /\ job[p] = "gone" /\ ~(record.pid \/ record.old)
      BY <2>2, <2>3, <2>4 DEF RecordInv
    <3> QED BY <2>2, <2>4, <3>1 DEF Then
  <2>5. CASE r # p
    BY <1>0, <2>1, <2>3, <2>5 DEF RecordInv
  <2> QED BY <2>4, <2>5
<1>2. ASSUME NEW r \in Run, Claiming(r) PROVE RecordInv'
  <2> USE DEF Claims, Becomes, disk
  <2>1. CASE LooksForAction(r) \/ ClearsOutcome(r) \/ LaysSnapshot(r)
    BY <1>0, <2>1 DEF LooksForAction, ClearsOutcome, LaysSnapshot, RecordInv
  <2>2. CASE Records(r)
    BY <1>0, <2>2 DEF Records, NoRecord, RecordInv
  <2>3. CASE Starts(r) \/ NotStarted(r) \/ NotNoted(r)
    BY <1>0, <2>3 DEF Starts, NotStarted, NotNoted, RecordInv
  <2>4. CASE NotesPid(r)
    BY <1>0, <2>4 DEF NotesPid, RecordInv
  <2> QED BY <1>2, <2>1, <2>2, <2>3, <2>4 DEF Claiming
<1>3. ASSUME NEW r \in Run, Running(r) PROVE RecordInv'
  BY <1>0, <1>3 DEF Running, Runs, Loads, Ends, KeepsPrevious, MakesLive, Releases, RemovesLock, Becomes, RecordInv
<1>4. ASSUME NEW a \in Proc, Acting(a) PROVE RecordInv'
  BY <1>0, <1>4, ProcsAssumption DEF ProcsAssumption, Acting, Acts, FindsApplyLock, FindsHolder, FindsRun, ActionEnds, disk, RecordInv
<1>5. ASSUME NEW p \in Proc, Asks(p) \/ Killed(p) PROVE RecordInv'
  BY <1>0, <1>5 DEF Asks, Killed, disk, RecordInv
<1>6. CASE Minute
  <2>1. \A r \in Run : at[r] \in {"idle", "refused", "done", "gone"} /\ (at[r] \in Over => at'[r] = at[r])
    BY <1>0, <1>6 DEF Minute, Short
  <2>2. record'.run = record.run
    BY <1>6 DEF Minute, Types, RecordOK, Record
  <2> QED BY <1>6, <2>1, <2>2 DEF Minute, RecordInv
<1>7. ASSUME NEW r \in Run, JobKilled(r) PROVE RecordInv'
  BY <1>0, <1>7 DEF JobKilled, Becomes, disk, lockVars, RecordInv
<1>8. CASE JobState \/ UNCHANGED vars
  BY <1>8 DEF JobState, Reads, ReadsRecord, ReadsOutcome, FindsAlive, ReadsOutcomeAgain, vars, disk, lockVars, RecordInv
<1> QED BY <1>1, <1>2, <1>3, <1>4, <1>5, <1>6, <1>7, <1>8, ClaimingIsRuns DEF Next, ProcStep

\* A lock found stale is of one that is over, or has no name in it and is not new.
JudgedInv ==
    /\ \A p \in Proc : at[p] \in {"judging", "removing"} /\ seen[p].owner # Nobody /\ seen[p].age = "old" => at[seen[p].owner] \in Over
    /\ \A p \in Proc : at[p] = "removing" /\ seen[p].owner # Nobody => at[seen[p].owner] \in Over
    /\ \A p \in Proc : at[p] = "removing" /\ seen[p].owner = Nobody => seen[p].age # "new"

LEMMA JudgedRight ==
    ASSUME Types, FreshInv, RecordInv, JudgedInv, NEW p \in Proc, at[p] = "judging", Stale(p)
    PROVE  IF seen[p].owner = Nobody THEN seen[p].age # "new" ELSE at[seen[p].owner] \in Over
<1>1. CASE seen[p].owner = Nobody
  BY <1>1 DEF Stale, HolderGone
<1>2. CASE seen[p].owner # Nobody
  <2>1. seen[p].age # "none"
    <3>1. seen[p].age = "none" => seen[p] = Free
      BY DEF FreshInv
    <3> QED BY <1>2, <3>1 DEF Free
  <2>2. CASE seen[p].age = "old"
    BY <1>2, <2>2 DEF JudgedInv
  <2>3. CASE seen[p].age \notin {"none", "old"}
    <3>1. record.run = seen[p].owner /\ ~Alive(record)
      BY <1>2, <2>3 DEF Stale, HolderGone
    <3>2. record.run \in Run
      BY <1>2, <3>1 DEF Types, RecordOK, Record, Settings
    <3>3. record.pid \/ record.old
      BY <3>1 DEF Alive
    <3> QED BY <1>2, <3>1, <3>2, <3>3 DEF RecordInv
  <2> QED BY <2>1, <2>2, <2>3
<1> QED BY <1>1, <1>2

LEMMA JudgedKept ==
    ASSUME Types, FreshInv, OwnerInv, RecordInv, JudgedInv, [Next]_vars
    PROVE  JudgedInv'
<1>0. at \in [Proc -> At] /\ seen \in [Proc -> Dir] /\ lock \in [Lock -> Dir] /\ \A q \in Proc : seen[q].owner # Nobody => seen[q].owner \in Proc
  BY DEF Types, AtOK, LockTypeOK, Dir
<1> SUFFICES ASSUME NEW p \in Proc, at'[p] \in {"judging", "removing"}
             PROVE  /\ seen'[p].owner # Nobody /\ seen'[p].age = "old" => at'[seen'[p].owner] \in Over
                    /\ at'[p] = "removing" /\ seen'[p].owner # Nobody => at'[seen'[p].owner] \in Over
                    /\ at'[p] = "removing" /\ seen'[p].owner = Nobody => seen'[p].age # "new"
  BY DEF JudgedInv
<1>1. \A q \in Proc : at[q] \in Over => at'[q] \in Over
  BY OverStays
<1>2. CASE at'[p] = at[p] /\ seen'[p] = seen[p]
  BY <1>0, <1>1, <1>2 DEF JudgedInv
<1>3. CASE Looks(p, LockOf(p))
  <2>1. at'[p] = "judging" /\ seen'[p] = lock[LockOf(p)]
    BY <1>0, <1>3 DEF Looks, Goes
  <2>2. lock[LockOf(p)].owner # Nobody => lock[LockOf(p)].owner \in Proc
    BY <1>0, LockOfP DEF Dir
  <2>3. lock[LockOf(p)].owner # Nobody /\ lock[LockOf(p)].age = "old" => at[lock[LockOf(p)].owner] \in Over
    BY <2>2, LockOfP DEF OwnerInv
  <2> QED BY <1>1, <2>1, <2>2, <2>3
<1>4. CASE Judges(p, Stale(p))
  <2>1. seen' = seen /\ at[p] = "judging" /\ (at'[p] = "removing" => Stale(p))
    BY <1>0, <1>4 DEF Judges, Goes
  <2>2. CASE at'[p] = "removing"
    <3>1. IF seen[p].owner = Nobody THEN seen[p].age # "new" ELSE at[seen[p].owner] \in Over
      BY <2>1, <2>2, JudgedRight
    <3> QED BY <1>0, <1>1, <2>1, <2>2, <3>1
  <2>3. CASE at'[p] = "judging"
    BY <1>0, <1>4, <2>3 DEF Judges, Goes
  <2> QED BY <2>2, <2>3
<1> QED BY <1>2, <1>3, <1>4, SeenStays

-----------------------------------------------------------------------------
(* One process at a time has a lock. *)

\* A run has its lock itself until its process has.
Has(p) == at[p] \in Having \/ (p \in Run /\ at[p] = "noting" /\ job[p] = "none")

\* But for a lock that was removed unjudged, its directory is the one a process
\* has just made, or bears the name of the one that has it.
HoldInv ==
    \A p \in Proc : LockOf(p) \notin stolen =>
        /\ at[p] \in Making => lock[LockOf(p)] = Made
        /\ Has(p) => lock[LockOf(p)] = [age |-> "new", owner |-> p]
        /\ \A q \in Proc : at[p] \in Making /\ at[q] \in Making /\ LockOf(q) = LockOf(p) => p = q

LEMMA HoldInit == Init => HoldInv
<1>1. Init => \A p \in Proc : at[p] \in {"idle", "done"}
  BY DEF Init, InitLocks
<1> QED BY <1>1 DEF HoldInv, Has, Having, Making

\* None comes to make or have a lock, and none changes.
LEMMA HoldWalks ==
    ASSUME HoldInv, lock' = lock, stolen' = stolen,
           \A p \in Proc : at'[p] \in Making => at[p] \in Making,
           \A p \in Proc : Has(p)' => Has(p)
    PROVE  HoldInv'
BY DEF HoldInv

\* A lock is removed that none makes or has.
LEMMA HoldRemoved ==
    ASSUME HoldInv, NEW l \in Lock, lock \in [Lock -> Dir], lock' = [lock EXCEPT ![l] = Free], stolen \subseteq stolen',
           \A p \in Proc : LockOf(p) \in Lock,
           \A p \in Proc : at'[p] \in Making => at[p] \in Making,
           \A p \in Proc : Has(p)' => Has(p),
           l \notin stolen' => \A p \in Proc : LockOf(p) = l => at'[p] \notin Making /\ ~Has(p)'
    PROVE  HoldInv'
BY DEF HoldInv

LEMMA HoldSays ==
    ASSUME HoldInv, NEW q \in Proc, LockOf(q) \notin stolen
    PROVE  /\ at[q] \in Making => lock[LockOf(q)] = Made
           /\ Has(q) => lock[LockOf(q)].owner = q /\ lock[LockOf(q)].age = "new"
<1>1. Has(q) => lock[LockOf(q)] = [age |-> "new", owner |-> q]
  BY DEF HoldInv
<1>2. at[q] \in Making => lock[LockOf(q)] = Made
  BY DEF HoldInv
<1> QED BY <1>1, <1>2

\* Where one is after its step, and what the others' steps leave.
LEMMA HoldByLock ==
    ASSUME Types, StartedInv, FreshInv, JudgedInv, HoldInv, NEW p \in Proc, Locks(p)
    PROVE  HoldInv'
<1> DEFINE l == LockOf(p)
<1> USE DEF Goes
<1>0. /\ at \in [Proc -> At] /\ lock \in [Lock -> Dir] /\ seen \in [Proc -> Dir] /\ stolen \subseteq Lock
      /\ \A q \in Proc : LockOf(q) \in Lock
      /\ Nobody \notin Proc /\ Free.owner = Nobody /\ Made.owner = Nobody /\ Made.age = "new" /\ Free.age = "none"
  BY LockOfP, ProcsAssumption DEF ProcsAssumption, Types, AtOK, LockTypeOK, Dir, Free, Made
<1>1. LockStep(p, l, Stale(p), Then(p)) /\ job' = job
  BY DEF Locks
<1>2. l \in Lock
  BY <1>0
<1>3. Then(p) \in {"refused", "done"}
  BY DEF Then
<1> HIDE DEF l
<1>4. ASSUME NEW to, at' = [at EXCEPT ![p] = to], to \notin Making, to \in Having => at[p] \in Having, to # "noting"
      PROVE  (\A q \in Proc : at'[q] \in Making => at[q] \in Making) /\ (\A q \in Proc : Has(q)' => Has(q))
  BY <1>0, <1>1, <1>4 DEF Has
<1>5. CASE FindsTakeover(p, l) \/ ClearsTakeover(p, l) \/ Enters(p, l) \/ Looks(p, l) \/ Judges(p, Stale(p)) \/ Leaves(p, l)
           \/ Frees(p, l, Then(p))
  <2>1. PICK to : /\ lock' = lock /\ stolen' = stolen /\ at' = [at EXCEPT ![p] = to]
                  /\ to \notin Making /\ (to \in Having => at[p] \in Having) /\ to # "noting"
    BY <1>3, <1>5, ZenonT(60) DEF FindsTakeover, ClearsTakeover, Enters, Looks, Judges, Leaves, Frees, Having, Making
  <2> QED BY <1>4, <2>1, HoldWalks
<1>6. CASE Takes(p, l) \/ Remakes(p, l)
  <2>1. CASE lock[l] = Free
    <3>1. /\ lock'[l] = Made /\ stolen' = stolen /\ (\A k \in Lock \ {l} : lock'[k] = lock[k]) /\ \A q \in Proc \ {p} : at'[q] = at[q]
          /\ at'[p] \notin Having /\ at'[p] # "noting"
      BY <1>0, <1>2, <1>6, <2>1 DEF Takes, Remakes, Having
    <3>2. \A q \in Proc \ {p} : LockOf(q) = l /\ l \notin stolen => at[q] \notin Making /\ ~Has(q)
      BY <1>0, <2>1, HoldSays
    <3>3. ~Has(p)'
      BY <3>1 DEF Has
    <3>4. \A q \in Proc \ {p} : Has(q)' => Has(q)
      BY <1>1, <3>1 DEF Has
    <3> QED BY <1>0, <3>1, <3>2, <3>3, <3>4 DEF HoldInv, l
  <2>2. CASE lock[l] # Free
    <3>1. PICK to : /\ lock' = lock /\ stolen' = stolen /\ at' = [at EXCEPT ![p] = to]
                    /\ to \notin Making /\ to \notin Having /\ to # "noting"
      BY <1>6, <2>2 DEF Takes, Remakes, Having, Making
    <3> QED BY <1>4, <3>1, HoldWalks
  <2> QED BY <2>1, <2>2
<1>7. CASE Owns(p, l) \/ OwnsOver(p, l)
  <2>0. at[p] \in Making
    BY <1>7 DEF Owns, OwnsOver, Making
  <2>1. CASE lock[l] = Free
    <3>1. PICK to : /\ lock' = lock /\ stolen' = stolen /\ at' = [at EXCEPT ![p] = to]
                    /\ to \notin Making /\ to \notin Having /\ to # "noting"
      BY <1>7, <2>1 DEF Owns, OwnsOver, Having, Making
    <3> QED BY <1>4, <3>1, HoldWalks
  <2>2. CASE lock[l] # Free
    <3>1. /\ lock' = [lock EXCEPT ![l] = [@ EXCEPT !.owner = p]] /\ stolen' = stolen
          /\ (\A q \in Proc \ {p} : at'[q] = at[q]) /\ at'[p] \notin Making
      BY <1>0, <1>7, <2>2 DEF Owns, OwnsOver, Making
    <3>2. l \notin stolen => lock'[l] = [age |-> "new", owner |-> p]
      <4> SUFFICES ASSUME l \notin stolen PROVE lock'[l] = [age |-> "new", owner |-> p]
        OBVIOUS
      <4>1. lock[l] = [age |-> "new", owner |-> Nobody]
        BY <2>0 DEF HoldInv, Made, l
      <4> QED BY <1>0, <1>2, <3>1, <4>1
    <3>3. \A q \in Proc \ {p} : LockOf(q) = l /\ l \notin stolen => at[q] \notin Making /\ ~Has(q)
      <4> SUFFICES ASSUME NEW q \in Proc \ {p}, LockOf(q) = l, l \notin stolen PROVE at[q] \notin Making /\ ~Has(q)
        OBVIOUS
      <4>1. lock[l] = Made
        BY <2>0, HoldSays DEF l
      <4>2. at[q] \notin Making
        BY <2>0 DEF HoldInv, l
      <4>3. ~Has(q)
        BY <1>0, <4>1, HoldSays
      <4> QED BY <4>2, <4>3
    <3>4. \A q \in Proc \ {p} : Has(q)' => Has(q)
      BY <1>1, <3>1 DEF Has
    <3>5. \A k \in Lock \ {l} : lock'[k] = lock[k]
      BY <1>0, <3>1
    <3> QED BY <1>0, <3>1, <3>2, <3>3, <3>4, <3>5 DEF HoldInv, l
  <2> QED BY <2>1, <2>2
<1>8. CASE Removes(p, l)
  <2>1. /\ lock' = [lock EXCEPT ![l] = Free] /\ at' = [at EXCEPT ![p] = "remaking"]
        /\ stolen \subseteq stolen' /\ (l \notin stolen' => l \notin stolen /\ lock[l] \in {Free, seen[p]})
    BY <1>0, <1>8 DEF Removes, RemovesDir
  <2>2. at[p] = "removing" /\ "remaking" \notin Making /\ "remaking" \notin Having
    BY <1>8 DEF Removes, Making, Having
  <2>3. (\A q \in Proc : at'[q] \in Making => at[q] \in Making) /\ (\A q \in Proc : Has(q)' => Has(q))
    BY <1>4, <2>1, <2>2
  <2>4. ASSUME NEW q \in Proc, LockOf(q) = l, l \notin stolen' PROVE at'[q] \notin Making /\ ~Has(q)'
    <3>1. CASE at[q] \in Making
      <4>1. lock[l] = Made
        BY <2>1, <2>4, <3>1 DEF HoldInv
      <4>2. seen[p] = Made
        BY <1>0, <2>1, <2>4, <4>1
      <4> QED BY <1>0, <2>2, <4>2 DEF JudgedInv
    <3>2. CASE Has(q)
      <4>1. lock[l].owner = q
        BY <2>1, <2>4, <3>2, HoldSays
      <4>2. seen[p].owner = q
        BY <1>0, <2>1, <2>4, <4>1
      <4>3. at[q] \in Over
        BY <1>0, <2>2, <4>2 DEF JudgedInv
      <4> QED BY <3>2, <4>3 DEF Has, Over, Having
    <3> QED BY <2>3, <3>1, <3>2
  <2> QED BY <1>0, <1>2, <2>1, <2>3, <2>4, HoldRemoved
<1>9. CASE RemovesOwn(p, l, Then(p))
  <2>1. /\ lock' = [lock EXCEPT ![l] = Free] /\ at' = [at EXCEPT ![p] = Then(p)]
        /\ stolen \subseteq stolen' /\ (l \notin stolen' => l \notin stolen)
    BY <1>0, <1>9 DEF RemovesOwn, RemovesDir
  <2>2. Has(p) /\ at[p] \notin Making /\ Then(p) \notin Making /\ Then(p) \notin Having /\ Then(p) # "noting"
    BY <1>3, <1>9 DEF RemovesOwn, Has, Making, Having
  <2>3. (\A q \in Proc : at'[q] \in Making => at[q] \in Making) /\ (\A q \in Proc : Has(q)' => Has(q))
    BY <1>4, <2>1, <2>2
  <2>4. at'[p] \notin Making /\ ~Has(p)'
    BY <1>0, <2>1, <2>2 DEF Has
  <2>5. ASSUME NEW q \in Proc \ {p}, LockOf(q) = l, l \notin stolen' PROVE at[q] \notin Making /\ ~Has(q)
    <3>1. lock[l].owner = p
      BY <2>1, <2>2, <2>5, HoldSays DEF l
    <3> QED BY <1>0, <2>1, <2>5, <3>1, HoldSays
  <2> QED BY <1>0, <1>2, <2>1, <2>3, <2>4, <2>5, HoldRemoved
<1> QED BY <1>1, <1>5, <1>6, <1>7, <1>8, <1>9 DEF LockStep

LEMMA HoldKept ==
    ASSUME Types, StartedInv, FreshInv, JudgedInv, HoldInv, [Next]_vars
    PROVE  HoldInv'
<1> USE DEF Goes
<1>0. /\ at \in [Proc -> At] /\ job \in [Run -> JobAt] /\ lock \in [Lock -> Dir] /\ stolen \subseteq Lock
      /\ \A q \in Proc : LockOf(q) \in Lock
      /\ Run \subseteq Proc /\ "apply" \in Lock
      /\ Nobody \notin Proc /\ Free.owner = Nobody /\ Made.owner = Nobody /\ Made.age = "new" /\ Free.age = "none"
  BY LockOfP, ProcsAssumption DEF ProcsAssumption, Types, AtOK, JobOK, LockTypeOK, Dir, Free, Made
<1>1. ASSUME NEW p \in Proc, Locks(p) PROVE HoldInv'
  BY <1>1, HoldByLock
<1>2. ASSUME NEW r \in Run, Claiming(r) PROVE HoldInv'
  <2>1. PICK to \in {"clearing", "freeing", "laying", "recording", "starting", "noting", "done", "gone"} :
          /\ lock' = lock /\ stolen' = stolen /\ at' = [at EXCEPT ![r] = to]
          /\ at[r] \in {"holds", "clearing", "laying", "recording", "starting", "noting"}
          /\ to \notin {"done", "gone"} => at[r] # "noting"
    BY <1>2 DEF Claiming, Claims, LooksForAction, ClearsOutcome, LaysSnapshot, Records, Starts, NotStarted, NotesPid, NotNoted
  <2>2. \A q \in Proc : at'[q] \in Making => at[q] \in Making
    BY <1>0, <2>1 DEF Making
  <2>3. \A q \in Run : job'[q] = "none" => job[q] = "none"
    BY <1>0, <1>2 DEF Becomes, Claiming, Claims, LooksForAction, ClearsOutcome, LaysSnapshot, Records, Starts, NotStarted, NotesPid, NotNoted
  <2>4. Has(r)' => Has(r)
    BY <1>0, <2>1 DEF Has, Having
  <2>5. \A q \in Proc \ {r} : Has(q)' => Has(q)
    BY <1>0, <2>1, <2>3 DEF Has
  <2> QED BY <2>1, <2>2, <2>4, <2>5, HoldWalks
<1>3. ASSUME NEW r \in Run, Running(r) PROVE HoldInv'
  <2>1. /\ at' = at /\ \A q \in Run : job'[q] = "none" => job[q] = "none"
        /\ \/ lock' = lock /\ stolen' = stolen
           \/ RemovesLock(r)
    BY <1>0, <1>3 DEF Running, Runs, Becomes, Loads, Ends, KeepsPrevious, MakesLive, Releases, RemovesLock
  <2>2. \A q \in Proc : Has(q)' => Has(q)
    BY <2>1 DEF Has
  <2>3. CASE RemovesLock(r)
    <3>1. /\ lock' = [lock EXCEPT !["apply"] = Free] /\ job[r] = "removing"
          /\ stolen \subseteq stolen' /\ ("apply" \notin stolen' => "apply" \notin stolen /\ lock["apply"] \in {Free, [lock["apply"] EXCEPT !.owner = r]})
      BY <1>0, <2>3 DEF RemovesLock, RemovesDir, Runs
    <3>2. "apply" \notin stolen' => "apply" \notin stolen /\ (lock["apply"] = Free \/ lock["apply"].owner = r)
      BY <1>0, <3>1 DEF Dir
    <3>3. ~Has(r)
      BY <3>1 DEF Has, Having, StartedInv, HasProcess, Over
    <3>4. ASSUME NEW q \in Proc, LockOf(q) = "apply", "apply" \notin stolen' PROVE at[q] \notin Making /\ ~Has(q)
      BY <1>0, <3>2, <3>3, <3>4, HoldSays
    <3> QED BY <1>0, <2>1, <2>2, <3>1, <3>4, HoldRemoved
  <2> QED BY <2>1, <2>2, <2>3, HoldWalks
<1>4. ASSUME NEW a \in Proc, Acting(a) PROVE HoldInv'
  <2>1. PICK to : lock' = lock /\ stolen' = stolen /\ job' = job /\ at' = [at EXCEPT ![a] = to] /\ at[a] \in Having /\ to \notin Making
    BY <1>4, ZenonT(60) DEF Acting, Acts, FindsApplyLock, FindsHolder, FindsRun, ActionEnds, Having, Making
  <2>2. \A q \in Proc : Has(q)' => Has(q)
    BY <1>0, <2>1 DEF Has
  <2> QED BY <1>0, <2>1, <2>2, HoldWalks
<1>5. ASSUME NEW p \in Proc, Asks(p) \/ Killed(p) PROVE HoldInv'
  <2>1. PICK to \in {"taking", "gone"} : lock' = lock /\ stolen' = stolen /\ job' = job /\ at' = [at EXCEPT ![p] = to]
    BY <1>5 DEF Asks, Killed
  <2>2. (\A q \in Proc : at'[q] \in Making => at[q] \in Making) /\ (\A q \in Proc : Has(q)' => Has(q))
    BY <1>0, <2>1 DEF Has, Having, Making
  <2> QED BY <2>1, <2>2, HoldWalks
<1>6. CASE Minute
  <2>1. \A p \in Proc : at'[p] \in {"idle", "done", "gone"}
    BY <1>0, <1>6 DEF Minute, Short
  <2> QED BY <2>1 DEF HoldInv, Has, Having, Making
<1>7. ASSUME NEW r \in Run, JobKilled(r) PROVE HoldInv'
  <2>1. lock' = lock /\ stolen' = stolen /\ at' = at /\ \A q \in Run : job'[q] = "none" => job[q] = "none"
    BY <1>0, <1>7 DEF JobKilled, Becomes, lockVars
  <2>2. \A q \in Proc : Has(q)' => Has(q)
    BY <2>1 DEF Has
  <2> QED BY <2>1, <2>2, HoldWalks
<1>8. CASE JobState \/ UNCHANGED vars
  BY <1>8 DEF JobState, Reads, ReadsRecord, ReadsOutcome, FindsAlive, ReadsOutcomeAgain, vars, lockVars, HoldInv, Has
<1> QED BY <1>1, <1>2, <1>3, <1>4, <1>5, <1>6, <1>7, <1>8, ClaimingIsRuns DEF Next, ProcStep

\* Two that act have the actions' lock, and so are one.
LEMMA OneActionOf == ASSUME AtOK, HoldInv PROVE OneAction
<1> SUFFICES ASSUME NEW a \in Action, NEW b \in Action, at[a] = "acting", at[b] = "acting", "action" \notin stolen PROVE a = b
  BY DEF OneAction
<1>1. a \in Proc /\ b \in Proc /\ LockOf(a) = "action" /\ LockOf(b) = "action"
  BY ProcsAssumption DEF ProcsAssumption, LockOf
<1>2. Has(a) /\ Has(b)
  BY DEF Has, Having
<1>3. lock["action"].owner = a /\ lock["action"].owner = b
  BY <1>1, <1>2, HoldSays
<1> QED BY <1>3

-----------------------------------------------------------------------------
(* The lock and the record are those of the run whose process is on its way. *)

\* What was recorded as having happened stays so.
LEMMA HistoryGrows ==
    ASSUME Types, [Next]_vars
    PROVE  stolen \subseteq stolen' /\ past.unnoted \subseteq past'.unnoted /\ past.cut \subseteq past'.cut
<1>0. past \in Past
  BY DEF Types, PastOK
<1>1. ASSUME NEW p \in Proc, Locks(p) PROVE stolen \subseteq stolen' /\ past.unnoted \subseteq past'.unnoted /\ past.cut \subseteq past'.cut
  <2>1. stolen \subseteq stolen'
    BY <1>1 DEF Locks, LockStep, Takes, Owns, FindsTakeover, ClearsTakeover, Enters, Looks, Judges, Removes, Remakes,
          OwnsOver, Leaves, Frees, RemovesOwn, RemovesDir
  <2> QED BY <1>0, <1>1, <2>1 DEF Locks, Past
<1>2. ASSUME NEW r \in Run, Claiming(r) PROVE stolen \subseteq stolen' /\ past.unnoted \subseteq past'.unnoted /\ past.cut \subseteq past'.cut
  BY <1>0, <1>2 DEF Claiming, Claims, LooksForAction, ClearsOutcome, LaysSnapshot, Records, Starts, NotStarted, NotesPid, NotNoted, Past
<1>3. ASSUME NEW r \in Run, Running(r) PROVE stolen \subseteq stolen' /\ past.unnoted \subseteq past'.unnoted /\ past.cut \subseteq past'.cut
  <2>1. stolen \subseteq stolen'
    BY <1>3 DEF Running, Loads, Ends, KeepsPrevious, MakesLive, Releases, RemovesLock, RemovesDir
  <2>2. past.unnoted \subseteq past'.unnoted /\ past.cut \subseteq past'.cut
    BY <1>0, <1>3 DEF Running, Loads, Ends, KeepsPrevious, MakesLive, Releases, RemovesLock, Past
  <2> QED BY <2>1, <2>2
<1>4. ASSUME NEW a \in Proc, Acting(a) PROVE stolen' = stolen /\ past' = past
  BY <1>4 DEF Acting, Acts, FindsApplyLock, FindsHolder, FindsRun, ActionEnds
<1>5. ASSUME NEW p \in Proc, Asks(p) \/ Killed(p) PROVE stolen' = stolen /\ past.unnoted \subseteq past'.unnoted /\ past.cut \subseteq past'.cut
  BY <1>0, <1>5 DEF Asks, Killed, Past
<1>6. ASSUME NEW r \in Run, JobKilled(r) PROVE stolen' = stolen /\ past.unnoted \subseteq past'.unnoted /\ past.cut \subseteq past'.cut
  BY <1>0, <1>6 DEF JobKilled, lockVars, Past
<1>7. CASE JobState \/ Minute \/ UNCHANGED vars
  BY <1>7 DEF JobState, Reads, ReadsRecord, ReadsOutcome, FindsAlive, ReadsOutcomeAgain, Minute, vars, lockVars
<1> QED BY <1>1, <1>2, <1>3, <1>4, <1>5, <1>6, <1>7, ClaimingIsRuns DEF Next, ProcStep

Sound == "apply" \notin stolen /\ past.unnoted = {}

\* As long as no lock was removed unjudged and every pid was recorded, the run
\* with a process has the lock and the record, and none has found it gone.
ProcessInv ==
    Sound =>
        /\ \A r \in Run : HasProcess(r) => lock["apply"].owner = r
        /\ \A r \in Run : HasProcess(r) /\ at[r] # "noting" => record.run = r /\ record.pid
        /\ \A p \in Run : at[p] = "removing" /\ seen[p].owner \in Run => ~HasProcess(seen[p].owner)

LEMMA ProcessInit == Init => ProcessInv
<1>1. Init => (\A r \in Run : job[r] = "none")
  BY DEF Init
<1> QED BY <1>1 DEF ProcessInv, HasProcess

\* One whose lock is found left behind has no process.
LEMMA GoneIsGone ==
    ASSUME ProcessInv, Sound, RecordInv, NEW of, of.owner \in Run, HolderGone(of),
           of.age # "none", of.age = "old" => at[of.owner] \in Over
    PROVE  ~HasProcess(of.owner)
<1> SUFFICES ASSUME HasProcess(of.owner) PROVE FALSE
  OBVIOUS
<1>0. of.owner # Nobody /\ "noting" \notin Over
  BY ProcsAssumption DEF ProcsAssumption, Over
<1>1. CASE record.run = of.owner
  <2>1. ~Alive(record)
    BY <1>0, <1>1 DEF HolderGone
  <2>2. ~record.pid /\ record.old
    BY <1>1, <2>1 DEF Alive
  <2>3. at[of.owner] \in Over
    BY <1>1, <2>2 DEF RecordInv
  <2> QED BY <1>0, <2>2, <2>3 DEF ProcessInv
<1>2. CASE record.run # of.owner
  <2>1. of.age = "old"
    BY <1>0, <1>2 DEF HolderGone
  <2> QED BY <1>0, <1>2, <2>1 DEF ProcessInv
<1> QED BY <1>1, <1>2

LEMMA ProcessByLock ==
    ASSUME Types, StartedInv, FreshInv, RecordInv, JudgedInv, HoldInv, ProcessInv, Sound, "apply" \notin stolen',
           NEW p \in Proc, Locks(p)
    PROVE  ProcessInv'
<1> USE DEF Goes
<1>0. /\ at \in [Proc -> At] /\ lock \in [Lock -> Dir] /\ seen \in [Proc -> Dir] /\ Run \subseteq Proc
      /\ "apply" \in Lock /\ Nobody \notin Run /\ Free.owner = Nobody /\ Made.owner = Nobody
  BY ProcsAssumption DEF ProcsAssumption, Types, AtOK, LockTypeOK, Dir, Free, Made
<1>1. LockStep(p, LockOf(p), Stale(p), Then(p)) /\ job' = job /\ record' = record
  BY DEF Locks, disk
<1>2. \A q \in Run : HasProcess(q)' <=> HasProcess(q)
  BY <1>1 DEF HasProcess
<1>3. \A q \in Proc \ {p} : at'[q] = at[q] /\ seen'[q] = seen[q]
  BY <1>0, <1>1 DEF LockStep, Takes, Owns, FindsTakeover, ClearsTakeover, Enters, Looks, Judges, Removes, Remakes,
        OwnsOver, Leaves, Frees, RemovesOwn
<1>4. at[p] # "noting"
  BY <1>1 DEF LockStep, Takes, Owns, FindsTakeover, ClearsTakeover, Enters, Looks, Judges, Removes, Remakes,
        OwnsOver, Leaves, Frees, RemovesOwn
<1>5. ASSUME NEW r \in Run, HasProcess(r) PROVE lock'["apply"].owner = r
  <2>0. lock["apply"].owner = r
    BY <1>5 DEF ProcessInv
  <2>1. CASE lock'["apply"] = lock["apply"]
    BY <2>0, <2>1
  <2>2. CASE lock'["apply"] # lock["apply"]
    <3>1. LockOf(p) = "apply" /\ p \in Run
      <4>1. lock' = lock \/ \E d : lock' = [lock EXCEPT ![LockOf(p)] = d]
        BY <1>1 DEF LockStep, Takes, Owns, FindsTakeover, ClearsTakeover, Enters, Looks, Judges, Removes, Remakes,
            OwnsOver, Leaves, Frees, RemovesOwn, RemovesDir
      <4>2. LockOf(p) = "apply"
        BY <1>0, <2>2, <4>1, LockOfP
      <4> QED BY <4>2 DEF LockOf
    <3>2. \/ at[p] \in Making
          \/ at[p] = "removing" /\ lock["apply"] \in {Free, seen[p]}
          \/ at[p] = "removing own"
          \/ lock["apply"] = Free
      <4>1. CASE Takes(p, LockOf(p)) \/ Remakes(p, LockOf(p)) \/ Owns(p, LockOf(p)) \/ OwnsOver(p, LockOf(p))
        BY <2>2, <3>1, <4>1 DEF Takes, Remakes, Owns, OwnsOver, Making
      <4>2. CASE Removes(p, LockOf(p)) \/ RemovesOwn(p, LockOf(p), Then(p))
        BY <3>1, <4>2 DEF Removes, RemovesOwn, RemovesDir
      <4> QED BY <1>1, <2>2, <4>1, <4>2 DEF LockStep, FindsTakeover, ClearsTakeover, Enters, Looks, Judges, Leaves, Frees
    <3>3. CASE at[p] \in Making
      <4>1. lock["apply"] = Made
        BY <3>1, <3>3, HoldSays DEF Sound
      <4> QED BY <1>0, <2>0, <4>1
    <3>4. CASE at[p] = "removing" /\ lock["apply"] \in {Free, seen[p]}
      <4>1. seen[p].owner = r
        BY <1>0, <2>0, <3>4
      <4> QED BY <1>5, <3>1, <3>4, <4>1 DEF ProcessInv
    <3>5. CASE at[p] = "removing own"
      <4>1. Has(p)
        BY <3>5 DEF Has, Having
      <4>2. lock["apply"].owner = p
        BY <3>1, <4>1, HoldSays DEF Sound
      <4> QED BY <1>5, <2>0, <3>1, <3>5, <4>2 DEF StartedInv
    <3> QED BY <1>0, <2>0, <3>2, <3>3, <3>4, <3>5
  <2> QED BY <2>1, <2>2
<1>6. ASSUME NEW r \in Run, HasProcess(r), at'[r] # "noting" PROVE record'.run = r /\ record'.pid
  BY <1>0, <1>1, <1>3, <1>4, <1>6 DEF ProcessInv
<1>7. ASSUME NEW q \in Run, at'[q] = "removing", seen'[q].owner \in Run PROVE ~HasProcess(seen'[q].owner)
  <2>1. CASE at[q] = "removing" /\ seen'[q] = seen[q]
    BY <1>7, <2>1 DEF ProcessInv
  <2>2. CASE ~(at[q] = "removing" /\ seen'[q] = seen[q])
    <3>1. q = p /\ Judges(p, Stale(p))
      <4>1. q = p
        BY <1>0, <1>3, <1>7, <2>2
      <4> QED BY <1>0, <1>1, <1>7, <2>2, <4>1 DEF LockStep, Takes, Owns, FindsTakeover, ClearsTakeover, Enters, Looks, Judges,
            Removes, Remakes, OwnsOver, Leaves, Frees, RemovesOwn, Then
    <3>2. at[q] = "judging" /\ seen'[q] = seen[q] /\ HolderGone(seen[q])
      BY <1>0, <1>7, <3>1 DEF Judges, Stale
    <3>3. seen[q].age # "none"
      <4>1. seen[q].age = "none" => seen[q] = Free
        BY <1>0, <3>2 DEF FreshInv
      <4> QED BY <1>0, <1>7, <3>2, <4>1
    <3>4. seen[q].age = "old" => at[seen[q].owner] \in Over
      BY <1>0, <1>7, <3>2 DEF JudgedInv
    <3> QED BY <1>7, <3>2, <3>3, <3>4, GoneIsGone
  <2> QED BY <2>1, <2>2
<1> QED BY <1>1, <1>2, <1>5, <1>6, <1>7 DEF ProcessInv, HasProcess

LEMMA ProcessKept ==
    ASSUME Types, StartedInv, FreshInv, OwnerInv, RecordInv, JudgedInv, HoldInv, ProcessInv, [Next]_vars
    PROVE  ProcessInv'
<1> SUFFICES ASSUME Sound' PROVE ProcessInv'
  BY DEF ProcessInv
<1> USE DEF Goes
<1>0. /\ at \in [Proc -> At] /\ job \in [Run -> JobAt] /\ lock \in [Lock -> Dir] /\ seen \in [Proc -> Dir] /\ Run \subseteq Proc
      /\ "apply" \in Lock /\ Nobody \notin Run /\ Free.owner = Nobody /\ past \in Past
      /\ \A r \in Run : LockOf(r) = "apply"
  BY ProcsAssumption DEF ProcsAssumption, Types, AtOK, JobOK, LockTypeOK, PastOK, Dir, Free, LockOf
<1>s. Sound /\ past'.unnoted = {} /\ "apply" \notin stolen' /\ "apply" \notin stolen
  BY HistoryGrows DEF Sound
<1>u. /\ \A r \in Run : HasProcess(r) => lock["apply"].owner = r
      /\ \A r \in Run : HasProcess(r) /\ at[r] # "noting" => record.run = r /\ record.pid
      /\ \A p \in Run : at[p] = "removing" /\ seen[p].owner \in Run => ~HasProcess(seen[p].owner)
  BY <1>s DEF ProcessInv
<1>1. ASSUME NEW p \in Proc, Locks(p) PROVE ProcessInv'
  BY <1>1, <1>s, ProcessByLock
<1>2. ASSUME NEW r \in Run, Claiming(r) PROVE ProcessInv'
  <2>1. /\ lock' = lock /\ seen' = seen /\ (\A q \in Proc \ {r} : at'[q] = at[q])
        /\ at[r] \in {"holds", "clearing", "laying", "recording", "starting", "noting"}
        /\ at'[r] \notin {"removing"}
    BY <1>0, <1>2 DEF Claiming, Claims, LooksForAction, ClearsOutcome, LaysSnapshot, Records, Starts, NotStarted, NotesPid, NotNoted
  <2>2. CASE LooksForAction(r) \/ ClearsOutcome(r) \/ LaysSnapshot(r) \/ NotStarted(r)
    <3>1. record' = record /\ (\A q \in Run : HasProcess(q)' => HasProcess(q)) /\ at[r] # "noting"
      BY <1>0, <2>2 DEF LooksForAction, ClearsOutcome, LaysSnapshot, NotStarted, Claims, disk, Becomes, HasProcess
    <3>2. \A q \in Run : at[q] = "noting" => at'[q] = "noting"
      BY <1>0, <2>1, <3>1
    <3>3. \A q \in Run : at'[q] # "removing" \/ (at'[q] = at[q] /\ seen'[q] = seen[q])
      BY <1>0, <2>1
    <3> QED BY <1>u, <2>1, <3>1, <3>2, <3>3 DEF ProcessInv
  <2>3. CASE Records(r)
    <3>1. at[r] = "recording" /\ \A q \in Run : HasProcess(q)' => HasProcess(q)
      BY <2>3 DEF Records, Claims, HasProcess
    <3>2. lock["apply"].owner = r
      <4>1. Has(r)
        BY <3>1 DEF Has, Having
      <4> QED BY <1>0, <1>s, <4>1, HoldSays
    <3>3. ~HasProcess(r)
      BY <3>1 DEF StartedInv, HasProcess, Over
    <3>4. \A q \in Run : ~HasProcess(q)
      BY <1>u, <3>2, <3>3
    <3>5. \A q \in Run : ~HasProcess(q)'
      BY <3>1, <3>4
    <3> QED BY <1>0, <2>1, <3>5 DEF ProcessInv
  <2>4. CASE Starts(r)
    <3>1. at[r] = "starting" /\ at'[r] = "noting" /\ record' = record /\ \A q \in Run \ {r} : HasProcess(q)' => HasProcess(q)
      BY <1>0, <2>4 DEF Starts, Claims, Becomes, HasProcess, disk
    <3>2. lock["apply"].owner = r
      <4>1. Has(r)
        BY <3>1 DEF Has, Having
      <4> QED BY <1>0, <1>s, <4>1, HoldSays
    <3>3. \A p \in Run : at[p] = "removing" => seen[p].owner # r
      BY <1>0, <3>1 DEF JudgedInv, Over
    <3> QED BY <1>0, <1>u, <2>1, <3>1, <3>2, <3>3 DEF ProcessInv
  <2>5. CASE NotesPid(r)
    <3>1. at[r] = "noting" /\ record'.run = r /\ record'.pid /\ \A q \in Run \ {r} : HasProcess(q)' => HasProcess(q)
      BY <1>0, <2>5 DEF NotesPid, Claims, Becomes, HasProcess
    <3>2. ~record.pid
      BY <1>0, <1>s, <2>5 DEF NotesPid, Past
    <3>3. HasProcess(r)' => lock["apply"].owner = r
      <4>1. CASE HasProcess(r)
        BY <1>u, <4>1
      <4>2. CASE ~HasProcess(r) /\ HasProcess(r)'
        <5>1. r \in CliRun
          BY <2>5, <4>2 DEF NotesPid, HasProcess
        <5>2. Has(r)
          BY <3>1, <5>1 DEF Has, StartedInv
        <5> QED BY <1>0, <1>s, <5>2, HoldSays
      <4> QED BY <4>1, <4>2
    <3>4. \A p \in Run : at[p] = "removing" => seen[p].owner # r
      BY <1>0, <3>1 DEF JudgedInv, Over
    <3>5. ASSUME NEW q \in Run, HasProcess(q)', at'[q] # "noting" PROVE q = r
      BY <1>0, <1>u, <2>1, <3>1, <3>2, <3>5
    <3> QED BY <1>0, <1>u, <2>1, <3>1, <3>3, <3>4, <3>5 DEF ProcessInv
  <2>6. CASE NotNoted(r)
    BY <1>0, <1>s, <2>6 DEF NotNoted, Past
  <2> QED BY <1>2, <2>2, <2>3, <2>4, <2>5, <2>6 DEF Claiming
<1>3. ASSUME NEW r \in Run, Running(r) PROVE ProcessInv'
  <2>1. at' = at /\ seen' = seen /\ record' = record /\ \A q \in Run : HasProcess(q)' => HasProcess(q)
    BY <1>0, <1>3 DEF Running, Runs, Becomes, HasProcess, Loads, Ends, KeepsPrevious, MakesLive, Releases, RemovesLock
  <2>2. CASE lock' = lock
    BY <1>u, <2>1, <2>2 DEF ProcessInv
  <2>3. CASE RemovesLock(r)
    <3>1. HasProcess(r) /\ ~HasProcess(r)'
      BY <1>0, <2>3 DEF RemovesLock, Runs, HasProcess, Becomes
    <3>2. \A q \in Run : ~HasProcess(q)'
      BY <1>u, <2>1, <3>1
    <3> QED BY <1>0, <2>1, <3>2 DEF ProcessInv
  <2> QED BY <1>3, <2>2, <2>3 DEF Running, Loads, Ends, KeepsPrevious, MakesLive, Releases
<1>4. ASSUME NEW a \in Proc, Acting(a) PROVE ProcessInv'
  <2>1. a \in Action /\ a \notin Run /\ lock' = lock /\ record' = record /\ job' = job
    BY <1>4, ProcsAssumption DEF ProcsAssumption, Acting, Acts, FindsApplyLock, FindsHolder, FindsRun, ActionEnds, disk
  <2>2. \A q \in Run : at'[q] = at[q] /\ seen'[q] = seen[q]
    BY <1>0, <1>4, <2>1 DEF Acting, Acts, FindsApplyLock, FindsHolder, FindsRun, ActionEnds
  <2> QED BY <1>u, <2>1, <2>2 DEF ProcessInv, HasProcess
<1>5. ASSUME NEW p \in Proc, Asks(p) \/ Killed(p) PROVE ProcessInv'
  <2>1. /\ lock' = lock /\ record' = record /\ job' = job /\ at'[p] # "removing" /\ (p \in Run => at[p] # "noting")
        /\ \A q \in Proc \ {p} : at'[q] = at[q] /\ seen'[q] = seen[q]
    BY <1>0, <1>5, <1>s DEF Asks, Killed, disk, Past
  <2> QED BY <1>0, <1>u, <2>1 DEF ProcessInv, HasProcess
<1>6. ASSUME NEW r \in Run, JobKilled(r) PROVE ProcessInv'
  <2>1. lock' = lock /\ at' = at /\ seen' = seen /\ record' = record /\ \A q \in Run : HasProcess(q)' => HasProcess(q)
    BY <1>0, <1>6 DEF JobKilled, Becomes, lockVars, disk, HasProcess
  <2> QED BY <1>u, <2>1 DEF ProcessInv
<1>7. CASE Minute
  <2>1. job' = job /\ seen' = seen /\ \A r \in Run : at[r] # "noting" /\ at'[r] # "removing"
    BY <1>0, <1>7 DEF Minute, Short
  <2>2. lock'["apply"].owner = lock["apply"].owner
    BY <1>0, <1>7 DEF Minute, LocksAge, Dir
  <2>3. record'.run = record.run /\ record'.pid = record.pid
    BY <1>7 DEF Minute, Types, RecordOK, Record
  <2> QED BY <1>u, <2>1, <2>2, <2>3 DEF ProcessInv, HasProcess
<1>8. CASE JobState \/ UNCHANGED vars
  BY <1>8 DEF JobState, Reads, ReadsRecord, ReadsOutcome, FindsAlive, ReadsOutcomeAgain, vars, disk, lockVars, ProcessInv, Sound, HasProcess
<1> QED BY <1>1, <1>2, <1>3, <1>4, <1>5, <1>6, <1>7, <1>8, ClaimingIsRuns DEF Next, ProcStep

\* Of two runs at work, each has the lock.
LEMMA OneApplyOf == ASSUME ProcessInv PROVE OneApply
BY DEF ProcessInv, Sound, OneApply, Overlap, Working, HasProcess

-----------------------------------------------------------------------------
(* An action and a run: each takes its own lock before it looks at the other's. *)

\* A run that found no action on its way, and goes on.
PastLook(r) ==
    \/ at[r] \in {"clearing", "laying", "recording", "starting"}
    \/ at[r] = "noting" /\ job[r] = "none"
    \/ HasProcess(r)

Calm == stolen = {} /\ past.unnoted = {}

\* With such a run on its way, an action does not act, and what it sees of the
\* apply lock is that run's.
ApartInv ==
    Calm =>
        \A a \in Action, r \in Run : PastLook(r) =>
            /\ at[a] # "acting"
            /\ at[a] \in {"finding holder", "finding run"} => seen[a].age # "none" /\ (seen[a].age = "old" => at[r] \in Over)
            /\ at[a] = "finding run" => seen[a].owner = r

LEMMA ApartInit == Init => ApartInv
<1>1. Init => (\A r \in Run : job[r] = "none") /\ \A p \in Proc : at[p] \in {"idle", "done"}
  BY DEF Init, InitLocks
<1> QED BY <1>1, ProcsAssumption DEF ProcsAssumption, ApartInv, PastLook, HasProcess

\* Only by looking for an action does a run come past its look.
LEMMA LooksFirst ==
    ASSUME Types, StartedInv, [Next]_vars, NEW r \in Run, PastLook(r)', ~PastLook(r)
    PROVE  ~ActionOn /\ \A p \in Proc \ {r} : at'[p] = at[p]
<1> USE DEF Goes, PastLook, HasProcess
<1>0. at \in [Proc -> At] /\ job \in [Run -> JobAt] /\ Run \subseteq Proc
  BY ProcsAssumption DEF ProcsAssumption, Types, AtOK, JobOK
<1>1. ASSUME NEW p \in Proc, Locks(p) PROVE FALSE
  <2>1. at'[p] \in Locking \cup {"holds", "refused", "done", "gone"} /\ (\A q \in Proc \ {p} : at'[q] = at[q]) /\ job' = job
    BY <1>0, <1>1 DEF Locks, LockStep, Takes, Owns, FindsTakeover, ClearsTakeover, Enters, Looks, Judges, Removes, Remakes,
          OwnsOver, Leaves, Frees, RemovesOwn, Locking, Then
  <2> QED BY <1>0, <2>1 DEF Locking
<1>2. ASSUME NEW s \in Run, Claiming(s), ~LooksForAction(s) PROVE FALSE
  <2>1. PastLook(s) \/ at[s] = "noting"
    BY <1>2 DEF Claiming, Claims, ClearsOutcome, LaysSnapshot, Records, Starts, NotStarted, NotesPid, NotNoted
  <2>2. CASE s = r
    <3>1. at[r] = "noting" /\ job[r] = "gone" /\ r \in UiRun
      BY <1>0, <2>1, <2>2, ProcsAssumption DEF StartedInv, ProcsAssumption, Run
    <3>2. at'[r] \in {"done", "gone"} /\ job'[r] = job[r]
      BY <1>0, <1>2, <2>2, <3>1, ProcsAssumption DEF ProcsAssumption, Claiming, Claims, Becomes, ClearsOutcome, LaysSnapshot, Records, Starts,
            NotStarted, NotesPid, NotNoted
    <3> QED BY <3>1, <3>2
  <2>3. CASE s # r
    <3>1. at'[r] = at[r] /\ job'[r] = job[r]
      BY <1>0, <1>2, <2>3 DEF Claiming, Claims, Becomes, ClearsOutcome, LaysSnapshot, Records, Starts, NotStarted, NotesPid, NotNoted
    <3> QED BY <3>1
  <2> QED BY <2>2, <2>3
<1>3. ASSUME NEW s \in Run, LooksForAction(s) PROVE ~ActionOn /\ \A p \in Proc \ {r} : at'[p] = at[p]
  BY <1>0, <1>3 DEF LooksForAction, Claims
<1>4. ASSUME NEW s \in Run, Running(s) PROVE FALSE
  BY <1>0, <1>4 DEF Running, Runs, Becomes, Loads, Ends, KeepsPrevious, MakesLive, Releases, RemovesLock
<1>5. ASSUME NEW a \in Proc, Acting(a) PROVE FALSE
  BY <1>0, <1>5 DEF Acting, Acts, FindsApplyLock, FindsHolder, FindsRun, ActionEnds
<1>6. ASSUME NEW p \in Proc, Asks(p) \/ Killed(p) PROVE FALSE
  BY <1>0, <1>6 DEF Asks, Killed
<1>7. ASSUME NEW s \in Run, JobKilled(s) PROVE FALSE
  BY <1>0, <1>7 DEF JobKilled, Becomes, lockVars
<1>8. CASE Minute
  BY <1>0, <1>8 DEF Minute, Short
<1>9. CASE JobState \/ UNCHANGED vars
  BY <1>9 DEF JobState, Reads, ReadsRecord, ReadsOutcome, FindsAlive, ReadsOutcomeAgain, vars, lockVars
<1> QED BY <1>1, <1>2, <1>3, <1>4, <1>5, <1>6, <1>7, <1>8, <1>9, ClaimingIsRuns DEF Next, ProcStep

\* Only by its own steps does an action come to act, or to find a run.
LEMMA ActsFirst ==
    ASSUME Types, [Next]_vars, NEW a \in Action, at'[a] \in {"finding holder", "finding run", "acting"}
    PROVE  Acting(a) \/ (at'[a] = at[a] /\ seen'[a] = seen[a])
<1> USE DEF Goes
<1>0. at \in [Proc -> At] /\ seen \in [Proc -> Dir] /\ a \in Proc /\ a \notin Run
  BY ProcsAssumption DEF ProcsAssumption, Types, AtOK, LockTypeOK, Dir
<1>1. ASSUME NEW p \in Proc, Locks(p) PROVE at'[a] = at[a] /\ seen'[a] = seen[a]
  BY <1>0, <1>1 DEF Locks, LockStep, Takes, Owns, FindsTakeover, ClearsTakeover, Enters, Looks, Judges, Removes, Remakes,
        OwnsOver, Leaves, Frees, RemovesOwn, Then
<1>2. ASSUME NEW s \in Run, Claiming(s) PROVE at'[a] = at[a] /\ seen'[a] = seen[a]
  BY <1>0, <1>2 DEF Claiming, Claims, LooksForAction, ClearsOutcome, LaysSnapshot, Records, Starts, NotStarted, NotesPid, NotNoted
<1>3. ASSUME NEW s \in Run, Running(s) PROVE at'[a] = at[a] /\ seen'[a] = seen[a]
  BY <1>3 DEF Running, Runs, Loads, Ends, KeepsPrevious, MakesLive, Releases, RemovesLock
<1>4. ASSUME NEW b \in Proc, Acting(b), b # a PROVE at'[a] = at[a] /\ seen'[a] = seen[a]
  BY <1>0, <1>4 DEF Acting, Acts, FindsApplyLock, FindsHolder, FindsRun, ActionEnds
<1>5. ASSUME NEW p \in Proc, Asks(p) \/ Killed(p) PROVE at'[a] = at[a] /\ seen'[a] = seen[a]
  BY <1>0, <1>5 DEF Asks, Killed
<1>6. CASE Minute
  BY <1>0, <1>6 DEF Minute
<1>7. CASE JobState \/ UNCHANGED vars \/ \E s \in Run : JobKilled(s)
  BY <1>7 DEF JobState, Reads, ReadsRecord, ReadsOutcome, FindsAlive, ReadsOutcomeAgain, JobKilled, vars, lockVars
<1> QED BY <1>1, <1>2, <1>3, <1>4, <1>5, <1>6, <1>7, ClaimingIsRuns DEF Next, ProcStep

\* A run past its look has the apply lock.
LEMMA PastLookOwns ==
    ASSUME HoldInv, ProcessInv, Calm, NEW r \in Run, PastLook(r)
    PROVE  lock["apply"].owner = r
<1>1. r \in Proc /\ LockOf(r) = "apply"
  BY ProcsAssumption DEF ProcsAssumption, LockOf
<1>2. CASE HasProcess(r)
  BY <1>2 DEF ProcessInv, Sound, Calm
<1>3. CASE ~HasProcess(r)
  <2>1. Has(r)
    BY <1>3 DEF PastLook, Has, Having
  <2> QED BY <1>1, <2>1, HoldSays DEF Calm
<1> QED BY <1>2, <1>3

LEMMA ApartKept ==
    ASSUME Types, StartedInv, FreshInv, OwnerInv, RecordInv, HoldInv, ProcessInv, ApartInv, [Next]_vars
    PROVE  ApartInv'
<1> SUFFICES ASSUME Calm', NEW a \in Action, NEW r \in Run, PastLook(r)', at'[a] \in {"finding holder", "finding run", "acting"}
             PROVE  /\ at'[a] # "acting"
                    /\ seen'[a].age # "none" /\ (seen'[a].age = "old" => at'[r] \in Over)
                    /\ at'[a] = "finding run" => seen'[a].owner = r
  BY DEF ApartInv
<1>0. /\ at \in [Proc -> At] /\ seen \in [Proc -> Dir] /\ lock \in [Lock -> Dir] /\ Run \subseteq Proc /\ a \in Proc /\ a # r /\ a \notin Run
      /\ "apply" \in Lock /\ Nobody \notin Run /\ Free.owner = Nobody /\ LockOf(a) = "action"
  BY ProcsAssumption DEF ProcsAssumption, Types, AtOK, LockTypeOK, Dir, Free, LockOf
<1>c. Calm
  BY HistoryGrows DEF Calm
<1>o. at[r] \in Over => at'[r] \in Over
  BY <1>0, OverStays
<1>1. PastLook(r)
  <2> SUFFICES ASSUME ~PastLook(r) PROVE FALSE
    OBVIOUS
  <2>1. ~ActionOn /\ at'[a] = at[a]
    BY <1>0, LooksFirst
  <2>2. Has(a)
    BY <2>1 DEF Has, Having
  <2> QED BY <1>0, <1>c, <2>1, <2>2, HoldSays, ZenonT(60) DEF ActionOn, Calm
<1>2. /\ at[a] # "acting"
      /\ at[a] \in {"finding holder", "finding run"} => seen[a].age # "none" /\ (seen[a].age = "old" => at[r] \in Over)
      /\ at[a] = "finding run" => seen[a].owner = r
  BY <1>1, <1>c DEF ApartInv
<1>3. CASE at'[a] = at[a] /\ seen'[a] = seen[a]
  BY <1>2, <1>3, <1>o
<1>4. CASE Acting(a)
  <2>1. lock["apply"].owner = r
    BY <1>1, <1>c, PastLookOwns
  <2>2. lock["apply"].age # "none" /\ (lock["apply"].age = "old" => at[r] \in Over)
    BY <1>0, <2>1 DEF FreshInv, OwnerInv
  <2>3. CASE FindsApplyLock(a)
    <3>1. at'[a] = "finding holder" /\ seen'[a].age = lock["apply"].age
      BY <1>0, <2>1, <2>3 DEF FindsApplyLock, Acts, Goes, Dir
    <3> QED BY <1>o, <2>2, <3>1
  <2>4. CASE FindsHolder(a)
    <3>1. at[a] = "finding holder" /\ at'[a] = "finding run" /\ seen'[a].age = seen[a].age /\ seen'[a].owner = lock["apply"].owner
      BY <1>0, <2>4 DEF FindsHolder, Acts, Goes, Dir
    <3> QED BY <1>2, <1>o, <2>1, <3>1
  <2>5. CASE FindsRun(a)
    <3>1. at[a] = "finding run" /\ HolderGone(seen[a])
      BY <1>0, <2>5 DEF FindsRun, Acts, Goes
    <3>2. seen[a].owner = r /\ seen[a].age # "none" /\ (seen[a].age = "old" => at[r] \in Over)
      BY <1>2, <3>1
    <3>3. ~HasProcess(r)
      BY <1>c, <3>1, <3>2, GoneIsGone DEF Calm, Sound
    <3>4. at[r] \notin Over
      BY <1>1, <3>3 DEF PastLook, Over
    <3>5. record.run = r /\ ~Alive(record)
      BY <1>0, <3>1, <3>2, <3>4 DEF HolderGone
    <3> QED BY <3>4, <3>5 DEF Alive, RecordInv
  <2>6. CASE ActionEnds(a)
    BY <1>0, <2>6 DEF ActionEnds, Acts, Goes
  <2> QED BY <1>4, <2>3, <2>4, <2>5, <2>6 DEF Acting
<1> QED BY <1>3, <1>4, ActsFirst

LEMMA ActionsApartOf == ASSUME ApartInv PROVE ActionsApart
BY DEF ApartInv, ActionsApart, Calm, Working, PastLook, HasProcess

-----------------------------------------------------------------------------
(* What is made live. *)

Whole == stolen = {} /\ "taken" \notin past.cut

\* A run about to make its settings live has the lock, and the snapshot is what
\* it applied, as are the settings live and those live before.
LiveInv ==
    Whole =>
        /\ \A r \in Run : job[r] = "promoting on" => lock["apply"].owner = r
        /\ \A r \in Run : job[r] \in {"working", "promoting", "promoting on"} /\ lock["apply"].owner = r => snapshot = applies[r]
        /\ \A r \in Run : job[r] \in {"promoting", "promoting on"} => applies[r] \in past.applied
        /\ live \in past.applied \cup {Nobody} /\ previous \in past.applied \cup {Nobody}

LEMMA LiveInit == Init => LiveInv
<1>1. Init => (\A r \in Run : job[r] = "none") /\ live = Nobody /\ previous = Nobody
  BY DEF Init
<1> QED BY <1>1 DEF LiveInv

\* A lock's step names no run with a process, and drops the name of none that is making its settings live.
LEMMA NamedByLock ==
    ASSUME Types, StartedInv, FreshInv, HoldInv, Whole, Whole', NEW p \in Proc, Locks(p), NEW r \in Run
    PROVE  /\ lock'["apply"].owner = r => lock["apply"].owner = r \/ job[r] = "none"
           /\ lock["apply"].owner = r /\ job[r] = "promoting on" => lock'["apply"].owner = r
<1> USE DEF Goes
<1>0. /\ lock \in [Lock -> Dir] /\ Run \subseteq Proc /\ past \in Past
      /\ "apply" \in Lock /\ Nobody \notin Run /\ Free.owner = Nobody /\ Made.owner = Nobody
  BY ProcsAssumption DEF ProcsAssumption, Types, LockTypeOK, PastOK, Dir, Free, Made
<1>1. LockStep(p, LockOf(p), Stale(p), Then(p))
  BY DEF Locks
<1>2. CASE lock'["apply"] = lock["apply"]
  BY <1>2
<1>3. CASE lock'["apply"] # lock["apply"]
  <2>1. LockOf(p) = "apply" /\ p \in Run
    <3>1. lock' = lock \/ \E d : lock' = [lock EXCEPT ![LockOf(p)] = d]
      BY <1>1 DEF LockStep, Takes, Owns, FindsTakeover, ClearsTakeover, Enters, Looks, Judges, Removes, Remakes,
          OwnsOver, Leaves, Frees, RemovesOwn, RemovesDir
    <3>2. LockOf(p) = "apply"
      BY <1>0, <1>3, <3>1, LockOfP
    <3> QED BY <3>2 DEF LockOf
  <2>2. CASE Takes(p, "apply") \/ Remakes(p, "apply")
    BY <1>0, <1>3, <2>2 DEF Takes, Remakes
  <2>3. CASE Owns(p, "apply") \/ OwnsOver(p, "apply")
    <3>1. at[p] \in Making /\ lock'["apply"].owner = p
      BY <1>0, <1>3, <2>3 DEF Owns, OwnsOver, Making, Dir
    <3>2. lock["apply"] = Made
      BY <2>1, <3>1, HoldSays DEF Whole
    <3>3. job[p] = "none"
      BY <2>1, <3>1 DEF StartedInv, Making, Over
    <3> QED BY <1>0, <3>1, <3>2, <3>3
  <2>4. CASE Removes(p, "apply")
    <3>1. lock'["apply"].owner = Nobody /\ at[p] = "removing"
      BY <1>0, <2>4 DEF Removes, RemovesDir
    <3>2. ~\E s \in Run : lock["apply"].owner = s /\ job[s] = "promoting on"
      BY <1>0, <2>1, <3>1 DEF Locks, Whole, Past
    <3> QED BY <1>0, <3>1, <3>2
  <2>5. CASE RemovesOwn(p, "apply", Then(p))
    <3>1. lock'["apply"].owner = Nobody /\ at[p] = "removing own"
      BY <1>0, <2>5 DEF RemovesOwn, RemovesDir
    <3>2. lock["apply"].owner = p
      <4>1. Has(p)
        BY <3>1 DEF Has, Having
      <4> QED BY <2>1, <4>1, HoldSays DEF Whole
    <3>3. job[p] # "promoting on"
      BY <2>1, <3>1 DEF StartedInv, HasProcess
    <3> QED BY <1>0, <3>1, <3>2, <3>3
  <2> QED BY <1>1, <1>3, <2>1, <2>2, <2>3, <2>4, <2>5 DEF LockStep, FindsTakeover, ClearsTakeover, Enters, Looks, Judges, Leaves, Frees
<1> QED BY <1>2, <1>3

\* Each of the files, and each run's settings, as before.
LEMMA LiveWalks ==
    ASSUME LiveInv, Whole, job' = job, snapshot' = snapshot, live' = live, previous' = previous, applies' = applies,
           past'.applied = past.applied,
           \A r \in Run : lock'["apply"].owner = r => lock["apply"].owner = r \/ job[r] = "none",
           \A r \in Run : lock["apply"].owner = r /\ job[r] = "promoting on" => lock'["apply"].owner = r
    PROVE  LiveInv'
BY DEF LiveInv

LEMMA LiveByRun ==
    ASSUME Types, LiveInv, Whole, Whole', NEW r \in Run, Running(r)
    PROVE  LiveInv'
<1> USE DEF Runs, Becomes
<1>0. /\ job \in [Run -> JobAt] /\ lock \in [Lock -> Dir] /\ "apply" \in Lock /\ Nobody \notin Run /\ Free.owner = Nobody
      /\ applies \in [Run -> Settings] /\ past \in Past
  BY ProcsAssumption DEF ProcsAssumption, Types, JobOK, LockTypeOK, PastOK, FilesOK, Dir, Free
<1>1. /\ \A s \in Run : job[s] = "promoting on" => lock["apply"].owner = s
      /\ \A s \in Run : job[s] \in {"working", "promoting", "promoting on"} /\ lock["apply"].owner = s => snapshot = applies[s]
      /\ \A s \in Run : job[s] \in {"promoting", "promoting on"} => applies[s] \in past.applied
      /\ live \in past.applied \cup {Nobody} /\ previous \in past.applied \cup {Nobody}
  BY DEF LiveInv
<1>2. CASE Loads(r)
  BY <1>0, <1>1, <1>2 DEF Loads, LiveInv
<1>3. CASE Ends(r)
  <2>1. /\ lock' = lock /\ snapshot' = snapshot /\ live' = live /\ previous' = previous /\ applies' = applies
        /\ job[r] = "working" /\ job'[r] \in {"promoting", "releasing"} /\ \A s \in Run \ {r} : job'[s] = job[s]
    BY <1>0, <1>3 DEF Ends
  <2>2. past.applied \subseteq past'.applied /\ (job'[r] = "promoting" => applies[r] \in past'.applied)
    <3>1. PICK said \in How :
            /\ job' = [job EXCEPT ![r] = IF Applied(said) THEN "promoting" ELSE "releasing"]
            /\ past' = [past EXCEPT !.wrote = IF outcome' # outcome THEN @ \cup {r} ELSE @,
                                    !.applied = IF said = "applied" THEN @ \cup {applies[r]} ELSE @,
                                    !.last = IF said = "applied" THEN applies[r] ELSE @]
      BY <1>3 DEF Ends
    <3>2. past'.applied = IF said = "applied" THEN past.applied \cup {applies[r]} ELSE past.applied
      BY <1>0, <3>1 DEF Past
    <3>3. job'[r] = "promoting" => said = "applied"
      BY <1>0, <3>1 DEF Applied
    <3> QED BY <3>2, <3>3
  <2> QED BY <1>1, <2>1, <2>2 DEF LiveInv
<1>4. CASE KeepsPrevious(r)
  <2>1. /\ lock' = lock /\ snapshot' = snapshot /\ live' = live /\ previous' \in {previous, live} /\ applies' = applies /\ past' = past
        /\ job[r] = "promoting" /\ job'[r] \in {"promoting on", "releasing"} /\ \A s \in Run \ {r} : job'[s] = job[s]
        /\ job'[r] = "promoting on" => lock["apply"].owner = r
    BY <1>0, <1>4 DEF KeepsPrevious, HoldsStill
  <2> QED BY <1>1, <2>1 DEF LiveInv
<1>5. CASE MakesLive(r)
  <2>1. /\ lock' = lock /\ snapshot' = Nobody /\ live' \in {live, snapshot} /\ previous' = previous /\ applies' = applies /\ past' = past
        /\ job[r] = "promoting on" /\ job'[r] = "releasing" /\ \A s \in Run \ {r} : job'[s] = job[s]
    BY <1>0, <1>5 DEF MakesLive
  <2>2. lock["apply"].owner = r /\ snapshot = applies[r] /\ applies[r] \in past.applied
    BY <1>1, <2>1
  <2> QED BY <1>1, <2>1, <2>2 DEF LiveInv
<1>6. CASE Releases(r)
  BY <1>0, <1>1, <1>6 DEF Releases, LiveInv
<1>7. CASE RemovesLock(r)
  <2>1. /\ snapshot' = snapshot /\ live' = live /\ previous' = previous /\ applies' = applies /\ past' = past
        /\ job[r] = "removing" /\ job'[r] = "gone" /\ \A s \in Run \ {r} : job'[s] = job[s]
        /\ lock' = [lock EXCEPT !["apply"] = Free] /\ lock["apply"] \in {Free, [lock["apply"] EXCEPT !.owner = r]}
    BY <1>0, <1>7 DEF RemovesLock, RemovesDir, Whole
  <2>2. lock["apply"] = Free \/ lock["apply"].owner = r
    BY <1>0, <2>1 DEF Dir
  <2>3. lock'["apply"].owner \notin Run
    BY <1>0, <2>1
  <2>4. \A s \in Run : job[s] # "promoting on"
    BY <1>0, <1>1, <2>1, <2>2
  <2> QED BY <1>1, <2>1, <2>3, <2>4 DEF LiveInv
<1> QED BY <1>2, <1>3, <1>4, <1>5, <1>6, <1>7 DEF Running

LEMMA LiveKept ==
    ASSUME Types, StartedInv, FreshInv, HoldInv, LiveInv, [Next]_vars
    PROVE  LiveInv'
<1> SUFFICES ASSUME Whole' PROVE LiveInv'
  BY DEF LiveInv
<1>0. /\ at \in [Proc -> At] /\ job \in [Run -> JobAt] /\ lock \in [Lock -> Dir] /\ past \in Past /\ Run \subseteq Proc
      /\ "apply" \in Lock /\ \A r \in Run : LockOf(r) = "apply"
  BY ProcsAssumption DEF ProcsAssumption, Types, AtOK, JobOK, LockTypeOK, PastOK, Dir, LockOf
<1>w. Whole
  BY HistoryGrows DEF Whole
<1>1. ASSUME NEW p \in Proc, Locks(p) PROVE LiveInv'
  <2>1. /\ job' = job /\ snapshot' = snapshot /\ live' = live /\ previous' = previous /\ applies' = applies
        /\ past'.applied = past.applied
    BY <1>0, <1>1 DEF Locks, disk, Past
  <2> QED BY <1>1, <1>w, <2>1, NamedByLock, LiveWalks
<1>2. ASSUME NEW r \in Run, Claiming(r) PROVE LiveInv'
  <2>1. /\ lock' = lock /\ live' = live /\ previous' = previous /\ applies' = applies /\ past'.applied = past.applied
        /\ \A s \in Run : job'[s] \in {job[s], "loading", "gone"}
    BY <1>0, <1>2 DEF Claiming, Claims, Becomes, disk, LooksForAction, ClearsOutcome, LaysSnapshot, Records, Starts, NotStarted, NotesPid, NotNoted, Past
  <2>2. CASE snapshot' = snapshot
    BY <1>w, <2>1, <2>2 DEF LiveInv
  <2>3. CASE snapshot' # snapshot
    <3>1. at[r] = "laying"
      BY <1>2, <2>3 DEF Claiming, Claims, disk, LooksForAction, ClearsOutcome, LaysSnapshot, Records, Starts, NotStarted, NotesPid, NotNoted
    <3>2. lock["apply"].owner = r
      <4>1. Has(r)
        BY <3>1 DEF Has, Having
      <4> QED BY <1>0, <1>w, <4>1, HoldSays DEF Whole
    <3>3. job[r] = "none"
      BY <3>1 DEF StartedInv, Over
    <3> QED BY <1>w, <2>1, <3>2, <3>3 DEF LiveInv
  <2> QED BY <2>2, <2>3
<1>3. ASSUME NEW r \in Run, Running(r) PROVE LiveInv'
  BY <1>3, <1>w, LiveByRun
<1>4. ASSUME NEW a \in Proc, Acting(a) \/ Asks(a) \/ Killed(a) PROVE LiveInv'
  <2>1. /\ lock' = lock /\ job' = job /\ snapshot' = snapshot /\ live' = live /\ previous' = previous /\ applies' = applies
        /\ past'.applied = past.applied
    BY <1>0, <1>4 DEF Acting, Acts, FindsApplyLock, FindsHolder, FindsRun, ActionEnds, Asks, Killed, disk, Past
  <2> QED BY <1>w, <2>1, LiveWalks
<1>5. ASSUME NEW r \in Run, JobKilled(r) PROVE LiveInv'
  <2>1. /\ lock' = lock /\ snapshot' = snapshot /\ live' = live /\ previous' = previous /\ applies' = applies
        /\ past'.applied = past.applied /\ \A s \in Run : job'[s] \in {job[s], "gone"}
    BY <1>0, <1>5 DEF JobKilled, Becomes, lockVars, disk, Past
  <2> QED BY <1>w, <2>1 DEF LiveInv
<1>6. CASE Minute
  <2>1. lock'["apply"].owner = lock["apply"].owner
    BY <1>0, <1>6 DEF Minute, LocksAge, Dir
  <2> QED BY <1>6, <1>w, <2>1, LiveWalks DEF Minute
<1>7. CASE JobState \/ UNCHANGED vars
  <2>1. lock' = lock /\ job' = job /\ snapshot' = snapshot /\ live' = live /\ previous' = previous /\ applies' = applies /\ past' = past
    BY <1>7 DEF JobState, Reads, ReadsRecord, ReadsOutcome, FindsAlive, ReadsOutcomeAgain, vars, disk, lockVars
  <2> QED BY <1>w, <2>1, LiveWalks
<1> QED BY <1>1, <1>2, <1>3, <1>4, <1>5, <1>6, <1>7, ClaimingIsRuns DEF Next, ProcStep

LEMMA LiveWasAppliedOf == ASSUME LiveInv PROVE LiveWasApplied
BY DEF LiveInv, LiveWasApplied, Whole

Quiet == Calm /\ past.cut = {}

\* Live are the settings last applied, or the run that applied them is about to make them so.
LastInv ==
    Quiet =>
        /\ \A r \in Run : job[r] \in {"promoting", "promoting on"} => past.last = applies[r] /\ applies[r] # Nobody
        /\ live = past.last \/ \E r \in Run : job[r] \in {"promoting", "promoting on"}

LEMMA LastInit == Init => LastInv
<1>1. Init => (\A r \in Run : job[r] = "none") /\ live = Nobody /\ past.last = Nobody
  BY DEF Init
<1> QED BY <1>1 DEF LastInv

LEMMA LastWalks ==
    ASSUME LastInv, Quiet, applies' = applies, live' = live, past'.last = past.last,
           \A r \in Run : job'[r] \in {"promoting", "promoting on"} <=> job[r] \in {"promoting", "promoting on"}
    PROVE  LastInv'
BY DEF LastInv

LEMMA LastByRun ==
    ASSUME Types, ProcessInv, LiveInv, LastInv, Quiet, NEW r \in Run, Running(r)
    PROVE  LastInv'
<1> USE DEF Runs, Becomes
<1>0. /\ job \in [Run -> JobAt] /\ applies \in [Run -> Settings] /\ past \in Past
  BY DEF Types, JobOK, PastOK, FilesOK
<1>1. /\ \A s \in Run : job[s] \in {"promoting", "promoting on"} => past.last = applies[s] /\ applies[s] # Nobody
      /\ live = past.last \/ \E s \in Run : job[s] \in {"promoting", "promoting on"}
  BY DEF LastInv
<1>2. \A s \in Run : HasProcess(s) => lock["apply"].owner = s
  BY DEF Quiet, Calm, Sound, ProcessInv
<1>3. CASE Loads(r)
  BY <1>0, <1>1, <1>3 DEF Loads, LastInv
<1>4. CASE Ends(r)
  <2>1. PICK said \in How :
          /\ said = "applied" => applies[r] # Nobody
          /\ job' = [job EXCEPT ![r] = IF Applied(said) THEN "promoting" ELSE "releasing"]
          /\ past' = [past EXCEPT !.wrote = IF outcome' # outcome THEN @ \cup {r} ELSE @,
                                  !.applied = IF said = "applied" THEN @ \cup {applies[r]} ELSE @,
                                  !.last = IF said = "applied" THEN applies[r] ELSE @]
    BY <1>4 DEF Ends
  <2>2. /\ live' = live /\ applies' = applies /\ job[r] = "working" /\ \A s \in Run \ {r} : job'[s] = job[s]
        /\ past'.last = IF said = "applied" THEN applies[r] ELSE past.last
        /\ job'[r] = IF said = "applied" THEN "promoting" ELSE "releasing"
    BY <1>0, <1>4, <2>1 DEF Ends, Applied, Past
  <2>3. \A s \in Run \ {r} : job[s] \notin {"promoting", "promoting on"}
    <3>1. HasProcess(r)
      BY <2>2 DEF HasProcess
    <3>2. \A s \in Run \ {r} : ~HasProcess(s)
      BY <1>2, <3>1
    <3> QED BY <3>2 DEF HasProcess
  <2>4. live = past.last
    BY <1>1, <2>2, <2>3
  <2>5. CASE said = "applied"
    BY <2>1, <2>2, <2>3, <2>5 DEF LastInv
  <2>6. CASE said # "applied"
    BY <2>2, <2>3, <2>4, <2>6 DEF LastInv
  <2> QED BY <2>5, <2>6
<1>5. CASE KeepsPrevious(r)
  <2>1. HoldsStill(r)
    BY <1>2, <1>5 DEF KeepsPrevious, HoldsStill, HasProcess
  <2> QED BY <1>0, <1>5, <2>1, LastWalks DEF KeepsPrevious
<1>6. CASE MakesLive(r)
  <2>1. /\ live' = (IF snapshot = Nobody THEN live ELSE snapshot) /\ applies' = applies /\ past' = past
        /\ job[r] = "promoting on" /\ job'[r] = "releasing" /\ \A s \in Run \ {r} : job'[s] = job[s]
    BY <1>0, <1>6 DEF MakesLive
  <2>2. lock["apply"].owner = r /\ snapshot = applies[r]
    BY <2>1 DEF LiveInv, Whole, Quiet, Calm
  <2> QED BY <1>1, <2>1, <2>2 DEF LastInv
<1>7. CASE Releases(r) \/ RemovesLock(r)
  BY <1>0, <1>7, LastWalks DEF Releases, RemovesLock
<1> QED BY <1>3, <1>4, <1>5, <1>6, <1>7 DEF Running

LEMMA LastKept ==
    ASSUME Types, StartedInv, ProcessInv, LiveInv, LastInv, [Next]_vars
    PROVE  LastInv'
<1> SUFFICES ASSUME Quiet' PROVE LastInv'
  BY DEF LastInv
<1>0. job \in [Run -> JobAt] /\ past \in Past
  BY DEF Types, JobOK, PastOK
<1>w. Quiet
  BY HistoryGrows DEF Quiet, Calm
<1>1. ASSUME NEW p \in Proc, Locks(p) PROVE LastInv'
  BY <1>0, <1>1, <1>w, LastWalks DEF Locks, disk, Past
<1>2. ASSUME NEW r \in Run, Claiming(r) PROVE LastInv'
  <2>1. /\ live' = live /\ applies' = applies /\ past'.last = past.last
        /\ at[r] \in {"holds", "clearing", "laying", "recording", "starting", "noting"}
    BY <1>0, <1>2 DEF Claiming, Claims, disk, LooksForAction, ClearsOutcome, LaysSnapshot, Records, Starts, NotStarted, NotesPid, NotNoted, Past
  <2>2. job' = job \/ (job[r] = "none" /\ \E to \in {"loading", "gone"} : job' = [job EXCEPT ![r] = to])
    <3>1. CASE Starts(r) \/ NotStarted(r)
      BY <3>1 DEF Starts, NotStarted, Claims, Becomes, StartedInv, Over
    <3>2. CASE NotesPid(r)
      BY <3>2 DEF NotesPid, Claims, Becomes, StartedInv
    <3> QED BY <1>2, <3>1, <3>2 DEF Claiming, LooksForAction, ClearsOutcome, LaysSnapshot, Records, NotNoted
  <2> QED BY <1>0, <1>w, <2>1, <2>2, LastWalks
<1>3. ASSUME NEW r \in Run, Running(r) PROVE LastInv'
  BY <1>3, <1>w, LastByRun
<1>4. ASSUME NEW a \in Proc, Acting(a) \/ Asks(a) \/ Killed(a) PROVE LastInv'
  BY <1>0, <1>4, <1>w, LastWalks DEF Acting, Acts, FindsApplyLock, FindsHolder, FindsRun, ActionEnds, Asks, Killed, disk, Past
<1>5. ASSUME NEW r \in Run, JobKilled(r) PROVE LastInv'
  <2>1. job[r] \notin {"promoting", "promoting on"}
    BY <1>0, <1>5 DEF JobKilled, Quiet, Past
  <2> QED BY <1>0, <1>5, <1>w, <2>1, LastWalks DEF JobKilled, Becomes, disk, Past
<1>6. CASE Minute \/ JobState \/ UNCHANGED vars
  BY <1>6, <1>w, LastWalks DEF Minute, JobState, Reads, ReadsRecord, ReadsOutcome, FindsAlive, ReadsOutcomeAgain, vars, disk
<1> QED BY <1>1, <1>2, <1>3, <1>4, <1>5, <1>6, ClaimingIsRuns DEF Next, ProcStep

LEMMA LiveIsLastOf == ASSUME LastInv PROVE LiveIsLast
BY DEF LastInv, LiveIsLast, Quiet, Calm, HasProcess

-----------------------------------------------------------------------------
(* What a reader is told of a run. *)

Reading == {"record read", "no outcome", "not alive"}

\* With no process, or its pid not recorded.
Unnoticed(r) == ~HasProcess(r) \/ r \in past.unnoted

\* A run whose record has no pid, though its starter is over, has no process or
\* was never noted; and so the run a reader has found not to be alive.
ReadInv ==
    /\ record.run = Nobody => record = NoRecord
    /\ \A r \in Run : record.run = r /\ ~record.pid /\ at[r] \in Over => Unnoticed(r)
    /\ reader.at \in Reading =>
          /\ reader.of.run \in Run /\ reader.answer = "nothing"
          /\ reader.of.pid \/ reader.of.old => at[reader.of.run] \in Over
          /\ ~reader.of.pid /\ reader.of.old => Unnoticed(reader.of.run)
          /\ reader.at = "not alive" => at[reader.of.run] \in Over /\ Unnoticed(reader.of.run)

LEMMA ReadInit == Init => ReadInv
<1>1. Init => record = NoRecord /\ reader.at \in {"idle", "away"} /\ record.run = Nobody
  BY DEF Init, NotReading, NoRecord
<1> QED BY <1>1, ProcsAssumption DEF ProcsAssumption, ReadInv, Reading

\* What a run whose starter is over lacks, it goes on lacking.
LEMMA UnnoticedStays ==
    ASSUME Types, [Next]_vars, NEW r \in Run, at[r] \in Over, Unnoticed(r)
    PROVE  Unnoticed(r)'
<1> USE DEF HasProcess, Over
<1>0. job \in [Run -> JobAt]
  BY DEF Types, JobOK
<1>1. past.unnoted \subseteq past'.unnoted
  BY HistoryGrows
<1>2. ASSUME ~HasProcess(r) PROVE ~HasProcess(r)'
  <2>1. ASSUME NEW s \in Run, Claiming(s) PROVE ~HasProcess(r)'
    BY <1>0, <1>2, <2>1 DEF Claiming, Claims, Becomes, LooksForAction, ClearsOutcome, LaysSnapshot, Records, Starts, NotStarted, NotesPid, NotNoted
  <2>2. ASSUME NEW s \in Run, Running(s) PROVE ~HasProcess(r)'
    BY <1>0, <1>2, <2>2 DEF Running, Runs, Becomes, Loads, Ends, KeepsPrevious, MakesLive, Releases, RemovesLock
  <2>3. ASSUME NEW s \in Run, JobKilled(s) PROVE ~HasProcess(r)'
    BY <1>0, <1>2, <2>3 DEF JobKilled, Becomes
  <2>4. ASSUME NEW p \in Proc, Asks(p) \/ Locks(p) \/ Acting(p) \/ Killed(p) PROVE job' = job
    BY <2>4 DEF Asks, Locks, Acting, Acts, FindsApplyLock, FindsHolder, FindsRun, ActionEnds, Killed
  <2>5. CASE JobState \/ Minute \/ UNCHANGED vars
    BY <1>2, <2>5 DEF JobState, Reads, ReadsRecord, ReadsOutcome, FindsAlive, ReadsOutcomeAgain, Minute, vars
  <2> QED BY <1>2, <2>1, <2>2, <2>3, <2>4, <2>5, ClaimingIsRuns DEF Next, ProcStep
<1> QED BY <1>1, <1>2 DEF Unnoticed

\* Whoever started a run is over without its pid recorded only if the run has
\* no process, or is counted.
LEMMA EndsUnnoticed ==
    ASSUME Types, StartedInv, [Next]_vars, NEW r \in Run, at[r] \notin Over, at'[r] \in Over, ~record'.pid
    PROVE  Unnoticed(r)'
<1> USE DEF Goes, HasProcess, Over
<1>0. /\ at \in [Proc -> At] /\ job \in [Run -> JobAt] /\ Run \subseteq Proc /\ past \in Past
      /\ (at[r] # "noting" => job[r] \in {"none", "gone"})
  <2>1. at[r] \in {"freeing", "removing own"} => job[r] \in {"none", "gone"}
    BY DEF StartedInv
  <2>2. at[r] \notin {"noting", "freeing", "removing own"} => job[r] = "none"
    BY DEF StartedInv
  <2> QED BY <2>1, <2>2, ProcsAssumption DEF ProcsAssumption, Types, AtOK, JobOK, PastOK
<1>1. ASSUME NEW p \in Proc, Locks(p) PROVE Unnoticed(r)'
  <2>1. job' = job /\ at[p] # "noting" /\ \A q \in Proc \ {p} : at'[q] = at[q]
    BY <1>0, <1>1 DEF Locks, LockStep, Takes, Owns, FindsTakeover, ClearsTakeover, Enters, Looks, Judges, Removes, Remakes,
          OwnsOver, Leaves, Frees, RemovesOwn
  <2>2. at[r] # "noting"
    BY <1>0, <2>1
  <2> QED BY <1>0, <2>1, <2>2 DEF Unnoticed
<1>2. ASSUME NEW s \in Run, Claiming(s) PROVE Unnoticed(r)'
  <2>1. NotNoted(s)
    BY <1>0, <1>2 DEF Claiming, Claims, LooksForAction, ClearsOutcome, LaysSnapshot, Records, Starts, NotStarted, NotesPid
  <2>2. s = r /\ past'.unnoted = past.unnoted \cup {s}
    BY <1>0, <2>1 DEF NotNoted, Claims, Past
  <2> QED BY <2>2 DEF Unnoticed
<1>3. ASSUME NEW p \in Proc, Killed(p) PROVE Unnoticed(r)'
  <2>1. p = r /\ job' = job
    BY <1>0, <1>3 DEF Killed
  <2>2. at[r] = "noting" => r \in past'.unnoted
    BY <1>0, <1>3, <2>1 DEF Killed, Past
  <2> QED BY <1>0, <2>1, <2>2 DEF Unnoticed
<1>4. ASSUME NEW s \in Run, Running(s) PROVE FALSE
  BY <1>4 DEF Running, Runs, Loads, Ends, KeepsPrevious, MakesLive, Releases, RemovesLock
<1>5. ASSUME NEW a \in Proc, Acting(a) \/ Asks(a) PROVE FALSE
  BY <1>0, <1>5 DEF Acting, Acts, FindsApplyLock, FindsHolder, FindsRun, ActionEnds, Asks
<1>6. CASE Minute
  BY <1>0, <1>6 DEF Minute
<1>7. CASE JobState \/ UNCHANGED vars \/ \E s \in Run : JobKilled(s)
  BY <1>7 DEF JobState, Reads, ReadsRecord, ReadsOutcome, FindsAlive, ReadsOutcomeAgain, JobKilled, vars, lockVars
<1> QED BY <1>1, <1>2, <1>3, <1>4, <1>5, <1>6, <1>7, ClaimingIsRuns DEF Next, ProcStep

\* The record is written by a run on its way, or is a minute older.
LEMMA RecordWritten ==
    ASSUME Types, [Next]_vars
    PROVE  \/ record' = record
           \/ record # NoRecord /\ record'.run = record.run /\ record'.pid = record.pid
           \/ record'.pid /\ record'.run \in Run
           \/ record'.run \in Run /\ at'[record'.run] \notin Over
<1> USE DEF Goes, Over
<1>0. at \in [Proc -> At] /\ Run \subseteq Proc
  BY ProcsAssumption DEF ProcsAssumption, Types, AtOK
<1>1. ASSUME NEW p \in Proc, Asks(p) \/ Locks(p) \/ Acting(p) \/ Killed(p) PROVE record' = record
  BY <1>1 DEF Asks, Locks, Acting, Acts, FindsApplyLock, FindsHolder, FindsRun, ActionEnds, Killed, disk
<1>2. ASSUME NEW r \in Run, Records(r) PROVE record'.run \in Run /\ at'[record'.run] \notin Over
  BY <1>0, <1>2 DEF Records, Claims, NoRecord
<1>3. ASSUME NEW r \in Run, NotesPid(r) PROVE record'.pid /\ record'.run \in Run
  BY <1>3 DEF NotesPid
<1>4. ASSUME NEW r \in Run, Claiming(r), ~Records(r), ~NotesPid(r) PROVE record' = record
  BY <1>4 DEF Claiming, LooksForAction, ClearsOutcome, LaysSnapshot, Starts, NotStarted, NotNoted, disk
<1>5. ASSUME NEW r \in Run, Running(r) \/ JobKilled(r) PROVE record' = record
  BY <1>5 DEF Running, Runs, Loads, Ends, KeepsPrevious, MakesLive, Releases, RemovesLock, JobKilled, disk
<1>6. CASE Minute
  BY <1>6 DEF Minute, Types, RecordOK, Record
<1>7. CASE JobState \/ UNCHANGED vars
  BY <1>7 DEF JobState, Reads, ReadsRecord, ReadsOutcome, FindsAlive, ReadsOutcomeAgain, vars, disk
<1> QED BY <1>1, <1>2, <1>3, <1>4, <1>5, <1>6, <1>7, ClaimingIsRuns DEF Next, ProcStep

\* Only jobState writes what its reader knows.
LEMMA ReaderReads ==
    ASSUME [Next]_vars, reader' # reader
    PROVE  JobState
<1>1. ASSUME NEW p \in Proc, Asks(p) \/ Locks(p) \/ Acting(p) \/ Killed(p) PROVE reader' = reader
  BY <1>1 DEF Asks, Locks, Acting, Acts, FindsApplyLock, FindsHolder, FindsRun, ActionEnds, Killed
<1>2. ASSUME NEW r, Claiming(r) PROVE reader' = reader
  BY <1>2 DEF Claiming, Claims, LooksForAction, ClearsOutcome, LaysSnapshot, Records, Starts, NotStarted, NotesPid, NotNoted
<1>3. ASSUME NEW r \in Run, Running(r) \/ JobKilled(r) PROVE reader' = reader
  BY <1>3 DEF Running, Runs, Loads, Ends, KeepsPrevious, MakesLive, Releases, RemovesLock, JobKilled
<1>4. CASE Minute \/ UNCHANGED vars
  BY <1>4 DEF Minute, vars
<1> QED BY <1>1, <1>2, <1>3, <1>4 DEF Next, ProcStep

LEMMA ReadKept ==
    ASSUME Types, StartedInv, RecordInv, ReadInv, [Next]_vars
    PROVE  ReadInv'
<1>0. /\ record \in Record /\ reader \in ReaderAt /\ Run \subseteq Proc /\ Nobody \notin Run /\ NoRecord.run = Nobody
      /\ (record.pid => record.run \in Run) /\ record.run \in Run \cup {Nobody}
  BY ProcsAssumption DEF ProcsAssumption, Types, RecordOK, ReaderOK, NoRecord, Record, Settings
<1>1. (record.run = Nobody => record = NoRecord)'
  BY <1>0, RecordWritten DEF ReadInv
<1>2. ASSUME NEW r \in Run, record'.run = r, ~record'.pid, at'[r] \in Over PROVE Unnoticed(r)'
  <2>1. record.run = r /\ ~record.pid
    BY <1>0, <1>2, RecordWritten
  <2>2. CASE at[r] \in Over
    BY <2>1, <2>2, UnnoticedStays DEF ReadInv
  <2>3. CASE at[r] \notin Over
    BY <1>2, <2>3, EndsUnnoticed
  <2> QED BY <2>2, <2>3
<1> DEFINE s == reader.of.run
<1>3. \A r \in Run : at[r] \in Over => at'[r] \in Over
  BY <1>0, OverStays
<1>4. CASE reader' = reader
  <2> SUFFICES ASSUME reader.at \in Reading
               PROVE  /\ s \in Run /\ reader.answer = "nothing"
                      /\ reader.of.pid \/ reader.of.old => at'[s] \in Over
                      /\ ~reader.of.pid /\ reader.of.old => Unnoticed(s)'
                      /\ reader.at = "not alive" => at'[s] \in Over /\ Unnoticed(s)'
    BY <1>1, <1>2, <1>4 DEF ReadInv, Unnoticed, HasProcess
  <2>1. /\ s \in Run /\ reader.answer = "nothing"
        /\ reader.of.pid \/ reader.of.old => at[s] \in Over
        /\ ~reader.of.pid /\ reader.of.old => Unnoticed(s)
        /\ reader.at = "not alive" => at[s] \in Over /\ Unnoticed(s)
    BY DEF ReadInv
  <2>2. at[s] \in Over /\ Unnoticed(s) => Unnoticed(s)'
    BY <1>4, <2>1, UnnoticedStays DEF Unnoticed, HasProcess
  <2> HIDE DEF s
  <2> QED BY <1>3, <2>1, <2>2
<1>5. CASE reader' # reader
  <2>1. JobState
    BY <1>5, ReaderReads
  <2>2. at' = at /\ job' = job /\ past' = past /\ record' = record
    BY <2>1 DEF JobState, Reads, ReadsRecord, ReadsOutcome, FindsAlive, ReadsOutcomeAgain, lockVars, disk
  <2>3. \A r \in Run : Unnoticed(r) => ~HasProcess(r)' \/ r \in past'.unnoted
    BY <2>2 DEF Unnoticed, HasProcess
  <2>4. CASE ReadsRecord
    <3>1. CASE record = NoRecord
      BY <1>1, <1>2, <2>4, <3>1 DEF ReadsRecord, Reads, NotReading, ReadInv, Reading
    <3>2. CASE record # NoRecord
      <4>1. reader'.at = "record read" /\ reader'.of = record /\ reader'.answer = "nothing"
        BY <2>4, <3>2 DEF ReadsRecord, Reads
      <4>2. record.run \in Run
        BY <1>0, <3>2 DEF ReadInv
      <4>3. record.pid \/ record.old => at[record.run] \in Over
        BY <4>2 DEF RecordInv
      <4>4. ~record.pid /\ record.old => Unnoticed(record.run)
        BY <4>2, <4>3 DEF ReadInv
      <4> QED BY <1>1, <1>2, <2>2, <2>3, <4>1, <4>2, <4>3, <4>4 DEF ReadInv, Unnoticed, HasProcess
    <3> QED BY <3>1, <3>2
  <2>5. CASE ReadsOutcome
    <3>1. reader.at = "record read" /\ reader'.of = reader.of /\ reader'.at \in {"idle", "no outcome"}
          /\ (reader'.at = "no outcome" => reader'.answer = reader.answer)
      BY <1>0, <2>5 DEF ReadsOutcome, Reads, ReaderAt
    <3> QED BY <1>1, <1>2, <2>2, <2>3, <3>1 DEF ReadInv, Reading, Unnoticed, HasProcess
  <2>6. CASE FindsAlive
    <3>1. /\ reader.at = "no outcome" /\ reader'.of = reader.of /\ reader'.at \in {"idle", "not alive"}
          /\ (reader'.at = "not alive" => reader'.answer = reader.answer /\ ~Alive(reader.of))
      BY <1>0, <2>6 DEF FindsAlive, Reads, ReaderAt
    <3>2. ~Alive(reader.of) => at[s] \in Over /\ Unnoticed(s)
      BY <3>1 DEF Alive, ReadInv, Reading, Unnoticed
    <3> QED BY <1>1, <1>2, <2>2, <2>3, <3>1, <3>2 DEF ReadInv, Reading, Unnoticed, HasProcess
  <2>7. CASE ReadsOutcomeAgain
    BY <1>0, <1>1, <1>2, <2>7 DEF ReadsOutcomeAgain, Reads, ReaderAt, ReadInv, Reading
  <2> QED BY <2>1, <2>4, <2>5, <2>6, <2>7 DEF JobState
<1> QED BY <1>4, <1>5

\* A run that wrote how it ended had come to have a process, or failed to; its
\* outcome is cleared by another's claim only.
WroteInv == \A r \in past.wrote : job[r] # "none" /\ (outcome.run = Nobody => past.cleared # r)

LEMMA WroteInit == Init => WroteInv
BY DEF Init, WroteInv

LEMMA WroteKept ==
    ASSUME Types, StartedInv, WroteInv, [Next]_vars
    PROVE  WroteInv'
<1>0. job \in [Run -> JobAt] /\ past \in Past /\ Nobody \notin Run
  BY ProcsAssumption DEF ProcsAssumption, Types, JobOK, PastOK
<1>p. \A r \in past.wrote : r \in Run
  BY <1>0 DEF Past
<1>1. ASSUME job' = job, outcome' = outcome, past'.wrote = past.wrote, past'.cleared = past.cleared PROVE WroteInv'
  BY <1>1 DEF WroteInv
<1>2. ASSUME NEW p \in Proc, Asks(p) \/ Locks(p) \/ Acting(p) \/ Killed(p) PROVE WroteInv'
  BY <1>0, <1>1, <1>2 DEF Asks, Locks, Acting, Acts, FindsApplyLock, FindsHolder, FindsRun, ActionEnds, Killed, disk, Past
<1>3. ASSUME NEW r \in Run, Claiming(r) PROVE WroteInv'
  <2>1. CASE LooksForAction(r) \/ LaysSnapshot(r) \/ Records(r) \/ NotNoted(r)
    BY <1>0, <1>1, <2>1 DEF LooksForAction, LaysSnapshot, Records, NotNoted, disk, Past
  <2>2. CASE ClearsOutcome(r)
    <3>1. job[r] = "none" /\ job' = job /\ past'.wrote = past.wrote /\ past'.cleared = r
      BY <1>0, <2>2 DEF ClearsOutcome, Claims, StartedInv, Over, Past
    <3> QED BY <1>p, <3>1 DEF WroteInv
  <2>3. CASE Starts(r) \/ NotesPid(r)
    <3>1. outcome' = outcome /\ past'.wrote = past.wrote /\ past'.cleared = past.cleared /\ \A s \in Run : job'[s] \in {job[s], "loading"}
      BY <1>0, <2>3 DEF Starts, NotesPid, Becomes, disk, Past
    <3> QED BY <1>p, <3>1 DEF WroteInv
  <2>4. CASE NotStarted(r)
    <3>1. /\ outcome'.run = r /\ past'.wrote = past.wrote \cup {r} /\ past'.cleared = past.cleared
          /\ job'[r] = "gone" /\ \A s \in Run \ {r} : job'[s] = job[s]
      BY <1>0, <2>4 DEF NotStarted, Becomes, Past
    <3> QED BY <1>0, <1>p, <3>1 DEF WroteInv
  <2> QED BY <1>3, <2>1, <2>2, <2>3, <2>4 DEF Claiming
<1>4. ASSUME NEW r \in Run, Running(r) PROVE WroteInv'
  <2>1. job[r] # "none" /\ job'[r] # "none" /\ \A s \in Run \ {r} : job'[s] = job[s]
    BY <1>0, <1>4 DEF Running, Runs, Becomes, Loads, Ends, KeepsPrevious, MakesLive, Releases, RemovesLock
  <2>2. past'.cleared = past.cleared
    BY <1>0, <1>4 DEF Running, Loads, Ends, KeepsPrevious, MakesLive, Releases, RemovesLock, Past
  <2>3. \/ outcome' = outcome /\ past'.wrote = past.wrote
        \/ outcome'.run = r /\ past'.wrote = past.wrote \cup {r}
    <3>1. CASE Ends(r)
      <4>1. outcome' = outcome \/ outcome'.run = r
        BY <3>1 DEF Ends
      <4>2. past'.wrote = IF outcome' # outcome THEN past.wrote \cup {r} ELSE past.wrote
        BY <1>0, <3>1 DEF Ends, Past
      <4> QED BY <4>1, <4>2
    <3>2. CASE ~Ends(r)
      BY <1>4, <3>2 DEF Running, Loads, KeepsPrevious, MakesLive, Releases, RemovesLock
    <3> QED BY <3>1, <3>2
  <2> QED BY <1>0, <1>p, <2>1, <2>2, <2>3 DEF WroteInv
<1>5. ASSUME NEW r \in Run, JobKilled(r) PROVE WroteInv'
  <2>1. outcome' = outcome /\ past'.wrote = past.wrote /\ past'.cleared = past.cleared /\ \A s \in Run : job'[s] \in {job[s], "gone"}
    BY <1>0, <1>5 DEF JobKilled, Becomes, disk, Past
  <2> QED BY <1>p, <2>1 DEF WroteInv
<1>6. CASE Minute \/ JobState \/ UNCHANGED vars
  BY <1>1, <1>6 DEF Minute, JobState, Reads, ReadsRecord, ReadsOutcome, FindsAlive, ReadsOutcomeAgain, vars, disk
<1> QED BY <1>2, <1>3, <1>4, <1>5, <1>6, ClaimingIsRuns DEF Next, ProcStep

\* One told that a run was interrupted had read that, its outcome last.
LEMMA InterruptedStep ==
    ASSUME Types, ReadInv, WroteInv, [Next]_vars, reader.at = "not alive", reader'.answer = "interrupted"
    PROVE  LET r == reader.of.run IN
           /\ ~HasProcess(r) \/ r \in past.unnoted
           /\ \/ r \notin past.wrote
              \/ outcome.run = r /\ outcome.said = "stopped"
              \/ past.cleared # r \/ outcome.run \notin {r, Nobody}
<1> DEFINE r == reader.of.run
<1>1. r \in Run /\ reader.answer = "nothing" /\ Unnoticed(r)
  BY DEF ReadInv, Reading
<1>2. JobState
  BY <1>1, ReaderReads
<1>3. Answer(reader.of) = "interrupted"
  <2>1. ReadsOutcomeAgain
    BY <1>2 DEF JobState, Reads, ReadsRecord, ReadsOutcome, FindsAlive
  <2>2. reader \in ReaderAt
    BY DEF Types, ReaderOK
  <2> QED BY <2>1, <2>2 DEF ReadsOutcomeAgain, Reads, ReaderAt
<1>4. outcome.run # r \/ outcome.said = "stopped"
  BY <1>3 DEF Answer, Types, OutcomeOK, Outcome, How
<1>5. r \in past.wrote /\ outcome.run = Nobody => past.cleared # r
  BY DEF WroteInv
<1> QED BY <1>1, <1>4, <1>5 DEF Unnoticed

-----------------------------------------------------------------------------
(* The theorems. *)

IInv ==
    /\ Types /\ StartedInv /\ FreshInv /\ OwnerInv /\ RecordInv /\ JudgedInv /\ HoldInv /\ ProcessInv
    /\ ApartInv /\ LiveInv /\ LastInv /\ ReadInv /\ WroteInv

LEMMA JudgedInit == Init => JudgedInv
<1>1. Init => \A p \in Proc : at[p] \in {"idle", "done"}
  BY DEF Init, InitLocks
<1> QED BY <1>1 DEF JudgedInv

LEMMA IInvInit == Init => IInv
BY InitType, StartedInit, OwnerInit, RecordInit, JudgedInit, HoldInit, ProcessInit, ApartInit, LiveInit, LastInit, ReadInit,
   WroteInit DEF IInv

LEMMA IInvKept == IInv /\ [Next]_vars => IInv'
BY TypesKept, StartedKept, FreshKept, OwnerKept, RecordKept, JudgedKept, HoldKept, ProcessKept, ApartKept, LiveKept, LastKept,
   ReadKept, WroteKept DEF IInv

LEMMA Inductive == Spec => []IInv
BY IInvInit, IInvKept, PTL DEF Spec

\* The files, the locks, the processes and their reader hold what the code
\* writes there, whatever the processes and whoever is killed.
THEOREM TypeCorrect == Spec => []TypeOK
<1>1. IInv => TypeOK
  BY TypesAre DEF IInv
<1> QED BY <1>1, Inductive, PTL

\* Two applies are at the devices at once only if a lock was removed by a
\* process that had not judged it, or a run's pid was not recorded or was
\* written over (src/apply/job.ts, holderGone; src/lock.ts, takeLock).
THEOREM OneApplyAlways == Spec => []OneApply
<1>1. IInv => OneApply
  BY OneApplyOf DEF IInv
<1> QED BY <1>1, Inductive, PTL

\* An action and an apply never both go on, for the same causes: each takes its
\* own lock and then looks at the other's (claim; applyRunning).
THEOREM ActionsApartAlways == Spec => []ActionsApart
<1>1. IInv => ActionsApart
  BY ActionsApartOf DEF IInv
<1> QED BY <1>1, Inductive, PTL

\* Two actions never go on at once, unless a lock was removed unjudged (withLock).
THEOREM OneActionAlways == Spec => []OneAction
<1>1. IInv => OneAction
  BY OneActionOf DEF IInv, Types
<1> QED BY <1>1, Inductive, PTL

\* Only settings a run applied everywhere become the live ones, or the ones an
\* undo puts back (jobEnding).
THEOREM LiveWasAppliedAlways == Spec => []LiveWasApplied
<1>1. IInv => LiveWasApplied
  BY LiveWasAppliedOf DEF IInv
<1> QED BY <1>1, Inductive, PTL

\* With no run on its way, live are the settings last applied (jobEnding).
THEOREM LiveIsLastAlways == Spec => []LiveIsLast
<1>1. IInv => LiveIsLast
  BY LiveIsLastOf DEF IInv
<1> QED BY <1>1, Inductive, PTL

\* A run read as interrupted has no process, or never had its pid recorded, and
\* wrote no other outcome that was not cleared or written over (jobState).
THEOREM InterruptedIsSoAlways == Spec => InterruptedIsSo
<1>1. IInv /\ [Next]_vars =>
        [ reader.at = "not alive" /\ reader'.answer = "interrupted" =>
            LET r == reader.of.run IN
            /\ ~HasProcess(r) \/ r \in past.unnoted
            /\ \/ r \notin past.wrote
               \/ outcome.run = r /\ outcome.said = "stopped"
               \/ past.cleared # r \/ outcome.run \notin {r, Nobody} ]_vars
  BY InterruptedStep DEF IInv
<1> QED BY <1>1, Inductive, PTL DEF Spec, InterruptedIsSo
=============================================================================
