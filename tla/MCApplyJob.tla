----------------------------- MODULE MCApplyJob -----------------------------
(***************************************************************************)
(* Instances of ApplyJob, and what the program's comments say of it.       *)
(***************************************************************************)
EXTENDS ApplyJob, TLC

MCProc == Run \cup Action
MCLock == {"apply", "action"}
With(asking, kills, fails) == [asking |-> asking, kills |-> kills, fails |-> fails]

\* Three applies from the UI; or one of each kind, with an action or a reader.
MCThreeOrEach ==
    {With(UiRun, 1, 0), With(UiRun, 0, 1)}
    \cup {With({r} \cup CliRun \cup beside, 1, 1) : r \in UiRun, beside \in {Action, {Reader}}}

\* Applies alone, actions alone, or one of each.
MCOneOfEach == {CHOOSE r \in Run : TRUE, CHOOSE a \in Action : TRUE}
MCTogether == {With(asking, 2, 1) : asking \in {Run, Action, MCOneOfEach}}
MCUntouched == {With(Run, 0, 0)}
Symmetry == Permutations(UiRun)

\* src/apply/job.ts: the lock is held from start to end, "so two applies
\* cannot both start"; src/lock.ts: a takeover cannot be done twice.
TwoNeverStart == ~Overlap
=============================================================================
