------------------------------- MODULE DirLock -------------------------------
(***************************************************************************)
(* src/lock.ts: a lock across processes.  A directory is the lock, a file  *)
(* in it its owner; one whose holder is gone is taken over holding a       *)
(* second directory.  Each file operation is a step of its own, and steps  *)
(* of different processes interleave.                                      *)
(*                                                                         *)
(* Ages are all the program asks of a time: "new" is at most a minute old. *)
(***************************************************************************)
EXTENDS Naturals, FiniteSets

CONSTANTS
    Proc,       \* the processes that take locks
    Lock,       \* the locks
    Nobody      \* no owner

VARIABLES
    lock,       \* each lock's directory: its age, "none" when there is none, and the owner written in it
    takeover,   \* the age of each lock's takeover directory
    at,         \* where each process is
    seen,       \* what it read of a lock: its holder and its age
    stolen      \* history: the locks removed by a process that had not judged the one it removed

lockVars == <<lock, takeover, at, seen, stolen>>

Age == {"none", "new", "old"}
Free == [age |-> "none", owner |-> Nobody]
Made == [age |-> "new", owner |-> Nobody]

\* In a step of takeLock or releaseLock.
Locking == {"taking", "owning", "held", "clearing takeover", "entering", "looking", "judging", "removing", "remaking",
            "owning over", "leaving", "leaving refused", "freeing", "removing own"}

Goes(p, to) == at' = [at EXCEPT ![p] = to]

-----------------------------------------------------------------------------
(* takeLock *)

Takes(p, l) ==
    /\ at[p] = "taking"
    /\ IF lock[l] = Free THEN lock' = [lock EXCEPT ![l] = Made] /\ Goes(p, "owning")
                         ELSE Goes(p, "held") /\ UNCHANGED lock
    /\ UNCHANGED <<takeover, seen, stolen>>

\* Its token written; in a directory gone since, that throws.
Owns(p, l) ==
    /\ at[p] = "owning"
    /\ IF lock[l] = Free THEN Goes(p, "gone") /\ UNCHANGED lock
                         ELSE lock' = [lock EXCEPT ![l].owner = p] /\ Goes(p, "holds")
    /\ UNCHANGED <<takeover, seen, stolen>>

NeverStale(l) == FALSE                                        \* mutant: one left behind stays
TakeoverStale(l) == takeover[l] = "old"

FindsTakeover(p, l) ==
    /\ at[p] = "held"
    /\ Goes(p, IF TakeoverStale(l) THEN "clearing takeover" ELSE "entering")
    /\ UNCHANGED <<lock, takeover, seen, stolen>>

ClearsTakeover(p, l) ==
    /\ at[p] = "clearing takeover"
    /\ takeover' = [takeover EXCEPT ![l] = "none"]
    /\ Goes(p, "entering")
    /\ UNCHANGED <<lock, seen, stolen>>

Enters(p, l) ==
    /\ at[p] = "entering"
    /\ IF takeover[l] = "none" THEN takeover' = [takeover EXCEPT ![l] = "new"] /\ Goes(p, "looking")
                               ELSE Goes(p, "refused") /\ UNCHANGED takeover
    /\ UNCHANGED <<lock, seen, stolen>>

Looks(p, l) ==
    /\ at[p] = "looking"
    /\ seen' = [seen EXCEPT ![p] = lock[l]]
    /\ Goes(p, "judging")
    /\ UNCHANGED <<lock, takeover, stolen>>

\* stale: withLock's, or the apply's holderGone.
Judges(p, stale) ==
    /\ at[p] = "judging"
    /\ Goes(p, IF stale THEN "removing" ELSE "leaving refused")
    /\ UNCHANGED <<lock, takeover, seen, stolen>>

\* A directory removed, whosever it is by now.
RemovesDir(l, judged) ==
    /\ lock' = [lock EXCEPT ![l] = Free]
    /\ stolen' = IF lock[l] \in {Free, judged} THEN stolen ELSE stolen \cup {l}

Removes(p, l) ==
    /\ at[p] = "removing"
    /\ RemovesDir(l, seen[p])
    /\ seen' = [seen EXCEPT ![p] = Free]
    /\ Goes(p, "remaking")
    /\ UNCHANGED takeover

Remakes(p, l) ==
    /\ at[p] = "remaking"
    /\ IF lock[l] = Free THEN lock' = [lock EXCEPT ![l] = Made] /\ Goes(p, "owning over")
                         ELSE Goes(p, "leaving refused") /\ UNCHANGED lock
    /\ UNCHANGED <<takeover, seen, stolen>>

OwnsOver(p, l) ==
    /\ at[p] = "owning over"
    /\ IF lock[l] = Free
         THEN Goes(p, "gone") /\ takeover' = [takeover EXCEPT ![l] = "none"] /\ UNCHANGED lock
         ELSE lock' = [lock EXCEPT ![l].owner = p] /\ Goes(p, "leaving") /\ UNCHANGED takeover
    /\ UNCHANGED <<seen, stolen>>

Leaves(p, l) ==
    /\ at[p] \in {"leaving", "leaving refused"}
    /\ takeover' = [takeover EXCEPT ![l] = "none"]
    /\ seen' = [seen EXCEPT ![p] = Free]
    /\ Goes(p, IF at[p] = "leaving" THEN "holds" ELSE "refused")
    /\ UNCHANGED <<lock, stolen>>

-----------------------------------------------------------------------------
(* releaseLock: read, then removed *)

Frees(p, l, then) ==
    /\ at[p] = "freeing"
    /\ Goes(p, IF lock[l].owner = p THEN "removing own" ELSE then)
    /\ UNCHANGED <<lock, takeover, seen, stolen>>

RemovesOwn(p, l, then) ==
    /\ at[p] = "removing own"
    /\ RemovesDir(l, [lock[l] EXCEPT !.owner = p])
    /\ Goes(p, then)
    /\ UNCHANGED <<takeover, seen>>

-----------------------------------------------------------------------------
LockStep(p, l, stale, then) ==
    \/ Takes(p, l) \/ Owns(p, l) \/ FindsTakeover(p, l) \/ ClearsTakeover(p, l) \/ Enters(p, l) \/ Looks(p, l)
    \/ Judges(p, stale) \/ Removes(p, l) \/ Remakes(p, l) \/ OwnsOver(p, l) \/ Leaves(p, l)
    \/ Frees(p, l, then) \/ RemovesOwn(p, l, then)

\* A minute and more passes.
Aged(age) == IF age = "none" THEN "none" ELSE "old"
LocksAge ==
    /\ lock' = [l \in Lock |-> [lock[l] EXCEPT !.age = Aged(@)]]
    /\ takeover' = [l \in Lock |-> Aged(takeover[l])]

\* Of the processes, those that will ask.
InitLocks(asking) ==
    /\ lock = [l \in Lock |-> Free]
    /\ takeover = [l \in Lock |-> "none"]
    /\ at = [p \in Proc |-> IF p \in asking THEN "idle" ELSE "done"]
    /\ seen = [p \in Proc |-> Free]
    /\ stolen = {}

LockTypeOK ==
    /\ lock \in [Lock -> [age: Age, owner: Proc \cup {Nobody}]]
    /\ takeover \in [Lock -> Age]
    /\ seen \in [Proc -> [age: Age, owner: Proc \cup {Nobody}]]
    /\ stolen \subseteq Lock
=============================================================================
