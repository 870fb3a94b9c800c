---------------------------- MODULE AllOrNothing ----------------------------
(***************************************************************************)
(* What an apply over several devices promises (the head of                *)
(* src/apply/provisionNetwork.ts): every device keeps the change or none   *)
(* does, up to the disarming; a run that says it applied has every device  *)
(* keeping it.  Disarming cannot be taken back, so from the agreement on a *)
(* device may still be lost to its own rollback.                           *)
(***************************************************************************)
CONSTANT Device
VARIABLES
    fate,    \* of the change on each device: still open, kept for good, or undone
    agreed,  \* every device was found ready to keep it
    said     \* how the run ended

Says == {"nothing", "applied", "rolled-back", "partial", "failed"}

Init ==
    /\ fate = [d \in Device |-> "open"]
    /\ agreed = FALSE
    /\ said = "nothing"

\* None is kept before all are ready, so all can still go together.
Agree ==
    /\ ~agreed /\ said = "nothing"
    /\ \A d \in Device : fate[d] = "open"
    /\ agreed' = TRUE
    /\ UNCHANGED <<fate, said>>

Keep(d) ==
    /\ agreed /\ fate[d] = "open"
    /\ fate' = [fate EXCEPT ![d] = "kept"]
    /\ UNCHANGED <<agreed, said>>

Undo(d) ==
    /\ fate[d] = "open"
    /\ fate' = [fate EXCEPT ![d] = "undone"]
    /\ UNCHANGED <<agreed, said>>

\* A run is only partial once agreed, and only applied with every device kept.
Say(end) ==
    /\ said = "nothing"
    /\ end = "applied" => \A d \in Device : fate[d] = "kept"
    /\ end = "partial" => agreed /\ \E d \in Device : fate[d] = "kept"
    /\ end = "failed" => ~agreed
    /\ said' = end
    /\ UNCHANGED <<fate, agreed>>

Next ==
    \/ Agree
    \/ \E d \in Device : Keep(d) \/ Undo(d)
    \/ \E end \in Says \ {"nothing"} : Say(end)

Spec == Init /\ [][Next]_<<fate, agreed, said>>
=============================================================================
