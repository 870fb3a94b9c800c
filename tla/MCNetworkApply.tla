--------------------------- MODULE MCNetworkApply ---------------------------
(***************************************************************************)
(* Small instances of NetworkApply, and what the code's own comment says   *)
(* of a rolled-back run that it does not always do.                        *)
(***************************************************************************)
EXTENDS NetworkApply

\* src/apply/outcome.ts:14-15: a "rolled-back" run applied nothing.  When the
\* answers of every disarm are lost, twice, its devices may all be disarmed.
RolledBackKeepsNothing ==
    client.at = "ended" /\ verdict = "rolled-back" =>
        \A d \in Device : ~(dev[d].wd = "disarmed" /\ dev[d].change = "new")
=============================================================================
