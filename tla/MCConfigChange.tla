-------------------------- MODULE MCConfigChange --------------------------
(***************************************************************************)
(* A config of two types: rules, which the settings declare, and leds,     *)
(* which the device keeps.                                                 *)
(***************************************************************************)
EXTENDS ConfigChange

Section(type, name, opts) == [type |-> type, name |-> name, opts |-> opts]
X(item) == "x" :> Plain(item)
Y(items) == "y" :> ListOf(items)

MCCompile ==
    [old |-> [one |-> <<Section("rule", "a", X("1"))>>,
              two |-> <<Section("rule", "a", X("2")), Section("rule", "b", "key" :> Plain("1"))>>,
              file |-> <<Section("led", "l", Y(<<"1", "2">>))>>],
     new |-> [one |-> <<Section("rule", "c", X("1") @@ Y(<<>>))>>,
              two |-> <<Section("rule", "a", X("2") @@ Y(<<"1">>)), Section("rule", "b", "key" :> Plain("1"))>>,
              file |-> <<Section("led", "l", Y(<<"1", "2">>))>>]]
MCStock == {<<Section("rule", Anon, X("1")), Section("led", "l", Y(<<"1">>)), Section("rule", Anon, X("2"))>>}
MCPackaged == {Section("rule", Anon, X("1"))}
MCHandSection == {Section("rule", "b", X("2")), Section("rule", Anon, X("1"))}
MCBounds == [hand |-> 1, run |-> 2, review |-> 1, save |-> 1, update |-> 1]

\* A plan is served with the version of the settings it was compiled from,
\* "which starting the apply names (`?version=`), so what runs is what was
\* reviewed" (src/server/api/provision.ts:18-20).
RunsWhatWasReviewed == At("committed") /\ run.verify.at = "read" => IsOfReview
=============================================================================
