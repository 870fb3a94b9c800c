---------------------------- MODULE MCCollector ----------------------------
(***************************************************************************)
(* A router that is also the access point, with a line, one client and one *)
(* service.  A unit is half a minute; an hour is cut to a few of them.     *)
(***************************************************************************)
EXTENDS Collector

Nothing == [device |-> 0, line |-> 0, service |-> 0, client |-> 0, apply |-> 0, ask |-> 0, fault |-> 0]
MCBounds == {
    [Nothing EXCEPT !.device = 3],
    [Nothing EXCEPT !.device = 2, !.fault = 1],
    [Nothing EXCEPT !.device = 2, !.line = 2],
    [Nothing EXCEPT !.device = 1, !.apply = 2, !.fault = 1],
    [Nothing EXCEPT !.device = 1, !.service = 2],
    [Nothing EXCEPT !.client = 3, !.fault = 1],
    [Nothing EXCEPT !.client = 1, !.apply = 2, !.ask = 1]}
=============================================================================
