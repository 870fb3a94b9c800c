-------------------------- MODULE MCFirmwareUpgrade --------------------------
(***************************************************************************)
(* FirmwareUpgrade on a router, a mesh repeater and a cabled access point. *)
(***************************************************************************)
EXTENDS FirmwareUpgrade, TLC

CONSTANTS r, m, a, none

MCHardware == <<r, m, a>>
MCReleases == {<<1, 1>>, <<2, 1>>}
Out == (1 :> <<1, 2>>) @@ (2 :> <<2, 1>>)
Wish(kind, release) == [kind |-> kind, release |-> release]
OwnNone == [d \in {r, m, a} |-> Wish("network", NoRelease)]
Yes == [downgrade |-> TRUE, newSeries |-> TRUE]
No == [downgrade |-> FALSE, newSeries |-> FALSE]
Ask1(network, own, acks) ==
    [network |-> network, own |-> own, out |-> Out, only |-> {r, m, a},
     acks |-> acks, unread |-> {}, unbuildable |-> {}]

\* The newest of any series, of one series, one release of the older series;
\* a device held and one named a release; a series with no release, releases, facts and images missing.
MCAsks ==
    LET stable == Ask1(Wish("stable", NoRelease), OwnNone, Yes)
        series == Ask1(Wish("series", <<1, 0>>), OwnNone, No)
        back == Ask1(Wish("release", <<1, 2>>), OwnNone, Yes)
        own == [OwnNone EXCEPT ![m] = Wish("hold", NoRelease), ![a] = Wish("release", <<1, 1>>)]
    IN  {stable, [stable EXCEPT !.acks = No], series, back, [back EXCEPT !.acks.downgrade = FALSE, !.only = {a}],
         Ask1(Wish("series", <<1, 0>>), own, Yes), [series EXCEPT !.out = (1 :> NoRelease)],
         [series EXCEPT !.out = <<>>], [back EXCEPT !.out = <<>>],
         [stable EXCEPT !.unread = {a}], [stable EXCEPT !.unbuildable = {m}]}
=============================================================================
