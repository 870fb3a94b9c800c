---------------------------- MODULE FirmwarePlan ----------------------------
(***************************************************************************)
(* What a firmware upgrade would do, before anything is built or flashed   *)
(* (src/firmware/target.ts, upgradePlan.ts, builds.ts): which devices move *)
(* to which release, in which order, with which image, keeping what, and   *)
(* why it cannot go ahead.  Pure: FirmwareUpgrade runs it twice, before    *)
(* and after reading the devices.                                          *)
(*                                                                         *)
(* A release is a series and its number in it, a series <<s, 0>>;          *)
(* candidates and snapshots are left out.                                  *)
(***************************************************************************)
EXTENDS Integers, Sequences, FiniteSets

CONSTANTS
    Hardware,       \* the devices of the settings, in their order
    Router,         \* the one in the router's role; the others are access points
    Repeaters,      \* access points whose uplink is the mesh
    MeshNodes,      \* devices that may be in the mesh: a radio of its band, or not read
    NoDevice,
    CheckedSeries   \* newestCheckedSeries

Device == {Hardware[i] : i \in DOMAIN Hardware}

ASSUME TopologyAssumption ==
    /\ Hardware \in Seq(Device) /\ Router \in Device /\ NoDevice \notin Device
    /\ Repeaters \subseteq Device \ {Router} /\ Repeaters \subseteq MeshNodes /\ MeshNodes \subseteq Device

\* compareReleases, of two that are releases.
Older(a, b) == a[1] < b[1] \/ (a[1] = b[1] /\ a[2] < b[2])
NoRelease == <<0, 0>>
Newest(releases) == CHOOSE r \in releases : \A s \in releases : ~Older(r, s)

(* A wish is what the settings give a device: "hold", "release" (one named *)
(* for it), "series" (its newest), "stable" (the newest of any), and, of a *)
(* device, "network" (the network's).  `out` is the newest release read of *)
(* each series, NoRelease when there is none, and of no series where the   *)
(* releases could not be read.                                             *)
WishKind == {"hold", "release", "series", "stable", "network"}

Target(network, own, out) ==
    LET wish == IF own.kind = "network" THEN network ELSE own
        newest == IF wish.kind = "stable" THEN Newest({NoRelease} \cup {out[s] : s \in DOMAIN out})
                  ELSE IF wish.release[1] \in DOMAIN out THEN out[wish.release[1]] ELSE NoRelease
    IN  IF wish.kind = "hold" THEN [kind |-> "hold", version |-> NoRelease, follows |-> FALSE]
        ELSE IF wish.kind = "release" THEN [kind |-> "release", version |-> wish.release, follows |-> FALSE]
        ELSE [kind |-> IF newest = NoRelease THEN "unknown" ELSE "release", version |-> newest, follows |-> TRUE]

\* stateOf: ahead of what it follows is where following leaves it.
State(running, target) ==
    IF target.kind = "hold" THEN "held"
    ELSE IF running = NoRelease THEN "not-read"
    ELSE IF target.kind = "unknown" THEN "unknown"
    ELSE IF Older(running, target.version) THEN "update"
    ELSE IF Older(target.version, running) /\ ~target.follows THEN "downgrade"
    ELSE "current"

Moves(state) == state \in {"update", "downgrade"}

\* Older series are not handed newer config: only the SSH keys go with it.
KeepsAll(from, to) == "settings"                              \* mutant: the settings always
Keep(from, to) == IF to[1] < from[1] THEN "keys" ELSE "settings"

\* inFlashOrder: a stable sort, of what is in the settings' order, by rank.
Rank(d, host) == IF d = host THEN 3 ELSE IF d = Router THEN 2 ELSE IF d \in Repeaters THEN 0 ELSE 1
Place(d) == CHOOSE i \in DOMAIN Hardware : Hardware[i] = d
Before(d, e, host) == Rank(d, host) < Rank(e, host) \/ (Rank(d, host) = Rank(e, host) /\ Place(d) < Place(e))

OrderOfHardware(devices, host) ==                             \* mutant: as the settings list them
    CHOOSE order \in [1..Cardinality(devices) -> devices] :
        \A i, j \in DOMAIN order : i < j => Place(order[i]) < Place(order[j])
InFlashOrder(devices, host) ==
    CHOOSE order \in [1..Cardinality(devices) -> devices] :
        \A i, j \in DOMAIN order : i < j => Before(order[i], order[j], host)

\* repeatersThrough; any mesh node may be the one a repeater reaches the network by.
RepeatersThrough(d) == IF d \in MeshNodes \ Repeaters THEN Repeaters ELSE {}

\* keysRefusal: back on first-boot settings there is no mesh, no Wi-Fi and no app.
NoneStranded(d, keep, host, viaWifi) == FALSE                 \* mutant: not looked at
Strands(d, keep, host, viaWifi) ==
    keep = "keys" /\ (d = host \/ d \in Repeaters \/ RepeatersThrough(d) # {} \/ d \in viaWifi)

(* upgradePlan: facts is the release last read of each device, `unbuildable`*)
(* those imagePlans can make no image for (no authorized key, no target in *)
(* the facts, not compiled), `only` the ones chosen.                       *)
UpgradePlan(network, own, out, facts, only, unbuildable, host, viaWifi) ==
    LET target(d) == Target(network, own[d], out)
        moving == {d \in only : Moves(State(facts[d], target(d)))}
        step == [d \in Device |-> [device |-> d, from |-> facts[d], to |-> target(d).version,
                                   keep |-> Keep(facts[d], target(d).version), host |-> d = host]]
        order == InFlashOrder(moving \ unbuildable, host)
    IN  [steps |-> [i \in DOMAIN order |-> step[order[i]]],
         refused |-> (moving \cap unbuildable) \cup
                     {d \in moving \ unbuildable : Strands(d, step[d].keep, host, viaWifi)},
         newSeries |-> {target(d).version[1] : d \in {x \in moving \ unbuildable : target(x).version[1] > CheckedSeries}},
         downgrades |-> {d \in moving \ unbuildable : Older(target(d).version, facts[d])}]

\* Those that follow a series, the releases not read at all; of a series read that has none, a device stays.
Blind(network, own, out, facts, only) ==
    IF DOMAIN out # {} THEN {} ELSE {d \in only : State(facts[d], Target(network, own[d], out)) = "unknown"}

\* refusalOf, as acknowledged.
RefusedUnacknowledged(plan, acks) == plan.refused # {}         \* mutant: acknowledgements not asked for
Refused(plan, acks) ==
    \/ plan.newSeries # {} /\ ~acks.newSeries
    \/ plan.downgrades # {} /\ ~acks.downgrade
    \/ plan.refused # {}
=============================================================================
